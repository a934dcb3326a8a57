# Formal models of PathBase

TLA+ modules, TLC configurations and TLAPS proofs kept beside the code of
PathBase (`src/api`, a Rust service; `src/src`, a React client).  They cover the
part of the program where an ordering mistake costs a person their plan or their
say over it: who may write, what an AI client may do in their name, how a write
survives retries and crashes, how long any of these permissions lives, whether a
change can be taken back, and whether a database that several processes start on
ends up whole.

## 1. The system

People keep a plan (goals, sub-goals, actions, metrics, check-ins) in
*workspaces*.  A workspace belongs to one Tachyon tenant and has members
(`owner`, `editor`, `viewer`).  A browser talks to `/v1/...` with a session
cookie; AI clients (ChatGPT, Claude) talk to `/mcp` with a bearer token issued by
PathBase's own OAuth server.  Both arrive at `Service::handle`
(`service.rs`).  Several execution environments (Lambda) serve one TiDB
database; local preview uses one SQLite file.

| Component | State | Operations | Who it interacts with |
|---|---|---|---|
| Write requests (`service.rs` `handle_internal`, `db.rs`) | every table; `idempotency`; row lock on `workspaces` | begin, lock, authorize, look the key up, dispatch, record, commit, answer | the path of every mutation below |
| Change approval (`service.rs` change set routes, `auto_apply.rs`) | `changesets` documents, the plan, `auto_apply_rules` | preview, approve, reject, apply, save/revoke a range | reads delegations, memberships and the workspace digest; writes the plan |
| MCP delegations (`mcp_auth.rs`) | `mcp_connections` | ensure pending, approve, grant from consent, revoke | revoking also revokes ranges and tokens in the same transaction |
| OAuth server (`oauth.rs`) | `mcp_grants`, `oauth_clients` | begin, decide, exchange, refresh, revoke, purge | grants a delegation; tokens are verified against it |
| MCP endpoint (`mcp.rs`) | none | authenticate, check the tool's scope, call the service | OAuth server, delegations, change approval |
| Collaboration (`collaboration.rs`) | `memberships`, `invitations`, `workspaces.body.version`, notifications | invite, accept, decline, revoke, change role, remove, leave, rename | write requests (idempotent replay), everything that authorizes |
| Sessions (`auth.rs`, `lib.rs`) | `sessions` rows with a sealed envelope | sign in, load, renew, select tenant, end, sign out | the user pool (tokens) and Tachyon (`/v1/me`) over HTTP |
| Plan structure (`service.rs`, `model.rs`, `breakdown.rs`) | items, relations, metrics, views | create, edit, reparent, link, carry over | written by people, by change sets |
| Plan lifecycles (`service.rs`) | actions and records, check-ins, weekly reviews, cycles, memories | complete, record, open, close, carry | reads the plan structure |
| History and undo (`service.rs`) | the audit with its operations and snapshots, `changesets` that undo another | record, compare two versions, plan a reverse change set | plan structure; an undo is approved like any change set |
| Plan drafts (`plan_draft.rs`) | a head and one row per revision | create, revise, withdraw; export and import with the workspace | conversation links; outside the plan |
| Conversation links (`conversation.rs`) | `conversation_links`, `conversation_link_idempotency` | upsert, claim a key, stop with the delegation | delegations; drafts are anchored to links |
| Schema migrations (`db.rs`) | `schema_migrations`, advisory lock, environment claim | lock, run each statement, record, claim | every environment that starts |
| Data migration, retrieval, suggestions, Field adapter, skills, OpenAPI, seed, notifications, web client, MCP app, edge worker, desktop shell | read only, static, or run on a database nobody writes to | | |

Where it is hard, and what has to be true:

* **Interleaving.**  Every mutation runs in its own transaction on any
  environment; under TiDB a plain read shows an old snapshot.  *An edit is made
  once, whole, against the version it was written for.*
* **Check, then act.**  An MCP call is authenticated in one transaction and
  handled in another; consent is read in one and consumed in another; a session
  is read, renewed over HTTP and written back with nothing locked.  *What was
  taken back in between is not used; what was ended does not come back.*
* **Retries and replays.**  Clients retry with the same idempotency key, codes
  and refresh tokens arrive twice.  *A repeated answer is still true; a replayed
  secret ends its family.*
* **Standing permissions.**  A range applies proposals unasked, an invitation
  waits seven days, a delegation row is reused.  *None outlives the authority it
  came from.*
* **Crashes.**  An environment may stop between commit and answer or with the
  lock in its hands, or halfway through a migration.  *Every request still ends, and
  a retry finds what was done; a recorded version is there whole.*
* **Taking back.**  What is undone was recorded earlier, proposed for undoing later and
  applied later still, with other work in between.  *An undo restores what was, takes
  nothing back twice and leaves nothing dangling.*

`PROJECT.json` lists these as hazards, each at its line, with the property that
would catch it, or the reason why none does.

## 2. The modules

```
McpConnections ----+---- ChangeApproval ---- MCChangeApproval, ChangeApprovalProofs
   (variable conn) |
                   +---- OAuthGrants --+
                                       +---- MCAccess, AccessProofs
Sessions ------------------------------+
Collaboration ----------------------------- MCCollaboration, CollaborationProofs
AtomicWrites <== refined by == WriteRequests  MCWriteRequests, WriteRequestsProofs
Outline <== refined by == PlanStructure ----- MCPlanLinks, MCPlanOrder, PlanStructureProofs
                             | (its operators, on any plan)
                          History ----------- MCHistory, HistoryProofs
McpConnections
   |
LinkTable <== refined by == ConversationLinks
                             | (extends)
                          PlanDrafts -------- MCPlanDrafts, PlanDraftsProofs
Schema ------------------------------------ MCSchema, SchemaProofs
```

A mutation of a workspace is one write transaction that begins by locking the workspace row and
makes every later read a locking one; routes that name no workspace (ranges, delegations, the OAuth server,
conversation links) lock only the rows they read or write.  `WriteRequests` models that machinery step
by step and shows that it implements `AtomicWrites`; `ChangeApproval`, `Collaboration` and
`PlanStructure`, `History` and `PlanDrafts` rest on that and make each handler one action.
`Sessions`, `Schema`, `ConversationLinks`, the two-transaction paths of `ChangeApproval` (an MCP call) and `OAuthGrants`
(a consent), and in `ChangeApproval` the disconnect are outside that protection and keep their steps apart.

### McpConnections, shared by two compositions

`conn[k]` is a row of `mcp_connections` (status, granted scopes).  The operators
`EnsurePending`, `ApproveConnection`, `GrantFromConsent` and `RevokeConnection`
say what each function of `mcp_auth.rs` does to the row; `ChangeApproval` and
`OAuthGrants` conjoin what the same transaction does to ranges and to tokens.
`grant_from_consent` revives a revoked row, `approve` refuses one: the difference
matters to everything that hangs on the row.

### ChangeApproval

| Variable | Code |
|---|---|
| `role` | `memberships` |
| `plan` | the items, relations, metrics and views: the change sets and direct edits that made or rewrote a row which is still there |
| `changes` | the `changesets` collection: status, content, `proposed_by_connection`, `base_version`, `approved_by`, hash, `applied_by`, `auto_apply_rule` |
| `range` | `auto_apply_rules` |
| `call[k]` | the scope an MCP call was authenticated for, not yet handled |
| `leaving[k]` | a disconnect under way: whether it found a range to revoke, whose row it then holds |

A content is the set of recorded effects (`created`, `updated`, `removed`,
`unknown`) and whether a guarded value is set, which is what `covers` tells apart.
The version a preview is pinned to is a digest of content (`workspace_versions`), not a number that rises: what
was added and is deleted again leaves the version there was before.  So it is modelled by what is in the plan and who
its members are (`WorkspaceVersion`).  A row that is rewritten gets a version of its own that it never had, and an identity is
never drawn again; hence a plan differs whenever who made it does.  What a write leaves, what it takes away, and whether it
writes to the digest at all (cycles and reviews do not), is any of what its effects allow (`Written`); a direct edit
may take away anything (`EditPlan`).  That lets more versions come back than the code does: it deletes relations
and rows of some collections, and what it rewrote stays rewritten.  `Preview`,
`Approve`, `Reject`, `ApplyApproved` and `ApplyCovered` are the routes;
`PersonX` and `AgentX` say over which door they came.  `Authenticate` and the
handler are two actions.  Expiry is an action of the clock, so a row may expire
between any two steps.  Rows approved before approving applied (`LegacyRow`) may
be there at the start.

Disconnecting names no workspace, so it locks none, and `mcp_auth::revoke` updates the ranges (369) before it
locks the delegation (370).  It is therefore two actions, `BeginDisconnect` and `FinishDisconnect`, with `AbortDisconnect` for a
transaction that is lost or is the victim of a deadlock.  The update locks the ranges it finds, and whoever needs one waits (`Free`); where it
found none there is nothing locked, and `SaveRange`, which locks the delegation, still active, and then writes, may commit before
the disconnect does.  One disconnect of a delegation is open at a time.  This is TiDB; in SQLite one
write transaction excludes the others.  What else `revoke` ends (tokens, links) it ends after it has locked the delegation and
is one action with it, here and in `OAuthGrants` and `ConversationLinks`.

### OAuthGrants

`request` holds authorization requests, `grant` codes, access and refresh tokens
(with `chain`, their family), `click` decisions to allow between their first
transaction (read the request, ensure the delegation) and their second (consume
it, grant, issue the code).  `ExchangeCode`, `Refresh`, `Replay`, `RevokeToken`
and `Disconnect` are the functions of the same meaning.  `replayed` is a history
variable for one property.  Hashes, PKCE, redirect URIs and the audience are checks
of a request against constants of its own row and are abstracted away; so is
`last_used_at`.

### Collaboration

One workspace: `role`, `invitation`, `version`, the kept responses `saved`, and
`answer`, the response of the last step.  `Invite`, `Accept`, `Decline`,
`RevokeInvitation`, `ChangeMember`, `Leave` and `Rename` are the routes;
`RevokedBy` is the cascade of `change_member`; `Replay` is a retry, which passes
`authorize_route` and `authorize_replay` again.  Accounts outside `Colleague`
never act in the workspace's tenant but may be invited.

### WriteRequests and AtomicWrites

`tx[e]` is the request environment `e` runs, with the snapshot its transaction
began with; `lock` is the row lock of the workspace; `db` is what is committed;
`told` what clients heard.  The stages are those of `handle_internal`: `Begin`,
`Lock`, `Authorize`/`Refuse`, `Lookup`/`Replay`/`RefuseKey`, `Write`/`Conflict`,
`Commit`, `Respond`; `Crash` may come at any stage.  `View` is what a read inside
the transaction sees: `lock_reads` makes it the latest commit, and the mutant
that reads the snapshot breaks the refinement, which is what the suffix is for.
`AtomicWrites` is the promise: an edit per key, made at one moment by somebody
who may write then, and answers that say what was made.  The refinement mapping
is `doc <- db.doc`, `writer <- db.writer`, `done <- db.saved`.

### Sessions

`row` is the envelope stored under one session id, `tx[r]` a request with the
copy of the envelope it read, `upstream` the user pool, `first` and `until` (history) the
ends of the token and of the session it was signed in with.  `Load`, `Renew` and its four failures, `Save`,
`End`, `Choose`, `FindAgain`, `Store` are the awaits of `session` and
`select_tenant`; `SignOut` is `logout`.  `UpdateRow` is the `UPDATE ... WHERE id`
that finds a deleted row no more.  `upstream.rotates` (a refresh token is replaced when
used) is chosen at the start, `faltered` remembers an error that said nothing
about the account.  `SessionInit` is either sign-in.  Through `establish_cognito_session` a refresh
token is one the pool takes; through `establish_session` (`callback`, and `direct_login`
without Cognito) it is the issuer's, which the pool refuses, and without `cognito_client_id`
(`upstream.client`, a fact of the deployment that does not change while a session lasts)
`refresh_access_token` does not even ask (`NothingToRenewWith`).  Sealing, keys, and the cookie-only sessions of a deployment
without a database are left out: the latter keep no state in the server.

### PlanStructure and Outline

`items` are the documents of the `items` collection in the order of their creation
(`seq`), an item being its number, `links` the relations.  The parts of
`validate_relation` are operators of their own (`ClosesLoop`, `Duplicates`,
`SecondParent`, `UnderAction`); `Valid` is the whole, and the routes that relate things
each go through it: `CreateItem` with a parent, `PostRelation`, `Reparent`, `Import`.
`Siblings`, `Before` and `Rank` are `ordered_part_of_siblings` and `placement`, `Shown`
what `live_children` lists.  `Detach` is `reparent` with `parent_id` null,
`ArrangeChildren` the `children` route, `DeleteRelation` and `SetArchived` those of their
names.  The search for a loop is modelled by what it decides, not by its worklist:
`Reaches` says that every set of items closed under the relations contains the goal.

A relation is identified by what it relates rather than by its id, which is how
`validate_relation` compares it.  Left out: expected versions and the owner guard
(they only refuse; a refused request changes nothing), titles, dates, metrics,
rationales, the `breakdown_change` records a move writes, and the early return for
an item that already stands for the same Field reference.  Templates and change
sets call the same routes inside one transaction.  A position of `i64::MAX`, which the
code cannot tell from an unset one, is not among the positions posted.

`Outline` is what somebody who reads the breakdown is promised: lists in which nothing changes its
place because something else was moved, and nothing is shown twice.  Numbers do not occur in it; an order is the
set of pairs of which the first is shown no later than the second (`Among`), which can be reasoned about
without induction.  The refinement mapping is `Lists`: what `Shown` lists under every item there is.

### History

`plan` is the items, the links, and the version of each of their rows; `work[i]` when work on item `i` was last
recorded (a completion, a record, a breakdown change), which is no part of the plan; `log` the
entries and the proposals to undo, with their operations, the snapshots around each
and the indexes chosen; `clock` gives times and identities.  `Edit` is a direct
write and what `plan_history_change` records of it, `ApplyTemplate` a compound write
whose changes are derived afterwards (`plan_history_compound_changes`), `Approve` a
change set recorded when previewed and rebound when committed (`Rebound`).
`ProposeUndo` is `reverse_preview`: for each operation chosen, from the last, it asks
whether the plan is still as the change left it (`PatchBlocked`, `CreateBlocked`, `MoveBlocked`,
`PostBlocked`, `UnlinkBlocked`) and works out the inverse; `ApplyUndo` and `DropUndo` settle
the proposal, others' `Edit`, `Complete` and `Record` come in between.  `ActiveUndo`
follows undos of undos.  Reading the plan uses the operators of `PlanStructure`, as an instance over
the plan looked at.  A proposal is pinned to a digest of the rows, their versions included, so the plan itself stands for its version
(`Written` gives a rewritten row the next one, `Rewrites` says which are): a plan that differs has another version, and
one that is again what it was has the one it had.  What a list of operations makes of a plan is the recursive function `Course`, a set that is empty
once one of them was refused (`Goes`); `Run` is the plans on the way, `Result` the last.

Abstracted: of an item's fields its title, whether it is done and when it was archived, one for
each way the code treats a field (a plain value, one an event record may make stale, one set to the
time of the write).  Left out: `children_order`, a PATCH within a
change set of several operations, metrics, check-ins, and the owner guard.

What the code does that the properties are stated around:

* An undo is refused, not approximated, whenever it is at odds with the plan; so it may be
  impossible for good.  A change set that creates an item under a goal and moves another item
  into that goal cannot be undone as a whole: the move numbers the item made, which then
  counts as moved since.
* An operation cannot name an item made by another of its change set (`Names`), since identities are
  drawn when items are made and there is no way to refer to them.  `NothingDangles` rests on it (`MadeAlone`): if it were
  possible, undoing the creation of an item and a later move away from it, but not the move to it,
  would move something back under an item and then archive that item, which nothing refuses.
* Undoing the undo of a creation takes two proposals: archiving the item and removing its parent
  concern one item, and a proposal undoes one operation of each.
* Adding a record does not move the version: work recorded between
  the proposal of an undo and its approval is not noticed (completing an action is, since it rewrites the item).
  `UndoRestores` is about items and relations only.
* A proposal that went stale is good again when the plan is once more what it was made for: a relation is added and
  deleted directly, or an undo puts back a link under a new identity and that link is deleted directly.  So a change is
  undone (`d`), the undo undone (`f`), undoing the change again proposed (`c`), the undo of `f` applied (`g`, which puts `d` in effect), and
  what `g` put back deleted: `c` may then be applied although `d` has effect.  It does what it says, on the
  plan it was made for (`UndoRestores` holds of it).  `NoSecondUndo` therefore says when undos may be *proposed* beside each other, not
  that only one of them ever has effect.
* Of several operations chosen that changed what an item is part of, the earliest says what it is part of
  afterwards: moving an item out of everything, relating it to another and removing that relation may be undone but for
  the second, and then the item is where it was before the move, not where it was before the removal.
* A comparison merges changes of what an item is part of by item and, separately, by relation.
  `CompareIsTrue` therefore leaves `part_of` relations to the items.

### ConversationLinks, LinkTable

`links` and `keys` are the two tables, `calls[q]` a call of `pathbase_link_context` between its
authorization and its answer.  The write holds no workspace lock: a row that is there is read
with a lock, so `Relink`, `Join`, `Refuse` are steps from that read to the commit;
a row that is absent locks nothing, so `LookInVain` and `Insert` are two steps and another
call may insert in between.  `Fail` is any failure, or crash, before the commit; the client may ask
again with the same key.  `Connect`, `Grant` and `Disconnect` are those of
`McpConnections`; `Disconnect` stops the links in its transaction.  `target` stands for workspace,
item and screen together, which the code compares together.

`LinkTable` is the promise to what builds on links: two actions on one table,
a conversation keeps its target.  The refinement mapping is the identity on `links`.

`LinksEndWithDelegation` states what disconnecting achieves: no link comes to be live
under a delegation that is over except through a call that had been authorized before.  That exception is
in the code: `docs/api.md` 388-390 promises that disconnecting stops links, and a call
that passed its authorization earlier may make one live afterwards (it can be used for nothing, since every
use authenticates the delegation).  In the same way the loser of an insert race may be handed
a link that was stopped meanwhile, although `docs/api.md` 383 speaks of `active`.

### PlanDrafts

Extends `ConversationLinks`.  `drafts` are the heads, `revs` the revisions, `brought` (history) the
drafts that came out of a file.  `Create`, `Revise`, `Withdraw` are the handlers, `Import` the
part of a workspace's import that concerns drafts, with `validate_import` (`Whole`).  What a file may
say is `Edited`: the export, with one head or revision dropped or replaced.  A content is the kinds of its
nodes, its edges and whether it claims what only a person may.  `ValidEdges` is
`validate_edges`; its search for loops is modelled as it runs, marks, stack and leaving included
(`Visit`, `SearchNext`, `LoopFound`), because whether the worklist decides what it should is the question.
An import does not check that the link a draft names is there or about this workspace, so
`DraftAnchored` is about drafts written here.

### Schema

`rows` are the versions recorded, `runs` how often each statement of each script was run, `env` the
label claimed, `lock` who holds the advisory lock, `procs` the processes with their build, label and
position.  `Start`, `Probe`, `Acquire`, `GiveUp`, `Look`, `RunStatement`, `Fail`, `Record`, `Claim`,
`Crash`, `Retire` are the steps of `connect_from_env`, `migrate`, `migrate_locked` and
`claim_environment`, each committed by itself.  A script's statements are `repeatable` or `once`: the
`ALTER TABLE ADD COLUMN` of 0004 and 0012 stand first in their scripts and cannot be repeated.
The lock lives as long as the database session that took it.  The model takes session and process for one: a
session that is lost while its process goes on, which then runs statements without the lock, is not modelled.

Two things follow that nothing prevents.  A process killed between such a statement and the record of its
version leaves a database on which every later start fails (`Stuck`), although a comment in
0008 asks every DDL step to be conditional; `StartsEnd` excepts exactly this.  And a process of
an older build finds the schema newer than it expects and serves nothing until it is replaced; it is
not counted as waiting.  SQLite runs the same scripts in one process and takes no lock.

## 3. The runs

| Run | Question | Bounds | States |
|---|---|---|---|
| `change_approval` | Is everything in the plan decided by a person who had seen what else is in it? | 2 people, 1 connection, 2 change sets, 2 contents, 2 ranges, 2 membership tables, 1 direct edit, `Small` | 754,092 |
| `collaboration` | Are members, invitations and repeated answers consistent? | 3 colleagues, 1 outsider, 3 invitations, 8 versions | 56,190 |
| `access` | Do a session, and codes and tokens, end when they should, and only then, and stay within what was decided? | session: 2 requests at once, 1 tenant, session of 2 units, tokens of 1 or 2, window of 1, 2 rotations, both sign-ins, with a Cognito client and without; tokens: 1 delegation, 2 requests, 2 codes, 2 access and 2 refresh tokens, 3 scope sets | 474,345 |
| `write_requests` | Do the steps implement atomic, exactly-once edits, and does every request end? | 2 environments, 2 keys, 2 versions | 97,178 |
| `plan_links` | No loop, one parent, restorable, by whatever routes relations come? | 3 items, all 4 relation types, 3 backups, 3 relations at once | 137,275 |
| `plan_order` | Does an item land where it was moved, and the rest stay? | 4 items, `part_of` only, positions unset, 1, or given by moves, 3 relations | 37,275 |
| `history` | Does undoing restore what was there, once, and does a comparison tell what differs? | 3 items and a fourth, 15 requests, 1 template, 3 entries or proposals and a fourth that takes back the third, 4 writes, `Small` | 331,889 |
| `conversations` | Do overlapping calls implement one table of links, and do drafts keep their workspace and their revisions? | 1 delegation, 2 conversations, 2 workspaces, 2 keys, 2 calls at once, 1 draft of 2 revisions, 3 contents | 241,630 |
| `schema` | Do processes that start at once and are killed leave a whole schema and one claim, and does every start end? | 2 processes, 2 builds, 2 labels or none, 3 migrations of 4 statements, 2 crashes, 1 timeout | 308,241 |
| `live_range` | Is there no moment where the delegation is gone and a standing permission for it is not? **No** | as `change_approval` | |
| `offered_undone` | Can what the history offers to undo be undone when nothing happened since? **No** | as `history` | |
| `others_migrate` | Does a process of another deployment refuse to migrate? **No** | as `schema` | |

Why the bounds are enough for the cases they are for:

* *change_approval.*  Two change sets make every pair of decisions race; the two
  contents differ in what `covers` distinguishes (one is inside
  a narrow range but for a guarded value, the other rewrites and removes something); two ranges allow saving over a
  range to narrow or widen it; the owner of the delegation may lose and regain the right to write.
  One of `Edit` is enough to make both previews stale, and its deletion to make them good again.  `Small` keeps the instance
  within reach (the theorems are about any number of both): with one change set everything may happen, a disconnect overlapped by a save and a reconnection included; once there are
  two of them nobody disconnects, or has disconnected while a range was saved, and members write the plan only by deleting.
* *collaboration.*  Three colleagues allow two owners and a third to be invited
  by one while removed by the other; three invitations allow a second invitation of one
  person beside one for another; `MaxVersion` ends behaviours after seven
  mutations, more than the longest cascade (invite, accept, promote, invite,
  demote, retry) takes.
* *access.*  The two share no state, so a behaviour has one of them stand still (`way`).  Of the tokens, two requests and
  codes allow two windows, and a consent after
  a disconnect; two pairs of tokens allow one rotation and a replay of what it
  replaced; the scope sets include two that overlap only in part, so narrowing
  and widening again can be told from never having had a scope.  Of the session, tokens both longer and not longer than the
  window (the code accepts 60 seconds and renews within 120), a token of one unit in a session of two, so that it
  is renewed more than once, and two rotations so that a stale token can meet
  a twice-replaced one.  Deadlock is not checked: identities run out, a session may be over, and nothing has to follow.
* *write_requests.*  Two environments, two keys and expected versions 0 and 1
  include the same key on two environments, a key reused for another request, and two
  keys against one version.
* *plan_links.*  Three items and relations close the smallest loop that no pair shows; the
  kinds include an action, which may not be a parent; of the backups one is sound, one has
  a loop of its own, and one gives a parent to the last item that was there, which is refused
  or not depending on the relations already there.  Deadlock is checked.
* *plan_order.*  Three siblings under a fourth, or two parents with a move between them;
  posting every relation with the same number or none makes ties, archiving after numbering
  leaves gaps.  Only `part_of` has an order, so the other types are off.
* *history.*  Three entries are a change, its undo and the undo of that, or two proposals to undo one
  change; four writes leave room for work of others.  A fourth entry is only a direct edit (`Spare`), and only one that leaves the plan
  the third was made on (`Small`): what was stale after the third is then good again.  The requests
  include one of every kind of operation, two change sets whose operations depend on each other, and
  one whose second operation refers to what its first archives.  Deadlock is not checked: the bounds run out.
* *conversations.*  Two calls meet at every step; two keys and two conversations make one key stand for
  two, or two for one.  `MaxRev` 2 is the least with a revision that is not the last.  Once there are
  drafts at most two calls or keys are let be (`Calm`), and drafts move only while no call is under way
  (`Quiet`), which loses nothing: a call changes what drafts read in one step, its last, and
  reads nothing of theirs.  `Graphs` are all sets of up to four edges on four nodes, for every order of starts.
* *schema.*  A repeatable migration, one of two statements, and one that is not; a build that does not know
  the last.  Two crashes let the process that took over be killed too.

Fairness is assumed in `WriteRequests` and `Schema`.  In `WriteRequests` a request that runs goes on
(the runtime polls a future that is ready: `WF` of `Step`), and the database serves
whoever waits for a row lock (`SF` of `Lock`, because the lock is taken and
released by others in between; TiDB queues waiters and a wait times out otherwise).
`Begin` and `Crash` are never owed.  In `Schema` a process that was started, or died, is
started and goes on (`WF`: Lambda starts another environment while requests arrive), and one
that waits for the advisory lock gets it if it is free again and again (`SF` of `Acquire`).  Crashes and
timeouts are bounded, so they end.  Elsewhere only safety is claimed.

### What the violated properties say

1. **A range saved while its delegation is being disconnected outlives it** (`LiveRangeHasDelegation`, `mcp_auth.rs` 369).
   `revoke` looks for ranges before it locks the delegation, and a save that still finds the delegation active may commit
   in between.  The comment there (366-368) says that there is no moment where the delegation is gone and a
   standing permission for it is not, and `docs/change-approval.md` 129 that a reconnection never brings one back.
   `OnlyOverlappedOutlives`, which holds and is proved, says that this is the only way to such a range.  Locking the delegation
   first would close it.
2. **An archiving that was applied from a change set is offered for undoing and never can be**
   (`OfferedCanBeUndone`, `service.rs` 3100).  The value after is the time of the preview in the
   record and the time of the commit in the item; `reverse_preview` sees a later change
   where there was none and answers `UNDO_CONFLICT`.  `docs/api.md` 331 gives later changes
   as the reason of that answer.
3. **A process of another deployment migrates the database first and is refused afterwards**
   (`OthersDoNotMigrate`, `db.rs` 915).  `docs/production-durability.md` 35 says it refuses to
   migrate.  `OneEnvironment`, which holds and is proved, says that it serves nothing.

What the models show besides, where no document says otherwise or the document is only
loosely worded, and which the properties are therefore stated around:

* A range covers proposals made before it was saved, and comes back to force when the `apply` scope
  is taken away and given again: `covering` compares connection and effects, never times.
* Of two change sets previewed on one plan both may be applied, if what the first left was deleted in between: the digest
  is then the one both were previewed on.  Neither overwrites the other (`OneSawTheOther`).
* A 429 or 503 to a renewal, or a refresh token that a concurrent request had rotated, ends the session;
  `EndsForAReason` says that these are the only reasons besides those one expects.
* A session signed in through the issuer (`establish_session`) that was given a refresh token gets the
  long end (`SESSION_LIFETIME`), but nothing can exchange that token, so its row is deleted when the
  first access token is within the window of its end, with the account in order and nothing rotated;
  so is that of a session without a refresh token, up to a window before the end it was given.
  `MayEnd` names both.  `docs/production-durability.md` 9 (a session renews for up to 12 hours) is
  true of the Cognito sign-in.
* A renewal writes back the envelope it read before its call upstream, with the tenant
  selected at that time.

Every property of a passing run also has a mutant, a definition changed the way
a likely bug would change it (a dropped guard, a missing cascade, an upsert for an
update), which makes TLC find the property violated.

## 4. The proofs

Each `...Proofs` module (eight) proves `Spec => []IInv` for every value of the constants
(`AccessProofs` for sessions and for tokens, the two ways into the server) and derives the properties from it.  `IInv` is the conjunction of the type invariant, the
properties, and what makes them inductive, named in the component's module:

* *ChangeApproval.*  `InPlanWasApplied` (only what was applied has left something in the plan) makes
  `OneSawTheOther` inductive: who is written has a preview of the present plan, in which everything
  that is there already had its say; `UndecidedNamesNobody` keeps a row that nobody decided from already carrying a name.
  `FoundNone` (where a disconnect found no range, one that is there now was saved since) makes
  `OnlyOverlappedOutlives` inductive.
  `DecisionsAreFinal` and `UnaskedOnlyWhileAllowed` follow step by step.
* *Collaboration.*  `SavedAreSent` (a kept response is of an invitation that was sent).  The
  properties support each other: nobody open to be invited is a member only because one
  invitation stands per person (`OneWayIn`), so accepting one leaves no other behind.
* *OAuthGrants.*  `RequestIsSpent` (what something descends from can issue no further
  code), `CodeNamesFamily`, `PressedWithinRequest`, `ReplayedExists`.
* *WriteRequests.*  `HoldsLock` (a request is past the lock exactly when it has it) and
  `Knows` (what it found out holds while it has the lock).  From these also the
  refinement, as a theorem: initial states map to initial states and each step to
  one of `AtomicWrites` or to a stutter; `NoEditLost` uses cardinality facts, hence the
  assumption that keys are finite.
* *Sessions.*  `Faithful` (every copy of the envelope ends when the session does, carries
  the upstream's refresh token unless that rotates, and still has the first access token if the
  upstream takes no refresh token for it) and `Reasoned` (what is being ended has a
  reason).  The names of `Sessions` that other modules have too begin with `Session`, so that one module of
  proofs can extend it and `OAuthGrants`.
* *PlanStructure.*  `IInv` is `TypeOK`, the finiteness of `links`, and `Restorable`: that every
  relation still passes the check against all the others.  That is stronger than what was checked when
  each was added.  It is inductive by an argument on cuts: a relation that closes no loop has a
  set of items that holds its target, not its source, and that no other relation leaves.  When
  `x` is added, a cut for an older relation `y` is that of `y`, or its intersection or union
  with the cut of `x` (`NoNewLoop`).  Removing relations only helps (`SoundSubset`), and numbering does
  not touch what a relation relates.  `NoLoops`, which is about any set of items, follows because the cut of
  a relation inside a set that leads back into itself leaves a smaller such set (`SmallerTrap`),
  which cannot go on in a finite set.

  The order of siblings rests on counting instead of on induction over lists.  An item is shown by one link
  (`OneAnswer`), so `Before` is a strict order of its siblings (`BeforeOrders`), and the number of siblings before
  an item is a bijection with the places of the list (`RankGrows`, `RankReaches`, by the pigeonhole facts on
  finite sets): `InOrderShows` says what a list shows where.  Numbering the siblings again keeps their order
  (`NumberedOrder`).  From these, `BreakdownIsOutline` maps every route to a step of `Outline`, and
  `AlwaysLands` says that the gap somebody moves an item into is the place it has in the list afterwards (`GapIsRank`).

* *PlanDrafts* (and the links it extends).  For the links, `LinksTypeOK` and `AnswersStand`: what an answered
  call was told is in the tables.  It is inductive because a key is never given to another
  conversation and a link never loses its target, whatever stops it; `AnswersAgree`,
  `LinksEndWithDelegation` and the refinement of `LinkTable` follow.  Steps of the drafts are
  stutters of the links (`DraftsLeaveLinks`), so the theorems hold of the composition.  For the drafts
  `IInv` adds `DraftAnchored`, kept by the links' steps since targets stay (`TargetsStay`), and
  `HistoryIsWhole`, proved draft by draft (`WholeAt`): saving adds the number after the last, and an
  import is whole or is not made.  `RevisionsAreValid` (all that was ever saved passed `validate_edges`) carries
  `LoopsAreRefused`.

  That the search for loops decides what it should is proved apart, for any finite graph and any order of the
  starts (`SearchFinds`).  The search is a recursive function of the number of steps; that it exists and is the sequence
  of its steps is `SearchSteps`, from the well-foundedness of the numbers.  `Searching` is what holds between steps: the
  marks 1 are the nodes still to be left, each once; each of them leads to the entries above it up to the next; where it leads is
  marked 2 or is above it; no node of a loop is marked 2; and no start that had its turn is forgotten.  A loop is
  reported only when the path closes (`PathCloses`).  `StepsLeft` counts what is left to do and every step lowers it
  (`StepKeeps`), so the search is over, its stack empty, within the steps `LoopFound` gives it, and then every
  node that leads anywhere is marked 2.
* *History.*  Five theorems, the last three on the invariants of those before.

  *No operation is undone twice* (`UndoneOnce`).  Of two undos of an operation that are applied or may still be, the later
  was proposed after all the earlier did about it had been undone.  `IInv` is `LogOK` (the log is a sequence of entries) and
  `NoSecondUndo`, which says so of the entries between the two, by which undos were applied.  Applying a proposal only adds to those,
  and a new one reserves only what no undo reserves or has in effect.  What is in effect is a recursive function from the
  last entry to the first: `EffectExists` says that there is one, `SameEffects` that entries which were not applied make no
  difference to it, and an operation without effect was undone by an entry between (`ActiveUndo`).
  *A comparison tells what differs* (`ComparesTruly`), for any two versions of a history of any length.  `Does` says what each
  kind of operation does to a plan: to the looks of its items, to what its links relate (`Ties`), and to their identities; it is
  proved of every operation the code accepts, moves with all their renumbering included (`DoDoes`).  A list of operations is
  a recursive function (`Course`); that it exists and is the sequence of its steps is `CourseIs` and `RunSteps`, from the
  well-foundedness of the numbers, and `RunOK` says that every plan on its way is one the code keeps.  So an item no
  operation is about, or a relation, stays what it is from one snapshot to another (`SeenThrough`, `RelatedThrough`), also when the
  snapshots are of the preview and the commit (`PicturesSay`: both runs look the same, although the times
  and identities in them differ) or were read off a compound write afterwards (`DerivedLists`, `TemplateSays`).
  `CInv` says that of every entry there is: `VersionsOK`, that it tells what became of the plan it was made on; and
  by `PlanKept` that the plan is a plan and a pending proposal
  describes its operations on the plan it was made for.  Between two versions where nothing is missing, each was made on what the one before it
  left, so what is merged is true by induction along them (`OneMore`, `CoveredSpeaks`).

  *An undone creation leaves nothing behind* (`NothingLeftDangling`).  `DInv` adds `MadeWith` (the link an item was made
  with keeps its identity, type and source for good, whatever moves it), `MadeAlone` (no other operation of
  its entry moved it or took a link to it away) and `TakenAway`: the inverse in a pending proposal deletes
  every link the item had on the plan it was made for, and relates and moves nothing to it.  The last is what the checks of `reverse_preview` come to
  (`CreationCleared`): a link to the item is its own, which goes with it, or has the identity of one that another operation chosen
  made, whose inverse deletes exactly that one.  `RunClears` carries it through the operations of the inverse.  The theorem says more than the
  property: nothing at all is linked to the item, whether it is still in the plan or not.

  *An undo leaves the rest alone* (`UndoLeavesTheRest`).  `Confined` adds that the operations of a pending proposal
  are about items that those it takes back were about, themselves or by a link in their snapshots
  (`TakenBackAbout`: what deletes a relation deletes the one candidate there is, which relates the same two).  An operation that makes
  nothing leaves the rows of other items and the relations between them (`RowsStay`, `TiesStay`), so a run of them does (`RunKeeps`).

  *An undo puts back what was* (`UndoPutsBack`).  `PInv` says of a pending proposal what `reverse_preview` saw
  when it was made: `InTurn`, each of its operations takes back one that was chosen, as what that was before says (`Inverts`),
  the last chosen first, and no two chosen are about the same thing (`Target`); and `Unhindered`, on the plan it was made for what was posted is still
  the one link there is between the two, what was moved still has the link it was given, what was taken out is
  still out.  It is applied only when the plan is that one, or that one again.  `Positioned`, that a link posted as part of something has no position and one that was moved
  has, is what tells a post from a move of the same item: no inverse relates again what another one takes apart (`NotPutAgain`).
  So of each field of a row, and of each relation, the last operation of the inverse that is about it takes back the one chosen
  (`SameItem`, `EarlierLeave`), and what it leaves is what there is in the end (`FieldEnds`, `OfEnds`, `TieEnds`).
  With `UndoLeavesTheRest` this is all of `UndoRestores` but the order of siblings.
* *Schema.*  `Exclusive` (who migrates or claims holds the lock, and the other way round), `Ordered` (a process
  at statement `n` of version `v` has all before it in place), `Counted` (a statement not
  yet passed ran at most once per crash), `Claimed` (who serves has the label the database is
  claimed for, or none).

Assumptions on constants are typing and distinctness (`NullAssumption`, `RowAssumption` and the
like), and `OnceAssumption` of `Schema`, that a statement which cannot be repeated comes first in its script,
as in 0004 and 0012; TLC evaluates each.  The bounds (`Edit`, `MaxVersion`, `MaxDoc`, `MaxNow`, `MaxToken`,
`Memberships`) remain parameters of the theorems: they hold for every value of them.

In `History` the plan to begin with is one the code keeps (`StartAssumption`: rows and links with their fields, both ends of a link there, an
identity of one link, one parent), and requests and templates hold operations of the kinds there are (`RequestsAssumption`,
`TemplatesAssumption`).  `Width` is the model's own: identities of the `n`-th operation of a write at time `t` are `Width * t + n`, so
a compound write has fewer operations than that (a change set 100 at most, which is the code's limit), and `SizeAssumption`, fewer items than that, makes
`Width * Depth + i` sort the items made by depth.

Only model-checked: `EveryRequestEnds` and `StartsEnd` (liveness needs `ENABLED`); of `UndoRestores` in `History` that an item
moved or taken out alone stands at its old place among its siblings again (`PutsInPlace`); the mutants and the two violations.

## 5. Not modelled, and why

* *Plan lifecycles* (check-ins, weekly reviews, cycles, memories): single rows written under the workspace's
  lock.  Completions and records are in `History` as far as an undo depends on them.
* *People in the plan*: assignees and owners of goals.  A member who leaves stays the assignee of items
  that no edit keeping them, and no import, then passes; relations and carrying over reach the goals the
  items route guards.  Both are in `PROJECT.json` without a property.
* *OAuth*: client registration inserts rows nothing else changes; `purge_expired` is called by
  nothing; `verify_access_token` writes only the time of last use.
* *Conversation links elsewhere*: the links an integration lists of an item and the masking of a
  source that cannot be shown (`service.rs` 5468 and 6697) read the table only.
* *Data migration* (`migrate.rs`): an operator's copy, table by table, into a new database from one nobody
  writes to; a target that holds anything is refused, so a copy that stopped is started over.
* *SQLite*: one process and one writer; the row locks and the advisory lock have no counterpart.
* Wire formats, argument checks, wording, ranking (`retrieval.rs`, `suggestions.rs`,
  `copilot.rs`), static content (`skills.rs`, `openapi.rs`, `seed.rs`), reports (`preflight.rs`).
* The client, the MCP app, the edge worker and the desktop shell: they are the
  environment; their retries are those the models allow.

## 6. Plan

Written, in this order: `McpConnections`, `ChangeApproval`, `Collaboration`, `OAuthGrants`,
`AtomicWrites`, `WriteRequests`, `Sessions`, `Outline`, `PlanStructure`, `History`, `LinkTable`,
`ConversationLinks`, `PlanDrafts`, `Schema`, with proofs of all of them.

What would add most next:

1. **History**: `children_order` and PATCHes in compound writes; the composition with `ChangeApproval`, where an undo is a change set like any other;
   a theorem for `PutsInPlace`, which needs that operations on other items, and the identities of a trial, leave the order of siblings as it was.
2. **People in the plan**: assignees and owners of goals composed with `Collaboration`.
3. **Lifecycles**: actions with their completion, skip and reopen records, cycles with their predecessors and
   carrying over.
