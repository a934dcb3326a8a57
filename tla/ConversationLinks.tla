------------------------- MODULE ConversationLinks -------------------------
(***************************************************************************)
(* Linking a conversation to a workspace (conversation.rs and the tool     *)
(* pathbase_link_context of mcp.rs).  The call is authorized first, in     *)
(* transactions of their own, and writes afterwards in one that takes no   *)
(* workspace lock: calls meet in the rows alone.  A row that is there is   *)
(* read with a lock, so what follows is one step; of a row that is not     *)
(* there nothing is locked, and between looking and inserting another call *)
(* may have been first.  Whatever fails, or crashes, before its commit has *)
(* written nothing.                                                        *)
(*                                                                         *)
(* Sending an idempotency key again, whatever the conversation, is only    *)
(* good for one conversation: the keys have a table of their own.          *)
(***************************************************************************)
EXTENDS McpConnections

CONSTANTS
  Conversation,   \* what the hosts call their conversations
  Workspace,      \* what they may be linked to
  Key,            \* idempotency keys
  Caller,         \* the calls that may be under way at once
  NULL            \* no link, no key, no call

VARIABLES
  links,       \* links[k][c]: the link of conversation c under delegation k
  keys,        \* keys[k][key]: the conversation a key of delegation k is for
  calls        \* calls[q]: what caller q asked for, until it has its answer

linkVars == <<conn, links, keys, calls>>

(* conversation_links: target stands for the workspace together with the   *)
(* item and the screen.                                                    *)
LinkRow == [target : Workspace, status : {"active", "stopped"}]

CallRow ==
  [conn : Connection, conv : Conversation, target : Workspace, key : Key,
   stage : {"authorized", "absent", "answered"}]

ASSUME NullAssumption == NULL \notin LinkRow \cup CallRow \cup Conversation \cup Connection

LinksTypeOK ==
  /\ ConnTypeOK
  /\ links \in [Connection -> [Conversation -> LinkRow \cup {NULL}]]
  /\ keys \in [Connection -> [Key -> Conversation \cup {NULL}]]
  /\ calls \in [Caller -> CallRow \cup {NULL}]

LinksInit ==
  /\ ConnInit
  /\ links = [k \in Connection |-> [c \in Conversation |-> NULL]]
  /\ keys = [k \in Connection |-> [key \in Key |-> NULL]]
  /\ calls = [q \in Caller |-> NULL]

UnderWay(q) == calls[q] # NULL /\ calls[q].stage # "answered"

Stage(q, stage) == calls' = [calls EXCEPT ![q].stage = stage]
Done(q) == calls' = [calls EXCEPT ![q] = NULL]

-----------------------------------------------------------------------------
(* authenticate_remote, and what the tool reads before it writes.          *)
Ask(q, k, c, w, key) ==
  /\ calls[q] = NULL
  /\ Allows(k, "context")
  /\ calls' = [calls EXCEPT ![q] = [conn |-> k, conv |-> c, target |-> w, key |-> key,
                                    stage |-> "authorized"]]
  /\ UNCHANGED <<conn, links, keys>>

Linked(k, c) == links[k][c] # NULL
Live(k, c) == Linked(k, c) /\ links[k][c].status = "active"

SaveLink(r) ==
  links' = [links EXCEPT ![r.conn][r.conv] = [target |-> r.target, status |-> "active"]]

(* The key belongs to another conversation. *)
KeyTaken(r) == keys[r.conn][r.key] \notin {NULL, r.conv}

ClaimKey(r) == keys' = [keys EXCEPT ![r.conn][r.key] = r.conv]

(* upsert, when the link is there: the same target, live again if it was   *)
(* stopped.                                                                *)
Relink(q) ==
  LET r == calls[q] IN
  /\ UnderWay(q) /\ r.stage = "authorized"
  /\ Linked(r.conn, r.conv) /\ links[r.conn][r.conv].target = r.target
  /\ ~KeyTaken(r)
  /\ SaveLink(r)
  /\ ClaimKey(r)
  /\ Stage(q, "answered")
  /\ UNCHANGED conn

(* upsert, when it is not: nothing is locked. *)
LookInVain(q) ==
  LET r == calls[q] IN
  /\ UnderWay(q) /\ r.stage = "authorized"
  /\ ~Linked(r.conn, r.conv)
  /\ ~KeyTaken(r)
  /\ Stage(q, "absent")
  /\ UNCHANGED <<conn, links, keys>>

(* The insert succeeds, and so does claiming the key. *)
Insert(q) ==
  LET r == calls[q] IN
  /\ UnderWay(q) /\ r.stage = "absent"
  /\ ~Linked(r.conn, r.conv)
  /\ ~KeyTaken(r)
  /\ SaveLink(r)
  /\ ClaimKey(r)
  /\ Stage(q, "answered")
  /\ UNCHANGED conn

(* Mutant: the loser leaves its key to whoever comes. *)
JoinWithoutKey(q) ==
  LET r == calls[q] IN
  /\ UnderWay(q) /\ r.stage = "absent"
  /\ Linked(r.conn, r.conv) /\ links[r.conn][r.conv].target = r.target
  /\ ~KeyTaken(r)
  /\ Stage(q, "answered")
  /\ UNCHANGED <<conn, links, keys>>

(* Mutant: the loser makes the winner's link its own. *)
JoinByOverwriting(q) ==
  LET r == calls[q] IN
  /\ UnderWay(q) /\ r.stage = "absent"
  /\ Linked(r.conn, r.conv)
  /\ ~KeyTaken(r)
  /\ links' = [links EXCEPT ![r.conn][r.conv].target = r.target]
  /\ ClaimKey(r)
  /\ Stage(q, "answered")
  /\ UNCHANGED conn

(* Another call was first, with the same target: its link is returned as   *)
(* it is, stopped too if it was stopped since.                             *)
Join(q) ==
  LET r == calls[q] IN
  /\ UnderWay(q) /\ r.stage = "absent"
  /\ Linked(r.conn, r.conv) /\ links[r.conn][r.conv].target = r.target
  /\ ~KeyTaken(r)
  /\ ClaimKey(r)
  /\ Stage(q, "answered")
  /\ UNCHANGED <<conn, links>>

(* CONTEXT_LINK_CONFLICT, for the key or for the target. *)
Refuse(q) ==
  LET r == calls[q] IN
  /\ UnderWay(q)
  /\ KeyTaken(r) \/ (Linked(r.conn, r.conv) /\ links[r.conn][r.conv].target # r.target)
  /\ Done(q)
  /\ UNCHANGED <<conn, links, keys>>

(* The storage fails or the process stops: the transaction is gone. *)
Fail(q) ==
  /\ UnderWay(q)
  /\ Done(q)
  /\ UNCHANGED <<conn, links, keys>>

(* The client has its answer. *)
Hear(q) ==
  /\ calls[q] # NULL /\ ~UnderWay(q)
  /\ Done(q)
  /\ UNCHANGED <<conn, links, keys>>

-----------------------------------------------------------------------------
(* Connecting and allowing leave the links alone. *)
Connect(k) == EnsurePending(k) /\ UNCHANGED <<links, keys, calls>>

Grant(k) ==
  /\ \E scopes \in ScopeChoices : ApproveConnection(k, scopes) \/ GrantFromConsent(k, scopes)
  /\ UNCHANGED <<links, keys, calls>>

(* stop_for_connection *)
StopLinks(k) ==
  links' = [links EXCEPT ![k] =
              [c \in Conversation |-> IF Linked(k, c) THEN [@[c] EXCEPT !.status = "stopped"]
                                                      ELSE NULL]]

(* Mutant: the links outlive the delegation. *)
DisconnectKeepingLinks(k) == RevokeConnection(k) /\ UNCHANGED <<links, keys, calls>>

(* revoke: the links are stopped in the same transaction. *)
Disconnect(k) == RevokeConnection(k) /\ StopLinks(k) /\ UNCHANGED <<keys, calls>>

Step(q) == Relink(q) \/ LookInVain(q) \/ Insert(q) \/ Join(q) \/ Refuse(q) \/ Fail(q) \/ Hear(q)

LinksNext ==
  \/ \E k \in Connection : Connect(k) \/ Grant(k) \/ Disconnect(k)
  \/ \E q \in Caller : Step(q)
  \/ \E q \in Caller, k \in Connection, c \in Conversation, w \in Workspace, key \in Key :
       Ask(q, k, c, w, key)

-----------------------------------------------------------------------------
(* However calls overlap, two that succeeded agree: under one delegation a *)
(* key stands for one conversation, and a conversation for one workspace   *)
(* (the unique keys of migrations 0010 and 0011, and claim_key).           *)
AnswersAgree ==
  \A p, q \in Caller :
    LET a == calls[p]
        b == calls[q]
    IN  /\ a # NULL /\ b # NULL /\ a.conn = b.conn
        /\ a.stage = "answered" /\ b.stage = "answered"
        => /\ a.key = b.key => a.conv = b.conv
           /\ a.conv = b.conv => a.target = b.target

(* Disconnecting leaves no live link behind it (docs/api.md): under a      *)
(* delegation that is over a link is live only when a call that had been   *)
(* authorized before has just made it so, or did after it was over.        *)
LinksEndWithDelegation ==
  [][\A k \in Connection, c \in Conversation :
       conn'[k].status # "active" /\ Live(k, c)' =>
         \/ conn[k].status # "active" /\ Live(k, c)
         \/ \E q \in Caller : UnderWay(q) /\ calls[q].conn = k /\ calls[q].conv = c /\ ~UnderWay(q)']_linkVars

(* The table does what LinkTable promises, whoever writes to it at once. *)
Table == INSTANCE LinkTable
ImplementsLinkTable == Table!LinkSpec

(* What makes these inductive: the rows bear out every answer given.       *)
AnswersStand ==
  \A q \in Caller :
    LET r == calls[q] IN
    r # NULL /\ r.stage = "answered" =>
      /\ keys[r.conn][r.key] = r.conv
      /\ links[r.conn][r.conv] # NULL /\ links[r.conn][r.conv].target = r.target
=============================================================================
