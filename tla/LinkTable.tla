----------------------------- MODULE LinkTable -----------------------------
(***************************************************************************)
(* What the links between conversations and workspaces promise to what is  *)
(* built on them (plan drafts, proposals made from a conversation): within *)
(* one delegation a conversation is about one workspace for ever, and its  *)
(* link is stopped when the delegation ends and live again when the client *)
(* is told to link once more.                                              *)
(***************************************************************************)
CONSTANTS
  Connection,     \* the delegations
  Conversation,   \* what the hosts call their conversations
  Workspace,      \* what they may be about
  NULL            \* not linked

VARIABLE links    \* links[k][c]: what is known of conversation c under delegation k

LinkRow == [target : Workspace, status : {"active", "stopped"}]

LinkInit == links = [k \in Connection |-> [c \in Conversation |-> NULL]]

Linked(k, c) == links[k][c] # NULL

Link(k, c, w) ==
  /\ Linked(k, c) => links[k][c].target = w
  /\ links' = [links EXCEPT ![k][c] = [target |-> w, status |-> "active"]]

StopLinks(k) ==
  links' = [links EXCEPT ![k] =
              [c \in Conversation |-> IF Linked(k, c) THEN [@[c] EXCEPT !.status = "stopped"]
                                                      ELSE NULL]]

LinkNext ==
  \E k \in Connection :
    StopLinks(k) \/ \E c \in Conversation, w \in Workspace : Link(k, c, w)

LinkSpec == LinkInit /\ [][LinkNext]_links
=============================================================================
