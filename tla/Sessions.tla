------------------------------ MODULE Sessions ------------------------------
(***************************************************************************)
(* One signed-in browser session (auth.rs): a row that holds a sealed      *)
(* envelope, the access token with its end, the refresh token, the tenant  *)
(* selected and the end of the session itself.  The cookie only names the  *)
(* row, and row identities are random, so every session is like this one.  *)
(*                                                                         *)
(* A request reads the envelope, renews it with the upstream when its      *)
(* token is nearly spent, asks the upstream who this is and, if it selects *)
(* a tenant, writes the envelope back.  Each read, call and write stands   *)
(* alone: nothing is locked in between, requests of one session run at     *)
(* once in any environment, and any of them may stop.                      *)
(***************************************************************************)
EXTENDS Naturals

CONSTANTS
  Place,      \* places a request of this session may run in
  Tenant,       \* tenants the person may select
  NONE,         \* no row, no tenant, no refresh token
  Lifetime,     \* SESSION_LIFETIME
  TokenLives,   \* what an upstream says an access token lasts, clamped
  Window,       \* REFRESH_WINDOW
  MaxNow,       \* bound: how far the clock goes
  MaxToken      \* bound: how often the upstream rotates the refresh token

ASSUME LifetimeAssumption == Lifetime \in Nat /\ Lifetime > 0 /\ Window \in Nat
ASSUME TokenLivesAssumption == TokenLives \subseteq Nat
ASSUME NoneAssumption == NONE \notin Nat /\ NONE \notin Tenant
ASSUME BoundAssumption == MaxNow \in Nat /\ MaxToken \in Nat

VARIABLES
  row,          \* sessions.envelope, NONE once the row is deleted
  tx,           \* the requests running
  now,          \* the clock every environment reads
  upstream,     \* the identity provider (external)
  first,        \* history: the end of the token it was signed in with
  until         \* history: the end the session was signed in with

signedIn == <<first, until>>
sessionVars == <<row, tx, now, upstream, signedIn>>

Envelope ==
  [tenant             : Tenant \cup {NONE},    \* selected_tenant
   expires_at         : Nat,                   \* of the access token
   session_expires_at : Nat,
   refresh            : Nat \cup {NONE}]       \* refresh_token

(* "renewing": the upstream is asked; "saving": it answered with a token;   *)
(* "ending": the row is to be deleted; "verifying": the upstream is asked  *)
(* who this is; "choosing", "storing": a tenant is being selected.         *)
Stage == {"renewing", "saving", "ending", "verifying", "choosing", "storing"}

Idle == [stage |-> "idle", choice |-> NONE, envelope |-> NONE, began |-> NONE]

(* choice is the tenant a request selects, NONE for any other request. *)
Running ==
  {t \in [stage : Stage, choice : Tenant \cup {NONE}, envelope : Envelope, began : Nat] :
     t.stage \in {"choosing", "storing"} => t.choice \in Tenant}

(* Cognito as the server knows it.  The account is in order; refresh       *)
(* tokens are replaced when used; a renewal was once answered with an      *)
(* error that says nothing about the account; the refresh token it takes   *)
(* for this session now, NONE if there is none; and whether the deployment *)
(* has a client there at all (cognito_client_id).                          *)
Upstream ==
  [alive : BOOLEAN, rotates : BOOLEAN, faltered : BOOLEAN, token : Nat \cup {NONE},
   client : BOOLEAN]

ASSUME IdleAssumption == NONE \notin Envelope

SessionTypeOK ==
  /\ row \in Envelope \cup {NONE}
  /\ tx \in [Place -> Running \cup {Idle}]
  /\ now \in Nat
  /\ upstream \in Upstream
  /\ first \in Nat /\ until \in Nat

(* store_session, at time 0, after either sign-in: with a refresh token the *)
(* session has an end of its own, without one it is the token's.  The      *)
(* refresh token of establish_cognito_session is one Cognito takes, which  *)
(* needs a client; that of establish_session (callback, and direct_login   *)
(* without Cognito) is the issuer's, and nothing ever exchanges it.        *)
SessionInit ==
  /\ tx = [r \in Place |-> Idle]
  /\ now = 0
  /\ upstream \in [alive : {TRUE}, rotates : BOOLEAN, faltered : {FALSE}, token : {0, NONE},
                   client : BOOLEAN]
  /\ upstream.token # NONE => upstream.client
  /\ first \in TokenLives
  /\ \E refresh \in {0, NONE} :
        /\ upstream.token # NONE => refresh = upstream.token
        /\ until = IF refresh = NONE THEN first ELSE Lifetime
        /\ row = [tenant |-> NONE, expires_at |-> first,
                  session_expires_at |-> until, refresh |-> refresh]

At(r, stage) == tx[r].stage = stage
MoveTo(r, stage) == tx' = [tx EXCEPT ![r].stage = stage]
Finish(r) == tx' = [tx EXCEPT ![r] = Idle]

Over(envelope) == envelope.session_expires_at <= now
Spent(envelope) == envelope.expires_at <= now + Window

(* Mutant: the row is written whether or not it is still there. *)
UpsertRow(envelope) == row' = envelope

(* update_session: an UPDATE by id, which finds a deleted row no more. *)
UpdateRow(envelope) == row' = IF row = NONE THEN NONE ELSE envelope

-----------------------------------------------------------------------------
(* load_session and the checks of the envelope; without a row the answer   *)
(* is 401 and nothing happens.  The endpoint checks the session before     *)
(* select_tenant does so again: the first is a request of its own here.    *)
FirstStage ==
  CASE Over(row) -> "ending"
    [] ~Over(row) /\ Spent(row) -> "renewing"
    [] OTHER -> "verifying"

Load(r, choice) ==
  /\ tx[r] = Idle
  /\ row # NONE
  /\ tx' = [tx EXCEPT ![r] =
        [stage |-> FirstStage, choice |-> choice, envelope |-> row, began |-> now]]
  /\ UNCHANGED <<row, now, upstream, signedIn>>

(* The upstream's own rule: an account in order, and the token good now. *)
Accepts(envelope) == upstream.alive /\ envelope.refresh = upstream.token

NextToken == IF upstream.rotates THEN upstream.token + 1 ELSE upstream.token

(* Mutant: renewing the token renews the session. *)
RenewedForLonger(envelope, life) ==
  [envelope EXCEPT !.expires_at = now + life, !.refresh = NextToken,
                   !.session_expires_at = now + Lifetime]

(* refresh_access_token: the rest of the envelope is the one read earlier. *)
Renewed(envelope, life) ==
  [envelope EXCEPT !.expires_at = now + life, !.refresh = NextToken]

(* refresh_access_token asks only with a refresh token and a client. *)
Asks(r) == At(r, "renewing") /\ tx[r].envelope.refresh # NONE /\ upstream.client

Exchange == NextToken <= MaxToken /\ upstream' = [upstream EXCEPT !.token = NextToken]

Renew(r) ==
  /\ Asks(r)
  /\ Accepts(tx[r].envelope)
  /\ Exchange
  /\ \E life \in TokenLives :
        tx' = [tx EXCEPT ![r].stage = "saving",
                         ![r].envelope = Renewed(@, life)]
  /\ UNCHANGED <<row, now, signedIn>>

(* No refresh token, or no client to exchange one with.  *)
NothingToRenewWith(r) ==
  /\ At(r, "renewing")
  /\ ~Asks(r)
  /\ MoveTo(r, "ending")
  /\ UNCHANGED <<row, now, upstream, signedIn>>

(* The upstream refuses: the account is not in order, or the refresh token *)
(* was replaced since the envelope was read, or was never Cognito's.       *)
RenewalRefused(r) ==
  /\ Asks(r)
  /\ ~Accepts(tx[r].envelope)
  /\ MoveTo(r, "ending")
  /\ UNCHANGED <<row, now, upstream, signedIn>>

(* Any other answer without a token, 429 or 503, is taken the same. *)
RenewalFaltered(r) ==
  /\ Asks(r)
  /\ MoveTo(r, "ending")
  /\ upstream' = [upstream EXCEPT !.faltered = TRUE]
  /\ UNCHANGED <<row, now, signedIn>>

(* Mutant: an unreachable upstream ends the session. *)
UnansweredEnds(r) ==
  /\ Asks(r)
  /\ \/ UNCHANGED upstream
     \/ Accepts(tx[r].envelope) /\ Exchange
  /\ MoveTo(r, "ending")
  /\ UNCHANGED <<row, now, signedIn>>

(* No answer, or one that cannot be read or verified: 503 or 401, and the  *)
(* row stays.  The upstream may have exchanged the token all the same.     *)
RenewalUnanswered(r) ==
  /\ Asks(r)
  /\ \/ UNCHANGED upstream
     \/ Accepts(tx[r].envelope) /\ Exchange
  /\ Finish(r)
  /\ UNCHANGED <<row, now, signedIn>>

Save(r) ==
  /\ At(r, "saving")
  /\ UpdateRow(tx[r].envelope)
  /\ MoveTo(r, "verifying")
  /\ UNCHANGED <<now, upstream, signedIn>>

(* delete_session, and 401. *)
End(r) ==
  /\ At(r, "ending")
  /\ row' = NONE
  /\ Finish(r)
  /\ UNCHANGED <<now, upstream, signedIn>>

-----------------------------------------------------------------------------
Chooses(r) == tx[r].choice # NONE

(* verify_identity answers, and the tenant asked for is among the person's: *)
(* select_tenant puts it into the envelope this request carries.           *)
Choose(r) ==
  /\ At(r, "verifying")
  /\ Chooses(r)
  /\ upstream.alive
  /\ tx' = [tx EXCEPT ![r].stage = "choosing", ![r].envelope.tenant = tx[r].choice]
  /\ UNCHANGED <<row, now, upstream, signedIn>>

(* select_tenant looks the row up again before it writes. *)
FindAgain(r) ==
  /\ At(r, "choosing")
  /\ row # NONE
  /\ MoveTo(r, "storing")
  /\ UNCHANGED <<row, now, upstream, signedIn>>

Store(r) ==
  /\ At(r, "storing")
  /\ UpdateRow(tx[r].envelope)
  /\ Finish(r)
  /\ UNCHANGED <<now, upstream, signedIn>>

(* A request is over: served, refused by the upstream, not allowed to      *)
(* select that tenant, or without the row it looked for; or its            *)
(* environment, or its connection to the database, stopped.                *)
Leave(r) ==
  /\ tx[r] # Idle
  /\ Finish(r)
  /\ UNCHANGED <<row, now, upstream, signedIn>>

(* logout *)
SignOut ==
  /\ row # NONE
  /\ row' = NONE
  /\ UNCHANGED <<tx, now, upstream, signedIn>>

(* A password change, a revoked token, a disabled account. *)
UpstreamEnds ==
  /\ upstream.alive
  /\ upstream' = [upstream EXCEPT !.alive = FALSE]
  /\ UNCHANGED <<row, tx, now, signedIn>>

Tick ==
  /\ now < MaxNow
  /\ now' = now + 1
  /\ UNCHANGED <<row, tx, upstream, signedIn>>

SessionNext ==
  \/ \E r \in Place :
        \/ \E choice \in Tenant \cup {NONE} : Load(r, choice)
        \/ Renew(r) \/ NothingToRenewWith(r)
        \/ RenewalRefused(r) \/ RenewalFaltered(r) \/ RenewalUnanswered(r)
        \/ Save(r) \/ End(r)
        \/ Choose(r) \/ FindAgain(r) \/ Store(r) \/ Leave(r)
  \/ SignOut \/ UpstreamEnds \/ Tick

SessionSpec == SessionInit /\ [][SessionNext]_sessionVars

-----------------------------------------------------------------------------
(* "Deleting the row means the next request carrying that cookie finds     *)
(* nothing": no renewal and no selection under way brings a session back   *)
(* that was signed out meanwhile.                                          *)
SignedOutStaysOut == [][row = NONE => row' = NONE]_sessionVars

(* "Renewing the token is not renewing the session": however often and by  *)
(* however many requests it is renewed, no request that arrives after the  *)
(* end the session was signed in with gets as far as being served.         *)
ServedWithinLifetime ==
  \A r \in Place :
     tx[r].stage \in {"verifying", "choosing", "storing"} => tx[r].began < until

(* With an upstream that keeps the refresh token it gave and answers       *)
(* renewals by what is so, nobody is thrown out: whatever runs at once, is *)
(* lost or is retried, a session ends by signing out, at its end, with the *)
(* account, or, when Cognito takes no refresh token for it (none was       *)
(* given, the one given is the issuer's, or there is no client), within    *)
(* the window before the token it was signed in with runs out.  That last  *)
(* is so even where the session was given the long end.                    *)
MayEnd ==
  \/ until <= now
  \/ ~upstream.alive
  \/ upstream.token = NONE /\ first <= now + Window

EndsForAReason ==
  [][row # NONE /\ row' = NONE =>
        SignOut \/ MayEnd \/ upstream.rotates \/ upstream.faltered]_sessionVars

(* What makes these inductive: every copy of the envelope ends when the    *)
(* session does; where Cognito takes a refresh token, it has one, the one  *)
(* taken unless they rotate, and where it takes none it still has the      *)
(* first token; what is being ended has a reason.                          *)
Faithful(envelope) ==
  /\ envelope.session_expires_at = until
  /\ upstream.token # NONE => upstream.client /\ envelope.refresh # NONE
  /\ upstream.token # NONE => upstream.rotates \/ envelope.refresh = upstream.token
  /\ upstream.token = NONE => envelope.expires_at = first

Reasoned(t) ==
  /\ t.stage = "ending" => MayEnd \/ upstream.rotates \/ upstream.faltered
  /\ t.stage = "renewing" /\ upstream.token = NONE => MayEnd
  /\ t.stage # "ending" => t.began < until

SessionIInv ==
  /\ SessionTypeOK
  /\ row # NONE => Faithful(row)
  /\ \A r \in Place : tx[r] # Idle => Faithful(tx[r].envelope) /\ Reasoned(tx[r])
=============================================================================
