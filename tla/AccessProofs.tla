---------------------------- MODULE AccessProofs ----------------------------
(***************************************************************************)
(* Proofs about the two ways into the server.  A person comes with a       *)
(* session: Sessions, for every number of requests, every set of tenants,  *)
(* every length of a session, of tokens and of the window, and whatever    *)
(* the upstream does.  A client comes with a token: OAuthGrants, for every *)
(* set of delegations, requests, codes and tokens, and every choice of     *)
(* scopes.                                                                 *)
(***************************************************************************)
EXTENDS Sessions, OAuthGrants, TLAPS

-----------------------------------------------------------------------------
(* Sessions.  What is over stays over. *)
LEMMA LaterStill ==
  ASSUME NEW end \in Nat, NEW n \in Nat, NEW m \in Nat, n <= m, NEW w \in Nat
  PROVE  (end <= n => end <= m) /\ (end <= n + w => end <= m + w)
OBVIOUS

(* A stored envelope is not a missing one, and a running request not idle. *)
LEMMA Distinct ==
  /\ \A e \in Envelope : e # NONE
  /\ \A t \in Running : t # Idle /\ t.stage \in Stage
<1>1. \A e \in Envelope : e # NONE
  BY IdleAssumption
<1>2. \A t \in Running : t # Idle /\ t.stage \in Stage
  BY DEF Running, Stage, Idle
<1> QED BY <1>1, <1>2

(* What a session was signed in with never changes, and is used throughout. *)
USE DEF signedIn

(* Signing in. *)
LEMMA SessionInvInit == SessionInit => SessionIInv
<1> SUFFICES ASSUME SessionInit PROVE SessionIInv
  OBVIOUS
<1> DEFINE T == {0, NONE}
<1>1. /\ upstream \in [alive : {TRUE}, rotates : BOOLEAN, faltered : {FALSE}, token : T,
                        client : BOOLEAN]
      /\ upstream.token # NONE => upstream.client
      /\ first \in TokenLives
  BY DEF SessionInit
<1>2. PICK refresh \in T :
        /\ upstream.token # NONE => refresh = upstream.token
        /\ until = IF refresh = NONE THEN first ELSE Lifetime
        /\ row = [tenant |-> NONE, expires_at |-> first,
                  session_expires_at |-> until, refresh |-> refresh]
  BY DEF SessionInit
<1>3. T \subseteq Nat \cup {NONE}
  OBVIOUS
<1> HIDE DEF T
<1>4. first \in Nat /\ until \in Nat
  BY <1>1, <1>2, TokenLivesAssumption, LifetimeAssumption
<1>5. upstream \in Upstream
  BY <1>1, <1>3 DEF Upstream
<1>6. row \in Envelope
  BY <1>2, <1>3, <1>4 DEF Envelope
<1>7. SessionTypeOK
  BY <1>4, <1>5, <1>6 DEF SessionInit, SessionTypeOK
<1>8. Faithful(row)
  BY <1>1, <1>2 DEF Faithful
<1> QED BY <1>7, <1>8 DEF SessionInit, SessionIInv

(* What time and the upstream do to what is known of a session: the        *)
(* account stays ended, and the token it was given stays the token it has, *)
(* unless it rotates.                                                      *)
World ==
  /\ first' = first /\ until' = until
  /\ now \in Nat /\ now' \in Nat /\ now <= now'
  /\ upstream' \in Upstream
  /\ upstream'.rotates = upstream.rotates /\ upstream'.client = upstream.client
  /\ upstream.faltered => upstream'.faltered
  /\ upstream'.alive => upstream.alive
  /\ upstream'.token = NONE <=> upstream.token = NONE
  /\ upstream.rotates \/ upstream'.token = upstream.token

LEMMA WorldKeeps ==
  ASSUME SessionIInv, World
  PROVE  /\ MayEnd => MayEnd'
         /\ row' = row => (row # NONE => Faithful(row))'
         /\ \A r \in Place : tx'[r] = tx[r] =>
               (tx[r] # Idle => Faithful(tx[r].envelope) /\ Reasoned(tx[r]))'
<1>1. MayEnd => MayEnd'
  <2>1. first \in Nat /\ until \in Nat /\ now \in Nat /\ now' \in Nat /\ now <= now' /\ Window \in Nat
    BY LifetimeAssumption DEF SessionIInv, SessionTypeOK, World
  <2>2. /\ until <= now => until <= now'
        /\ first <= now + Window => first <= now' + Window
    BY <2>1, LaterStill
  <2>3. /\ first' = first /\ until' = until
        /\ ~upstream.alive => ~upstream'.alive
        /\ upstream'.token = NONE <=> upstream.token = NONE
    BY DEF World
  <2> QED BY <2>2, <2>3 DEF MayEnd
<1> USE DEF SessionIInv, World
<1>2. row' = row => (row # NONE => Faithful(row))'
  BY DEF Faithful
<1>3. ASSUME NEW r \in Place, tx'[r] = tx[r], tx[r] # Idle
      PROVE  Faithful(tx[r].envelope)' /\ Reasoned(tx[r])'
  <2>1. Faithful(tx[r].envelope)'
    BY <1>3 DEF Faithful
  <2>2. Reasoned(tx[r])'
    BY <1>1, <1>3 DEF Reasoned
  <2> QED BY <2>1, <2>2
<1> QED BY <1>1, <1>2, <1>3

(* A step of one request, to be judged by the request it leaves. *)
LEMMA OneMoves ==
  ASSUME SessionIInv, World, NEW r \in Place, NEW t \in Running \cup {Idle},
         tx' = [tx EXCEPT ![r] = t],
         row' \in Envelope \cup {NONE},
         row' # NONE => row' = row \/ Faithful(row)',
         (tx[r] # Idle => Faithful(tx[r].envelope) /\ Reasoned(tx[r]))'
  PROVE  SessionIInv'
<1> USE DEF SessionIInv
<1>1. SessionTypeOK'
  BY DEF SessionTypeOK, World
<1>2. (row # NONE => Faithful(row))'
  BY WorldKeeps
<1>3. \A q \in Place \ {r} : tx'[q] = tx[q]
  BY DEF SessionTypeOK
<1>4. \A q \in Place : (tx[q] # Idle => Faithful(tx[q].envelope) /\ Reasoned(tx[q]))'
  BY <1>3, WorldKeeps
<1> QED BY <1>1, <1>2, <1>4

(* The steps that leave the clock and the upstream alone. *)
LEMMA WorldStands ==
  ASSUME SessionIInv, now' = now, upstream' = upstream, signedIn' = signedIn
  PROVE  World
BY DEF World, SessionIInv, SessionTypeOK, Upstream

(* An exchange gives out a next token only in place of one there was. *)
LEMMA WorldExchanges ==
  ASSUME SessionIInv, upstream.token # NONE, Exchange, now' = now, signedIn' = signedIn
  PROVE  /\ World
         /\ NextToken \in Nat
         /\ upstream'.token = NextToken
         /\ upstream'.rotates = upstream.rotates
         /\ upstream'.rotates \/ NextToken = upstream.token
<1>1. upstream \in Upstream /\ upstream.token \in Nat
  BY DEF SessionIInv, SessionTypeOK, Upstream
<1>2. NextToken \in Nat
  BY <1>1 DEF NextToken
<1>3. /\ upstream' = [upstream EXCEPT !.token = NextToken]
      /\ NextToken # NONE
  BY <1>2, NoneAssumption DEF Exchange
<1>4. /\ upstream' \in Upstream
      /\ upstream'.token = NextToken
      /\ upstream'.rotates = upstream.rotates
      /\ upstream'.faltered = upstream.faltered
      /\ upstream'.alive = upstream.alive
      /\ upstream'.client = upstream.client
  BY <1>1, <1>2, <1>3 DEF Upstream
<1>5. upstream.rotates \/ NextToken = upstream.token
  BY DEF NextToken
<1>6. World
  BY <1>1, <1>3, <1>4, <1>5 DEF World, SessionIInv, SessionTypeOK
<1> QED BY <1>2, <1>4, <1>5, <1>6

(* What a running request is known to be. *)
LEMMA RunningOne ==
  ASSUME SessionIInv, NEW r \in Place, tx[r].stage # "idle"
  PROVE  /\ tx[r] \in Running /\ tx[r] # Idle
         /\ tx[r].envelope \in Envelope
         /\ Faithful(tx[r].envelope) /\ Reasoned(tx[r])
<1>1. tx[r] \in Running /\ tx[r] # Idle
  BY DEF SessionIInv, SessionTypeOK, Idle
<1> QED BY <1>1 DEF SessionIInv, Running

(* A request goes on to another stage and takes its envelope along. *)
LEMMA MovesOn ==
  ASSUME SessionIInv, World, NEW r \in Place, tx[r].stage # "idle",
         NEW stage \in Stage \ {"choosing", "storing", "renewing"}, MoveTo(r, stage),
         row' \in Envelope \cup {NONE},
         row' # NONE => row' = row \/ Faithful(row)',
         stage = "ending" => (MayEnd \/ upstream.rotates \/ upstream.faltered)',
         stage # "ending" => tx[r].began < until
  PROVE  SessionIInv'
<1>1. tx[r] \in Running /\ Faithful(tx[r].envelope)
  BY RunningOne
<1> DEFINE t == [tx[r] EXCEPT !.stage = stage]
<1>2. /\ t \in Running /\ t.stage = stage
      /\ t.envelope = tx[r].envelope /\ t.began = tx[r].began
  BY <1>1 DEF Running, Stage
<1>3. tx' = [tx EXCEPT ![r] = t] /\ tx'[r] = t
  BY DEF MoveTo, SessionIInv, SessionTypeOK
<1>4. Faithful(tx[r].envelope)'
  BY <1>1, <1>2, <1>3 DEF Faithful, World
<1>5. Reasoned(tx[r])'
  BY <1>2, <1>3 DEF Reasoned, World, Stage
<1> HIDE DEF t
<1> QED BY <1>2, <1>3, <1>4, <1>5, OneMoves

(* A request is over, whatever became of it. *)
LEMMA Finishes ==
  ASSUME SessionIInv, World, NEW r \in Place, Finish(r), row' \in {row, NONE}
  PROVE  SessionIInv'
<1>1. tx' = [tx EXCEPT ![r] = Idle] /\ tx'[r] = Idle
  BY DEF Finish, SessionIInv, SessionTypeOK
<1>2. row' \in Envelope \cup {NONE}
  BY DEF SessionIInv, SessionTypeOK
<1>3. row' # NONE => row' = row
  OBVIOUS
<1> QED BY <1>1, <1>2, <1>3, OneMoves

-----------------------------------------------------------------------------
(* One step for each action.  Reading the envelope. *)
LEMMA LoadStep ==
  ASSUME SessionIInv, NEW r \in Place, NEW choice \in Tenant \cup {NONE}, Load(r, choice)
  PROVE  SessionIInv'
<1> DEFINE t == [stage |-> FirstStage, choice |-> choice, envelope |-> row, began |-> now]
<1>1. /\ tx' = [tx EXCEPT ![r] = t]
      /\ row # NONE /\ UNCHANGED <<row, now, upstream, signedIn>>
  BY DEF Load
<1>2. /\ row \in Envelope /\ now \in Nat /\ Faithful(row) /\ until \in Nat
      /\ row.expires_at \in Nat
  BY <1>1 DEF SessionIInv, SessionTypeOK, Envelope
<1>3. FirstStage \in {"ending", "renewing", "verifying"}
  BY DEF FirstStage
<1>4. t \in Running
  BY <1>2, <1>3 DEF Running, Stage
<1>5. /\ FirstStage = "ending" => until <= now
      /\ FirstStage # "ending" => now < until
      /\ FirstStage = "renewing" => row.expires_at <= now + Window
  BY <1>2, <1>3 DEF FirstStage, Over, Spent, Faithful
<1>6. tx'[r] = t
  BY <1>1 DEF SessionIInv, SessionTypeOK
<1>7. World
  BY <1>1, WorldStands
<1>8. Faithful(tx[r].envelope)' /\ Reasoned(tx[r])'
  <2>1. Faithful(tx[r].envelope)'
    BY <1>1, <1>2, <1>6 DEF Faithful
  <2>2. Reasoned(tx[r])'
    BY <1>1, <1>2, <1>5, <1>6 DEF Reasoned, MayEnd, Faithful
  <2> QED BY <2>1, <2>2
<1> HIDE DEF t
<1> QED BY <1>1, <1>2, <1>4, <1>7, <1>8, OneMoves

(* The upstream exchanges the token. *)
LEMMA RenewStep ==
  ASSUME SessionIInv, NEW r \in Place, Renew(r)
  PROVE  SessionIInv'
<1> DEFINE e == tx[r].envelope
<1>1. PICK life \in TokenLives :
        tx' = [tx EXCEPT ![r].stage = "saving", ![r].envelope = Renewed(e, life)]
  BY DEF Renew
<1>2. /\ tx[r] \in Running /\ tx[r].stage = "renewing" /\ e \in Envelope
      /\ Faithful(e) /\ Reasoned(tx[r])
  BY RunningOne DEF Renew, Asks, At
<1>3. /\ upstream.token # NONE /\ upstream.client /\ Exchange
      /\ row' = row /\ now' = now /\ signedIn' = signedIn
  BY DEF Renew, Asks, Accepts
<1>4. /\ World /\ NextToken \in Nat /\ upstream'.token = NextToken
      /\ upstream'.rotates = upstream.rotates
  BY <1>3, WorldExchanges
<1> DEFINE f == Renewed(e, life)
           t == [tx[r] EXCEPT !.stage = "saving", !.envelope = f]
<1>5. /\ f \in Envelope
      /\ f.session_expires_at = e.session_expires_at /\ f.refresh = NextToken
  <2>1. now + life \in Nat
    BY TokenLivesAssumption DEF SessionIInv, SessionTypeOK
  <2> QED BY <1>2, <1>4, <2>1 DEF Renewed, Envelope
<1>6. t \in Running /\ t.stage = "saving" /\ t.envelope = f /\ t.began = tx[r].began
  <2> HIDE DEF f
  <2> QED BY <1>2, <1>5 DEF Running, Stage
<1>7. tx' = [tx EXCEPT ![r] = t] /\ tx'[r] = t
  BY <1>1 DEF SessionIInv, SessionTypeOK
<1>8. Faithful(tx[r].envelope)'
  <2>1. NextToken # NONE
    BY <1>4, NoneAssumption
  <2>2. f.session_expires_at = until' /\ upstream'.client
    BY <1>2, <1>3, <1>4, <1>5 DEF Faithful, World
  <2> HIDE DEF f, t
  <2> QED BY <1>4, <1>5, <1>6, <1>7, <2>1, <2>2 DEF Faithful
<1>9. Reasoned(tx[r])'
  <2> HIDE DEF f, t
  <2> QED BY <1>2, <1>3, <1>6, <1>7 DEF Reasoned
<1>10. row' \in Envelope \cup {NONE}
  BY <1>3 DEF SessionIInv, SessionTypeOK
<1> HIDE DEF t
<1> QED BY <1>3, <1>4, <1>6, <1>7, <1>8, <1>9, <1>10, OneMoves

(* What leads to the row being deleted. *)
LEMMA EndingStep ==
  ASSUME SessionIInv, NEW r \in Place,
         NothingToRenewWith(r) \/ RenewalRefused(r) \/ RenewalFaltered(r)
  PROVE  SessionIInv'
<1>1. /\ tx[r].stage = "renewing" /\ MoveTo(r, "ending")
      /\ row' = row /\ now' = now /\ signedIn' = signedIn
  BY DEF NothingToRenewWith, RenewalRefused, RenewalFaltered, Asks, At
<1>2. row' \in Envelope \cup {NONE}
  BY <1>1 DEF SessionIInv, SessionTypeOK
<1>3. Faithful(tx[r].envelope) /\ Reasoned(tx[r])
  BY <1>1, RunningOne
<1>4. World /\ (MayEnd \/ upstream.rotates \/ upstream.faltered)'
  <2>1. CASE NothingToRenewWith(r)
    <3>1. World /\ upstream' = upstream
      BY <1>1, <2>1, WorldStands DEF NothingToRenewWith
    <3>2. upstream.token = NONE
      BY <1>1, <1>3, <2>1 DEF NothingToRenewWith, Asks, At, Faithful
    <3>3. MayEnd
      BY <1>1, <1>3, <3>2 DEF Reasoned
    <3> QED BY <1>1, <3>1, <3>3 DEF MayEnd
  <2>2. CASE RenewalRefused(r)
    <3>1. World /\ upstream' = upstream
      BY <1>1, <2>2, WorldStands DEF RenewalRefused
    <3>2. ~upstream.alive \/ upstream.rotates \/ upstream.token = NONE
      BY <1>3, <2>2 DEF RenewalRefused, Asks, Accepts, Faithful
    <3> QED BY <1>1, <1>3, <3>1, <3>2 DEF MayEnd, Reasoned
  <2>3. CASE RenewalFaltered(r)
    <3>1. upstream' = [upstream EXCEPT !.faltered = TRUE] /\ upstream \in Upstream
      BY <2>3 DEF RenewalFaltered, SessionIInv, SessionTypeOK
    <3>2. /\ upstream' \in Upstream /\ upstream'.faltered
          /\ upstream'.alive = upstream.alive /\ upstream'.rotates = upstream.rotates
          /\ upstream'.token = upstream.token /\ upstream'.client = upstream.client
      BY <3>1 DEF Upstream
    <3> QED BY <1>1, <3>2 DEF World, SessionIInv, SessionTypeOK
  <2> QED BY <2>1, <2>2, <2>3
<1> QED BY <1>1, <1>2, <1>4, MovesOn DEF Stage

(* No usable answer, but perhaps an exchange. *)
LEMMA UnansweredStep ==
  ASSUME SessionIInv, NEW r \in Place, RenewalUnanswered(r)
  PROVE  SessionIInv'
<1>1. Finish(r) /\ row' = row /\ now' = now /\ signedIn' = signedIn
  BY DEF RenewalUnanswered
<1>2. CASE UNCHANGED upstream
  BY <1>1, <1>2, WorldStands, Finishes
<1>3. CASE Accepts(tx[r].envelope) /\ Exchange
  <2>1. upstream.token # NONE
    BY <1>3 DEF RenewalUnanswered, Asks, Accepts
  <2> QED BY <1>1, <1>3, <2>1, WorldExchanges, Finishes
<1> QED BY <1>2, <1>3 DEF RenewalUnanswered

(* Writing back the envelope that was renewed. *)
LEMMA SaveStep ==
  ASSUME SessionIInv, NEW r \in Place, Save(r)
  PROVE  SessionIInv'
<1>1. /\ tx[r].stage = "saving" /\ UpdateRow(tx[r].envelope) /\ MoveTo(r, "verifying")
      /\ UNCHANGED <<now, upstream, signedIn>>
  BY DEF Save, At
<1>2. tx[r].envelope \in Envelope /\ Faithful(tx[r].envelope) /\ Reasoned(tx[r])
  BY <1>1, RunningOne
<1>3. row' = NONE \/ row' = tx[r].envelope
  BY <1>1 DEF UpdateRow
<1>4. row' # NONE => Faithful(row)'
  BY <1>1, <1>2, <1>3 DEF Faithful
<1>5. tx[r].began < until
  BY <1>1, <1>2 DEF Reasoned
<1> QED BY <1>1, <1>2, <1>3, <1>4, <1>5, WorldStands, MovesOn DEF Stage

(* The tenant selected goes into the envelope. *)
LEMMA ChooseStep ==
  ASSUME SessionIInv, NEW r \in Place, Choose(r)
  PROVE  SessionIInv'
<1> DEFINE e == [tx[r].envelope EXCEPT !.tenant = tx[r].choice]
           t == [tx[r] EXCEPT !.stage = "choosing", !.envelope = e]
<1>1. /\ tx[r] \in Running /\ tx[r].stage = "verifying" /\ tx[r].choice # NONE
      /\ tx[r].envelope \in Envelope /\ Faithful(tx[r].envelope) /\ Reasoned(tx[r])
  BY RunningOne DEF Choose, At, Chooses
<1>2. tx[r].choice \in Tenant
  BY <1>1 DEF Running
<1>3. /\ e \in Envelope /\ e.session_expires_at = tx[r].envelope.session_expires_at
      /\ e.refresh = tx[r].envelope.refresh /\ e.expires_at = tx[r].envelope.expires_at
  BY <1>1, <1>2 DEF Envelope
<1>4. t \in Running /\ t.stage = "choosing" /\ t.envelope = e /\ t.began = tx[r].began
  <2> HIDE DEF e
  <2> QED BY <1>1, <1>2, <1>3 DEF Running, Stage
<1>5. /\ tx' = [tx EXCEPT ![r] = t] /\ tx'[r] = t
      /\ UNCHANGED <<row, now, upstream, signedIn>>
  BY DEF Choose, SessionIInv, SessionTypeOK
<1>6. Faithful(tx[r].envelope)'
  <2> HIDE DEF e, t
  <2> QED BY <1>1, <1>3, <1>4, <1>5 DEF Faithful
<1>7. Reasoned(tx[r])'
  <2> HIDE DEF e, t
  <2> QED BY <1>1, <1>4, <1>5 DEF Reasoned
<1>8. row' \in Envelope \cup {NONE}
  BY <1>5 DEF SessionIInv, SessionTypeOK
<1> HIDE DEF t
<1> QED BY <1>4, <1>5, <1>6, <1>7, <1>8, WorldStands, OneMoves

(* The row is there to be written. *)
LEMMA FindAgainStep ==
  ASSUME SessionIInv, NEW r \in Place, FindAgain(r)
  PROVE  SessionIInv'
<1> DEFINE t == [tx[r] EXCEPT !.stage = "storing"]
<1>1. /\ tx[r] \in Running /\ tx[r].stage = "choosing"
      /\ Faithful(tx[r].envelope) /\ Reasoned(tx[r])
  BY RunningOne DEF FindAgain, At
<1>2. /\ t \in Running /\ t.stage = "storing"
      /\ t.envelope = tx[r].envelope /\ t.began = tx[r].began
  BY <1>1 DEF Running, Stage
<1>3. /\ tx' = [tx EXCEPT ![r] = t] /\ tx'[r] = t
      /\ UNCHANGED <<row, now, upstream, signedIn>>
  BY DEF FindAgain, MoveTo, SessionIInv, SessionTypeOK
<1>4. Faithful(tx[r].envelope)'
  BY <1>1, <1>2, <1>3 DEF Faithful
<1>5. Reasoned(tx[r])'
  BY <1>1, <1>2, <1>3 DEF Reasoned
<1>6. row' \in Envelope \cup {NONE}
  BY <1>3 DEF SessionIInv, SessionTypeOK
<1> HIDE DEF t
<1> QED BY <1>2, <1>3, <1>4, <1>5, <1>6, WorldStands, OneMoves

(* Writing back the envelope with the tenant selected. *)
LEMMA StoreStep ==
  ASSUME SessionIInv, NEW r \in Place, Store(r)
  PROVE  SessionIInv'
<1>1. /\ tx[r].stage = "storing" /\ UpdateRow(tx[r].envelope)
      /\ tx' = [tx EXCEPT ![r] = Idle] /\ UNCHANGED <<now, upstream, signedIn>>
  BY DEF Store, At, Finish
<1>2. tx[r].envelope \in Envelope /\ Faithful(tx[r].envelope)
  BY <1>1, RunningOne
<1>3. row' = NONE \/ row' = tx[r].envelope
  BY <1>1 DEF UpdateRow
<1>4. row' # NONE => Faithful(row)'
  BY <1>1, <1>2, <1>3 DEF Faithful
<1>5. tx'[r] = Idle
  BY <1>1 DEF SessionIInv, SessionTypeOK
<1> QED BY <1>1, <1>2, <1>3, <1>4, <1>5, WorldStands, OneMoves

(* Signing out, the account, and time. *)
LEMMA OutsideStep ==
  ASSUME SessionIInv, SignOut \/ UpstreamEnds \/ Tick
  PROVE  SessionIInv'
<1>1. tx' = tx /\ row' \in {row, NONE} /\ World
  <2>1. CASE SignOut
    BY <2>1, WorldStands DEF SignOut
  <2>2. CASE UpstreamEnds
    <3>1. upstream' = [upstream EXCEPT !.alive = FALSE] /\ upstream \in Upstream
      BY <2>2 DEF UpstreamEnds, SessionIInv, SessionTypeOK
    <3>2. /\ upstream' \in Upstream /\ ~upstream'.alive
          /\ upstream'.faltered = upstream.faltered /\ upstream'.rotates = upstream.rotates
          /\ upstream'.token = upstream.token /\ upstream'.client = upstream.client
      BY <3>1 DEF Upstream
    <3> QED BY <2>2, <3>2 DEF UpstreamEnds, World, SessionIInv, SessionTypeOK
  <2>3. CASE Tick
    BY <2>3 DEF Tick, World, SessionIInv, SessionTypeOK, Upstream
  <2> QED BY <2>1, <2>2, <2>3
<1>2. SessionTypeOK'
  BY <1>1 DEF SessionIInv, SessionTypeOK, World
<1>3. (row # NONE => Faithful(row))'
  BY <1>1, WorldKeeps
<1>4. \A r \in Place : (tx[r] # Idle => Faithful(tx[r].envelope) /\ Reasoned(tx[r]))'
  BY <1>1, WorldKeeps
<1> QED BY <1>2, <1>3, <1>4 DEF SessionIInv

LEMMA SessionInvNext == SessionIInv /\ [SessionNext]_sessionVars => SessionIInv'
<1> SUFFICES ASSUME SessionIInv, [SessionNext]_sessionVars PROVE SessionIInv'
  OBVIOUS
<1>1. CASE UNCHANGED sessionVars
  BY <1>1 DEF sessionVars, SessionIInv, SessionTypeOK, Faithful, Reasoned, MayEnd
<1>2. ASSUME NEW r \in Place, End(r) \/ Leave(r)
      PROVE  SessionIInv'
  BY <1>2, WorldStands, Finishes DEF End, Leave
<1> QED BY <1>1, <1>2, LoadStep, RenewStep, EndingStep, UnansweredStep, SaveStep,
           ChooseStep, FindAgainStep, StoreStep, OutsideStep DEF SessionNext

THEOREM SessionInvariance == SessionSpec => []SessionIInv
BY SessionInvInit, SessionInvNext, PTL DEF SessionSpec

-----------------------------------------------------------------------------
(* The row, the requests, the clock and what is known of the upstream stay *)
(* in their types (auth.rs, SessionEnvelope).                              *)
THEOREM TypeCorrect == SessionSpec => []SessionTypeOK
<1>1. SessionIInv => SessionTypeOK
  BY DEF SessionIInv
<1> QED BY <1>1, SessionInvariance, PTL

(* No request that arrives after the end the session was signed in with is *)
(* served, however often the token was renewed meanwhile.                  *)
THEOREM EndStandsStill == SessionSpec => []ServedWithinLifetime
<1>1. SessionIInv => ServedWithinLifetime
  <2> SUFFICES ASSUME SessionIInv, NEW r \in Place,
                      tx[r].stage \in {"verifying", "choosing", "storing"}
               PROVE  tx[r].began < until
    BY DEF ServedWithinLifetime
  <2>1. Reasoned(tx[r])
    BY RunningOne
  <2> QED BY <2>1 DEF Reasoned
<1> QED BY <1>1, SessionInvariance, PTL

(* No write under way brings back a session that was signed out: each is   *)
(* an UPDATE, which finds nothing.                                         *)
THEOREM SignedOutForGood == SessionSpec => SignedOutStaysOut
<1>1. [SessionNext]_sessionVars => [row = NONE => row' = NONE]_sessionVars
  BY DEF SessionNext, sessionVars, Load, Renew, NothingToRenewWith, RenewalRefused, RenewalFaltered,
         RenewalUnanswered, Save, End, Choose, FindAgain, Store, Leave,
         SignOut, UpstreamEnds, Tick, UpdateRow
<1> QED BY <1>1, PTL DEF SessionSpec, SignedOutStaysOut

(* A session whose row goes without signing out is over, or its account    *)
(* is, or Cognito takes no refresh token for it (none was given, the one   *)
(* given is the issuer's, or the deployment has no client) and the token   *)
(* it was signed in with is within the window of its end, or the upstream  *)
(* had rotated a token or faltered.                                        *)
THEOREM NobodyThrownOut == SessionSpec => EndsForAReason
<1> DEFINE Reason == SignOut \/ MayEnd \/ upstream.rotates \/ upstream.faltered
<1>1. SessionIInv /\ [SessionNext]_sessionVars => [row # NONE /\ row' = NONE => Reason]_sessionVars
  <2> SUFFICES ASSUME SessionIInv, SessionNext, row # NONE, row' = NONE PROVE Reason
    BY DEF sessionVars
  <2>1. ASSUME NEW r \in Place, End(r)
        PROVE  Reason
    BY <2>1, RunningOne DEF End, At, Reasoned
  <2>2. ASSUME NEW r \in Place, Save(r) \/ Store(r)
        PROVE  FALSE
    <3>1. tx[r].envelope \in Envelope /\ UpdateRow(tx[r].envelope)
      BY <2>2, RunningOne DEF Save, Store, At
    <3> QED BY <3>1, Distinct DEF UpdateRow
  <2>3. ASSUME NEW r \in Place, row' = row
        PROVE  FALSE
    BY <2>3
  <2> HIDE DEF Reason
  <2>4. SignOut => Reason
    BY DEF Reason
  <2> QED BY <2>1, <2>2, <2>4
        DEF SessionNext, Load, Renew, NothingToRenewWith, RenewalRefused, RenewalFaltered,
            RenewalUnanswered, Choose, FindAgain, Leave, UpstreamEnds, Tick
<1> QED BY <1>1, SessionInvariance, PTL DEF SessionSpec, EndsForAReason

HIDE DEF signedIn

-----------------------------------------------------------------------------
(* Tokens.  Nothing is asked for or issued yet.                            *)
LEMMA InvInit == Init => IInv
<1> SUFFICES ASSUME Init PROVE IInv
  OBVIOUS
<1>1. TypeOK
  BY DEF Init, ConnInit, TypeOK, ConnTypeOK, ConnectionRow, ConnectionStatus
<1>2. Issued = {} /\ click = {} /\ replayed = {}
  BY DEF Init, Issued
<1> QED
  BY <1>1, <1>2
     DEF IInv, CodeNamesFamily, RequestIsSpent, PressedWithinRequest, ReplayedExists,
         OneCodePerRequest, OneSuccessor, LiveIsDelegated, NeverWider, ReplayedIsDead,
         Live, CanContinue

(* The part of the invariant about the delegation row and the presses does *)
(* not look at the rest: a step that leaves the grants alone keeps it when *)
(* it revokes nothing, un-consumes no request and changes no scopes asked. *)
LEMMA GrantsKept ==
  ASSUME IInv, UNCHANGED <<grant, replayed>>, ConnTypeOK', click' \subseteq Click,
         request' \in [Request -> RequestRow \cup {NULL}],
         \A k \in Connection : conn[k].status = "active" => conn'[k].status = "active",
         \A q \in Request : request[q] # NULL =>
            /\ request'[q] # NULL
            /\ request'[q].scopes = request[q].scopes
            /\ request[q].consumed => request'[q].consumed,
         \A d \in click' : request[d.request] # NULL /\ d.scopes \subseteq request[d.request].scopes
  PROVE  IInv'
<1> USE DEF IInv
<1>1. TypeOK'
  BY DEF TypeOK
<1>2. Issued' = Issued
  BY DEF Issued
<1>3. \A g \in Issued : grant[g] \in GrantRow /\ g \in Grant
  BY DEF Issued, TypeOK
<1>4. CodeNamesFamily' /\ ReplayedExists' /\ OneCodePerRequest' /\ OneSuccessor' /\ ReplayedIsDead'
  BY <1>2 DEF CodeNamesFamily, ReplayedExists, OneCodePerRequest, OneSuccessor, ReplayedIsDead,
              CanContinue, Live, Family
<1>5. RequestIsSpent'
  BY <1>2, <1>3 DEF RequestIsSpent, GrantRow
<1>6. PressedWithinRequest'
  <2>1. \A d \in click' : d.request \in Request
    BY DEF Click
  <2> QED BY <2>1 DEF PressedWithinRequest
<1>7. LiveIsDelegated'
  BY <1>2, <1>3 DEF LiveIsDelegated, Live, GrantRow
<1>8. NeverWider'
  BY <1>2, <1>3 DEF NeverWider, RequestIsSpent, GrantRow
<1> QED BY <1>1, <1>4, <1>5, <1>6, <1>7, <1>8

(* Grants are used up, taken or run out; those of a delegation that stops  *)
(* being active are all among them.                                        *)
LEMMA GrantsWither ==
  ASSUME IInv, UNCHANGED <<request, click>>, ConnTypeOK',
         grant' \in [Grant -> GrantRow \cup {NULL}],
         \A g \in Grant : grant[g] = NULL => grant'[g] = NULL,
         \A g \in Issued :
            /\ grant'[g] # NULL
            /\ grant'[g].conn = grant[g].conn
            /\ grant'[g].scopes = grant[g].scopes
            /\ grant'[g].chain = grant[g].chain
            /\ grant'[g].request = grant[g].request
            /\ grant[g].consumed => grant'[g].consumed,
         \A g \in Issued : ~grant'[g].consumed => conn'[grant[g].conn].status = "active",
         replayed' \subseteq Issued \cap Code,
         \A c \in replayed' \ replayed : \A g \in Family(c) : grant'[g].consumed
  PROVE  IInv'
<1> USE DEF IInv
<1>1. TypeOK'
  BY DEF TypeOK
<1>2. Issued' = Issued
  BY DEF Issued
<1>3. \A g \in Issued : grant[g] \in GrantRow /\ g \in Grant
  BY DEF Issued, TypeOK
<1>4. \A g \in Grant : Live(g)' => Live(g)
  BY <1>2 DEF Live
<1>5. CodeNamesFamily' /\ RequestIsSpent' /\ PressedWithinRequest' /\ ReplayedExists'
      /\ OneCodePerRequest'
  BY <1>2 DEF CodeNamesFamily, RequestIsSpent, PressedWithinRequest, ReplayedExists,
              OneCodePerRequest
<1>6. OneSuccessor'
  BY <1>2, <1>3, <1>4 DEF OneSuccessor, CanContinue, Live
<1>7. LiveIsDelegated'
  BY <1>2, <1>3 DEF LiveIsDelegated, Live
<1>8. NeverWider'
  BY <1>2 DEF NeverWider
<1>9. ReplayedIsDead'
  <2>1. \A c \in Code : Family(c)' = Family(c)
    BY <1>2 DEF Family
  <2>2. \A c \in Code : \A g \in Family(c) : g \in Grant /\ g \in Issued
    BY <1>3 DEF Family
  <2>3. \A c \in replayed' : c \in Code
    OBVIOUS
  <2> QED BY <1>2, <1>4, <2>1, <2>2, <2>3 DEF ReplayedIsDead, Live
<1> QED BY <1>1, <1>5, <1>6, <1>7, <1>8, <1>9

(* Using up a set of grants. *)
LEMMA ConsumedShape ==
  ASSUME TypeOK, NEW gone
  PROVE  /\ Consumed(gone) \in [Grant -> GrantRow \cup {NULL}]
         /\ \A g \in Grant \ Issued : Consumed(gone)[g] = NULL
         /\ \A g \in Issued :
               /\ Consumed(gone)[g] # NULL
               /\ Consumed(gone)[g].conn = grant[g].conn
               /\ Consumed(gone)[g].scopes = grant[g].scopes
               /\ Consumed(gone)[g].chain = grant[g].chain
               /\ Consumed(gone)[g].request = grant[g].request
               /\ grant[g].consumed => Consumed(gone)[g].consumed
               /\ g \in gone => Consumed(gone)[g].consumed
               /\ g \notin gone => Consumed(gone)[g] = grant[g]
<1>1. \A g \in Grant \ Issued : Consumed(gone)[g] = NULL
  BY DEF Consumed, Issued
<1>2. ASSUME NEW g \in Issued
      PROVE  /\ Consumed(gone)[g] \in GrantRow
             /\ Consumed(gone)[g].conn = grant[g].conn
             /\ Consumed(gone)[g].scopes = grant[g].scopes
             /\ Consumed(gone)[g].chain = grant[g].chain
             /\ Consumed(gone)[g].request = grant[g].request
             /\ grant[g].consumed => Consumed(gone)[g].consumed
             /\ g \in gone => Consumed(gone)[g].consumed
             /\ g \notin gone => Consumed(gone)[g] = grant[g]
  <2>1. g \in Grant /\ grant[g] \in GrantRow
    BY DEF Issued, TypeOK
  <2>2. Consumed(gone)[g] = IF g \in gone THEN [grant[g] EXCEPT !.consumed = TRUE] ELSE grant[g]
    BY <2>1 DEF Consumed
  <2> QED BY <2>1, <2>2 DEF GrantRow
<1>3. \A g \in Grant : Consumed(gone)[g] \in GrantRow \cup {NULL}
  BY <1>1, <1>2
<1>4. Consumed(gone) \in [Grant -> GrantRow \cup {NULL}]
  BY <1>3 DEF Consumed
<1> QED BY <1>1, <1>2, <1>4, NullAssumption

(* The person's decision: the request is spent, the family begins. *)
LEMMA AllowStep ==
  ASSUME IInv, NEW d \in Click, NEW g \in Code, Allow(d, g)
  PROVE  IInv'
<1> USE DEF IInv
<1> DEFINE entry == NewCode(d, g)
           q == d.request
<1>1. /\ d \in click /\ q \in Request /\ d.conn \in Connection /\ d.scopes \in ScopeChoices
      /\ request[q] \in RequestRow /\ ~request[q].consumed /\ d.scopes \subseteq request[q].scopes
  BY DEF Allow, Click, LiveRequest, TypeOK, PressedWithinRequest
<1>2. /\ entry.chain = g /\ entry.conn = d.conn /\ entry.scopes = d.scopes /\ entry.request = q
      /\ ~entry.consumed /\ entry \in GrantRow
  BY <1>1, ScopeAssumption DEF NewCode, GrantRow
<1>3. entry # NULL
  <2> HIDE DEF entry
  <2> QED BY <1>2, NullAssumption
<1>4. /\ grant' = [grant EXCEPT ![g] = entry] /\ grant[g] = NULL /\ g \in Grant
      /\ click' = click \ {d} /\ replayed' = replayed
      /\ GrantFromConsent(d.conn, d.scopes) /\ ConsumeRequest(q)
  BY DEF Allow, Unused, Grant
<1> HIDE DEF entry
<1>5. /\ grant'[g] = entry /\ \A h \in Grant \ {g} : grant'[h] = grant[h]
  BY <1>4 DEF TypeOK
<1>6. Issued' = Issued \cup {g} /\ g \notin Issued
  BY <1>3, <1>4, <1>5 DEF Issued
<1>7. \A h \in Issued : grant[h] \in GrantRow /\ h \in Grant /\ h # g
  BY <1>6 DEF Issued, TypeOK
<1>8. /\ request'[q] = [request[q] EXCEPT !.consumed = TRUE]
      /\ \A o \in Request \ {q} : request'[o] = request[o]
      /\ request' \in [Request -> RequestRow \cup {NULL}]
  BY <1>1, <1>4 DEF ConsumeRequest, TypeOK, RequestRow
<1>9. \A o \in Request : request[o] # NULL =>
         /\ request'[o] # NULL /\ request'[o].scopes = request[o].scopes
         /\ request[o].consumed => request'[o].consumed
  <2>1. request'[q] \in RequestRow /\ request'[q].scopes = request[q].scopes
    BY <1>1, <1>8 DEF RequestRow
  <2>2. request'[q] # NULL
    BY <2>1, NullAssumption
  <2> QED BY <1>1, <1>8, <2>1, <2>2
<1>10. request'[q].consumed
  BY <1>1, <1>8 DEF RequestRow
<1>11. /\ ConnTypeOK' /\ conn'[d.conn].status = "active"
       /\ \A k \in Connection : conn[k].status = "active" => conn'[k].status = "active"
  BY <1>1, <1>4, ScopeAssumption
     DEF GrantFromConsent, SetConnection, TypeOK, ConnTypeOK, ConnectionRow, ConnectionStatus
<1>12. TypeOK'
  BY <1>2, <1>4, <1>8, <1>11 DEF TypeOK
<1>13. \A h \in Issued : grant[h].request # q
  BY <1>1 DEF RequestIsSpent
<1>14. \A h \in Issued : grant[h].chain # g
  BY <1>6 DEF NeverWider
<1>15. CodeNamesFamily'
  BY <1>2, <1>5, <1>6, <1>7 DEF CodeNamesFamily
<1>16. RequestIsSpent'
  BY <1>2, <1>5, <1>6, <1>7, <1>9, <1>10, <1>1 DEF RequestIsSpent, GrantRow
<1>17. PressedWithinRequest'
  BY <1>4, <1>9 DEF PressedWithinRequest, TypeOK, Click
<1>18. ReplayedExists'
  BY <1>4, <1>6 DEF ReplayedExists
<1>19. OneCodePerRequest'
  BY <1>2, <1>5, <1>6, <1>7, <1>13 DEF OneCodePerRequest
<1>20. OneSuccessor'
  <2>1. \A h \in Issued : CanContinue(h)' <=> CanContinue(h)
    BY <1>5, <1>6, <1>7 DEF CanContinue, Live
  <2> QED BY <1>2, <1>5, <1>6, <1>7, <1>14, <2>1 DEF OneSuccessor
<1>21. LiveIsDelegated'
  <2> SUFFICES ASSUME NEW h \in Grant, Live(h)' PROVE conn'[grant'[h].conn].status = "active"
    BY DEF LiveIsDelegated
  <2>1. CASE h = g
    BY <1>2, <1>5, <1>11, <2>1
  <2>2. CASE h # g
    <3>1. Live(h) /\ grant'[h] = grant[h] /\ grant[h] \in GrantRow
      BY <1>5, <1>6, <1>7, <2>2 DEF Live
    <3> QED BY <1>11, <3>1 DEF LiveIsDelegated, GrantRow
  <2> QED BY <2>1, <2>2
<1>22. NeverWider'
  <2> SUFFICES ASSUME NEW h \in Issued'
               PROVE  /\ grant'[h].chain \in Issued'
                      /\ grant'[h].scopes \subseteq grant'[grant'[h].chain].scopes
                      /\ grant'[h].scopes \subseteq request'[grant'[h].request].scopes
    BY DEF NeverWider
  <2>1. CASE h = g
    BY <1>1, <1>2, <1>5, <1>6, <1>9, <2>1, NullAssumption
  <2>2. CASE h \in Issued
    <3>1. /\ grant'[h] = grant[h] /\ grant[h].chain \in Issued
          /\ grant'[grant[h].chain] = grant[grant[h].chain]
          /\ grant[h].request \in Request
      BY <1>5, <1>7, <2>2 DEF NeverWider, GrantRow
    <3>2. request'[grant[h].request].scopes = request[grant[h].request].scopes
      BY <1>9, <2>2, <3>1 DEF RequestIsSpent
    <3> QED BY <1>6, <2>2, <3>1, <3>2 DEF NeverWider
  <2> QED BY <1>6, <2>1, <2>2
<1>23. ReplayedIsDead'
  <2> SUFFICES ASSUME NEW c \in replayed, NEW h \in Family(c)' PROVE ~Live(h)'
    BY <1>4 DEF ReplayedIsDead
  <2>1. h \in Issued' /\ grant'[h].chain = c /\ c \in Issued
    BY DEF Family, ReplayedExists
  <2>2. h \in Issued /\ h # g
    BY <1>2, <1>5, <1>6, <2>1
  <2>3. grant'[h] = grant[h] /\ h \in Family(c)
    BY <1>5, <1>7, <2>1, <2>2 DEF Family
  <2> QED BY <2>2, <2>3 DEF ReplayedIsDead, Live
<1> QED BY <1>12, <1>15, <1>16, <1>17, <1>18, <1>19, <1>20, <1>21, <1>22, <1>23

(* A code or a refresh token is used up and a pair takes its place. *)
LEMMA IssueStep ==
  ASSUME IInv, NEW g \in Code \cup Renewal, NEW a \in Access, NEW r \in Renewal,
         NEW scopes \in (SUBSET Scope) \ {{}}, Live(g), scopes \subseteq grant[g].scopes,
         Issue(g, scopes, a, r), UNCHANGED <<conn, request, click, replayed>>
  PROVE  IInv'
<1> USE DEF IInv
<1> DEFINE entry == Token(g, scopes)
<1>1. g \in Grant /\ g \in Issued /\ grant[g] \in GrantRow /\ a \in Grant /\ r \in Grant
  BY DEF Live, Issued, TypeOK, Grant
<1>2. /\ entry.chain = grant[g].chain /\ entry.conn = grant[g].conn /\ entry.scopes = scopes
      /\ entry.request = grant[g].request /\ ~entry.consumed /\ entry \in GrantRow
  BY <1>1 DEF Token, GrantRow
<1>3. entry # NULL
  <2> HIDE DEF entry
  <2> QED BY <1>2, NullAssumption
<1>4. grant[a] = NULL /\ grant[r] = NULL /\ a # r /\ a # g /\ r # g /\ a \notin Code \cup Renewal
      /\ r \notin Code
  BY <1>1, KindAssumption DEF Issue, Unused, Issued
<1>5. /\ grant' = [grant EXCEPT ![g].consumed = TRUE, ![a] = entry, ![r] = entry]
  BY DEF Issue
<1> HIDE DEF entry
<1>6. /\ grant'[a] = entry /\ grant'[r] = entry
      /\ grant'[g] = [grant[g] EXCEPT !.consumed = TRUE]
      /\ \A h \in Grant \ {g, a, r} : grant'[h] = grant[h]
  BY <1>1, <1>4, <1>5 DEF TypeOK
<1>7. /\ grant'[g] \in GrantRow /\ grant'[g].consumed
      /\ grant'[g].chain = grant[g].chain /\ grant'[g].conn = grant[g].conn
      /\ grant'[g].scopes = grant[g].scopes /\ grant'[g].request = grant[g].request
  BY <1>1, <1>6 DEF GrantRow
<1>8. Issued' = Issued \cup {a, r} /\ a \notin Issued /\ r \notin Issued
  BY <1>1, <1>3, <1>4, <1>6, <1>7, NullAssumption DEF Issued
<1>9. \A h \in Issued : /\ h \in Grant
                        /\ grant[h] \in GrantRow
                        /\ grant'[h].chain = grant[h].chain /\ grant'[h].conn = grant[h].conn
                        /\ grant'[h].scopes = grant[h].scopes
                        /\ grant'[h].request = grant[h].request
                        /\ Live(h)' => Live(h) /\ h # g
  BY <1>6, <1>7, <1>8 DEF Issued, Live, TypeOK
<1>10. TypeOK'
  <2>1. \A h \in Grant : grant'[h] \in GrantRow \cup {NULL}
    BY <1>2, <1>6, <1>7 DEF TypeOK
  <2>2. grant' = [h \in Grant |-> grant'[h]]
    BY <1>5 DEF TypeOK
  <2>3. grant' \in [Grant -> GrantRow \cup {NULL}]
    BY <2>1, <2>2
  <2> QED BY <2>3 DEF TypeOK, ConnTypeOK
<1>11. CodeNamesFamily' /\ PressedWithinRequest' /\ ReplayedExists'
  BY <1>4, <1>8, <1>9 DEF CodeNamesFamily, PressedWithinRequest, ReplayedExists
<1>12. RequestIsSpent' /\ OneCodePerRequest'
  BY <1>1, <1>2, <1>6, <1>8, <1>9 DEF RequestIsSpent, OneCodePerRequest
<1>13. OneSuccessor'
  <2>1. CanContinue(g) /\ \A h \in Issued : CanContinue(h)' => CanContinue(h) /\ h # g
    BY <1>9 DEF CanContinue
  <2>2. \A h \in Issued : CanContinue(h)' => grant[h].chain # grant[g].chain
    BY <1>1, <2>1 DEF OneSuccessor
  <2>3. ~CanContinue(a)'
    BY <1>4 DEF CanContinue
  <2> QED BY <1>2, <1>6, <1>8, <1>9, <2>1, <2>2, <2>3 DEF OneSuccessor
<1>14. LiveIsDelegated'
  <2>1. conn[grant[g].conn].status = "active"
    BY <1>1 DEF LiveIsDelegated
  <2>2. \A h \in Issued : Live(h) => conn[grant[h].conn].status = "active"
    BY <1>9 DEF LiveIsDelegated
  <2> QED BY <1>2, <1>6, <1>8, <1>9, <2>1, <2>2 DEF LiveIsDelegated, Live
<1>15. NeverWider'
  <2>1. \A h \in Issued : /\ grant[h].chain \in Issued
                          /\ grant[h].scopes \subseteq grant[grant[h].chain].scopes
                          /\ grant[h].scopes \subseteq request[grant[h].request].scopes
    BY DEF NeverWider
  <2>2. \A h \in {a, r} : /\ grant'[h].chain = grant[g].chain
                          /\ grant'[h].scopes \subseteq grant[g].scopes
                          /\ grant'[h].request = grant[g].request
    BY <1>2, <1>6
  <2> QED BY <1>1, <1>8, <1>9, <2>1, <2>2 DEF NeverWider
<1>16. ReplayedIsDead'
  <2> SUFFICES ASSUME NEW c \in replayed, NEW h \in Family(c)' PROVE ~Live(h)'
    BY DEF ReplayedIsDead
  <2>1. grant[g].chain # c
    BY <1>1 DEF ReplayedIsDead, Family
  <2>2. h \in Issued /\ h \in Family(c)
    BY <1>2, <1>6, <1>8, <1>9, <2>1 DEF Family
  <2> QED BY <1>9, <2>2 DEF ReplayedIsDead
<1> QED BY <1>10, <1>11, <1>12, <1>13, <1>14, <1>15, <1>16

-----------------------------------------------------------------------------
(* No step breaks the invariant. *)
LEMMA InvStep == IInv /\ [Next]_vars => IInv'
<1> SUFFICES ASSUME IInv, [Next]_vars PROVE IInv'
  OBVIOUS
<1> USE DEF IInv
<1>1. ASSUME NEW q \in Request, NEW scopes \in ScopeChoices, BeginAuthorization(q, scopes)
      PROVE  IInv'
  <2> DEFINE entry == [scopes |-> scopes, consumed |-> FALSE, expired |-> FALSE]
  <2>1. entry \in RequestRow
    BY DEF RequestRow
  <2>2. request[q] = NULL /\ request' = [request EXCEPT ![q] = entry]
        /\ UNCHANGED <<conn, click, grant, replayed>>
    BY <1>1 DEF BeginAuthorization
  <2> HIDE DEF entry
  <2>3. request' \in [Request -> RequestRow \cup {NULL}]
    BY <2>1, <2>2 DEF TypeOK
  <2>4. \A o \in Request : request[o] # NULL => request'[o] = request[o]
    BY <2>2 DEF TypeOK
  <2> QED BY <2>2, <2>3, <2>4, GrantsKept DEF PressedWithinRequest, TypeOK, ConnTypeOK
<1>2. ASSUME NEW q \in Request, request[q] # NULL, NEW entry \in RequestRow,
             entry.scopes = request[q].scopes, request[q].consumed => entry.consumed,
             request' = [request EXCEPT ![q] = entry], UNCHANGED <<conn, click, grant, replayed>>
      PROVE  IInv'
  <2>1. request' \in [Request -> RequestRow \cup {NULL}]
    BY <1>2 DEF TypeOK
  <2>2. \A o \in Request : request[o] # NULL =>
           /\ request'[o] # NULL
           /\ request'[o].scopes = request[o].scopes
           /\ request[o].consumed => request'[o].consumed
    BY <1>2, NullAssumption DEF TypeOK
  <2> QED BY <1>2, <2>1, <2>2, GrantsKept DEF PressedWithinRequest, TypeOK, ConnTypeOK
<1>3. ASSUME NEW q \in Request, Deny(q) \/ ExpireRequest(q) PROVE IInv'
  <2>1. request[q] \in RequestRow /\ request[q] # NULL /\ ~request[q].consumed
    BY <1>3 DEF Deny, ExpireRequest, LiveRequest, TypeOK
  <2>2. PICK entry \in RequestRow : entry.scopes = request[q].scopes
                                  /\ request' = [request EXCEPT ![q] = entry]
    <3>1. /\ [request[q] EXCEPT !.consumed = TRUE] \in RequestRow
          /\ [request[q] EXCEPT !.expired = TRUE] \in RequestRow
          /\ [request[q] EXCEPT !.consumed = TRUE].scopes = request[q].scopes
          /\ [request[q] EXCEPT !.expired = TRUE].scopes = request[q].scopes
      BY <2>1 DEF RequestRow
    <3>2. \/ request' = [request EXCEPT ![q] = [request[q] EXCEPT !.consumed = TRUE]]
          \/ request' = [request EXCEPT ![q] = [request[q] EXCEPT !.expired = TRUE]]
      BY <1>3 DEF Deny, ConsumeRequest, ExpireRequest, TypeOK
    <3> QED BY <3>1, <3>2
  <2>3. UNCHANGED <<conn, click, grant, replayed>>
    BY <1>3 DEF Deny, ExpireRequest
  <2> QED BY <1>2, <2>1, <2>2, <2>3
<1>4. ASSUME NEW d \in Click, Press(d) PROVE IInv'
  <2>1. /\ request[d.request] # NULL /\ d.scopes \subseteq request[d.request].scopes
        /\ click' = click \cup {d} /\ UNCHANGED <<request, grant, replayed>>
    BY <1>4 DEF Press, LiveRequest
  <2>2. ConnTypeOK' /\ \A k \in Connection : conn[k].status = "active" => conn'[k].status = "active"
    BY <1>4 DEF Press, EnsurePending, SetConnection, TypeOK, ConnTypeOK, ConnectionRow,
                ConnectionStatus
  <2> QED BY <2>1, <2>2, GrantsKept DEF PressedWithinRequest, TypeOK
<1>5. ASSUME NEW d \in Click, Abandon(d) PROVE IInv'
  BY <1>5, GrantsKept DEF Abandon, PressedWithinRequest, TypeOK, ConnTypeOK
<1>6. ASSUME NEW d \in Click, NEW g \in Code, Allow(d, g) PROVE IInv'
  BY <1>6, AllowStep
<1>7. ASSUME NEW g \in Code, NEW a \in Access, NEW r \in Renewal, ExchangeCode(g, a, r)
      PROVE  IInv'
  <2>1. grant[g].scopes \in (SUBSET Scope) \ {{}}
    BY <1>7 DEF ExchangeCode, Live, Issued, TypeOK, GrantRow
  <2> QED BY <1>7, <2>1, IssueStep DEF ExchangeCode
<1>8. ASSUME NEW g \in Renewal, NEW a \in Access, NEW r \in Renewal, Refresh(g, a, r)
      PROVE  IInv'
  <2>1. Narrowed(g) \in (SUBSET Scope) \ {{}} /\ Narrowed(g) \subseteq grant[g].scopes
    BY <1>8 DEF Refresh, Narrowed, Live, Issued, TypeOK, GrantRow
  <2> QED BY <1>8, <2>1, IssueStep DEF Refresh
<1>9. ASSUME NEW gone, grant' = Consumed(gone), UNCHANGED <<request, click>>, ConnTypeOK',
             \A g \in Issued \ gone : conn'[grant[g].conn] = conn[grant[g].conn],
             replayed' \subseteq Issued \cap Code,
             \A c \in replayed' \ replayed : Family(c) \subseteq gone
      PROVE  IInv'
  <2>1. \A g \in Issued : ~grant'[g].consumed =>
           conn'[grant[g].conn].status = "active" /\ g \notin gone
    BY <1>9, ConsumedShape DEF LiveIsDelegated, Live, Issued
  <2>2. \A c \in replayed' \ replayed : \A g \in Family(c) : grant'[g].consumed
    BY <1>9, ConsumedShape DEF Family
  <2>3. \A g \in Grant : grant[g] = NULL => grant'[g] = NULL
    BY <1>9, ConsumedShape DEF Issued
  <2> QED BY <1>9, <2>1, <2>2, <2>3, ConsumedShape, GrantsWither
<1>10. ASSUME NEW g \in Code \cup Renewal, Replay(g) PROVE IInv'
  <2>1. grant[g].chain \in Issued \cap Code
    BY <1>10 DEF Replay, NeverWider, Issued, TypeOK, GrantRow
  <2>2. /\ grant' = Consumed(Family(grant[g].chain)) /\ replayed' = replayed \cup {grant[g].chain}
        /\ UNCHANGED <<conn, request, click>>
    BY <1>10 DEF Replay, RevokedByReplay
  <2> QED BY <1>9, <2>1, <2>2 DEF ReplayedExists, TypeOK, ConnTypeOK
<1>11. ASSUME NEW g \in Access \cup Renewal, RevokeToken(g) PROVE IInv'
  BY <1>9, <1>11 DEF RevokeToken, ReplayedExists, TypeOK, ConnTypeOK
<1>12. ASSUME NEW g \in Code \cup Renewal, ExpireGrant(g) PROVE IInv'
  <2>1. g \in Grant /\ grant[g] \in GrantRow /\ ~grant[g].consumed
    BY <1>12 DEF ExpireGrant, Live, Issued, TypeOK, Grant
  <2> DEFINE entry == [grant[g] EXCEPT !.expired = TRUE]
  <2>2. /\ entry \in GrantRow /\ entry.conn = grant[g].conn /\ entry.scopes = grant[g].scopes
        /\ entry.chain = grant[g].chain /\ entry.request = grant[g].request /\ ~entry.consumed
    BY <2>1 DEF GrantRow
  <2>3. grant' = [grant EXCEPT ![g] = entry] /\ UNCHANGED <<conn, request, click, replayed>>
    BY <1>12, <2>1 DEF ExpireGrant, TypeOK
  <2> HIDE DEF entry
  <2>4. grant'[g] = entry /\ entry # NULL /\ \A h \in Grant \ {g} : grant'[h] = grant[h]
    BY <2>1, <2>2, <2>3, NullAssumption DEF TypeOK
  <2>5. grant' \in [Grant -> GrantRow \cup {NULL}]
    BY <2>2, <2>3 DEF TypeOK
  <2>6. \A h \in Grant : grant[h] = NULL => grant'[h] = NULL
    BY <1>12, <2>4 DEF ExpireGrant, Live, Issued
  <2>7. \A h \in Issued : ~grant'[h].consumed => conn'[grant[h].conn].status = "active"
    BY <2>1, <2>2, <2>3, <2>4 DEF LiveIsDelegated, Live, Issued
  <2>8. replayed' \subseteq Issued \cap Code
    BY <2>3 DEF ReplayedExists, TypeOK
  <2>9. \A h \in Issued : h \in Grant
    BY DEF Issued
  <2>10. \A h \in Issued : /\ grant'[h] # NULL
                           /\ grant'[h].conn = grant[h].conn
                           /\ grant'[h].scopes = grant[h].scopes
                           /\ grant'[h].chain = grant[h].chain
                           /\ grant'[h].request = grant[h].request
                           /\ grant[h].consumed => grant'[h].consumed
    BY <2>1, <2>2, <2>4, <2>9 DEF Issued
  <2> QED BY <2>3, <2>5, <2>6, <2>7, <2>8, <2>10, GrantsWither DEF TypeOK, ConnTypeOK
<1>13. ASSUME NEW k \in Connection, Approve(k) PROVE IInv'
  <2>1. ConnTypeOK' /\ \A j \in Connection : conn[j].status = "active" => conn'[j].status = "active"
    BY <1>13, ScopeAssumption
       DEF Approve, ApproveConnection, SetConnection, TypeOK, ConnTypeOK, ConnectionRow,
           ConnectionStatus
  <2> QED BY <1>13, <2>1, GrantsKept DEF Approve, PressedWithinRequest, TypeOK
<1>14. ASSUME NEW k \in Connection, Disconnect(k) PROVE IInv'
  <2>1. ConnTypeOK' /\ \A j \in Connection \ {k} : conn'[j] = conn[j]
    BY <1>14 DEF Disconnect, RevokeConnection, SetConnection, TypeOK, ConnTypeOK, ConnectionRow,
                 ConnectionStatus
  <2>2. \A g \in Issued \ GrantsOf(k) : conn'[grant[g].conn] = conn[grant[g].conn]
    BY <2>1 DEF GrantsOf, Issued, TypeOK, GrantRow
  <2>3. replayed \subseteq Issued \cap Code
    BY DEF ReplayedExists, TypeOK
  <2> QED BY <1>9, <1>14, <2>1, <2>2, <2>3 DEF Disconnect
<1>15. CASE UNCHANGED vars
  BY <1>15, GrantsKept DEF vars, PressedWithinRequest, TypeOK, ConnTypeOK
<1> QED
  BY <1>1, <1>3, <1>4, <1>5, <1>6, <1>7, <1>8, <1>10, <1>11, <1>12, <1>13, <1>14, <1>15 DEF Next

(* The invariant holds of every reachable state. *)
THEOREM Invariance == Spec => []IInv
  BY InvInit, InvStep, PTL DEF Spec

(* One decision yields one code. *)
THEOREM DecidedOnce == Spec => []OneCodePerRequest
  BY Invariance, PTL DEF IInv

(* One holder of a family can go on. *)
THEOREM RotationLeavesOne == Spec => []OneSuccessor
  BY Invariance, PTL DEF IInv

(* Nothing live stands for a delegation that is not active. *)
THEOREM DisconnectedIsDead == Spec => []LiveIsDelegated
  BY Invariance, PTL DEF IInv

(* No token is wider than the decision it descends from. *)
THEOREM ConsentBoundsTokens == Spec => []NeverWider
  BY Invariance, PTL DEF IInv

(* A replay ends a family for good. *)
THEOREM ReplayEndsFamily == Spec => []ReplayedIsDead
  BY Invariance, PTL DEF IInv
=============================================================================
