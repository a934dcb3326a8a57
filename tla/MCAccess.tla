------------------------------ MODULE MCAccess ------------------------------
(* A small instance of Sessions and OAuthGrants for TLC: the two ways into *)
(* the server.  They share no state, so what one of them may do is looked  *)
(* at while the other stands still: a person who is signed in while no     *)
(* client has asked for anything, or clients while nobody is signed in.    *)
EXTENDS Sessions, OAuthGrants, TLC

CONSTANTS p1, p2, t1, k1, q1, q2, c1, c2, a1, a2, r1, r2

MCPlace == {p1, p2}
MCTenant == {t1}

(* A token that outlasts the window in which it is renewed, and one that   *)
(* does not: the shortest the code accepts is half the window.             *)
MCTokenLives == {1, 2}

MCConnection == {k1}
MCRequest == {q1, q2}
MCCode == {c1, c2}
MCAccessToken == {a1, a2}
MCRenewal == {r1, r2}
MCScopeChoices == {{"propose"}, {"apply"}, {"propose", "apply"}}

Symmetry ==
  Permutations(MCPlace)
     \cup Permutations(MCRequest) \cup Permutations(MCCode)
     \cup Permutations(MCAccessToken) \cup Permutations(MCRenewal)

VARIABLE way      \* which of the two is looked at

NobodySignedIn ==
  /\ row = NONE /\ tx = [p \in Place |-> Idle]
  /\ now = 0 /\ first = 0 /\ until = 0
  /\ upstream = [alive |-> TRUE, rotates |-> FALSE, faltered |-> FALSE, token |-> NONE,
                 client |-> TRUE]

AccessInit ==
  /\ Init
  /\ \/ way = "session" /\ SessionInit
     \/ way = "token" /\ NobodySignedIn

AccessNext ==
  \/ way = "session" /\ SessionNext /\ UNCHANGED <<way, vars>>
  \/ way = "token" /\ Next /\ UNCHANGED <<way, sessionVars>>

AccessSpec == AccessInit /\ [][AccessNext]_<<way, vars, sessionVars>>
=============================================================================
