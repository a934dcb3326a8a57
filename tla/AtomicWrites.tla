---------------------------- MODULE AtomicWrites ----------------------------
(***************************************************************************)
(* What a workspace promises the people and the AI clients that write to   *)
(* it: an edit happens as a whole, once per idempotency key, against the   *)
(* version it was written for, and an answer is that of the edit made.     *)
(***************************************************************************)
EXTENDS Naturals

CONSTANTS
  Key,       \* idempotency keys
  NULL       \* not done

VARIABLES
  doc,       \* the version of the document edited
  writer,    \* whether the person behind the keys may write
  done,      \* what each key did
  told       \* the answers that reached a client

(* The edit a key stands for and the version it made. *)
Deed == [expected : Nat, result : Nat]
Answer == [key : Key, expected : Nat, result : Nat]

Init ==
  /\ doc = 0
  /\ writer = TRUE
  /\ done = [k \in Key |-> NULL]
  /\ told = {}

Perform(k) ==
  /\ writer
  /\ done[k] = NULL
  /\ doc' = doc + 1
  /\ done' = [done EXCEPT ![k] = [expected |-> doc, result |-> doc + 1]]
  /\ UNCHANGED <<writer, told>>

Tell(k) ==
  /\ done[k] # NULL
  /\ told' = told \cup {[key |-> k, expected |-> done[k].expected, result |-> done[k].result]}
  /\ UNCHANGED <<doc, writer, done>>

(* An owner demotes the person, or makes them an editor again. *)
ChangeMember ==
  /\ writer' \in BOOLEAN
  /\ UNCHANGED <<doc, done, told>>

Next == (\E k \in Key : Perform(k) \/ Tell(k)) \/ ChangeMember

Spec == Init /\ [][Next]_<<doc, writer, done, told>>
=============================================================================
