---------------------------- MODULE WriteRequests ----------------------------
(***************************************************************************)
(* How a mutating request runs (service.rs, handle_internal; db.rs): a     *)
(* write transaction that locks the workspace row, authorizes, looks the   *)
(* idempotency key up, makes the change, records the response under the    *)
(* key, and commits.  Several execution environments serve one database    *)
(* at once, any of them may stop at any point, and clients that heard      *)
(* nothing send the request again, wherever it lands.                      *)
(*                                                                         *)
(* The database is TiDB with pessimistic transactions: a plain read shows  *)
(* the snapshot taken when the transaction began, a locking read the       *)
(* latest commit.  On SQLite a transaction takes the only write lock when  *)
(* it begins, which is Begin and Lock without anything between.  Row locks *)
(* other than the workspace's are not relied on and left out; an insert of *)
(* a key already present would be refused, which the lock leaves no room   *)
(* for.                                                                    *)
(***************************************************************************)
EXTENDS Naturals, FiniteSets

CONSTANTS
  Env,          \* execution environments, each running one request at a time
  Key,          \* idempotency keys, in the namespace of one person
  NULL,         \* no row, nobody
  MaxDoc        \* bound: the versions a request may expect

ASSUME EnvAssumption == NULL \notin Env
ASSUME KeyAssumption == IsFiniteSet(Key)
ASSUME BoundAssumption == MaxDoc \in Nat

VARIABLES
  db,           \* what is committed
  lock,         \* who holds the lock on the workspace row
  tx,           \* the request each environment is running
  told          \* the answers that reached a client

vars == <<db, lock, tx, told>>

(* The version of the document edited, the role of the person editing, and *)
(* the idempotency table: the fingerprint of the request and its response. *)
Saved == [expected : Nat, result : Nat]
Database == [doc : Nat, writer : BOOLEAN, saved : [Key -> Saved \cup {NULL}]]

ASSUME SavedAssumption == NULL \notin Saved

(* An edit of the document, written for one version of it; or an owner     *)
(* demoting the person who edits, or making them an editor again.          *)
Edit == [key : Key, expected : 0..MaxDoc]
Job == Edit \cup [writer : BOOLEAN]
IsEdit(job) == job \in Edit

(* "waiting" for the lock, "locked", "authorized", "fresh" (the key is new), *)
(* "written" (changed and recorded, not committed), "committed".            *)
Stage == {"idle", "waiting", "locked", "authorized", "fresh", "written", "committed"}

Holding == {"locked", "authorized", "fresh", "written"}

Idle == [stage |-> "idle", job |-> NULL, snapshot |-> NULL, next |-> NULL]

Running ==
  [stage : Stage \ {"idle"}, job : Job, snapshot : Database, next : Database \cup {NULL}]

Answer == [key : Key, expected : Nat, result : Nat]

TypeOK ==
  /\ db \in Database
  /\ lock \in Env \cup {NULL}
  /\ tx \in [Env -> Running \cup {Idle}]
  /\ told \subseteq Answer

Init ==
  /\ db = [doc |-> 0, writer |-> TRUE, saved |-> [k \in Key |-> NULL]]
  /\ lock = NULL
  /\ tx = [e \in Env |-> Idle]
  /\ told = {}

At(e, stage) == tx[e].stage = stage
MoveTo(e, stage) == tx' = [tx EXCEPT ![e].stage = stage]

(* Mutant: reads that do not lock. *)
ViewOfSnapshot(e) == tx[e].snapshot

(* lock_reads: a read in a write transaction sees the latest commit. *)
View(e) == db

(* The transaction is over, whatever became of it; its lock goes with it. *)
Release(e) == lock' = IF lock = e THEN NULL ELSE lock

End(e) == tx' = [tx EXCEPT ![e] = Idle] /\ Release(e)

AnswerTo(job, saved) == [key |-> job.key, expected |-> job.expected, result |-> saved.result]

-----------------------------------------------------------------------------
(* begin_write *)
Begin(e, job) ==
  /\ At(e, "idle")
  /\ tx' = [tx EXCEPT ![e] = [stage |-> "waiting", job |-> job, snapshot |-> db, next |-> NULL]]
  /\ UNCHANGED <<db, lock, told>>

(* Mutant: the workspace row is read, not locked. *)
LockNothing(e) ==
  /\ At(e, "waiting")
  /\ MoveTo(e, "locked")
  /\ UNCHANGED <<db, lock, told>>

(* lock_workspace *)
Lock(e) ==
  /\ At(e, "waiting")
  /\ lock = NULL
  /\ lock' = e
  /\ MoveTo(e, "locked")
  /\ UNCHANGED <<db, told>>

(* Mutant: the person's role is the one the transaction began with. *)
AuthorizedBefore(e) == IsEdit(tx[e].job) => tx[e].snapshot.writer

(* authorize: the person may write.  An owner here always may. *)
Authorized(e) == IsEdit(tx[e].job) => View(e).writer

Authorize(e) ==
  /\ At(e, "locked")
  /\ Authorized(e)
  /\ MoveTo(e, "authorized")
  /\ UNCHANGED <<db, lock, told>>

Refuse(e) ==
  /\ At(e, "locked")
  /\ ~Authorized(e)
  /\ End(e)
  /\ UNCHANGED <<db, told>>

Prior(e) == View(e).saved[tx[e].job.key]

(* The key is new.  Changes of a member are not retried here. *)
Lookup(e) ==
  /\ At(e, "authorized")
  /\ IsEdit(tx[e].job) => Prior(e) = NULL
  /\ MoveTo(e, "fresh")
  /\ UNCHANGED <<db, lock, told>>

(* The fingerprint of this request is that of the one answered before. *)
SameRequest(e) == Prior(e).expected = tx[e].job.expected

Replay(e) ==
  /\ At(e, "authorized")
  /\ IsEdit(tx[e].job)
  /\ Prior(e) # NULL
  /\ SameRequest(e)
  /\ told' = told \cup {AnswerTo(tx[e].job, Prior(e))}
  /\ End(e)
  /\ UNCHANGED db

(* IDEMPOTENCY_CONFLICT *)
RefuseKey(e) ==
  /\ At(e, "authorized")
  /\ IsEdit(tx[e].job)
  /\ Prior(e) # NULL
  /\ ~SameRequest(e)
  /\ End(e)
  /\ UNCHANGED <<db, told>>

(* The rows the transaction leaves: the ones it writes, the others as read. *)
Edited(read, job) ==
  [read EXCEPT !.doc = @ + 1,
               !.saved[job.key] = [expected |-> job.expected, result |-> read.doc + 1]]

Changed(read, job) ==
  IF IsEdit(job) THEN Edited(read, job) ELSE [read EXCEPT !.writer = job.writer]

(* dispatch, and the rows of idempotency and audit. *)
Write(e) ==
  /\ At(e, "fresh")
  /\ IsEdit(tx[e].job) => View(e).doc = tx[e].job.expected
  /\ tx' = [tx EXCEPT ![e].stage = "written", ![e].next = Changed(View(e), tx[e].job)]
  /\ UNCHANGED <<db, lock, told>>

(* VERSION_CONFLICT *)
Conflict(e) ==
  /\ At(e, "fresh")
  /\ IsEdit(tx[e].job)
  /\ View(e).doc # tx[e].job.expected
  /\ End(e)
  /\ UNCHANGED <<db, told>>

(* What a commit leaves: only the rows the transaction wrote are its own. *)
Merged(job, next) ==
  IF IsEdit(job)
    THEN [db EXCEPT !.doc = next.doc, !.saved[job.key] = next.saved[job.key]]
    ELSE [db EXCEPT !.writer = next.writer]

Commit(e) ==
  /\ At(e, "written")
  /\ db' = Merged(tx[e].job, tx[e].next)
  /\ MoveTo(e, "committed")
  /\ Release(e)
  /\ UNCHANGED told

Respond(e) ==
  /\ At(e, "committed")
  /\ told' = IF IsEdit(tx[e].job)
             THEN told \cup {AnswerTo(tx[e].job, tx[e].next.saved[tx[e].job.key])}
             ELSE told
  /\ End(e)
  /\ UNCHANGED db

(* Mutant: nobody takes the lock from an environment that is gone. *)
CrashHoldingLock(e) ==
  /\ tx[e] # Idle
  /\ tx' = [tx EXCEPT ![e] = Idle]
  /\ UNCHANGED <<db, lock, told>>

(* The environment stops, or the connection to the client or the database  *)
(* is lost: the database rolls back what was not committed, and the client *)
(* hears nothing.                                                          *)
Crash(e) ==
  /\ tx[e] # Idle
  /\ End(e)
  /\ UNCHANGED <<db, told>>

Step(e) ==
  \/ Authorize(e) \/ Refuse(e)
  \/ Lookup(e) \/ Replay(e) \/ RefuseKey(e)
  \/ Write(e) \/ Conflict(e) \/ Commit(e) \/ Respond(e)

Next == \E e \in Env : (\E job \in Job : Begin(e, job)) \/ Lock(e) \/ Step(e) \/ Crash(e)

(* A request that runs goes on running, and the database serves everybody  *)
(* who waits for the lock; a crash is never owed.                          *)
Fairness == \A e \in Env : WF_vars(Step(e)) /\ SF_vars(Lock(e))

Spec == Init /\ [][Next]_vars /\ Fairness

-----------------------------------------------------------------------------
(* The requests together do what AtomicWrites promises: an edit takes      *)
(* effect at its commit.                                                   *)
Atomic == INSTANCE AtomicWrites
            WITH doc <- db.doc, writer <- db.writer, done <- db.saved

ImplementsAtomicWrites == Atomic!Spec

(* No edit is lost under another: the version counts the edits recorded,   *)
(* each of which was answered or will be when its key is sent again.       *)
NoEditLost == db.doc = Cardinality({k \in Key : db.saved[k] # NULL})

(* However often a request is sent and wherever it lands, its sender is    *)
(* told one thing, and it is what is recorded.                             *)
OneAnswer ==
  \A a \in told :
     /\ db.saved[a.key] # NULL
     /\ a.expected = db.saved[a.key].expected
     /\ a.result = db.saved[a.key].result

(* A person demoted while their request waits neither changes anything nor *)
(* is given back an earlier answer: what is written or read from the table *)
(* is so only while they may write.                                        *)
Replays(e) == At(e, "authorized") /\ tx'[e] = Idle /\ told' # told
OnlyWhileWriter ==
  [][/\ \A k \in Key : db'.saved[k] # db.saved[k] => db.writer
     /\ \A e \in Env : Replays(e) => db.writer]_vars

(* Every request comes to an end, also when environments stop with the     *)
(* lock in their hands.                                                    *)
EveryRequestEnds == \A e \in Env : tx[e] # Idle ~> tx[e] = Idle

(* What makes these inductive: what a request found out holds for as long  *)
(* as it has the lock, and its response is in the table once it committed. *)
HoldsLock == \A e \in Env : tx[e].stage \in Holding <=> lock = e

Knows(e) ==
  LET job == tx[e].job IN
  /\ tx[e].stage \in {"authorized", "fresh", "written"} /\ IsEdit(job) => db.writer
  /\ tx[e].stage \in {"fresh", "written"} /\ IsEdit(job) => db.saved[job.key] = NULL
  /\ tx[e].stage = "written" => tx[e].next = Changed(db, job)
  /\ tx[e].stage = "written" /\ IsEdit(job) => db.doc = job.expected
  /\ tx[e].stage = "committed" /\ IsEdit(job) =>
        /\ db.saved[job.key] # NULL
        /\ db.saved[job.key].expected = job.expected
        /\ tx[e].next.saved[job.key] = db.saved[job.key]

IInv == TypeOK /\ HoldsLock /\ (\A e \in Env : Knows(e)) /\ OneAnswer
=============================================================================
