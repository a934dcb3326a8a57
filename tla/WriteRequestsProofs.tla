------------------------- MODULE WriteRequestsProofs -------------------------
(***************************************************************************)
(* Proofs about WriteRequests, for every number of execution environments, *)
(* every finite set of idempotency keys and every bound on versions.       *)
(***************************************************************************)
EXTENDS WriteRequests, FiniteSetTheorems, TLAPS

-----------------------------------------------------------------------------
(* What an edit, or a change of a member, leaves is a database. *)
LEMMA ChangedType ==
  ASSUME NEW read \in Database, NEW job \in Job
  PROVE  Changed(read, job) \in Database
<1>1. CASE IsEdit(job)
  <2>1. [expected |-> job.expected, result |-> read.doc + 1] \in Saved
    BY <1>1, BoundAssumption DEF IsEdit, Edit, Saved, Database
  <2> DEFINE row == [expected |-> job.expected, result |-> read.doc + 1]
  <2>2. job.key \in Key /\ row \in Saved
    BY <1>1, <2>1 DEF IsEdit, Edit
  <2>3. Changed(read, job) = [read EXCEPT !.doc = read.doc + 1, !.saved[job.key] = row]
    BY <1>1 DEF Changed, Edited
  <2> HIDE DEF row
  <2>4. [read.saved EXCEPT ![job.key] = row] \in [Key -> Saved \cup {NULL}]
    BY <2>2 DEF Database
  <2>5. Changed(read, job) =
          [read EXCEPT !.doc = read.doc + 1, !.saved = [read.saved EXCEPT ![job.key] = row]]
    BY <2>3 DEF Database
  <2>6. ASSUME NEW d \in Nat, NEW s \in [Key -> Saved \cup {NULL}]
        PROVE  [read EXCEPT !.doc = d, !.saved = s] \in Database
    BY DEF Database
  <2>7. read.doc + 1 \in Nat
    BY DEF Database
  <2> QED BY <2>4, <2>5, <2>6, <2>7
<1>2. CASE ~IsEdit(job)
  BY <1>2 DEF Changed, Database, Job, IsEdit
<1> QED BY <1>1, <1>2

(* An edit that found its key new and its version current. *)
LEMMA EditedFields ==
  ASSUME NEW read \in Database, NEW job \in Job, IsEdit(job)
  PROVE  /\ job.key \in Key /\ job.expected \in Nat
         /\ Changed(read, job).doc = read.doc + 1
         /\ Changed(read, job).writer = read.writer
         /\ Changed(read, job).saved =
              [read.saved EXCEPT ![job.key] = [expected |-> job.expected, result |-> read.doc + 1]]
BY BoundAssumption DEF Changed, Edited, Database, IsEdit, Edit

LEMMA MemberFields ==
  ASSUME NEW read \in Database, NEW job \in Job, ~IsEdit(job)
  PROVE  /\ Changed(read, job).doc = read.doc
         /\ Changed(read, job).writer = job.writer /\ job.writer \in BOOLEAN
         /\ Changed(read, job).saved = read.saved
BY DEF Changed, Database, IsEdit, Job

(* What is merged at the commit, when nothing was committed in between, is *)
(* what the transaction holds.                                             *)
LEMMA MergedIsNext ==
  ASSUME db \in Database, NEW job \in Job
  PROVE  Merged(job, Changed(db, job)) = Changed(db, job)
<1>1. Changed(db, job) \in Database
  BY ChangedType
<1>2. CASE IsEdit(job)
  <2>1. Merged(job, Changed(db, job)) =
          [db EXCEPT !.doc = db.doc + 1,
                     !.saved[job.key] = [expected |-> job.expected, result |-> db.doc + 1]]
    BY <1>2, EditedFields DEF Merged, Database
  <2> QED BY <1>2, <2>1 DEF Changed, Edited, Database
<1>3. CASE ~IsEdit(job)
  BY <1>3, MemberFields DEF Merged, Changed, Database
<1> QED BY <1>2, <1>3

-----------------------------------------------------------------------------
LEMMA InvInit == Init => IInv
<1> SUFFICES ASSUME Init PROVE IInv
  OBVIOUS
<1>1. TypeOK
  BY DEF Init, TypeOK, Database
<1>2. \A e \in Env : tx[e].stage = "idle" /\ lock # e
  BY EnvAssumption DEF Init, Idle
<1> QED BY <1>1, <1>2 DEF IInv, HoldsLock, Knows, OneAnswer, Holding, Init

(* A request moves from one stage to the next and the database stays. *)
LEMMA MoveStep ==
  ASSUME IInv, NEW e \in Env, NEW row \in Running, db' = db, told' = told,
         tx' = [tx EXCEPT ![e] = row],
         row.stage \in Holding <=> lock' = e,
         \A f \in Env \ {e} : lock' = f <=> lock = f,
         lock' \in Env \cup {NULL},
         row.stage \in {"authorized", "fresh", "written"} /\ IsEdit(row.job) => db.writer,
         row.stage \in {"fresh", "written"} /\ IsEdit(row.job) => db.saved[row.job.key] = NULL,
         row.stage = "written" => row.next = Changed(db, row.job),
         row.stage = "written" /\ IsEdit(row.job) => db.doc = row.job.expected,
         row.stage # "committed"
  PROVE  IInv'
<1>1. tx'[e] = row /\ \A f \in Env \ {e} : tx'[f] = tx[f]
  BY DEF IInv, TypeOK
<1>2. TypeOK'
  BY DEF IInv, TypeOK
<1>3. HoldsLock'
  BY <1>1 DEF IInv, HoldsLock
<1>4. \A f \in Env : Knows(f)'
  <2> SUFFICES ASSUME NEW f \in Env PROVE Knows(f)'
    OBVIOUS
  <2>1. CASE f = e
    BY <1>1, <2>1 DEF Knows
  <2>2. CASE f # e
    BY <1>1, <2>2 DEF Knows, IInv
  <2> QED BY <2>1, <2>2
<1>5. OneAnswer'
  BY DEF IInv, OneAnswer
<1> QED BY <1>2, <1>3, <1>4, <1>5 DEF IInv

(* A request ends, with or without an answer. *)
LEMMA EndStep ==
  ASSUME IInv, NEW e \in Env, End(e), db' = db, told' \subseteq Answer,
         \A a \in told' \ told : /\ db.saved[a.key] # NULL
                                 /\ a.expected = db.saved[a.key].expected
                                 /\ a.result = db.saved[a.key].result
  PROVE  IInv'
<1>1. tx' = [tx EXCEPT ![e] = Idle] /\ lock' = IF lock = e THEN NULL ELSE lock
  BY DEF End, Release
<1>2. tx'[e] = Idle /\ \A f \in Env \ {e} : tx'[f] = tx[f]
  BY <1>1 DEF IInv, TypeOK
<1>3. TypeOK'
  BY <1>1 DEF IInv, TypeOK
<1>4. HoldsLock'
  BY <1>1, <1>2, EnvAssumption DEF IInv, HoldsLock, Holding, Idle
<1>5. \A f \in Env : Knows(f)'
  BY <1>2 DEF Knows, IInv, Idle
<1>6. OneAnswer'
  BY DEF IInv, OneAnswer
<1> QED BY <1>3, <1>4, <1>5, <1>6 DEF IInv

(* What a repeated request is told is what is recorded under its key. *)
LEMMA ReplayTells ==
  ASSUME IInv, NEW e \in Env, Replay(e)
  PROVE  \E k \in Key :
           /\ db.saved[k] # NULL
           /\ told' = told \cup {[key |-> k, expected |-> db.saved[k].expected,
                                  result |-> db.saved[k].result]}
           /\ told' \subseteq Answer
<1>1. tx[e].job.key \in Key /\ db.saved[tx[e].job.key] \in Saved
  BY DEF Replay, Prior, View, IInv, TypeOK, Database, IsEdit, Edit
<1>2. told' = told \cup {[key |-> tx[e].job.key,
                          expected |-> db.saved[tx[e].job.key].expected,
                          result |-> db.saved[tx[e].job.key].result]}
  BY DEF Replay, SameRequest, Prior, View, AnswerTo
<1>3. ASSUME NEW row \in Saved, NEW k \in Key
      PROVE  [key |-> k, expected |-> row.expected, result |-> row.result] \in Answer
  BY DEF Answer, Saved
<1>4. told \subseteq Answer
  BY DEF IInv, TypeOK
<1>5. told' \subseteq Answer
  BY <1>1, <1>2, <1>3, <1>4
<1> QED BY <1>1, <1>2, <1>5, SavedAssumption

(* What a committed request is told is what is recorded under its key. *)
LEMMA RespondTells ==
  ASSUME IInv, NEW e \in Env, Respond(e), told' # told
  PROVE  \E k \in Key :
           /\ db.saved[k] # NULL
           /\ told' = told \cup {[key |-> k, expected |-> db.saved[k].expected,
                                  result |-> db.saved[k].result]}
           /\ told' \subseteq Answer
<1>1. /\ IsEdit(tx[e].job) /\ tx[e].stage = "committed"
      /\ told' = told \cup {AnswerTo(tx[e].job, tx[e].next.saved[tx[e].job.key])}
  BY DEF Respond, At
<1>2. /\ db.saved[tx[e].job.key] # NULL
      /\ db.saved[tx[e].job.key].expected = tx[e].job.expected
      /\ tx[e].next.saved[tx[e].job.key] = db.saved[tx[e].job.key]
  BY <1>1 DEF IInv, Knows
<1>3. tx[e].job.key \in Key /\ db.saved[tx[e].job.key] \in Saved
  BY <1>1, <1>2 DEF IInv, TypeOK, Database, IsEdit, Edit
<1>4. told' \subseteq Answer
  <2> DEFINE k == tx[e].job.key
             a == [key |-> k, expected |-> db.saved[k].expected, result |-> db.saved[k].result]
  <2>1. told' = told \cup {a}
    BY <1>1, <1>2 DEF AnswerTo
  <2>2. a \in Answer
    BY <1>3 DEF Answer, Saved
  <2>3. told \subseteq Answer
    BY DEF IInv, TypeOK
  <2> QED BY <2>1, <2>2, <2>3
<1> QED BY <1>1, <1>2, <1>3, <1>4 DEF AnswerTo

(* A commit by the holder of the lock. *)
LEMMA CommitStep ==
  ASSUME IInv, NEW e \in Env, Commit(e)
  PROVE  /\ IInv'
         /\ tx[e].job \in Job
         /\ db' = Changed(db, tx[e].job)
         /\ IsEdit(tx[e].job) =>
               db.writer /\ db.saved[tx[e].job.key] = NULL /\ db.doc = tx[e].job.expected
<1> DEFINE job == tx[e].job
<1>1. tx[e] \in Running /\ tx[e].stage = "written" /\ lock = e
  BY DEF Commit, At, IInv, TypeOK, HoldsLock, Holding, Idle
<1>2. /\ job \in Job /\ tx[e].next = Changed(db, job)
      /\ IsEdit(job) => db.writer /\ db.saved[job.key] = NULL /\ db.doc = job.expected
  BY <1>1 DEF IInv, Knows, Running
<1>3. db \in Database /\ db' = Changed(db, job) /\ db' \in Database
  BY <1>2, MergedIsNext, ChangedType DEF Commit, IInv, TypeOK
<1>4. /\ tx' = [tx EXCEPT ![e].stage = "committed"] /\ lock' = NULL /\ told' = told
  BY <1>1 DEF Commit, MoveTo, Release
<1>5. /\ tx'[e].stage = "committed" /\ tx'[e].job = job /\ tx'[e].next = Changed(db, job)
      /\ tx'[e] \in Running
      /\ \A f \in Env \ {e} : tx'[f] = tx[f]
  BY <1>1, <1>2, <1>4 DEF IInv, TypeOK, Running, Stage
<1> HIDE DEF job
<1>6. TypeOK'
  BY <1>3, <1>4, <1>5 DEF IInv, TypeOK
<1>7. HoldsLock'
  BY <1>1, <1>4, <1>5, EnvAssumption DEF IInv, HoldsLock, Holding
<1>8. \A k \in Key : db.saved[k] # NULL => db'.saved[k] = db.saved[k]
  <2>1. CASE IsEdit(job)
    <3>1. /\ job.key \in Key
          /\ db'.saved = [db.saved EXCEPT ![job.key] =
                            [expected |-> job.expected, result |-> db.doc + 1]]
      BY <1>2, <1>3, <2>1, EditedFields
    <3> QED BY <1>2, <1>3, <2>1, <3>1 DEF Database
  <2>2. CASE ~IsEdit(job)
    <3>1. db'.saved = db.saved
      BY <1>2, <1>3, <2>2, MemberFields
    <3> QED BY <3>1
  <2> QED BY <2>1, <2>2
<1>9. \A f \in Env : Knows(f)'
  <2> SUFFICES ASSUME NEW f \in Env PROVE Knows(f)'
    OBVIOUS
  <2>1. CASE f = e
    <3>1. ASSUME IsEdit(job)
          PROVE  /\ db'.saved[job.key] = [expected |-> job.expected, result |-> db.doc + 1]
                 /\ [expected |-> job.expected, result |-> db.doc + 1] \in Saved
      <4>1. /\ job.key \in Key /\ job.expected \in Nat
            /\ db'.saved = [db.saved EXCEPT ![job.key] =
                              [expected |-> job.expected, result |-> db.doc + 1]]
        BY <1>2, <1>3, <3>1, EditedFields
      <4> QED BY <1>3, <4>1 DEF Database, Saved
    <3>2. IsEdit(job) => db'.saved[job.key] # NULL /\ db'.saved[job.key].expected = job.expected
      BY <3>1, SavedAssumption
    <3> QED BY <1>3, <1>5, <2>1, <3>2 DEF Knows
  <2>2. CASE f # e
    <3>1. tx'[f] = tx[f] /\ tx[f].stage \notin Holding
      BY <1>1, <1>5, <2>2 DEF IInv, HoldsLock
    <3>2. tx[f].stage = "committed" => tx[f].job \in Job
      BY DEF IInv, TypeOK, Running, Idle
    <3>3. tx[f].stage = "committed" /\ IsEdit(tx[f].job) => tx[f].job.key \in Key
      BY DEF IsEdit, Edit
    <3> QED BY <1>8, <3>1, <3>2, <3>3 DEF IInv, Knows, Holding
  <2> QED BY <2>1, <2>2
<1>10. OneAnswer'
  BY <1>4, <1>8 DEF IInv, OneAnswer, TypeOK, Answer
<1> QED BY <1>2, <1>3, <1>6, <1>7, <1>9, <1>10 DEF IInv, job

-----------------------------------------------------------------------------
(* Each action ends a request, moves it on, or commits it. *)
LEMMA InvNext == IInv /\ [Next]_vars => IInv'
<1> SUFFICES ASSUME IInv, [Next]_vars PROVE IInv'
  OBVIOUS
<1> USE DEF At
<1>1. ASSUME NEW e \in Env, NEW job \in Job, Begin(e, job) PROVE IInv'
  <2> DEFINE row == [stage |-> "waiting", job |-> job, snapshot |-> db, next |-> NULL]
  <2>1. row \in Running
    BY DEF Running, Stage, IInv, TypeOK
  <2>2. lock # e
    BY <1>1 DEF Begin, IInv, HoldsLock, Holding
  <2>3. /\ tx' = [tx EXCEPT ![e] = row] /\ db' = db /\ told' = told /\ lock' = lock
        /\ lock' \in Env \cup {NULL} /\ row.stage = "waiting"
    BY <1>1 DEF Begin, IInv, TypeOK
  <2> HIDE DEF row
  <2> QED BY <2>1, <2>2, <2>3, MoveStep DEF Holding
<1>2. ASSUME NEW e \in Env, NEW stage \in Stage \ {"idle"}, tx[e] # Idle, MoveTo(e, stage)
      PROVE  /\ [tx[e] EXCEPT !.stage = stage] \in Running
             /\ tx' = [tx EXCEPT ![e] = [tx[e] EXCEPT !.stage = stage]]
             /\ [tx[e] EXCEPT !.stage = stage].stage = stage
             /\ [tx[e] EXCEPT !.stage = stage].job = tx[e].job
             /\ [tx[e] EXCEPT !.stage = stage].next = tx[e].next
  BY <1>2 DEF MoveTo, Running, IInv, TypeOK
<1>3. ASSUME NEW e \in Env, Lock(e) PROVE IInv'
  <2>1. tx[e] # Idle /\ "locked" \in Stage \ {"idle"} /\ MoveTo(e, "locked")
    BY <1>3 DEF Lock, Idle, Stage
  <2> DEFINE row == [tx[e] EXCEPT !.stage = "locked"]
  <2>2. /\ row \in Running /\ row.stage = "locked" /\ tx' = [tx EXCEPT ![e] = row]
    BY <1>2, <2>1
  <2>3. db' = db /\ told' = told /\ lock = NULL /\ lock' = e
    BY <1>3 DEF Lock
  <2> HIDE DEF row
  <2> QED BY <2>2, <2>3, MoveStep, EnvAssumption DEF Holding
<1>4. ASSUME NEW e \in Env, Authorize(e) PROVE IInv'
  <2>1. tx[e] # Idle /\ "authorized" \in Stage \ {"idle"} /\ MoveTo(e, "authorized")
    BY <1>4 DEF Authorize, Idle, Stage
  <2>2. lock = e /\ (IsEdit(tx[e].job) => db.writer)
    BY <1>4 DEF Authorize, Authorized, View, IInv, HoldsLock, Holding
  <2> QED BY <1>2, <1>4, <2>1, <2>2, MoveStep DEF Authorize, Holding, IInv, TypeOK
<1>5. ASSUME NEW e \in Env, Lookup(e) PROVE IInv'
  <2>1. tx[e] # Idle /\ "fresh" \in Stage \ {"idle"} /\ MoveTo(e, "fresh")
    BY <1>5 DEF Lookup, Idle, Stage
  <2>2. lock = e /\ (IsEdit(tx[e].job) => db.writer /\ db.saved[tx[e].job.key] = NULL)
    BY <1>5 DEF Lookup, Prior, View, IInv, HoldsLock, Holding, Knows
  <2> DEFINE row == [tx[e] EXCEPT !.stage = "fresh"]
  <2>3. /\ row \in Running /\ row.stage = "fresh" /\ row.job = tx[e].job
        /\ tx' = [tx EXCEPT ![e] = row]
    BY <1>2, <2>1
  <2>4. db' = db /\ told' = told /\ lock' = lock
    BY <1>5 DEF Lookup
  <2> HIDE DEF row
  <2> QED BY <2>2, <2>3, <2>4, MoveStep DEF Holding, IInv, TypeOK
<1>6. ASSUME NEW e \in Env, Write(e) PROVE IInv'
  <2> DEFINE row == [tx[e] EXCEPT !.stage = "written", !.next = Changed(db, tx[e].job)]
  <2>1. tx[e] \in Running
    BY <1>6 DEF Write, IInv, TypeOK, Idle
  <2>2. Changed(db, tx[e].job) \in Database
    BY <2>1, ChangedType DEF Running, IInv, TypeOK
  <2>3. /\ row \in Running /\ row.stage = "written" /\ row.job = tx[e].job
        /\ row.next = Changed(db, tx[e].job)
    BY <2>1, <2>2 DEF Running, Stage
  <2>4. tx' = [tx EXCEPT ![e] = row]
    BY <1>6 DEF Write, View, IInv, TypeOK
  <2>5. /\ lock = e
        /\ IsEdit(tx[e].job) =>
             db.writer /\ db.saved[tx[e].job.key] = NULL /\ db.doc = tx[e].job.expected
    BY <1>6 DEF Write, View, IInv, HoldsLock, Holding, Knows
  <2>6. db' = db /\ told' = told /\ lock' = lock
    BY <1>6 DEF Write
  <2> HIDE DEF row
  <2> QED BY <2>3, <2>4, <2>5, <2>6, MoveStep DEF Holding, IInv, TypeOK
<1>7. ASSUME NEW e \in Env, Refuse(e) \/ RefuseKey(e) \/ Conflict(e) \/ Crash(e) PROVE IInv'
  BY <1>7, EndStep DEF Refuse, RefuseKey, Conflict, Crash, IInv, TypeOK
<1>8. ASSUME NEW e \in Env, Replay(e) PROVE IInv'
  BY <1>8, EndStep, ReplayTells DEF IInv, TypeOK, Replay
<1>9. ASSUME NEW e \in Env, Respond(e) PROVE IInv'
  <2>1. End(e) /\ db' = db /\ told \subseteq Answer
    BY <1>9 DEF Respond, IInv, TypeOK
  <2>2. CASE told' # told
    <3>1. PICK k \in Key :
             /\ db.saved[k] # NULL
             /\ told' = told \cup {[key |-> k, expected |-> db.saved[k].expected,
                                    result |-> db.saved[k].result]}
             /\ told' \subseteq Answer
      BY <1>9, <2>2, RespondTells
    <3>2. \A a \in told' \ told : /\ db.saved[a.key] # NULL
                                  /\ a.expected = db.saved[a.key].expected
                                  /\ a.result = db.saved[a.key].result
      BY <3>1
    <3> QED BY <2>1, <3>1, <3>2, EndStep
  <2>3. CASE told' = told
    BY <2>1, <2>3, EndStep
  <2> QED BY <2>2, <2>3
<1>10. ASSUME NEW e \in Env, Commit(e) PROVE IInv'
  BY <1>10, CommitStep
<1>11. ASSUME UNCHANGED vars PROVE IInv'
  <2> USE <1>11 DEF vars
  <2>1. TypeOK'
    BY DEF IInv, TypeOK
  <2>2. HoldsLock'
    BY DEF IInv, HoldsLock
  <2>3. \A e \in Env : Knows(e)'
    BY DEF IInv, Knows
  <2>4. OneAnswer'
    BY DEF IInv, OneAnswer
  <2> QED BY <2>1, <2>2, <2>3, <2>4 DEF IInv
<1> QED BY <1>1, <1>3, <1>4, <1>5, <1>6, <1>7, <1>8, <1>9, <1>10, <1>11 DEF Next, Step

(* In every state the lock has one holder, what a request found out under  *)
(* it still holds, and what clients were told is what is recorded.         *)
THEOREM Invariance == Spec => []IInv
<1>1. Init => IInv
  BY InvInit
<1>2. IInv /\ [Next]_vars => IInv'
  BY InvNext
<1> QED BY <1>1, <1>2, PTL DEF Spec

-----------------------------------------------------------------------------
(* However often a request is sent, and on whichever environment, its      *)
(* sender is told one thing (handle_internal's idempotency table).         *)
THEOREM OneAnswerEach == Spec => [](TypeOK /\ OneAnswer)
<1>1. IInv => TypeOK /\ OneAnswer
  BY DEF IInv
<1> QED BY <1>1, Invariance, PTL

(* A step of the requests is one of AtomicWrites, or none. *)
LEMMA StepIsAtomic ==
  ASSUME IInv, Next
  PROVE  Atomic!Next \/ UNCHANGED <<db.doc, db.writer, db.saved, told>>
<1>1. ASSUME db' = db, told' = told
      PROVE  UNCHANGED <<db.doc, db.writer, db.saved, told>>
  BY <1>1
<1>2. ASSUME NEW e \in Env, Replay(e) PROVE \E k \in Key : Atomic!Tell(k)
  BY <1>2, ReplayTells DEF Atomic!Tell, AnswerTo, Replay
<1>3. ASSUME NEW e \in Env, Respond(e)
      PROVE  (\E k \in Key : Atomic!Tell(k)) \/ (db' = db /\ told' = told)
  BY <1>3, RespondTells DEF Atomic!Tell, AnswerTo, Respond
<1>4. ASSUME NEW e \in Env, Commit(e)
      PROVE  (\E k \in Key : Atomic!Perform(k)) \/ Atomic!ChangeMember
  <2>1. /\ tx[e].job \in Job /\ db' = Changed(db, tx[e].job) /\ db \in Database
        /\ IsEdit(tx[e].job) =>
             db.writer /\ db.saved[tx[e].job.key] = NULL /\ db.doc = tx[e].job.expected
        /\ told' = told
    BY <1>4, CommitStep DEF IInv, TypeOK, Commit
  <2>2. CASE IsEdit(tx[e].job)
    <3> DEFINE k == tx[e].job.key
    <3>1. /\ k \in Key /\ db'.doc = db.doc + 1 /\ db'.writer = db.writer
          /\ db'.saved = [db.saved EXCEPT ![k] = [expected |-> db.doc, result |-> db.doc + 1]]
      BY <2>1, <2>2, EditedFields
    <3>2. db.writer /\ db.saved[k] = NULL /\ told' = told
      BY <2>1, <2>2
    <3> HIDE DEF k
    <3> QED BY <3>1, <3>2 DEF Atomic!Perform
  <2>3. CASE ~IsEdit(tx[e].job)
    BY <2>1, <2>3, MemberFields DEF Atomic!ChangeMember
  <2> QED BY <2>2, <2>3
<1>5. PICK e \in Env : (\E job \in Job : Begin(e, job)) \/ Lock(e) \/ Step(e) \/ Crash(e)
  BY DEF Next
<1>6. CASE Replay(e)
  BY <1>2, <1>6 DEF Atomic!Next
<1>7. CASE Respond(e)
  BY <1>1, <1>3, <1>7 DEF Atomic!Next
<1>8. CASE Commit(e)
  BY <1>4, <1>8 DEF Atomic!Next
<1>9. CASE ~(Replay(e) \/ Respond(e) \/ Commit(e))
  <2>1. db' = db /\ told' = told
    BY <1>5, <1>9 DEF Begin, Lock, Step, Crash, Authorize, Refuse, Lookup, RefuseKey, Write, Conflict
  <2> QED BY <1>1, <2>1
<1> QED BY <1>6, <1>7, <1>8, <1>9

(* Requests, locks, retries and crashes together implement AtomicWrites:   *)
(* an edit happens whole, once per key, against the version it was written *)
(* for, and what is answered is the edit that was made.                    *)
THEOREM Refinement == Spec => ImplementsAtomicWrites
<1>1. Init => Atomic!Init
  BY DEF Init, Atomic!Init
<1>2. IInv /\ [Next]_vars => [Atomic!Next]_<<db.doc, db.writer, db.saved, told>>
  BY StepIsAtomic DEF vars
<1> QED BY <1>1, <1>2, Invariance, PTL DEF Spec, ImplementsAtomicWrites, Atomic!Spec

-----------------------------------------------------------------------------
(* The database changes at a commit only, and an edit committed is the one *)
(* its key had not made before.                                            *)
LEMMA OnlyCommitsChange ==
  ASSUME IInv, [Next]_vars, db' # db
  PROVE  \E e \in Env :
           /\ tx[e].job \in Job
           /\ db' = Changed(db, tx[e].job)
           /\ IsEdit(tx[e].job) => db.writer /\ db.saved[tx[e].job.key] = NULL
<1>1. PICK e \in Env : Commit(e)
  BY DEF vars, Next, Step, Begin, Lock, Crash, Authorize, Refuse, Lookup, Replay, RefuseKey,
         Write, Conflict, Respond
<1> QED BY <1>1, CommitStep

(* The version of the document counts the edits recorded: no edit is lost  *)
(* under another (expected_version under the lock on the workspace).       *)
THEOREM EditsAreKept == Spec => []NoEditLost
<1> DEFINE Made == {k \in Key : db.saved[k] # NULL}
<1>1. Init => NoEditLost
  <2>1. Init => Made = {} /\ db.doc = 0
    BY DEF Init
  <2> QED BY <2>1, FS_EmptySet DEF NoEditLost
<1>2. IInv /\ NoEditLost /\ [Next]_vars => NoEditLost'
  <2> SUFFICES ASSUME IInv, NoEditLost, [Next]_vars PROVE NoEditLost'
    OBVIOUS
  <2>1. CASE db' = db
    BY <2>1 DEF NoEditLost
  <2>2. CASE db' # db
    <3>1. PICK e \in Env :
             /\ tx[e].job \in Job /\ db' = Changed(db, tx[e].job)
             /\ IsEdit(tx[e].job) => db.writer /\ db.saved[tx[e].job.key] = NULL
      BY <2>2, OnlyCommitsChange
    <3>2. db \in Database
      BY DEF IInv, TypeOK
    <3>3. CASE ~IsEdit(tx[e].job)
      <4>1. db'.doc = db.doc /\ db'.saved = db.saved
        BY <3>1, <3>2, <3>3, MemberFields
      <4> QED BY <4>1 DEF NoEditLost
    <3>4. CASE IsEdit(tx[e].job)
      <4> DEFINE new == tx[e].job.key
                 row == [expected |-> tx[e].job.expected, result |-> db.doc + 1]
      <4>1. /\ new \in Key /\ db'.doc = db.doc + 1
            /\ db'.saved = [db.saved EXCEPT ![new] = row]
            /\ tx[e].job.expected \in Nat
        BY <3>1, <3>2, <3>4, EditedFields
      <4>2. row \in Saved /\ row # NULL
        <5>1. row \in Saved
          BY <3>2, <4>1 DEF Saved, Database
        <5> QED BY <5>1, SavedAssumption
      <4>3. new \notin Made
        BY <3>1, <3>4
      <4> HIDE DEF row, new
      <4>4. Made' = Made \cup {new}
        BY <3>2, <4>1, <4>2 DEF Database
      <4>5. IsFiniteSet(Made)
        BY KeyAssumption, FS_Subset
      <4>6. Cardinality(Made') = Cardinality(Made) + 1
        BY <4>3, <4>4, <4>5, FS_AddElement
      <4> QED BY <4>1, <4>6 DEF NoEditLost
    <3> QED BY <3>3, <3>4
  <2> QED BY <2>1, <2>2
<1> QED BY <1>1, <1>2, Invariance, PTL DEF Spec

(* A person demoted while their request waits neither edits anything nor   *)
(* is given back an earlier answer (authorize, under the lock).            *)
THEOREM DemotedWritesNothing == Spec => OnlyWhileWriter
<1> DEFINE A == /\ \A k \in Key : db'.saved[k] # db.saved[k] => db.writer
                /\ \A e \in Env : Replays(e) => db.writer
<1>1. ASSUME IInv, [Next]_vars PROVE A
  <2>1. ASSUME NEW k \in Key, db'.saved[k] # db.saved[k] PROVE db.writer
    <3>1. PICK e \in Env :
             /\ tx[e].job \in Job /\ db' = Changed(db, tx[e].job)
             /\ IsEdit(tx[e].job) => db.writer /\ db.saved[tx[e].job.key] = NULL
      BY <1>1, <2>1, OnlyCommitsChange
    <3>2. ~IsEdit(tx[e].job) => db'.saved = db.saved
      BY <1>1, <3>1, MemberFields DEF IInv, TypeOK
    <3> QED BY <2>1, <3>1, <3>2
  <2>2. ASSUME NEW e \in Env, Replays(e) PROVE db.writer
    <3>1. tx[e] # tx'[e] /\ tx[e].stage = "authorized" /\ told' # told
      BY <2>2 DEF Replays, At, Idle
    <3>2. PICK f \in Env : (\E job \in Job : Begin(f, job)) \/ Lock(f) \/ Step(f) \/ Crash(f)
      BY <1>1, <3>1 DEF Next, vars
    <3>3. Replay(f) \/ Respond(f)
      BY <3>1, <3>2 DEF Begin, Lock, Step, Crash, Authorize, Refuse, Lookup, RefuseKey,
                        Write, Conflict, Commit
    <3>4. \A g \in Env \ {f} : tx'[g] = tx[g]
      BY <1>1, <3>3 DEF Replay, Respond, End, IInv, TypeOK
    <3>5. f = e
      BY <3>1, <3>4
    <3>6. IsEdit(tx[e].job)
      BY <3>1, <3>3, <3>5 DEF Replay, Respond, At
    <3> QED BY <1>1, <3>1, <3>6 DEF IInv, Knows
  <2> QED BY <2>1, <2>2
<1>2. IInv /\ [Next]_vars => [A]_vars
  BY <1>1
<1> QED BY <1>2, Invariance, PTL DEF Spec, OnlyWhileWriter
=============================================================================
