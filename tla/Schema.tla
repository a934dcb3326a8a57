------------------------------- MODULE Schema -------------------------------
(***************************************************************************)
(* How a process brings the shared database up to its own schema when it   *)
(* starts, and claims it for its deployment (db.rs: migrate,               *)
(* migrate_locked, claim_environment, schema_status).  Several processes   *)
(* start at once, of builds that know more or fewer migrations and of      *)
(* deployments with labels of their own; each may be killed at any moment. *)
(*                                                                         *)
(* The database does not roll back a change of its tables, so every        *)
(* statement of a migration is committed by itself, and the version is     *)
(* recorded after the last.  What is run holds a lock that belongs to a    *)
(* database session of its own and ends with it; here the session lasts as *)
(* long as the process, so one that is cut while the process goes on is    *)
(* left out.                                                               *)
(***************************************************************************)
EXTENDS Naturals, Sequences

CONSTANTS
  Process,       \* the processes that may be started
  Label,         \* PATHBASE_DB_ENVIRONMENT, where it is set
  UNLABELLED,    \* where it is not
  NULL,          \* nobody, no label
  Scripts,       \* Scripts[v][n]: whether statement n of migration v may be repeated,
                 \* or is to be run once (ALTER TABLE ADD COLUMN without IF NOT EXISTS)
  Builds,        \* how many migrations a build may know
  MaxCrashes,    \* bound: how often a process is killed
  MaxTimeouts    \* bound: how often one waits for the lock in vain

ASSUME ScriptAssumption ==
  /\ Scripts \in Seq(Seq({"repeatable", "once"}))
  /\ Builds \subseteq DOMAIN Scripts
ASSUME OnceAssumption ==      \* 0004 and 0012 consist of their ALTER TABLE
  \A v \in DOMAIN Scripts : \A n \in DOMAIN Scripts[v] : Scripts[v][n] = "once" => n = 1
ASSUME LabelAssumption == NULL \notin Process /\ NULL \notin Label \cup {UNLABELLED}
ASSUME BoundAssumption == MaxCrashes \in Nat /\ MaxTimeouts \in Nat

VARIABLES
  rows,        \* schema_migrations: the versions recorded
  runs,        \* runs[v][n]: how often statement n of migration v was run
  env,         \* database_identity: the label the database is claimed for
  lock,        \* the process whose session holds the migration lock
  procs,       \* procs[p]: what process p is and how far it is
  crashes, timeouts

vars == <<rows, runs, env, lock, procs, crashes, timeouts>>

Off == [at |-> "off", build |-> 0, label |-> UNLABELLED, v |-> 0, n |-> 0]

ProcessRow ==
  [at : {"off", "starting", "waiting", "looking", "running", "claiming", "open"},
   build : Builds \cup {0}, label : Label \cup {UNLABELLED},
   v : 0 .. Len(Scripts) + 1, n : Nat]

TypeOK ==
  /\ rows \subseteq DOMAIN Scripts
  /\ DOMAIN runs = DOMAIN Scripts
  /\ \A v \in DOMAIN Scripts : runs[v] \in [DOMAIN Scripts[v] -> Nat]
  /\ env \in Label \cup {UNLABELLED, NULL}
  /\ lock \in Process \cup {NULL}
  /\ procs \in [Process -> ProcessRow]
  /\ crashes \in Nat /\ timeouts \in Nat

Init ==
  /\ rows = {}
  /\ runs = [v \in DOMAIN Scripts |-> [n \in DOMAIN Scripts[v] |-> 0]]
  /\ env = NULL
  /\ lock = NULL
  /\ procs = [p \in Process |-> Off]
  /\ crashes = 0 /\ timeouts = 0

-----------------------------------------------------------------------------
(* environment_conflicts, needs_claim and is_ready of what schema_status   *)
(* reads: of the versions recorded, the highest.                           *)
Conflicts(label) == {env, label} \cap {NULL, UNLABELLED} = {} /\ env # label

NeedsClaim(label) == env = NULL \/ (env # label /\ label # UNLABELLED)

Highest(v) == IF v = 0 THEN rows = {} ELSE v \in rows /\ \A u \in rows : u <= v

Ready(p) == Highest(procs[p].build) /\ env # NULL /\ ~Conflicts(procs[p].label)

Goto(p, at) == procs' = [procs EXCEPT ![p].at = at]

Serve(p) == procs' = [procs EXCEPT ![p] = [@ EXCEPT !.at = "open", !.v = 0, !.n = 0]]

Free(p) == lock' = IF lock = p THEN NULL ELSE lock

(* The process ends; its session, and what it held, ends with it. *)
Leave(p) == procs' = [procs EXCEPT ![p] = Off] /\ Free(p)

-----------------------------------------------------------------------------
Start(p) ==
  /\ procs[p].at = "off"
  /\ \E build \in Builds, label \in Label \cup {UNLABELLED} :
       procs' = [procs EXCEPT ![p] =
         [at |-> "starting", build |-> build, label |-> label, v |-> 0, n |-> 0]]
  /\ UNCHANGED <<rows, runs, env, lock, crashes, timeouts>>

(* migrate: nothing is locked when there is nothing to do. *)
Probe(p) ==
  /\ procs[p].at = "starting"
  /\ Goto(p, IF Ready(p) /\ ~NeedsClaim(procs[p].label) THEN "open" ELSE "waiting")
  /\ UNCHANGED <<rows, runs, env, lock, crashes, timeouts>>

(* Mutant: it is not waited for whoever has the lock. *)
AcquireAnyway(p) ==
  /\ procs[p].at = "waiting"
  /\ lock' = p
  /\ procs' = [procs EXCEPT ![p].at = "looking", ![p].v = 1]
  /\ UNCHANGED <<rows, runs, env, crashes, timeouts>>

(* lock_migrations: GET_LOCK answers 1. *)
Acquire(p) ==
  /\ procs[p].at = "waiting"
  /\ lock = NULL
  /\ lock' = p
  /\ procs' = [procs EXCEPT ![p].at = "looking", ![p].v = 1]
  /\ UNCHANGED <<rows, runs, env, crashes, timeouts>>

(* MIGRATION_LOCK_TIMEOUT *)
GiveUp(p) ==
  /\ timeouts < MaxTimeouts
  /\ procs[p].at = "waiting" /\ lock # NULL
  /\ Leave(p)
  /\ timeouts' = timeouts + 1
  /\ UNCHANGED <<rows, runs, env, crashes>>

(* migrate_locked: the next migration this build knows, unless it was      *)
(* applied; after the last the database is claimed.                        *)
Look(p) ==
  LET v == procs[p].v IN
  /\ procs[p].at = "looking"
  /\ procs' = [procs EXCEPT ![p] =
       IF v > @.build THEN [@ EXCEPT !.at = "claiming"]
       ELSE IF v \in rows THEN [@ EXCEPT !.v = v + 1]
       ELSE [@ EXCEPT !.at = "running", !.n = 1]]
  /\ UNCHANGED <<rows, runs, env, lock, crashes, timeouts>>

(* A statement that was run before fails if it cannot be repeated. *)
Fails(v, n) == Scripts[v][n] = "once" /\ runs[v][n] > 0

RunStatement(p) ==
  LET v == procs[p].v
      n == procs[p].n
  IN  /\ procs[p].at = "running" /\ n <= Len(Scripts[v])
      /\ ~Fails(v, n)
      /\ runs' = [runs EXCEPT ![v][n] = @ + 1]
      /\ procs' = [procs EXCEPT ![p].n = n + 1]
      /\ UNCHANGED <<rows, env, lock, crashes, timeouts>>

Fail(p) ==
  LET v == procs[p].v
      n == procs[p].n
  IN  /\ procs[p].at = "running" /\ n <= Len(Scripts[v])
      /\ Fails(v, n)
      /\ Leave(p)
      /\ UNCHANGED <<rows, runs, env, crashes, timeouts>>

(* Mutant: the version is recorded before the last statement. *)
RecordEarly(p) ==
  LET v == procs[p].v IN
  /\ procs[p].at = "running" /\ procs[p].n = Len(Scripts[v])
  /\ rows' = rows \cup {v}
  /\ procs' = [procs EXCEPT ![p].at = "looking", ![p].v = v + 1]
  /\ UNCHANGED <<runs, env, lock, crashes, timeouts>>

Record(p) ==
  LET v == procs[p].v IN
  /\ procs[p].at = "running" /\ procs[p].n > Len(Scripts[v])
  /\ rows' = rows \cup {v}
  /\ procs' = [procs EXCEPT ![p].at = "looking", ![p].v = v + 1]
  /\ UNCHANGED <<runs, env, lock, crashes, timeouts>>

(* Mutant: whoever is refused keeps the lock. *)
ClaimKeepingLock(p) ==
  LET label == procs[p].label IN
  /\ procs[p].at = "claiming"
  /\ IF Conflicts(label) THEN procs' = [procs EXCEPT ![p] = Off] /\ UNCHANGED <<env, lock>>
     ELSE /\ env' = IF env = NULL \/ env = UNLABELLED THEN label ELSE env
          /\ Serve(p) /\ lock' = NULL
  /\ UNCHANGED <<rows, runs, crashes, timeouts>>

(* Mutant: a label is taken over by whoever comes last. *)
ClaimOver(p) ==
  LET label == procs[p].label IN
  /\ procs[p].at = "claiming"
  /\ env' = IF env = NULL \/ label # UNLABELLED THEN label ELSE env
  /\ Serve(p) /\ lock' = NULL
  /\ UNCHANGED <<rows, runs, crashes, timeouts>>

(* claim_environment, the last thing done under the lock: a database that  *)
(* is another's is refused, one without a label gets it.                   *)
Claim(p) ==
  LET label == procs[p].label IN
  /\ procs[p].at = "claiming"
  /\ IF Conflicts(label) THEN Leave(p) /\ UNCHANGED env
     ELSE /\ env' = IF env = NULL \/ env = UNLABELLED THEN label ELSE env
          /\ Serve(p) /\ Free(p)
  /\ UNCHANGED <<rows, runs, crashes, timeouts>>

(* The process is killed, or the storage fails it. *)
Crash(p) ==
  /\ crashes < MaxCrashes
  /\ procs[p].at # "off"
  /\ Leave(p)
  /\ crashes' = crashes + 1
  /\ UNCHANGED <<rows, runs, env, timeouts>>

(* The platform lets a process go that has nothing to do. *)
Retire(p) ==
  /\ procs[p].at = "open"
  /\ Leave(p)
  /\ UNCHANGED <<rows, runs, env, crashes, timeouts>>

Step(p) ==
  Start(p) \/ Probe(p) \/ Look(p) \/ RunStatement(p) \/ Fail(p) \/ Record(p) \/ Claim(p)

Next == \E p \in Process : Step(p) \/ Acquire(p) \/ GiveUp(p) \/ Crash(p) \/ Retire(p)

(* A process that runs goes on, one that ended is started again for the    *)
(* next request, and GET_LOCK serves whoever waits; nobody is owed a crash *)
(* or a timeout.                                                           *)
Fairness == \A p \in Process : WF_vars(Step(p)) /\ SF_vars(Acquire(p))

Spec == Init /\ [][Next]_vars /\ Fairness

-----------------------------------------------------------------------------
(* What is recorded as applied was applied: a version has those before it, *)
(* each with all its statements; and however many processes start at once, *)
(* no statement is run again but after a crash (docs/production-durability *)
(* .md: "simultaneous cold starts migrate exactly once").                  *)
SchemaIsWhole ==
  /\ \A v \in rows : (\A u \in 1..v : u \in rows) /\ \A n \in DOMAIN runs[v] : runs[v][n] > 0
  /\ \A v \in DOMAIN runs : \A n \in DOMAIN runs[v] : runs[v][n] <= 1 + crashes

(* A process that serves is not of another deployment than the database,   *)
(* whoever claims it, in whatever order, labelled or not.                  *)
OneEnvironment == \A p \in Process : procs[p].at = "open" => ~Conflicts(procs[p].label)

(* A crash between a statement that cannot be repeated and the record of   *)
(* its migration stops every later start there.                            *)
Stuck ==
  \E v \in DOMAIN Scripts \ rows : \E n \in DOMAIN Scripts[v] :
    Fails(v, n) /\ ~\E p \in Process : procs[p].at = "running" /\ procs[p].v = v /\ procs[p].n > n

(* Otherwise every process comes to serve in the end, or finds the         *)
(* database to be another deployment's.                                    *)
StartsEnd ==
  \A p \in Process : <>(procs[p].at = "open" \/ Stuck \/ (procs[p].at # "off" /\ Conflicts(procs[p].label)))

(* docs/production-durability.md: "a process configured for a different    *)
(* value refuses to migrate".                                              *)
OthersDoNotMigrate == [][runs' # runs => ~Conflicts(procs[lock].label)]_vars

-----------------------------------------------------------------------------
(* What makes SchemaIsWhole and OneEnvironment inductive: whoever migrates *)
(* holds the lock; it has come as far as it says; a statement was run once *)
(* for each crash, and once more where its migration is recorded or has    *)
(* got past it; and who serves found, or made, the database its own.       *)
Migrating(p) == procs[p].at \in {"looking", "running", "claiming"}
Exclusive == \A p \in Process : Migrating(p) <=> lock = p

Ordered ==
  /\ \A v \in rows : 1..v \subseteq rows /\ \A n \in DOMAIN Scripts[v] : runs[v][n] > 0
  /\ \A p \in Process :
       /\ procs[p].at # "off" => procs[p].build \in Builds
       /\ procs[p].at \in {"looking", "running"} =>
            procs[p].v > 0 /\ 1..(procs[p].v - 1) \subseteq rows
       /\ procs[p].at = "running" =>
            /\ procs[p].v \in DOMAIN Scripts \ rows
            /\ procs[p].n > 0
            /\ \A n \in DOMAIN Scripts[procs[p].v] : n < procs[p].n => runs[procs[p].v][n] > 0

Past(v, n) ==
  v \in rows \/ \E p \in Process : procs[p].at = "running" /\ procs[p].v = v /\ procs[p].n > n
Counted ==
  \A v \in DOMAIN Scripts : \A n \in DOMAIN Scripts[v] :
    runs[v][n] <= crashes + 1 /\ (~Past(v, n) => runs[v][n] <= crashes)

Claimed == \A p \in Process : procs[p].at = "open" => procs[p].label \in {UNLABELLED, env}

IInv == TypeOK /\ Exclusive /\ Ordered /\ Counted /\ Claimed
=============================================================================
