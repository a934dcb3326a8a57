---------------------------- MODULE SchemaProofs ----------------------------
(***************************************************************************)
(* Proofs about Schema, for every number of processes, every set of builds *)
(* and labels, every migration script whose unrepeatable statements come   *)
(* first, and any number of crashes and timeouts.                          *)
(***************************************************************************)
EXTENDS Schema, TLAPS

-----------------------------------------------------------------------------
LEMMA ScriptFacts ==
  /\ Len(Scripts) \in Nat /\ DOMAIN Scripts = 1..Len(Scripts)
  /\ Builds \subseteq 1..Len(Scripts)
  /\ \A v \in DOMAIN Scripts : Len(Scripts[v]) \in Nat /\ DOMAIN Scripts[v] = 1..Len(Scripts[v])
BY ScriptAssumption

(* The rows of processes. *)
LEMMA RowFacts ==
  /\ Off \in ProcessRow
  /\ \A r \in ProcessRow :
       /\ r.at \in {"off", "starting", "waiting", "looking", "running", "claiming", "open"}
       /\ r.build \in Builds \cup {0} /\ r.label \in Label \cup {UNLABELLED}
       /\ r.v \in 0..(Len(Scripts) + 1) /\ r.n \in Nat
BY ScriptFacts DEF Off, ProcessRow

(* A row that is changed in where it is and how far. *)
LEMMA RowUpdate ==
  ASSUME NEW r \in ProcessRow, NEW v \in 0..(Len(Scripts) + 1), NEW n \in Nat,
         NEW at \in {"off", "starting", "waiting", "looking", "running", "claiming", "open"}
  PROVE  /\ [r EXCEPT !.at = at] \in ProcessRow
         /\ [r EXCEPT !.at = at, !.v = v] \in ProcessRow
         /\ [r EXCEPT !.at = at, !.n = n] \in ProcessRow
         /\ [r EXCEPT !.at = at, !.v = v, !.n = n] \in ProcessRow
         /\ [r EXCEPT !.v = v] \in ProcessRow
         /\ [r EXCEPT !.n = n] \in ProcessRow
BY DEF ProcessRow

LEMMA InvInit == Init => IInv
<1> SUFFICES ASSUME Init PROVE IInv
  OBVIOUS
<1>1. TypeOK
  <2>1. procs \in [Process -> ProcessRow]
    BY RowFacts DEF Init
  <2>2. \A v \in DOMAIN Scripts : runs[v] \in [DOMAIN Scripts[v] -> Nat]
    BY DEF Init
  <2> QED BY <2>1, <2>2 DEF Init, TypeOK
<1>2. Exclusive
  BY LabelAssumption DEF Init, Exclusive, Migrating, Off
<1>3. Ordered
  BY DEF Init, Ordered, Off
<1>4. Counted
  <2> SUFFICES ASSUME NEW v \in DOMAIN Scripts, NEW n \in DOMAIN Scripts[v]
               PROVE  runs[v][n] = 0
    BY DEF Counted, Init
  <2> QED BY DEF Init
<1>5. Claimed
  BY DEF Init, Claimed, Off
<1> QED BY <1>1, <1>2, <1>3, <1>4, <1>5 DEF IInv

-----------------------------------------------------------------------------
(* Steps that leave the database alone and change the row of one process.  *)
LEMMA RowChange ==
  ASSUME IInv, NEW p \in Process, NEW r \in ProcessRow, procs' = [procs EXCEPT ![p] = r],
         UNCHANGED <<rows, runs, env>>,
         crashes' \in Nat, crashes <= crashes', timeouts' \in Nat,
         lock' \in Process \cup {NULL},
         \A q \in Process \ {p} : lock' = q <=> lock = q,
         r.at \in {"looking", "running", "claiming"} <=> lock' = p,
         r.at # "off" => r.build \in Builds,
         r.at \in {"looking", "running"} => r.v > 0 /\ 1..(r.v - 1) \subseteq rows,
         r.at = "running" =>
           /\ r.v \in DOMAIN Scripts \ rows /\ r.n > 0
           /\ \A n \in DOMAIN Scripts[r.v] : n < r.n => runs[r.v][n] > 0,
         r.at = "open" => r.label \in {UNLABELLED, env},
         procs[p].at = "running" =>
            \/ crashes < crashes'
            \/ \A n \in DOMAIN Scripts[procs[p].v] : ~(procs[p].n > n)
  PROVE  IInv'
<1>1. /\ procs'[p] = r
      /\ \A q \in Process \ {p} : procs'[q] = procs[q]
  BY DEF IInv, TypeOK
<1>2. TypeOK'
  BY DEF IInv, TypeOK
<1>3. Exclusive'
  BY <1>1 DEF IInv, Exclusive, Migrating
<1>4. Ordered'
  BY <1>1 DEF IInv, Ordered
<1>5. Counted'
  <2> SUFFICES ASSUME NEW v \in DOMAIN Scripts, NEW n \in DOMAIN Scripts[v]
               PROVE  runs[v][n] <= crashes' + 1 /\ (~Past(v, n)' => runs[v][n] <= crashes')
    BY DEF Counted
  <2>1. runs[v][n] \in Nat /\ crashes \in Nat
    BY DEF IInv, TypeOK
  <2>2. runs[v][n] <= crashes + 1 /\ (~Past(v, n) => runs[v][n] <= crashes)
    BY DEF IInv, Counted
  <2>3. ASSUME Past(v, n), ~Past(v, n)' PROVE crashes < crashes'
    <3>1. v \notin rows
      BY <2>3 DEF Past
    <3>2. PICK q \in Process : procs[q].at = "running" /\ procs[q].v = v /\ procs[q].n > n
      BY <2>3, <3>1 DEF Past
    <3>3. q = p
      BY <1>1, <2>3, <3>2 DEF Past
    <3> QED BY <3>2, <3>3
  <2> QED BY <2>1, <2>2, <2>3
<1>6. Claimed'
  BY <1>1 DEF IInv, Claimed
<1> QED BY <1>2, <1>3, <1>4, <1>5, <1>6 DEF IInv

(* A process that ends takes its lock with it. *)
LEMMA Leaving ==
  ASSUME IInv, NEW p \in Process, Leave(p), UNCHANGED <<rows, runs, env>>,
         crashes' \in Nat, crashes <= crashes', timeouts' \in Nat,
         procs[p].at = "running" =>
            \/ crashes < crashes'
            \/ \A n \in DOMAIN Scripts[procs[p].v] : ~(procs[p].n > n)
  PROVE  IInv'
<1>1. procs' = [procs EXCEPT ![p] = Off] /\ Off \in ProcessRow
  BY RowFacts DEF Leave
<1>2. /\ lock' \in Process \cup {NULL} /\ lock' # p
      /\ \A q \in Process \ {p} : lock' = q <=> lock = q
  BY LabelAssumption DEF Leave, Free, IInv, TypeOK
<1>3. /\ Off.at = "off"
      /\ Off.at \in {"looking", "running", "claiming"} <=> lock' = p
  BY <1>2 DEF Off
<1> QED BY <1>1, <1>2, <1>3, RowChange

(* A process alone goes on, without ending or taking the lock. *)
LEMMA GoesOn ==
  ASSUME IInv, NEW p \in Process, NEW r \in ProcessRow, procs' = [procs EXCEPT ![p] = r],
         rows' = rows, runs' = runs, env' = env, crashes' = crashes, timeouts' = timeouts,
         lock' \in {lock, p}, lock' = lock \/ lock = NULL,
         procs[p].at # "running",
         r.at \in {"looking", "running", "claiming"} <=> lock' = p,
         r.at # "off" => r.build \in Builds,
         r.at \in {"looking", "running"} => r.v > 0 /\ 1..(r.v - 1) \subseteq rows,
         r.at = "running" => r.v \in DOMAIN Scripts \ rows /\ r.n = 1,
         r.at = "open" => r.label \in {UNLABELLED, env}
  PROVE  IInv'
<1>1. crashes \in Nat /\ crashes <= crashes /\ timeouts \in Nat /\ lock \in Process \cup {NULL}
  BY DEF IInv, TypeOK
<1>2. lock' \in Process \cup {NULL} /\ \A q \in Process \ {p} : lock' = q <=> lock = q
  BY <1>1, LabelAssumption
<1>3. r.at = "running" => \A n \in DOMAIN Scripts[r.v] : ~(n < r.n)
  BY ScriptFacts
<1>4. r.at = "running" =>
        /\ r.v \in DOMAIN Scripts \ rows /\ r.n > 0
        /\ \A n \in DOMAIN Scripts[r.v] : n < r.n => runs[r.v][n] > 0
  BY <1>3
<1> QED BY <1>1, <1>2, <1>4, RowChange

LEMMA StartStep ==
  ASSUME IInv, NEW p \in Process, Start(p)
  PROVE  IInv'
<1>1. PICK build \in Builds, label \in Label \cup {UNLABELLED} :
        procs' = [procs EXCEPT ![p] =
          [at |-> "starting", build |-> build, label |-> label, v |-> 0, n |-> 0]]
  BY DEF Start
<1> DEFINE r == [at |-> "starting", build |-> build, label |-> label, v |-> 0, n |-> 0]
<1>2. 0 \in 0..(Len(Scripts) + 1)
  BY ScriptFacts
<1>3. r \in ProcessRow /\ r.at = "starting" /\ r.build \in Builds
  BY <1>2 DEF ProcessRow
<1>4. procs' = [procs EXCEPT ![p] = r]
  BY <1>1
<1>5. procs[p].at = "off" /\ lock # p
  BY DEF Start, IInv, Exclusive, Migrating
<1> HIDE DEF r
<1> QED BY <1>3, <1>4, <1>5, GoesOn DEF Start

LEMMA ProbeStep ==
  ASSUME IInv, NEW p \in Process, Probe(p)
  PROVE  IInv'
<1> DEFINE at == IF Ready(p) /\ ~NeedsClaim(procs[p].label) THEN "open" ELSE "waiting"
           r == [procs[p] EXCEPT !.at = at]
<1>1. procs[p] \in ProcessRow /\ procs[p].at = "starting" /\ lock # p
  BY DEF Probe, IInv, TypeOK, Exclusive, Migrating
<1>2. procs[p].build \in Builds
  BY <1>1 DEF IInv, Ordered
<1>3. procs' = [procs EXCEPT ![p] = r]
  BY DEF Probe, Goto, IInv, TypeOK
<1>4. at \in {"open", "waiting"} /\ (at = "open" => procs[p].label \in {UNLABELLED, env})
  BY DEF Ready, NeedsClaim
<1> HIDE DEF at
<1>5. /\ r \in ProcessRow
      /\ r.at = at /\ r.build = procs[p].build /\ r.label = procs[p].label
  BY <1>1, <1>4 DEF ProcessRow
<1> HIDE DEF r
<1> QED BY <1>1, <1>2, <1>3, <1>4, <1>5, GoesOn DEF Probe

LEMMA AcquireStep ==
  ASSUME IInv, NEW p \in Process, Acquire(p)
  PROVE  IInv'
<1> DEFINE r == [procs[p] EXCEPT !.at = "looking", !.v = 1]
<1>1. procs[p] \in ProcessRow /\ procs[p].at = "waiting" /\ procs[p].build \in Builds
  BY DEF Acquire, IInv, TypeOK, Ordered
<1>2. 1 \in 0..(Len(Scripts) + 1)
  BY ScriptFacts
<1>3. r \in ProcessRow
  BY <1>1, <1>2, RowUpdate
<1>4. r.at = "looking" /\ r.v = 1 /\ r.build = procs[p].build
  BY <1>1 DEF ProcessRow
<1>5. r.v > 0 /\ 1..(r.v - 1) \subseteq rows
  BY <1>4
<1>6. procs' = [procs EXCEPT ![p] = r]
  BY DEF Acquire, IInv, TypeOK
<1> HIDE DEF r
<1> QED BY <1>1, <1>3, <1>4, <1>5, <1>6, GoesOn DEF Acquire

LEMMA LookStep ==
  ASSUME IInv, NEW p \in Process, Look(p)
  PROVE  IInv'
<1> DEFINE v == procs[p].v
           r == IF v > procs[p].build THEN [procs[p] EXCEPT !.at = "claiming"]
                ELSE IF v \in rows THEN [procs[p] EXCEPT !.v = v + 1]
                ELSE [procs[p] EXCEPT !.at = "running", !.n = 1]
<1>1. /\ procs[p] \in ProcessRow /\ procs[p].at = "looking" /\ procs[p].build \in Builds
      /\ v > 0 /\ v \in Nat /\ 1..(v - 1) \subseteq rows /\ lock = p
  BY RowFacts DEF Look, IInv, TypeOK, Ordered, Exclusive, Migrating
<1>2. procs' = [procs EXCEPT ![p] = r]
  BY DEF Look, IInv, TypeOK
<1>3. rows \subseteq 1..Len(Scripts) /\ Builds \subseteq 1..Len(Scripts) /\ Len(Scripts) \in Nat
  BY ScriptFacts DEF IInv, TypeOK
<1>4. CASE v > procs[p].build
  <2>1. r = [procs[p] EXCEPT !.at = "claiming"]
    BY <1>4
  <2>2. r \in ProcessRow /\ r.at = "claiming" /\ r.build = procs[p].build
    BY <1>1, <2>1 DEF ProcessRow
  <2> HIDE DEF r
  <2> QED BY <1>1, <1>2, <2>2, GoesOn DEF Look
<1>5. CASE ~(v > procs[p].build) /\ v \in rows
  <2>1. r = [procs[p] EXCEPT !.v = v + 1]
    BY <1>5
  <2>2. v + 1 \in 0..(Len(Scripts) + 1) /\ 1..(v + 1 - 1) \subseteq rows
    BY <1>1, <1>3, <1>5
  <2>3. r \in ProcessRow /\ r.at = "looking" /\ r.build = procs[p].build /\ r.v = v + 1
    BY <1>1, <2>1, <2>2 DEF ProcessRow
  <2>4. r.v > 0 /\ 1..(r.v - 1) \subseteq rows
    BY <1>1, <2>2, <2>3
  <2> HIDE DEF r
  <2> QED BY <1>1, <1>2, <2>3, <2>4, GoesOn DEF Look
<1>6. CASE ~(v > procs[p].build) /\ v \notin rows
  <2>1. r = [procs[p] EXCEPT !.at = "running", !.n = 1]
    BY <1>6
  <2>2. r \in ProcessRow
    BY <1>1, <2>1 DEF ProcessRow
  <2>3. r.at = "running" /\ r.build = procs[p].build /\ r.v = v /\ r.n = 1
    BY <1>1, <2>1 DEF ProcessRow
  <2>4. procs[p].build \in 1..Len(Scripts)
    BY <1>1, <1>3
  <2>5. v \in DOMAIN Scripts \ rows
    BY <1>1, <1>3, <1>6, <2>4, ScriptFacts
  <2> HIDE DEF r
  <2> QED BY <1>1, <1>2, <2>2, <2>3, <2>5, GoesOn DEF Look
<1> QED BY <1>4, <1>5, <1>6

(* The script a migrating process works on, and that nobody else migrates. *)
LEMMA AtWork ==
  ASSUME IInv, NEW p \in Process, procs[p].at = "running"
  PROVE  /\ procs[p] \in ProcessRow /\ procs[p].build \in Builds /\ lock = p
         /\ procs[p].v \in DOMAIN Scripts \ rows /\ procs[p].n \in Nat \ {0}
         /\ 1..(procs[p].v - 1) \subseteq rows
         /\ \A n \in DOMAIN Scripts[procs[p].v] : n < procs[p].n => runs[procs[p].v][n] > 0
         /\ \A q \in Process \ {p} : procs[q].at \notin {"looking", "running", "claiming"}
BY RowFacts DEF IInv, TypeOK, Exclusive, Migrating, Ordered

LEMMA RunStep ==
  ASSUME IInv, NEW p \in Process, RunStatement(p)
  PROVE  IInv'
<1> DEFINE v == procs[p].v
           n == procs[p].n
           r == [procs[p] EXCEPT !.n = n + 1]
<1>1. /\ procs[p].at = "running" /\ n <= Len(Scripts[v])
      /\ runs' = [runs EXCEPT ![v][n] = @ + 1]
      /\ procs' = [procs EXCEPT ![p].n = n + 1]
      /\ UNCHANGED <<rows, env, lock, crashes, timeouts>>
  BY DEF RunStatement
<1>2. /\ procs[p] \in ProcessRow /\ procs[p].build \in Builds /\ lock = p
      /\ v \in DOMAIN Scripts \ rows /\ n \in Nat \ {0} /\ 1..(v - 1) \subseteq rows
      /\ \A m \in DOMAIN Scripts[v] : m < n => runs[v][m] > 0
      /\ \A q \in Process \ {p} : procs[q].at \notin {"looking", "running", "claiming"}
  BY <1>1, AtWork
<1>3. n \in DOMAIN Scripts[v] /\ DOMAIN Scripts[v] \subseteq Nat
  BY <1>1, <1>2, ScriptFacts
<1>4. /\ r \in ProcessRow /\ r.at = "running" /\ r.build = procs[p].build
      /\ r.v = v /\ r.n = n + 1 /\ r.label = procs[p].label
  BY <1>1, <1>2 DEF ProcessRow
<1>5. procs'[p] = r /\ \A q \in Process \ {p} : procs'[q] = procs[q]
  BY <1>1 DEF IInv, TypeOK
<1>6. \A u \in DOMAIN Scripts : \A m \in DOMAIN Scripts[u] :
        /\ runs[u][m] \in Nat
        /\ runs'[u][m] = IF u = v /\ m = n THEN runs[u][m] + 1 ELSE runs[u][m]
  <2>1. DOMAIN runs = DOMAIN Scripts /\ \A u \in DOMAIN Scripts : runs[u] \in [DOMAIN Scripts[u] -> Nat]
    BY DEF IInv, TypeOK
  <2> QED BY <1>1, <1>2, <1>3, <2>1
<1>7. TypeOK'
  <2>1. procs' \in [Process -> ProcessRow]
    BY <1>1, <1>4 DEF IInv, TypeOK
  <2>2. /\ DOMAIN runs' = DOMAIN Scripts
        /\ \A u \in DOMAIN Scripts : runs'[u] \in [DOMAIN Scripts[u] -> Nat]
    <3>1. DOMAIN runs = DOMAIN Scripts /\ \A u \in DOMAIN Scripts : runs[u] \in [DOMAIN Scripts[u] -> Nat]
      BY DEF IInv, TypeOK
    <3> QED BY <1>1, <1>2, <1>3, <3>1
  <2> QED BY <1>1, <2>1, <2>2 DEF IInv, TypeOK
<1> HIDE DEF r, v, n
<1>8. Exclusive'
  BY <1>1, <1>2, <1>4, <1>5 DEF IInv, Exclusive, Migrating
<1>9. Ordered'
  <2>1. \A u \in rows' : 1..u \subseteq rows' /\ \A m \in DOMAIN Scripts[u] : runs'[u][m] > 0
    <3>1. rows \subseteq DOMAIN Scripts
      BY DEF IInv, TypeOK
    <3> QED BY <1>1, <1>2, <1>6, <3>1 DEF IInv, Ordered
  <2>2. \A m \in DOMAIN Scripts[v] : m < n + 1 => runs'[v][m] > 0
    BY <1>2, <1>3, <1>6
  <2>3. v > 0
    BY <1>2, ScriptFacts
  <2>4. \A q \in Process :
          /\ procs'[q].at # "off" => procs'[q].build \in Builds
          /\ procs'[q].at \in {"looking", "running"} =>
               procs'[q].v > 0 /\ 1..(procs'[q].v - 1) \subseteq rows
          /\ procs'[q].at = "running" =>
               /\ procs'[q].v \in DOMAIN Scripts \ rows
               /\ procs'[q].n > 0
               /\ \A m \in DOMAIN Scripts[procs'[q].v] : m < procs'[q].n => runs'[procs'[q].v][m] > 0
    <3> TAKE q \in Process
    <3>1. CASE q = p
      BY <1>2, <1>4, <1>5, <2>2, <2>3, <3>1
    <3>2. CASE q # p
      BY <1>2, <1>5, <3>2 DEF IInv, Ordered
    <3> QED BY <3>1, <3>2
  <2> QED BY <1>1, <2>1, <2>4 DEF Ordered
<1>10. Counted'
  <2> SUFFICES ASSUME NEW u \in DOMAIN Scripts, NEW m \in DOMAIN Scripts[u]
               PROVE  runs'[u][m] <= crashes + 1 /\ (~Past(u, m)' => runs'[u][m] <= crashes)
    BY <1>1 DEF Counted
  <2>1. crashes \in Nat /\ runs[u][m] <= crashes + 1 /\ (~Past(u, m) => runs[u][m] <= crashes)
    BY DEF IInv, TypeOK, Counted
  <2>2. CASE u = v /\ m = n
    <3>1. ~Past(u, m)
      BY <1>2, <2>2 DEF Past, v, n
    <3>2. Past(u, m)'
      BY <1>2, <1>4, <1>5, <2>2 DEF Past
    <3> QED BY <1>6, <2>1, <2>2, <3>1, <3>2
  <2>3. CASE ~(u = v /\ m = n)
    <3>1. m \in Nat
      BY ScriptFacts
    <3>2. Past(u, m) => Past(u, m)'
      BY <1>1, <1>2, <1>4, <1>5, <3>1 DEF Past, v, n
    <3> QED BY <1>6, <2>1, <2>3, <3>2
  <2> QED BY <2>2, <2>3
<1>11. Claimed'
  BY <1>1, <1>4, <1>5 DEF IInv, Claimed
<1> QED BY <1>7, <1>8, <1>9, <1>10, <1>11 DEF IInv

(* Only the first statement of a migration may fail, so nothing has been   *)
(* run by the time it does.                                                *)
LEMMA FailStep ==
  ASSUME IInv, NEW p \in Process, Fail(p)
  PROVE  IInv'
<1>1. /\ procs[p].at = "running" /\ procs[p].n <= Len(Scripts[procs[p].v])
      /\ Scripts[procs[p].v][procs[p].n] = "once"
      /\ Leave(p) /\ rows' = rows /\ runs' = runs /\ env' = env
      /\ crashes' = crashes /\ timeouts' = timeouts
  BY DEF Fail, Fails
<1>2. procs[p].v \in DOMAIN Scripts /\ procs[p].n \in Nat \ {0}
  BY <1>1, AtWork
<1>3. procs[p].n \in DOMAIN Scripts[procs[p].v]
  BY <1>1, <1>2, ScriptFacts
<1>4. procs[p].n = 1
  BY <1>1, <1>2, <1>3, OnceAssumption
<1>5. \A n \in DOMAIN Scripts[procs[p].v] : ~(procs[p].n > n)
  BY <1>2, <1>4, ScriptFacts
<1>6. crashes \in Nat /\ crashes <= crashes /\ timeouts \in Nat
  BY DEF IInv, TypeOK
<1> QED BY <1>1, <1>5, <1>6, Leaving

LEMMA RecordStep ==
  ASSUME IInv, NEW p \in Process, Record(p)
  PROVE  IInv'
<1> DEFINE v == procs[p].v
           r == [procs[p] EXCEPT !.at = "looking", !.v = v + 1]
<1>1. /\ procs[p].at = "running" /\ procs[p].n > Len(Scripts[v])
      /\ rows' = rows \cup {v}
      /\ procs' = [procs EXCEPT ![p] = r]
      /\ UNCHANGED <<runs, env, lock, crashes, timeouts>>
  BY DEF Record, IInv, TypeOK
<1>2. /\ procs[p] \in ProcessRow /\ procs[p].build \in Builds /\ lock = p
      /\ v \in DOMAIN Scripts \ rows /\ procs[p].n \in Nat \ {0} /\ 1..(v - 1) \subseteq rows
      /\ \A m \in DOMAIN Scripts[v] : m < procs[p].n => runs[v][m] > 0
      /\ \A q \in Process \ {p} : procs[q].at \notin {"looking", "running", "claiming"}
  BY <1>1, AtWork
<1>3. v \in Nat \ {0} /\ v + 1 \in 0..(Len(Scripts) + 1) /\ 1..v \subseteq rows'
  <2>1. v \in 1..Len(Scripts) /\ Len(Scripts) \in Nat
    BY <1>2, ScriptFacts
  <2>2. \A w \in 1..v : w = v \/ w \in 1..(v - 1)
    BY <2>1
  <2>3. 1..v \subseteq rows'
    BY <1>1, <1>2, <2>2
  <2> QED BY <2>1, <2>3
<1>4. r \in ProcessRow /\ r.at = "looking" /\ r.v = v + 1 /\ r.build = procs[p].build
  BY <1>2, <1>3 DEF ProcessRow
<1>5. procs'[p] = r /\ \A q \in Process \ {p} : procs'[q] = procs[q]
  BY <1>1 DEF IInv, TypeOK
<1>6. TypeOK'
  BY <1>1, <1>2, <1>4 DEF IInv, TypeOK
<1> HIDE DEF r
<1>7. Exclusive'
  BY <1>1, <1>2, <1>4, <1>5 DEF IInv, Exclusive, Migrating
<1>8. Ordered'
  <2>1. \A u \in rows' : 1..u \subseteq rows' /\ \A m \in DOMAIN Scripts[u] : runs'[u][m] > 0
    <3> SUFFICES ASSUME NEW u \in rows'
                 PROVE  1..u \subseteq rows' /\ \A m \in DOMAIN Scripts[u] : runs[u][m] > 0
      BY <1>1
    <3>1. CASE u = v
      <4>1. \A m \in DOMAIN Scripts[v] : m < procs[p].n
        BY <1>1, <1>2, ScriptFacts
      <4> QED BY <1>2, <1>3, <3>1, <4>1
    <3>2. CASE u # v
      BY <1>1, <3>2 DEF IInv, Ordered
    <3> QED BY <3>1, <3>2
  <2>2. \A q \in Process :
          /\ procs'[q].at # "off" => procs'[q].build \in Builds
          /\ procs'[q].at \in {"looking", "running"} =>
               procs'[q].v > 0 /\ 1..(procs'[q].v - 1) \subseteq rows'
          /\ procs'[q].at # "running"
    <3> TAKE q \in Process
    <3>1. CASE q = p
      <4>1. r.v > 0 /\ 1..(r.v - 1) \subseteq rows'
        BY <1>3, <1>4
      <4> QED BY <1>2, <1>4, <1>5, <3>1, <4>1
    <3>2. CASE q # p
      BY <1>2, <1>5, <3>2 DEF IInv, Ordered
    <3> QED BY <3>1, <3>2
  <2> QED BY <2>1, <2>2 DEF Ordered
<1>9. Counted'
  <2> SUFFICES ASSUME NEW u \in DOMAIN Scripts, NEW m \in DOMAIN Scripts[u]
               PROVE  runs[u][m] <= crashes + 1 /\ (~Past(u, m)' => runs[u][m] <= crashes)
    BY <1>1 DEF Counted
  <2>1. runs[u][m] <= crashes + 1 /\ (~Past(u, m) => runs[u][m] <= crashes)
    BY DEF IInv, Counted
  <2>2. Past(u, m) => Past(u, m)'
    BY <1>1, <1>2, <1>5 DEF Past
  <2> QED BY <2>1, <2>2
<1>10. Claimed'
  BY <1>1, <1>4, <1>5 DEF IInv, Claimed
<1> QED BY <1>6, <1>7, <1>8, <1>9, <1>10 DEF IInv

(* A label that was written is not replaced, so whoever serves goes on     *)
(* serving its own database.                                               *)
LEMMA ClaimStep ==
  ASSUME IInv, NEW p \in Process, Claim(p)
  PROVE  IInv'
<1>1. /\ procs[p].at = "claiming" /\ procs[p] \in ProcessRow /\ procs[p].build \in Builds
      /\ lock = p /\ procs[p].label \in Label \cup {UNLABELLED}
      /\ rows' = rows /\ runs' = runs /\ crashes' = crashes /\ timeouts' = timeouts
      /\ crashes \in Nat /\ crashes <= crashes /\ timeouts \in Nat
  BY RowFacts DEF Claim, IInv, TypeOK, Ordered, Exclusive, Migrating
<1>2. CASE Conflicts(procs[p].label)
  <2>1. Leave(p) /\ env' = env
    BY <1>2 DEF Claim
  <2> QED BY <1>1, <2>1, Leaving
<1>3. CASE ~Conflicts(procs[p].label)
  <2> DEFINE r == [procs[p] EXCEPT !.at = "open", !.v = 0, !.n = 0]
  <2>1. /\ env' = IF env = NULL \/ env = UNLABELLED THEN procs[p].label ELSE env
        /\ procs' = [procs EXCEPT ![p] = r] /\ lock' = NULL
    BY <1>1, <1>3 DEF Claim, Serve, Free, IInv, TypeOK
  <2>2. 0 \in 0..(Len(Scripts) + 1)
    BY ScriptFacts
  <2>3. r \in ProcessRow /\ r.at = "open" /\ r.label = procs[p].label /\ r.build = procs[p].build
    BY <1>1, <2>2 DEF ProcessRow
  <2>4. procs'[p] = r /\ \A q \in Process \ {p} : procs'[q] = procs[q]
    BY <2>1 DEF IInv, TypeOK
  <2>5. TypeOK'
    BY <1>1, <2>1, <2>3 DEF IInv, TypeOK
  <2> HIDE DEF r
  <2>6. Exclusive'
    BY <1>1, <2>1, <2>3, <2>4, LabelAssumption DEF IInv, Exclusive, Migrating
  <2>7. Ordered'
    BY <1>1, <2>3, <2>4 DEF IInv, Ordered
  <2>8. Counted'
    <3> SUFFICES ASSUME NEW v \in DOMAIN Scripts, NEW n \in DOMAIN Scripts[v]
                 PROVE  runs[v][n] <= crashes + 1 /\ (~Past(v, n)' => runs[v][n] <= crashes)
      BY <1>1 DEF Counted
    <3>1. runs[v][n] <= crashes + 1 /\ (~Past(v, n) => runs[v][n] <= crashes)
      BY DEF IInv, Counted
    <3>2. Past(v, n) => Past(v, n)'
      BY <1>1, <2>4 DEF Past
    <3> QED BY <3>1, <3>2
  <2>9. Claimed'
    <3> SUFFICES ASSUME NEW q \in Process, procs'[q].at = "open"
                 PROVE  procs'[q].label \in {UNLABELLED, env'}
      BY DEF Claimed
    <3>1. CASE q = p
      BY <1>3, <2>1, <2>3, <2>4, <3>1 DEF Conflicts
    <3>2. CASE q # p
      <4>1. procs[q].label \in {UNLABELLED, env} /\ procs[q] \in ProcessRow /\ procs[q].build \in Builds
        BY <2>4, <3>2 DEF IInv, Claimed, TypeOK, Ordered
      <4>2. procs[q].label # NULL
        BY <4>1, RowFacts, LabelAssumption
      <4>3. CASE env = NULL
        BY <2>4, <3>2, <4>1, <4>3, <4>2
      <4>4. CASE env # NULL
        BY <2>1, <2>4, <3>2, <4>1, <4>4
      <4> QED BY <4>3, <4>4
    <3> QED BY <3>1, <3>2
  <2> QED BY <2>5, <2>6, <2>7, <2>8, <2>9 DEF IInv
<1> QED BY <1>2, <1>3

LEMMA InvNext == IInv /\ [Next]_vars => IInv'
<1> SUFFICES ASSUME IInv, [Next]_vars PROVE IInv'
  OBVIOUS
<1>1. crashes \in Nat /\ crashes <= crashes + 1 /\ crashes + 1 \in Nat /\ timeouts \in Nat
  BY DEF IInv, TypeOK
<1>2. ASSUME NEW p \in Process, GiveUp(p) PROVE IInv'
  <2>1. /\ procs[p].at = "waiting" /\ Leave(p)
        /\ rows' = rows /\ runs' = runs /\ env' = env
        /\ crashes' = crashes /\ timeouts' \in Nat
    BY <1>1, <1>2 DEF GiveUp
  <2> QED BY <1>1, <2>1, Leaving
<1>3. ASSUME NEW p \in Process, Crash(p) PROVE IInv'
  <2>1. /\ Leave(p) /\ rows' = rows /\ runs' = runs /\ env' = env
        /\ crashes' = crashes + 1 /\ timeouts' = timeouts
    BY <1>3 DEF Crash
  <2>2. crashes < crashes'
    BY <1>1, <2>1
  <2> QED BY <1>1, <2>1, <2>2, Leaving
<1>4. ASSUME NEW p \in Process, Retire(p) PROVE IInv'
  <2>1. /\ procs[p].at = "open" /\ Leave(p)
        /\ rows' = rows /\ runs' = runs /\ env' = env
        /\ crashes' = crashes /\ timeouts' = timeouts
    BY <1>4 DEF Retire
  <2> QED BY <1>1, <2>1, Leaving
<1>5. CASE UNCHANGED vars
  BY <1>5 DEF vars, IInv, TypeOK, Exclusive, Migrating, Ordered, Counted, Past, Claimed
<1> QED
  BY <1>2, <1>3, <1>4, <1>5, StartStep, ProbeStep, AcquireStep, LookStep, RunStep, FailStep,
     RecordStep, ClaimStep DEF Next, Step

LEMMA Invariance == Spec => []IInv
<1> QED BY InvInit, InvNext, PTL DEF Spec

-----------------------------------------------------------------------------
(* The schema, the lock and the processes stay in their types.             *)
THEOREM TypeCorrect == Spec => []TypeOK
<1>1. IInv => TypeOK
  BY DEF IInv
<1> QED BY <1>1, Invariance, PTL

(* At most one process migrates at a time, and it holds the lock.          *)
THEOREM OneMigrates ==
  Spec => [](\A p, q \in Process : Migrating(p) /\ Migrating(q) => p = q)
<1>1. IInv => \A p, q \in Process : Migrating(p) /\ Migrating(q) => p = q
  BY DEF IInv, Exclusive
<1> QED BY <1>1, Invariance, PTL

(* What is recorded was applied, in order and whole, and nothing is run    *)
(* again but after a crash (SchemaIsWhole).                                *)
THEOREM WhatIsRecordedIsThere == Spec => []SchemaIsWhole
<1>1. IInv => SchemaIsWhole
  <2> SUFFICES ASSUME IInv PROVE SchemaIsWhole
    OBVIOUS
  <2>1. DOMAIN runs = DOMAIN Scripts /\ rows \subseteq DOMAIN Scripts
    BY DEF IInv, TypeOK
  <2>2. \A v \in DOMAIN Scripts : DOMAIN runs[v] = DOMAIN Scripts[v] /\ runs[v] \in [DOMAIN Scripts[v] -> Nat]
    BY DEF IInv, TypeOK
  <2>3. \A v \in rows : (\A u \in 1..v : u \in rows) /\ \A n \in DOMAIN runs[v] : runs[v][n] > 0
    BY <2>1, <2>2 DEF IInv, Ordered
  <2>4. \A v \in DOMAIN runs : \A n \in DOMAIN runs[v] : runs[v][n] <= 1 + crashes
    <3>1. crashes \in Nat /\ 1 + crashes = crashes + 1
      BY DEF IInv, TypeOK
    <3> QED BY <2>1, <2>2, <3>1 DEF IInv, Counted
  <2> QED BY <2>3, <2>4 DEF SchemaIsWhole
<1> QED BY <1>1, Invariance, PTL

(* Whoever serves is not of another deployment than the database.          *)
THEOREM ServesItsOwn == Spec => []OneEnvironment
<1>1. IInv => OneEnvironment
  BY DEF IInv, Claimed, OneEnvironment, Conflicts
<1> QED BY <1>1, Invariance, PTL
=============================================================================
