------------------------- MODULE SubordinatesProofs -------------------------
(***************************************************************************)
(* What holds of Subordinates for every set of entities, keys, values and  *)
(* workers, whatever entities publish, whatever is asked and for any value *)
(* of the bounds.                                                          *)
(***************************************************************************)
EXTENDS Subordinates, TLAPS

USE DEF SubPC, PC, Op, store, counters, At

-----------------------------------------------------------------------------
(* What the helpers return.                                                *)

LEMMA UpdatedIsRow == \A q \in Request : Updated(q) \in Row
  BY DEF Updated, Request, Row, Sign, Statement

LEMMA RenewedIsRow ==
  ASSUME NEW sub \in Row, NEW config \in Configuration
  PROVE  /\ Renewed(sub, config) \in Row
         /\ Renewed(sub, config).active = sub.active
         /\ Renewed(sub, config).forced = sub.forced
         /\ Renewed(sub, config).statement.forced = sub.forced
<1>1. config.metadata \in Class /\ config.jwks \in {None} \cup SUBSET Key
  BY DEF Configuration
<1>2. Sign(sub.jwks, sub.forced) \in Statement
      /\ Sign(sub.jwks, sub.forced).forced = sub.forced
  BY DEF Row, Sign, Statement
<1> DEFINE keys == IF config.jwks = None THEN sub.jwks ELSE config.jwks
           statement == Sign(sub.jwks, sub.forced)
<1>3. keys \in SUBSET Key
  BY <1>1 DEF Row
<1>4. Renewed(sub, config) =
        [sub EXCEPT !.metadata = config.metadata, !.jwks = keys,
                    !.statement = statement]
  BY DEF Renewed, Row
<1> HIDE DEF keys, statement
<1> QED BY <1>1, <1>2, <1>3, <1>4 DEF Row, statement

LEMMA Unacceptable ==
  \A config, keys : Raises(config, keys) => ~Accepts(config, keys)
  BY DEF Raises, Accepts

LEMMA EventIsEvent ==
  \A before, sub : Event(before, sub) \in
    {"registration", "revocation", "metadata_policy_update",
     "metadata_update", "jwks_update", None}
  BY DEF Event

LEMMA SnapshotHolds ==
  ASSUME TypeOK
  PROVE  \A i \in Snapshot : /\ i \in Item /\ i.sub = row[i.entity]
                             /\ i.sub.active
  BY DEF Snapshot, Item, TypeOK

(* The job a worker holds is a record; where it is at work on an entity it *)
(* names it.                                                               *)
LEMMA HeldJob ==
  ASSUME TypeOK, NEW w \in Worker
  PROVE  work[w] \in JobRecord /\ Holding(work[w])
  BY DEF TypeOK

LEMMA MovedJob ==
  ASSUME NEW job \in JobRecord, NEW pc \in PC
  PROVE  LET new == [job EXCEPT !.pc = pc]
         IN  /\ new \in JobRecord
             /\ new.pc = pc /\ new.op = job.op /\ new.entity = job.entity
             /\ new.sub = job.sub /\ new.before = job.before
             /\ new.config = job.config /\ new.todo = job.todo
  BY DEF JobRecord

(* Every step that changes what a worker does gives it one new job.        *)
LEMMA NewJob ==
  ASSUME TypeOK, NEW w \in Worker, NEW job \in JobRecord, Holding(job),
         work' = [work EXCEPT ![w] = job]
  PROVE  /\ work' \in [Worker -> JobRecord]
         /\ \A v \in Worker : Holding(work'[v])
  BY DEF TypeOK

LEMMA NoWorkOK == NoWork \in JobRecord /\ Holding(NoWork)
  BY DEF NoWork, Job, JobRecord, Holding

LEMMA VisitingOK ==
  ASSUME NEW todo \in SUBSET Item
  PROVE  Visiting(todo) \in JobRecord /\ Holding(Visiting(todo))
  BY DEF Visiting, Job, JobRecord, Holding

(***************************************************************************)
(* The job a step leaves a worker with, by name, and what is in it.        *)
(***************************************************************************)
LEMMA CreateJob ==
  ASSUME TypeOK, NEW e \in Entity, NEW q \in Asked("create", e),
         Accepts(fed[e], q.jwks)
  PROVE  LET job == Job("insert", "create", e, Updated(q), None, fed[e], {})
         IN  job \in JobRecord /\ Holding(job)
<1>1. Updated(q) \in Row
  BY UpdatedIsRow, RequestsAssumption DEF Asked
<1>2. fed[e] \in Configuration /\ fed[e] # None
  BY ConfigurationsAssumption DEF TypeOK, Accepts, Fetches
<1> QED BY <1>1, <1>2 DEF Job, JobRecord, Holding

LEMMA UpdateJob ==
  ASSUME TypeOK, NEW e \in Entity, NEW q \in Asked("update", e), row[e] # None
  PROVE  LET job == Job("fetch", "update", e, Updated(q), row[e], None, {})
         IN  job \in JobRecord /\ Holding(job)
<1>1. Updated(q) \in Row /\ row[e] \in Row
  BY UpdatedIsRow, RequestsAssumption DEF Asked, TypeOK
<1> QED BY <1>1 DEF Job, JobRecord, Holding

LEMMA RenewJob ==
  ASSUME TypeOK, NEW e \in Entity, row[e] # None
  PROVE  LET job == Job("fetch", "renew", e, row[e], row[e], None, {})
         IN  job \in JobRecord /\ Holding(job)
<1>1. row[e] \in Row
  BY DEF TypeOK
<1> QED BY <1>1 DEF Job, JobRecord, Holding

(* What Fetch leaves in memory when the configuration is accepted. *)
Fetched(job, config) ==
  [job EXCEPT !.pc = "save", !.config = config,
              !.sub = IF job.op = "renew" THEN Renewed(@, config) ELSE @]

LEMMA FetchedJob ==
  ASSUME TypeOK, NEW w \in Worker, At(w, "fetch"),
         Accepts(fed[work[w].entity], work[w].sub.jwks)
  PROVE  LET new == Fetched(work[w], fed[work[w].entity])
         IN  /\ new \in JobRecord /\ Holding(new) /\ new.pc = "save"
             /\ new.op = work[w].op /\ new.entity = work[w].entity
             /\ new.before = work[w].before /\ new.todo = work[w].todo
             /\ new.sub.active = work[w].sub.active
             /\ \/ new.sub = work[w].sub
                \/ new.sub.statement.forced = new.sub.forced
<1> DEFINE job == work[w]
           config == fed[job.entity]
           sub == IF job.op = "renew" THEN Renewed(job.sub, config) ELSE job.sub
<1>1. job \in JobRecord /\ Holding(job) /\ job.pc = "fetch"
  BY HeldJob
<1>2. job.entity \in Entity /\ job.sub \in Row
      /\ job.op \in {"create", "update", "renew", "renewAll"}
  BY <1>1 DEF Holding
<1>3. config \in Configuration /\ config # None
  BY <1>2, ConfigurationsAssumption DEF TypeOK, Accepts, Fetches
<1>4. /\ sub \in Row /\ sub.active = job.sub.active
      /\ sub = job.sub \/ sub.statement.forced = sub.forced
  BY <1>2, <1>3, RenewedIsRow
<1>5. Fetched(job, config) =
        [job EXCEPT !.pc = "save", !.config = config, !.sub = sub]
  BY <1>1 DEF Fetched, JobRecord
<1> HIDE DEF job, config, sub
<1> DEFINE new == [job EXCEPT !.pc = "save", !.config = config, !.sub = sub]
<1>6. /\ new \in JobRecord /\ new.pc = "save" /\ new.config = config
      /\ new.sub = sub /\ new.op = job.op /\ new.entity = job.entity
      /\ new.before = job.before /\ new.todo = job.todo
  BY <1>1, <1>3, <1>4 DEF JobRecord
<1> HIDE DEF new
<1>7. Holding(new)
  BY <1>2, <1>3, <1>4, <1>6 DEF Holding
<1> QED BY <1>4, <1>5, <1>6, <1>7 DEF new, job, config

(* The next row of a command whose configuration is accepted. *)
RenewAllJob(job, i) ==
  Job("save", "renewAll", i.entity, Renewed(i.sub, fed[i.entity]), i.sub,
      fed[i.entity], job.todo \ {i})

LEMMA RenewAllJobOK ==
  ASSUME TypeOK, NEW w \in Worker, NEW i \in work[w].todo,
         Accepts(fed[i.entity], i.sub.jwks)
  PROVE  LET new == RenewAllJob(work[w], i)
         IN  /\ new \in JobRecord /\ Holding(new) /\ new.pc = "save"
             /\ new.op = "renewAll" /\ new.entity = i.entity
             /\ new.before = i.sub /\ new.todo = work[w].todo \ {i}
             /\ new.sub.active = i.sub.active
             /\ new.sub.statement.forced = new.sub.forced
<1>1. work[w].todo \in SUBSET Item /\ i \in Item
  BY HeldJob DEF JobRecord
<1>2. i.entity \in Entity /\ i.sub \in Row
  BY <1>1 DEF Item
<1>3. fed[i.entity] \in Configuration /\ fed[i.entity] # None
  BY <1>2, ConfigurationsAssumption DEF TypeOK, Accepts, Fetches
<1> DEFINE sub == Renewed(i.sub, fed[i.entity])
<1>4. /\ sub \in Row /\ sub.active = i.sub.active
      /\ sub.statement.forced = sub.forced
  BY <1>2, <1>3, RenewedIsRow
<1> HIDE DEF sub
<1>5. RenewAllJob(work[w], i)
        = Job("save", "renewAll", i.entity, sub, i.sub, fed[i.entity],
              work[w].todo \ {i})
  BY DEF RenewAllJob, sub
<1> QED BY <1>1, <1>2, <1>3, <1>4, <1>5 DEF Job, JobRecord, Holding

(* The job after update_redis_with_subordinate, by its caller. *)
Proceeding(job) ==
  CASE job.op \in {"create", "update"} -> [job EXCEPT !.pc = "log"]
    [] job.op = "renewAll"             -> Visiting(job.todo)
    [] job.op = "renew"                -> NoWork

LEMMA ProceedingJob ==
  ASSUME TypeOK, NEW w \in Worker, At(w, "hsetJwt")
  PROVE  LET job == work[w]
             new == Proceeding(job)
         IN  /\ new \in JobRecord /\ Holding(new)
             /\ \/ /\ job.op \in {"create", "update"}
                   /\ new = [job EXCEPT !.pc = "log"]
                   /\ new.pc = "log" /\ new.op = job.op
                   /\ new.entity = job.entity /\ new.sub = job.sub
                   /\ new.before = job.before /\ new.todo = job.todo
                \/ job.op = "renewAll" /\ new = Visiting(job.todo)
                \/ job.op = "renew" /\ new = NoWork
<1> DEFINE job == work[w]
<1>1. job \in JobRecord /\ Holding(job) /\ job.pc = "hsetJwt"
  BY HeldJob
<1> HIDE DEF job
<1>2. CASE job.op \in {"create", "update"}
  <2> DEFINE new == [job EXCEPT !.pc = "log"]
  <2>1. /\ new \in JobRecord
        /\ new.pc = "log" /\ new.op = job.op /\ new.entity = job.entity
        /\ new.sub = job.sub /\ new.before = job.before
        /\ new.todo = job.todo
    BY <1>1, MovedJob
  <2>2. Proceeding(job) = new
    BY <1>2 DEF Proceeding
  <2> HIDE DEF new
  <2>3. Holding(new)
    BY <1>1, <1>2, <2>1 DEF Holding
  <2> QED BY <1>2, <2>1, <2>2, <2>3 DEF new, job
<1>3. CASE job.op = "renewAll"
  <2>1. Proceeding(job) = Visiting(job.todo)
    BY <1>3 DEF Proceeding
  <2> QED BY <1>1, <1>3, <2>1, VisitingOK DEF JobRecord, job
<1>4. CASE job.op = "renew"
  <2>1. Proceeding(job) = NoWork
    BY <1>4 DEF Proceeding
  <2> QED BY <1>4, <2>1, NoWorkOK DEF job
<1> QED BY <1>1, <1>2, <1>3, <1>4 DEF Holding, job

-----------------------------------------------------------------------------
(* Type correctness.                                                       *)

LEMMA InitTypeOK == Init => TypeOK
  BY NoWorkOK, ConfigurationsAssumption DEF Init, TypeOK

(* A step that ends a request, or moves its program counter, and leaves    *)
(* all else but what is named to the caller.                               *)
LEMMA FinishJob ==
  ASSUME TypeOK, NEW w \in Worker, Finish(w)
  PROVE  /\ work' \in [Worker -> JobRecord]
         /\ \A v \in Worker : Holding(work'[v])
         /\ work'[w] = NoWork
         /\ \A v \in Worker : v # w => work'[v] = work[v]
  BY NoWorkOK, NewJob DEF Finish, TypeOK

LEMMA GotoJob ==
  ASSUME TypeOK, NEW w \in Worker, NEW pc \in {"hset", "hsetJwt"},
         work[w].pc \in {"insert", "save", "hset"}, Goto(w, pc)
  PROVE  /\ work' \in [Worker -> JobRecord]
         /\ \A v \in Worker : Holding(work'[v])
         /\ work'[w].pc = pc /\ work'[w].op = work[w].op
         /\ work'[w].entity = work[w].entity /\ work'[w].sub = work[w].sub
         /\ work'[w].before = work[w].before /\ work'[w].todo = work[w].todo
         /\ work'[w].config = work[w].config
         /\ \A v \in Worker : v # w => work'[v] = work[v]
<1> DEFINE new == [work[w] EXCEPT !.pc = pc]
<1>1. work[w] \in JobRecord /\ Holding(work[w])
  BY HeldJob
<1>2. /\ new \in JobRecord
      /\ new.pc = pc /\ new.op = work[w].op /\ new.entity = work[w].entity
      /\ new.sub = work[w].sub /\ new.before = work[w].before
      /\ new.config = work[w].config /\ new.todo = work[w].todo
  BY <1>1, MovedJob
<1>3. work' = [work EXCEPT ![w] = new]
  BY DEF Goto
<1> HIDE DEF new
<1>4. Holding(new)
  BY <1>1, <1>2 DEF Holding
<1>5. work'[w] = new /\ \A v \in Worker : v # w => work'[v] = work[v]
  BY <1>3 DEF TypeOK
<1> QED BY <1>2, <1>3, <1>4, <1>5, NewJob

LEMMA AcceptJob ==
  ASSUME TypeOK, NEW w \in Worker, NEW job \in JobRecord, Holding(job),
         Accept(w, job)
  PROVE  /\ work' \in [Worker -> JobRecord]
         /\ \A v \in Worker : Holding(work'[v])
         /\ work'[w] = job
         /\ \A v \in Worker : v # w => work'[v] = work[v]
         /\ started' \in Nat
  BY NewJob DEF Accept, TypeOK

LEMMA StepTypeOK == TypeOK /\ [Next]_vars => TypeOK'
<1> SUFFICES ASSUME TypeOK, [Next]_vars PROVE TypeOK'
  OBVIOUS
<1>1. ASSUME NEW w \in Worker, NEW e \in Entity, Create(w, e) PROVE TypeOK'
  <2>1. PICK q \in Asked("create", e) : Create(w, e)!(q)
    BY <1>1 DEF Create
  <2> DEFINE job == Job("insert", "create", e, Updated(q), None, fed[e], {})
  <2>2. job \in JobRecord /\ Holding(job) /\ Accept(w, job)
    BY <2>1, CreateJob
  <2> HIDE DEF job
  <2> QED BY <2>1, <2>2, AcceptJob DEF TypeOK
<1>2. ASSUME NEW w \in Worker, NEW e \in Entity, UpdateGet(w, e) PROVE TypeOK'
  <2>1. PICK q \in Asked("update", e) : UpdateGet(w, e)!(q)
    BY <1>2 DEF UpdateGet
  <2> DEFINE job == Job("fetch", "update", e, Updated(q), row[e], None, {})
  <2>2. job \in JobRecord /\ Holding(job) /\ Accept(w, job)
    BY <2>1, UpdateJob
  <2> HIDE DEF job
  <2> QED BY <2>1, <2>2, AcceptJob DEF TypeOK
<1>3. ASSUME NEW w \in Worker, NEW e \in Entity, RenewGet(w, e) PROVE TypeOK'
  <2> DEFINE job == Job("fetch", "renew", e, row[e], row[e], None, {})
  <2>1. job \in JobRecord /\ Holding(job) /\ Accept(w, job)
    BY <1>3, RenewJob DEF RenewGet
  <2> HIDE DEF job
  <2> QED BY <1>3, <2>1, AcceptJob DEF RenewGet, TypeOK
<1>4. ASSUME NEW w \in Worker, CreateInsert(w) PROVE TypeOK'
  <2>1. work[w].entity \in Entity /\ work[w].sub \in Row
    BY <1>4, HeldJob DEF CreateInsert, Holding
  <2>2. CASE row[work[w].entity] = None
    <3>1. Goto(w, "hset") /\ row' = [row EXCEPT ![work[w].entity] = work[w].sub]
      BY <1>4, <2>2 DEF CreateInsert
    <3> QED BY <1>4, <2>1, <3>1, GotoJob DEF CreateInsert, TypeOK
  <2>3. CASE row[work[w].entity] # None
    BY <1>4, <2>3, FinishJob DEF CreateInsert, TypeOK
  <2> QED BY <2>2, <2>3
<1>5. ASSUME NEW w \in Worker, Fetch(w) PROVE TypeOK'
  <2>1. CASE Accepts(fed[work[w].entity], work[w].sub.jwks)
    <3> DEFINE new == Fetched(work[w], fed[work[w].entity])
    <3>1. work' = [work EXCEPT ![w] = new]
      BY <1>5, <2>1 DEF Fetch, Fetched, TypeOK
    <3>2. new \in JobRecord /\ Holding(new)
      BY <1>5, <2>1, FetchedJob DEF Fetch
    <3> HIDE DEF new
    <3> QED BY <1>5, <3>1, <3>2, NewJob DEF Fetch, TypeOK
  <2>2. CASE ~Accepts(fed[work[w].entity], work[w].sub.jwks)
    BY <1>5, <2>2, FinishJob DEF Fetch, TypeOK
  <2> QED BY <2>1, <2>2
<1>6. ASSUME NEW w \in Worker, Save(w) PROVE TypeOK'
  <2>1. work[w].entity \in Entity /\ work[w].sub \in Row
    BY <1>6, HeldJob DEF Save, Holding
  <2> QED BY <1>6, <2>1, GotoJob DEF Save, TypeOK
<1>7. ASSUME NEW w \in Worker, HsetStatement(w) PROVE TypeOK'
  <2>1. work[w].entity \in Entity /\ work[w].sub \in Row
    BY <1>7, HeldJob DEF HsetStatement, Holding
  <2>2. /\ work[w].sub.statement \in Statement
        /\ work[w].sub.metadata \in Class \cup {None}
    BY <2>1 DEF Row
  <2> QED BY <1>7, <2>1, <2>2, GotoJob DEF HsetStatement, TypeOK
<1>8. ASSUME NEW w \in Worker, HsetJwt(w) PROVE TypeOK'
  <2>1. work[w].entity \in Entity /\ work[w].config \in Configuration \cup {None}
    BY <1>8, HeldJob DEF HsetJwt, Holding, JobRecord
  <2> DEFINE new == Proceeding(work[w])
  <2>2. work' = [work EXCEPT ![w] = new]
    BY <1>8 DEF HsetJwt, Proceed, Proceeding, TypeOK
  <2>3. new \in JobRecord /\ Holding(new)
    BY <1>8, ProceedingJob DEF HsetJwt
  <2> HIDE DEF new
  <2> QED BY <1>8, <2>1, <2>2, <2>3, NewJob DEF HsetJwt, TypeOK
<1>9. ASSUME NEW w \in Worker, Log(w) PROVE TypeOK'
  <2>1. work[w].entity \in Entity /\ work[w].sub.active \in BOOLEAN
    BY <1>9, HeldJob DEF Log, Holding, Row
  <2>2. [event |-> Event(work[w].before, work[w].sub),
         entity |-> work[w].entity, active |-> work[w].sub.active] \in AuditEntry
    BY <2>1, EventIsEvent DEF AuditEntry
  <2> QED BY <1>9, <2>2, FinishJob DEF Log, TypeOK
<1>10. ASSUME NEW w \in Worker, RenewAllStart(w) PROVE TypeOK'
  <2> DEFINE new == Visiting(Snapshot)
  <2>1. new \in JobRecord /\ Holding(new)
    BY SnapshotHolds, VisitingOK
  <2>2. work' = [work EXCEPT ![w] = new]
    BY <1>10 DEF RenewAllStart
  <2> HIDE DEF new
  <2> QED BY <1>10, <2>1, <2>2, NewJob DEF RenewAllStart, TypeOK
<1>11. ASSUME NEW w \in Worker, RenewAllNext(w) PROVE TypeOK'
  <2>1. PICK i \in work[w].todo : RenewAllNext(w)!(i)
    BY <1>11 DEF RenewAllNext
  <2>2. CASE Accepts(fed[i.entity], i.sub.jwks)
    <3> DEFINE new == RenewAllJob(work[w], i)
    <3>0. ~Raises(fed[i.entity], i.sub.jwks)
      BY <2>2, Unacceptable
    <3>1. work' = [work EXCEPT ![w] = new]
      BY <2>1, <2>2, <3>0 DEF RenewAllJob
    <3>2. new \in JobRecord /\ Holding(new)
      BY <2>2, RenewAllJobOK
    <3> HIDE DEF new
    <3> QED BY <2>1, <3>1, <3>2, NewJob DEF TypeOK
  <2>3. CASE Raises(fed[i.entity], i.sub.jwks)
    <3>0. ~Accepts(fed[i.entity], i.sub.jwks)
      BY <2>3, Unacceptable
    <3>1. Finish(w)
      BY <2>1, <2>3, <3>0
    <3> QED BY <2>1, <3>1, FinishJob DEF TypeOK
  <2>4. CASE ~Accepts(fed[i.entity], i.sub.jwks) /\ ~Raises(fed[i.entity], i.sub.jwks)
    <3> DEFINE new == Visiting(work[w].todo \ {i})
    <3>1. work' = [work EXCEPT ![w] = new]
      BY <2>1, <2>4 DEF TypeOK
    <3>2. new \in JobRecord /\ Holding(new)
      BY HeldJob, VisitingOK DEF JobRecord
    <3> HIDE DEF new
    <3> QED BY <2>1, <3>1, <3>2, NewJob DEF TypeOK
  <2> QED BY <2>2, <2>3, <2>4
<1>12. ASSUME NEW w \in Worker, RenewAllEnd(w) PROVE TypeOK'
  BY <1>12, FinishJob DEF RenewAllEnd, TypeOK
<1>13. ASSUME NEW w \in Worker, Readd(w) PROVE TypeOK'
  BY <1>13 DEF Readd, TypeOK
<1>14. ASSUME NEW w \in Worker, Fail(w) PROVE TypeOK'
  BY <1>14, FinishJob DEF Fail, TypeOK
<1>15. ASSUME NEW w \in Worker, RenewAllSaveFails(w) PROVE TypeOK'
  <2> DEFINE new == Visiting(work[w].todo)
  <2>1. new \in JobRecord /\ Holding(new)
    BY HeldJob, VisitingOK DEF JobRecord
  <2>2. work' = [work EXCEPT ![w] = new]
    BY <1>15 DEF RenewAllSaveFails, TypeOK
  <2> HIDE DEF new
  <2> QED BY <1>15, <2>1, <2>2, NewJob DEF RenewAllSaveFails, TypeOK
<1>16. ASSUME NEW e \in Entity, Change(e) PROVE TypeOK'
  <2>1. PICK c \in Configurations[e] : fed' = [fed EXCEPT ![e] = c]
    BY <1>16 DEF Change
  <2>2. c \in Configuration \cup {None}
    BY ConfigurationsAssumption
  <2>3. fed' \in [Entity -> Configuration \cup {None}]
    BY <2>1, <2>2 DEF TypeOK
  <2> QED BY <1>16, <2>3 DEF Change, TypeOK
<1>17. CASE UNCHANGED vars
  BY <1>17 DEF vars, TypeOK
<1> QED
  BY <1>1, <1>2, <1>3, <1>4, <1>5, <1>6, <1>7, <1>8, <1>9, <1>10, <1>11, <1>12,
     <1>13, <1>14, <1>15, <1>16, <1>17
  DEF Next, Step

(* Rows, Redis values and requests in flight keep their shapes.            *)
THEOREM TypeCorrect == Spec => []TypeOK
  BY InitTypeOK, StepTypeOK, PTL DEF Spec

-----------------------------------------------------------------------------
(* What is served is registered, and a statement says what its row says.   *)

Consistent(sub) == sub.statement.forced = sub.forced

(* What both invariants rest on, for a request in flight: past its insert  *)
(* it has a row, as has each row a command has still to visit, and the     *)
(* instance in memory carries a statement that says what it says itself.   *)
JobLedger(job) ==
  /\ job.pc \in SubPC \ {"insert"} => row[job.entity] # None
  /\ job.pc \in SubPC => Consistent(job.sub)
  /\ \A i \in job.todo : row[i.entity] # None /\ Consistent(i.sub)

Ledger ==
  /\ OnlyRegisteredServed /\ StatementMatchesRow
  /\ \A w \in Worker : JobLedger(work[w])

LEMMA InitLedger == Init => Ledger
  BY DEF Init, Ledger, OnlyRegisteredServed, StatementMatchesRow, JobLedger,
         FetchSubordinate, NoWork, Job

(* A step gives a worker a job in order and takes no row away. *)
LEMMA LedgerStep ==
  ASSUME TypeOK, Ledger, NEW w \in Worker, NEW new,
         work' = [work EXCEPT ![w] = new], JobLedger(new)',
         \A e \in Entity : row[e] # None => row'[e] # None,
         OnlyRegisteredServed', StatementMatchesRow'
  PROVE  Ledger'
<1>1. ASSUME NEW v \in Worker, v # w PROVE JobLedger(work[v])'
  <2>1. work'[v] = work[v] /\ JobLedger(work[v])
    BY <1>1 DEF TypeOK, Ledger
  <2>2. /\ work[v].pc \in SubPC => work[v].entity \in Entity
        /\ work[v].todo \in SUBSET Item
    BY HeldJob DEF Holding, JobRecord
  <2> QED BY <2>1, <2>2 DEF JobLedger, Item
<1>2. JobLedger(work[w])'
  <2>1. work'[w] = new
    BY DEF TypeOK
  <2> QED BY <2>1 DEF JobLedger
<1> QED BY <1>1, <1>2 DEF Ledger

(* A step that leaves the tables and what is served alone. *)
LEMMA LedgerSame ==
  ASSUME TypeOK, Ledger, NEW w \in Worker, NEW new,
         work' = [work EXCEPT ![w] = new], JobLedger(new), UNCHANGED <<row, served>>
  PROVE  Ledger'
<1>1. JobLedger(new)'
  BY DEF JobLedger
<1>2. OnlyRegisteredServed' /\ StatementMatchesRow'
  BY DEF Ledger, OnlyRegisteredServed, StatementMatchesRow, FetchSubordinate
<1> QED BY <1>1, <1>2, LedgerStep

LEMMA NoWorkLedger == JobLedger(NoWork)
  BY DEF JobLedger, NoWork, Job

LEMMA UpdatedConsistent == \A q : Consistent(Updated(q))
  BY DEF Consistent, Updated, Sign

LEMMA VisitingLedger ==
  ASSUME NEW todo, \A i \in todo : row[i.entity] # None /\ Consistent(i.sub)
  PROVE  JobLedger(Visiting(todo))
  BY DEF JobLedger, Visiting, Job

LEMMA StepLedger == TypeOK /\ Ledger /\ [Next]_vars => Ledger'
<1> SUFFICES ASSUME TypeOK, Ledger, [Next]_vars PROVE Ledger'
  OBVIOUS
<1>0. \A w \in Worker : /\ JobLedger(work[w])
                        /\ work[w] \in JobRecord /\ Holding(work[w])
  BY HeldJob DEF Ledger
<1>a. ASSUME NEW w \in Worker, Finish(w), UNCHANGED <<row, served>> PROVE Ledger'
  BY <1>a, NoWorkLedger, LedgerSame DEF Finish
<1>b. ASSUME NEW w \in Worker, NEW job, JobLedger(job), Accept(w, job),
             UNCHANGED <<row, served>>
      PROVE  Ledger'
  BY <1>b, LedgerSame DEF Accept
<1>1. ASSUME NEW w \in Worker, NEW e \in Entity, Create(w, e) PROVE Ledger'
  <2>1. PICK q \in Asked("create", e) : Create(w, e)!(q)
    BY <1>1 DEF Create
  <2> DEFINE job == Job("insert", "create", e, Updated(q), None, fed[e], {})
  <2>2. JobLedger(job)
    BY UpdatedConsistent DEF JobLedger, Job
  <2>3. Accept(w, job) /\ UNCHANGED <<row, served>>
    BY <2>1
  <2> HIDE DEF job
  <2> QED BY <1>b, <2>2, <2>3
<1>2. ASSUME NEW w \in Worker, NEW e \in Entity, UpdateGet(w, e) PROVE Ledger'
  <2>1. PICK q \in Asked("update", e) : UpdateGet(w, e)!(q)
    BY <1>2 DEF UpdateGet
  <2> DEFINE job == Job("fetch", "update", e, Updated(q), row[e], None, {})
  <2>2. JobLedger(job)
    BY <2>1, UpdatedConsistent DEF JobLedger, Job
  <2>3. Accept(w, job) /\ UNCHANGED <<row, served>>
    BY <2>1
  <2> HIDE DEF job
  <2> QED BY <1>b, <2>2, <2>3
<1>3. ASSUME NEW w \in Worker, NEW e \in Entity, RenewGet(w, e) PROVE Ledger'
  <2> DEFINE job == Job("fetch", "renew", e, row[e], row[e], None, {})
  <2>1. Consistent(row[e]) /\ row[e] # None
    BY <1>3 DEF RenewGet, Ledger, StatementMatchesRow, Consistent
  <2>2. JobLedger(job)
    BY <2>1 DEF JobLedger, Job
  <2>3. Accept(w, job) /\ UNCHANGED <<row, served>>
    BY <1>3 DEF RenewGet
  <2> HIDE DEF job
  <2> QED BY <1>b, <2>2, <2>3
<1>4. ASSUME NEW w \in Worker, CreateInsert(w) PROVE Ledger'
  <2>1. CASE row[work[w].entity] = None
    <3>0. PICK new : new = [work[w] EXCEPT !.pc = "hset"]
      OBVIOUS
    <3>1. /\ work' = [work EXCEPT ![w] = new]
          /\ row' = [row EXCEPT ![work[w].entity] = work[w].sub]
          /\ served' = served
      BY <1>4, <2>1, <3>0 DEF CreateInsert, Goto
    <3>2. /\ new.entity = work[w].entity /\ new.sub = work[w].sub
          /\ new.todo = work[w].todo
      BY <1>0, <3>0, MovedJob
    <3>3. work[w].entity \in Entity /\ work[w].sub \in Row
          /\ Consistent(work[w].sub)
      BY <1>0, <1>4 DEF CreateInsert, Holding, JobLedger
    <3>4. /\ row'[work[w].entity] # None
          /\ \A e \in Entity : row[e] # None => row'[e] # None
      BY <3>1, <3>3, SentinelsAssumption DEF TypeOK
    <3>5. JobLedger(new)'
      <4>1. \A i \in work[w].todo : i.entity \in Entity
        BY <1>0 DEF JobRecord, Item
      <4> QED BY <1>0, <3>2, <3>3, <3>4, <4>1 DEF JobLedger
    <3>6. OnlyRegisteredServed' /\ StatementMatchesRow'
      BY <3>1, <3>3, <3>4
      DEF Ledger, OnlyRegisteredServed, StatementMatchesRow, FetchSubordinate,
          Consistent, TypeOK
    <3> QED BY <3>1, <3>4, <3>5, <3>6, LedgerStep
  <2>2. CASE row[work[w].entity] # None
    BY <1>a, <1>4, <2>2 DEF CreateInsert
  <2> QED BY <2>1, <2>2
<1>5. ASSUME NEW w \in Worker, Fetch(w) PROVE Ledger'
  <2>1. CASE Accepts(fed[work[w].entity], work[w].sub.jwks)
    <3> DEFINE new == Fetched(work[w], fed[work[w].entity])
    <3>1. work' = [work EXCEPT ![w] = new]
      BY <1>5, <2>1 DEF Fetch, Fetched, TypeOK
    <3>2. /\ new.pc = "save" /\ new.entity = work[w].entity
          /\ new.todo = work[w].todo
          /\ new.sub = work[w].sub \/ new.sub.statement.forced = new.sub.forced
      BY <1>5, <2>1, FetchedJob DEF Fetch
    <3> HIDE DEF new
    <3>3. JobLedger(new)
      BY <1>0, <1>5, <3>2 DEF JobLedger, Fetch, Consistent
    <3> QED BY <1>5, <3>1, <3>3, LedgerSame DEF Fetch
  <2>2. CASE ~Accepts(fed[work[w].entity], work[w].sub.jwks)
    BY <1>a, <1>5, <2>2 DEF Fetch
  <2> QED BY <2>1, <2>2
<1>6. ASSUME NEW w \in Worker, Save(w) PROVE Ledger'
  <2>0. PICK new : new = [work[w] EXCEPT !.pc = "hset"]
    OBVIOUS
  <2>1. /\ work' = [work EXCEPT ![w] = new]
        /\ row' = [row EXCEPT ![work[w].entity] = work[w].sub]
        /\ served' = served
    BY <1>6, <2>0 DEF Save, Goto
  <2>2. /\ new.entity = work[w].entity /\ new.sub = work[w].sub
        /\ new.todo = work[w].todo
    BY <1>0, <2>0, MovedJob
  <2>3. work[w].entity \in Entity /\ work[w].sub \in Row /\ Consistent(work[w].sub)
    BY <1>0, <1>6 DEF Save, Holding, JobLedger
  <2>4. /\ row'[work[w].entity] # None
        /\ \A e \in Entity : row[e] # None => row'[e] # None
    BY <2>1, <2>3, SentinelsAssumption DEF TypeOK
  <2>5. JobLedger(new)'
    <3>1. \A i \in work[w].todo : i.entity \in Entity
      BY <1>0 DEF JobRecord, Item
    <3> QED BY <1>0, <2>2, <2>3, <2>4, <3>1 DEF JobLedger
  <2>6. OnlyRegisteredServed' /\ StatementMatchesRow'
    BY <2>1, <2>3, <2>4
    DEF Ledger, OnlyRegisteredServed, StatementMatchesRow, FetchSubordinate,
        Consistent, TypeOK
  <2> QED BY <2>1, <2>4, <2>5, <2>6, LedgerStep
<1>7. ASSUME NEW w \in Worker, HsetStatement(w) PROVE Ledger'
  <2>0. PICK new : new = [work[w] EXCEPT !.pc = "hsetJwt"]
    OBVIOUS
  <2>1. /\ work' = [work EXCEPT ![w] = new]
        /\ served' = [served EXCEPT ![work[w].entity] = work[w].sub.statement]
        /\ row' = row
    BY <1>7, <2>0 DEF HsetStatement, Goto
  <2>2. /\ new.entity = work[w].entity /\ new.sub = work[w].sub
        /\ new.todo = work[w].todo
    BY <1>0, <2>0, MovedJob
  <2>3. work[w].entity \in Entity /\ row[work[w].entity] # None
    BY <1>0, <1>7 DEF HsetStatement, Holding, JobLedger
  <2>4. JobLedger(new)'
    BY <1>0, <1>7, <2>1, <2>2, <2>3 DEF JobLedger, HsetStatement
  <2>5. OnlyRegisteredServed'
    BY <2>1, <2>3 DEF Ledger, OnlyRegisteredServed, FetchSubordinate, TypeOK
  <2>6. StatementMatchesRow'
    BY <2>1 DEF Ledger, StatementMatchesRow
  <2> QED BY <2>1, <2>4, <2>5, <2>6, LedgerStep
<1>8. ASSUME NEW w \in Worker, HsetJwt(w) PROVE Ledger'
  <2>0. PICK new : new = Proceeding(work[w])
    OBVIOUS
  <2>1. work' = [work EXCEPT ![w] = new]
    BY <1>8, <2>0 DEF HsetJwt, Proceed, Proceeding, TypeOK
  <2>2. \/ /\ new.entity = work[w].entity /\ new.sub = work[w].sub
           /\ new.todo = work[w].todo
        \/ new = Visiting(work[w].todo)
        \/ new = NoWork
    BY <1>8, <2>0, ProceedingJob DEF HsetJwt
  <2>3. JobLedger(new)
    BY <1>0, <1>8, <2>2, NoWorkLedger, VisitingLedger DEF JobLedger, HsetJwt
  <2> QED BY <1>8, <2>1, <2>3, LedgerSame DEF HsetJwt
<1>9. ASSUME NEW w \in Worker, Log(w) PROVE Ledger'
  BY <1>a, <1>9 DEF Log
<1>10. ASSUME NEW w \in Worker, RenewAllStart(w) PROVE Ledger'
  <2>1. \A i \in Snapshot : row[i.entity] # None /\ Consistent(i.sub)
    BY DEF Snapshot, Ledger, StatementMatchesRow, Consistent
  <2> QED BY <1>10, <2>1, VisitingLedger, LedgerSame DEF RenewAllStart
<1>11. ASSUME NEW w \in Worker, RenewAllNext(w) PROVE Ledger'
  <2>1. PICK i \in work[w].todo : RenewAllNext(w)!(i)
    BY <1>11 DEF RenewAllNext
  <2>2. \A j \in work[w].todo : row[j.entity] # None /\ Consistent(j.sub)
    BY <1>0 DEF JobLedger
  <2>3. CASE Accepts(fed[i.entity], i.sub.jwks)
    <3> DEFINE new == RenewAllJob(work[w], i)
    <3>0. ~Raises(fed[i.entity], i.sub.jwks)
      BY <2>3, Unacceptable
    <3>1. work' = [work EXCEPT ![w] = new]
      BY <2>1, <2>3, <3>0 DEF RenewAllJob
    <3>2. /\ new.pc = "save" /\ new.entity = i.entity
          /\ new.todo = work[w].todo \ {i}
          /\ new.sub.statement.forced = new.sub.forced
      BY <2>3, RenewAllJobOK
    <3> HIDE DEF new
    <3>3. JobLedger(new)
      BY <2>2, <3>2 DEF JobLedger, Consistent
    <3> QED BY <2>1, <3>1, <3>3, LedgerSame
  <2>4. CASE Raises(fed[i.entity], i.sub.jwks)
    <3>0. ~Accepts(fed[i.entity], i.sub.jwks)
      BY <2>4, Unacceptable
    <3>1. Finish(w)
      BY <2>1, <2>4, <3>0
    <3> QED BY <1>a, <2>1, <3>1
  <2>5. CASE ~Accepts(fed[i.entity], i.sub.jwks) /\ ~Raises(fed[i.entity], i.sub.jwks)
    <3>1. work' = [work EXCEPT ![w] = Visiting(work[w].todo \ {i})]
      BY <2>1, <2>5 DEF TypeOK
    <3>2. JobLedger(Visiting(work[w].todo \ {i}))
      BY <2>2, VisitingLedger
    <3> QED BY <2>1, <3>1, <3>2, LedgerSame
  <2> QED BY <2>3, <2>4, <2>5
<1>12. ASSUME NEW w \in Worker, RenewAllEnd(w) PROVE Ledger'
  BY <1>a, <1>12 DEF RenewAllEnd
<1>13. ASSUME NEW w \in Worker, Readd(w) PROVE Ledger'
  BY <1>13
  DEF Readd, Ledger, OnlyRegisteredServed, StatementMatchesRow, JobLedger,
      FetchSubordinate
<1>14. ASSUME NEW w \in Worker, Fail(w) PROVE Ledger'
  BY <1>a, <1>14 DEF Fail
<1>15. ASSUME NEW w \in Worker, RenewAllSaveFails(w) PROVE Ledger'
  <2>1. work' = [work EXCEPT ![w] = Visiting(work[w].todo)]
    BY <1>15 DEF RenewAllSaveFails, TypeOK
  <2>2. JobLedger(Visiting(work[w].todo))
    BY <1>0, VisitingLedger DEF JobLedger
  <2> QED BY <1>15, <2>1, <2>2, LedgerSame DEF RenewAllSaveFails
<1>16. ASSUME UNCHANGED <<row, served, work>> PROVE Ledger'
  BY <1>16
  DEF Ledger, OnlyRegisteredServed, StatementMatchesRow, JobLedger,
      FetchSubordinate
<1> QED
  BY <1>1, <1>2, <1>3, <1>4, <1>5, <1>6, <1>7, <1>8, <1>9, <1>10, <1>11, <1>12,
     <1>13, <1>14, <1>15, <1>16
  DEF Next, Step, Change, vars

LEMMA LedgerCorrect == Spec => []Ledger
  BY InitLedger, StepLedger, TypeCorrect, PTL DEF Spec

(* Whatever overlaps and wherever it dies, /fetch answers about registered *)
(* entities only.                                                          *)
THEOREM ServedIsRegistered == Spec => []OnlyRegisteredServed
<1>1. Ledger => OnlyRegisteredServed
  BY DEF Ledger
<1> QED BY <1>1, LedgerCorrect, PTL

(* No overlap of saves leaves a row whose statement says something else.   *)
THEOREM StatementsMatchRows == Spec => []StatementMatchesRow
<1>1. Ledger => StatementMatchesRow
  BY DEF Ledger
<1> QED BY <1>1, LedgerCorrect, PTL

-----------------------------------------------------------------------------
(* What can be fetched is listed.  Inductive with the types as it stands.  *)

LEMMA InitListed == Init => FetchableIsListed
  BY DEF Init, FetchableIsListed, FetchSubordinate

LEMMA StepListed == TypeOK /\ FetchableIsListed /\ [Next]_vars => FetchableIsListed'
<1> SUFFICES ASSUME TypeOK, FetchableIsListed, [Next]_vars,
                    failures' = 0, NEW e \in Entity, served'[e] # None
             PROVE  \/ listed'[e] # None
                    \/ \E w \in Worker : work'[w].pc = "hsetJwt" /\ work'[w].entity = e
  BY DEF FetchableIsListed, FetchSubordinate, ListSubordinates
<1> DEFINE Promised == \/ listed[e] # None
                       \/ \E w \in Worker : work[w].pc = "hsetJwt" /\ work[w].entity = e
<1>a. ASSUME failures = 0, served[e] # None PROVE Promised
  BY <1>a DEF FetchableIsListed, FetchSubordinate, ListSubordinates
<1>b. ASSUME NEW w \in Worker, NEW new, work' = [work EXCEPT ![w] = new],
             work[w].pc # "hsetJwt", Promised, listed'[e] = listed[e]
      PROVE  \/ listed'[e] # None
             \/ \E v \in Worker : work'[v].pc = "hsetJwt" /\ work'[v].entity = e
  BY <1>b DEF TypeOK
<1>c. ASSUME NEW w \in Worker, NEW new, work' = [work EXCEPT ![w] = new],
             work[w].pc # "hsetJwt", UNCHANGED <<served, listed, failures>>
      PROVE  \/ listed'[e] # None
             \/ \E v \in Worker : work'[v].pc = "hsetJwt" /\ work'[v].entity = e
  BY <1>a, <1>b, <1>c
<1>1. ASSUME NEW w \in Worker,
             \/ \E d \in Entity : Create(w, d) \/ UpdateGet(w, d) \/ RenewGet(w, d)
             \/ RenewAllStart(w)
      PROVE  \E new : /\ work' = [work EXCEPT ![w] = new]
                      /\ work[w].pc # "hsetJwt"
                      /\ UNCHANGED <<served, listed, failures>>
  BY <1>1 DEF Create, UpdateGet, RenewGet, RenewAllStart, Accept
<1>2. ASSUME NEW w \in Worker,
             \/ CreateInsert(w) \/ Fetch(w) \/ Save(w) \/ Log(w)
             \/ RenewAllNext(w) \/ RenewAllEnd(w)
      PROVE  \E new : /\ work' = [work EXCEPT ![w] = new]
                      /\ work[w].pc # "hsetJwt"
                      /\ UNCHANGED <<served, listed, failures>>
  BY <1>2 DEF CreateInsert, Fetch, Save, Log, RenewAllNext, RenewAllEnd, Goto, Finish
<1>3. ASSUME NEW w \in Worker, HsetStatement(w)
      PROVE  \/ listed'[e] # None
             \/ \E v \in Worker : work'[v].pc = "hsetJwt" /\ work'[v].entity = e
  <2>1. /\ work'[w].pc = "hsetJwt" /\ work'[w].entity = work[w].entity
        /\ \A v \in Worker : v # w => work'[v] = work[v]
    BY <1>3, GotoJob DEF HsetStatement
  <2>2. work[w].entity # e => served'[e] = served[e]
    BY <1>3 DEF HsetStatement, TypeOK
  <2>3. work[w].pc = "hset" /\ failures' = failures /\ listed' = listed
    BY <1>3 DEF HsetStatement
  <2> QED BY <1>a, <2>1, <2>2, <2>3
<1>4. ASSUME NEW w \in Worker, HsetJwt(w)
      PROVE  \/ listed'[e] # None
             \/ \E v \in Worker : work'[v].pc = "hsetJwt" /\ work'[v].entity = e
  <2>1. /\ listed' = [listed EXCEPT ![work[w].entity] = work[w].config]
        /\ served' = served /\ failures' = failures
        /\ \A v \in Worker : v # w => work'[v] = work[v]
    BY <1>4 DEF HsetJwt, Proceed, TypeOK
  <2>2. work[w].entity \in Entity /\ work[w].config # None
    BY <1>4, HeldJob DEF HsetJwt, Holding
  <2>3. CASE work[w].entity = e
    BY <2>1, <2>2, <2>3 DEF TypeOK
  <2>4. CASE work[w].entity # e
    <3>1. listed'[e] = listed[e]
      BY <2>1, <2>2, <2>4 DEF TypeOK
    <3> QED BY <1>a, <2>1, <2>4, <3>1
  <2> QED BY <2>3, <2>4
<1>5. ASSUME NEW w \in Worker, Readd(w) PROVE FALSE
  BY <1>5 DEF Readd
<1>6. ASSUME NEW w \in Worker, Fail(w) \/ RenewAllSaveFails(w) PROVE FALSE
  BY <1>6 DEF Fail, RenewAllSaveFails, TypeOK
<1>7. ASSUME UNCHANGED <<served, listed, work, failures>>
      PROVE  \/ listed'[e] # None
             \/ \E v \in Worker : work'[v].pc = "hsetJwt" /\ work'[v].entity = e
  BY <1>a, <1>7
<1> HIDE DEF Promised
<1> QED
  BY <1>1, <1>2, <1>3, <1>4, <1>5, <1>6, <1>7, <1>c DEF Next, Step, Change, vars

(* While no request has died, every subordinate /fetch answers about is in *)
(* /list too, or its configuration is the next command of a request.       *)
THEOREM FetchableListed == Spec => []FetchableIsListed
  BY InitListed, StepListed, TypeCorrect, PTL DEF Spec

-----------------------------------------------------------------------------
(* An inactive subordinate is accounted for in the audit log.              *)

Audited(e) ==
  \E a \in audit : /\ a.entity = e /\ ~a.active
                   /\ a.event \in {"registration", "revocation"}

(* A request on its way to the entry that says e was made inactive. *)
WillAudit(job, e) ==
  /\ job.entity = e /\ job.pc \in {"hset", "hsetJwt", "log"}
  /\ job.op \in {"create", "update"}
  /\ ~job.sub.active
  /\ job.before = None \/ job.before.active

Accounted(e) == Audited(e) \/ \E w \in Worker : WillAudit(work[w], e)

(* Each instance in memory knows whether it found its row active: only a   *)
(* body can make one inactive, and a row found inactive is accounted for.  *)
JobAccount(job) ==
  /\ job.pc \in SubPC =>
       /\ job.op = "create" => job.before = None
       /\ job.op = "update" => /\ job.before \in Row
                               /\ ~job.before.active => Accounted(job.entity)
       /\ job.op \in {"renew", "renewAll"} => job.sub.active
  /\ \A i \in job.todo : i.sub.active

AuditLedger ==
  failures = 0 =>
    /\ \A e \in Entity : row[e] # None /\ ~row[e].active => Accounted(e)
    /\ \A w \in Worker : JobAccount(work[w])

LEMMA InitAudit == Init => AuditLedger
  BY DEF Init, AuditLedger, JobAccount, NoWork, Job

(* A worker that turns to something else takes no account with it, unless  *)
(* it was to write the entry itself.                                       *)
LEMMA AuditStep ==
  ASSUME TypeOK, AuditLedger, failures = 0,
         NEW w \in Worker, NEW new, work' = [work EXCEPT ![w] = new],
         audit \subseteq audit',
         \A e \in Entity : WillAudit(work[w], e) => Accounted(e)',
         \A e \in Entity : row'[e] # None /\ ~row'[e].active
                             => row'[e] = row[e] \/ Accounted(e)',
         JobAccount(new)'
  PROVE  AuditLedger'
<1>1. ASSUME NEW e \in Entity, Accounted(e) PROVE Accounted(e)'
  <2>1. CASE Audited(e)
    BY <2>1 DEF Audited, Accounted
  <2>2. ASSUME NEW v \in Worker, WillAudit(work[v], e), v # w PROVE Accounted(e)'
    <3>1. work'[v] = work[v]
      BY <2>2 DEF TypeOK
    <3> QED BY <2>2, <3>1 DEF Accounted, WillAudit
  <2> QED BY <1>1, <2>1, <2>2 DEF Accounted
<1>2. \A e \in Entity : row'[e] # None /\ ~row'[e].active => Accounted(e)'
  BY <1>1 DEF AuditLedger
<1>3. ASSUME NEW v \in Worker, v # w PROVE JobAccount(work[v])'
  <2>1. work'[v] = work[v] /\ JobAccount(work[v])
    BY <1>3 DEF TypeOK, AuditLedger
  <2>2. work[v].pc \in SubPC => work[v].entity \in Entity
    BY HeldJob DEF Holding
  <2> QED BY <1>1, <2>1, <2>2 DEF JobAccount
<1>4. JobAccount(work[w])'
  <2>1. work'[w] = new
    BY DEF TypeOK
  <2> QED BY <2>1 DEF JobAccount
<1> QED BY <1>2, <1>3, <1>4 DEF AuditLedger

(* A step that leaves the tables alone, of a worker that writes no entry.  *)
LEMMA AuditSame ==
  ASSUME TypeOK, AuditLedger, failures = 0,
         NEW w \in Worker, NEW new, work' = [work EXCEPT ![w] = new],
         UNCHANGED <<row, audit>>,
         \A e \in Entity : WillAudit(work[w], e) => WillAudit(new, e),
         JobAccount(new)
  PROVE  AuditLedger'
<1>1. work'[w] = new /\ \A v \in Worker : v # w => work'[v] = work[v]
  BY DEF TypeOK
<1>2. ASSUME NEW e, e \in Entity, Accounted(e) PROVE Accounted(e)'
  <2>1. CASE Audited(e)
    BY <2>1 DEF Audited, Accounted
  <2>2. ASSUME NEW v \in Worker, WillAudit(work[v], e) PROVE WillAudit(work'[v], e)
    BY <1>1, <1>2, <2>2
  <2> QED BY <1>2, <2>1, <2>2 DEF Accounted, WillAudit
<1>3. \A e \in Entity : WillAudit(work[w], e) => Accounted(e)'
  BY <1>2 DEF Accounted
<1>4. JobAccount(new)'
  <2>1. new.pc \in SubPC /\ new.op = "update" /\ ~new.before.active
          => Accounted(new.entity)
    BY DEF JobAccount
  <2>2. Accounted(new.entity) => new.entity \in Entity
    <3>1. \A a \in audit : a.entity \in Entity
      BY DEF TypeOK, AuditEntry
    <3>2. ASSUME NEW v \in Worker, WillAudit(work[v], new.entity)
          PROVE  new.entity \in Entity
      BY <3>2, HeldJob DEF WillAudit, Holding
    <3> QED BY <3>1, <3>2 DEF Accounted, Audited
  <2>3. Accounted(new.entity) => Accounted(new.entity)'
    BY <1>2, <2>2
  <2> QED BY <2>1, <2>3 DEF JobAccount
<1> QED BY <1>3, <1>4, AuditStep

LEMMA NoWorkAccount == JobAccount(NoWork) /\ \A e : ~WillAudit(NoWork, e)
  BY DEF JobAccount, WillAudit, NoWork, Job

LEMMA VisitingAccount ==
  ASSUME NEW todo, \A i \in todo : i.sub.active
  PROVE  JobAccount(Visiting(todo)) /\ \A e : ~WillAudit(Visiting(todo), e)
  BY DEF JobAccount, WillAudit, Visiting, Job

(* A row is written: the one who makes it inactive is to write the entry,  *)
(* unless it was inactive before.                                          *)
LEMMA AuditSaved ==
  ASSUME TypeOK, AuditLedger, failures = 0,
         NEW w \in Worker, work[w].pc \in {"insert", "save"}, Goto(w, "hset"),
         row' = [row EXCEPT ![work[w].entity] = work[w].sub], UNCHANGED audit
  PROVE  AuditLedger'
<1>0. PICK new : new = [work[w] EXCEPT !.pc = "hset"]
  OBVIOUS
<1>1. work' = [work EXCEPT ![w] = new]
  BY <1>0 DEF Goto
<1>2. /\ new.pc = "hset" /\ new.op = work[w].op
      /\ new.entity = work[w].entity /\ new.sub = work[w].sub
      /\ new.before = work[w].before /\ new.todo = work[w].todo
  BY <1>0, HeldJob, MovedJob
<1>3. work[w].entity \in Entity /\ JobAccount(work[w])
      /\ work[w].op \in {"create", "update", "renew", "renewAll"}
  BY HeldJob DEF Holding, AuditLedger
<1>4. \A e \in Entity : ~WillAudit(work[w], e)
  BY DEF WillAudit
<1>5. ASSUME NEW e \in Entity, Accounted(e) PROVE Accounted(e)'
  BY <1>1, <1>4, <1>5 DEF Accounted, Audited, WillAudit, TypeOK
<1>6. JobAccount(new)'
  BY <1>2, <1>3, <1>5 DEF JobAccount
<1>7. ASSUME NEW e \in Entity, row'[e] # None, ~row'[e].active, row'[e] # row[e]
      PROVE  Accounted(e)'
  <2>1. e = work[w].entity /\ row'[e] = work[w].sub
    BY <1>7 DEF TypeOK
  <2>2. work'[w] = new
    BY <1>1 DEF TypeOK
  <2>3. CASE work[w].op = "update" /\ ~work[w].before.active
    BY <1>3, <1>5, <2>1, <2>3 DEF JobAccount
  <2>4. CASE ~(work[w].op = "update" /\ ~work[w].before.active)
    <3>1. WillAudit(new, e)
      BY <1>2, <1>3, <1>7, <2>1, <2>4 DEF JobAccount, WillAudit
    <3>2. WillAudit(work[w], e)'
      BY <2>2, <3>1 DEF WillAudit
    <3> QED BY <3>2 DEF Accounted
  <2> QED BY <2>3, <2>4
<1> QED BY <1>1, <1>4, <1>6, <1>7, AuditStep

LEMMA StepAudit == TypeOK /\ AuditLedger /\ [Next]_vars => AuditLedger'
<1> SUFFICES ASSUME TypeOK, AuditLedger, [Next]_vars, failures' = 0
             PROVE  AuditLedger'
  BY DEF AuditLedger
<1>0. failures = 0 => \A w \in Worker : /\ JobAccount(work[w])
                                        /\ work[w] \in JobRecord /\ Holding(work[w])
  BY HeldJob DEF AuditLedger
<1>a. ASSUME NEW w \in Worker, NEW job, JobAccount(job), Accept(w, job),
             UNCHANGED <<row, audit, failures>>
      PROVE  AuditLedger'
  <2>1. \A e \in Entity : ~WillAudit(work[w], e)
    BY <1>a DEF Accept, WillAudit
  <2> QED BY <1>a, <2>1, AuditSame DEF Accept
<1>b. ASSUME NEW w \in Worker, Finish(w), UNCHANGED <<row, audit, failures>>,
             work[w].pc \notin {"hset", "hsetJwt", "log"}
      PROVE  AuditLedger'
  <2>1. \A e \in Entity : ~WillAudit(work[w], e)
    BY <1>b DEF WillAudit
  <2> QED BY <1>b, <2>1, NoWorkAccount, AuditSame DEF Finish
<1>1. ASSUME NEW w \in Worker, NEW e \in Entity, Create(w, e) PROVE AuditLedger'
  <2>1. PICK q \in Asked("create", e) : Create(w, e)!(q)
    BY <1>1 DEF Create
  <2> DEFINE job == Job("insert", "create", e, Updated(q), None, fed[e], {})
  <2>2. JobAccount(job)
    BY DEF JobAccount, Job
  <2>3. Accept(w, job) /\ UNCHANGED <<row, audit, failures>>
    BY <2>1
  <2> HIDE DEF job
  <2> QED BY <1>a, <2>2, <2>3
<1>2. ASSUME NEW w \in Worker, NEW e \in Entity, UpdateGet(w, e) PROVE AuditLedger'
  <2>1. PICK q \in Asked("update", e) : UpdateGet(w, e)!(q)
    BY <1>2 DEF UpdateGet
  <2> DEFINE job == Job("fetch", "update", e, Updated(q), row[e], None, {})
  <2>2. JobAccount(job)
    <3>1. row[e] \in Row /\ (~row[e].active => Accounted(e))
      BY <2>1 DEF TypeOK, AuditLedger
    <3> QED BY <3>1 DEF JobAccount, Job
  <2>3. Accept(w, job) /\ UNCHANGED <<row, audit, failures>>
    BY <2>1
  <2> HIDE DEF job
  <2> QED BY <1>a, <2>2, <2>3
<1>3. ASSUME NEW w \in Worker, NEW e \in Entity, RenewGet(w, e) PROVE AuditLedger'
  <2> DEFINE job == Job("fetch", "renew", e, row[e], row[e], None, {})
  <2>1. JobAccount(job)
    BY <1>3 DEF JobAccount, Job, RenewGet
  <2>2. Accept(w, job) /\ UNCHANGED <<row, audit, failures>>
    BY <1>3 DEF RenewGet
  <2> HIDE DEF job
  <2> QED BY <1>a, <2>1, <2>2
<1>4. ASSUME NEW w \in Worker, CreateInsert(w) PROVE AuditLedger'
  <2>1. failures = 0 /\ work[w].pc = "insert"
    BY <1>4 DEF CreateInsert
  <2>2. CASE row[work[w].entity] = None
    BY <1>4, <2>1, <2>2, AuditSaved DEF CreateInsert
  <2>3. CASE row[work[w].entity] # None
    BY <1>b, <1>4, <2>3 DEF CreateInsert
  <2> QED BY <2>2, <2>3
<1>5. ASSUME NEW w \in Worker, Fetch(w) PROVE AuditLedger'
  <2>0. \A e \in Entity : ~WillAudit(work[w], e)
    BY <1>5 DEF Fetch, WillAudit
  <2>1. CASE Accepts(fed[work[w].entity], work[w].sub.jwks)
    <3> DEFINE new == Fetched(work[w], fed[work[w].entity])
    <3>1. work' = [work EXCEPT ![w] = new] /\ UNCHANGED <<row, audit, failures>>
      BY <1>5, <2>1 DEF Fetch, Fetched, TypeOK
    <3>2. /\ new.pc = "save" /\ new.op = work[w].op
          /\ new.entity = work[w].entity /\ new.before = work[w].before
          /\ new.todo = work[w].todo /\ new.sub.active = work[w].sub.active
      BY <1>5, <2>1, FetchedJob DEF Fetch
    <3> HIDE DEF new
    <3>3. JobAccount(new)
      BY <1>0, <1>5, <3>1, <3>2 DEF JobAccount, Fetch
    <3> QED BY <2>0, <3>1, <3>3, AuditSame
  <2>2. CASE ~Accepts(fed[work[w].entity], work[w].sub.jwks)
    BY <1>b, <1>5, <2>2 DEF Fetch
  <2> QED BY <2>1, <2>2
<1>6. ASSUME NEW w \in Worker, Save(w) PROVE AuditLedger'
  BY <1>6, AuditSaved DEF Save
<1>7. ASSUME NEW w \in Worker, HsetStatement(w) PROVE AuditLedger'
  <2>0. PICK new : new = [work[w] EXCEPT !.pc = "hsetJwt"]
    OBVIOUS
  <2>1. /\ work' = [work EXCEPT ![w] = new] /\ UNCHANGED <<row, audit, failures>>
        /\ work[w].pc = "hset"
    BY <1>7, <2>0 DEF HsetStatement, Goto
  <2>2. /\ new.pc = "hsetJwt" /\ new.op = work[w].op
        /\ new.entity = work[w].entity /\ new.sub = work[w].sub
        /\ new.before = work[w].before /\ new.todo = work[w].todo
    BY <1>0, <2>0, <2>1, MovedJob
  <2>3. JobAccount(new) /\ \A e \in Entity : WillAudit(work[w], e) => WillAudit(new, e)
    BY <1>0, <2>1, <2>2 DEF JobAccount, WillAudit
  <2> QED BY <2>1, <2>3, AuditSame
<1>8. ASSUME NEW w \in Worker, HsetJwt(w) PROVE AuditLedger'
  <2>0. PICK new : new = Proceeding(work[w])
    OBVIOUS
  <2>1. /\ work' = [work EXCEPT ![w] = new] /\ UNCHANGED <<row, audit, failures>>
        /\ work[w].pc = "hsetJwt"
    BY <1>8, <2>0 DEF HsetJwt, Proceed, Proceeding, TypeOK
  <2>2. \/ /\ new.pc = "log" /\ new.op = work[w].op
           /\ new.entity = work[w].entity /\ new.sub = work[w].sub
           /\ new.before = work[w].before /\ new.todo = work[w].todo
        \/ work[w].op = "renewAll" /\ new = Visiting(work[w].todo)
        \/ work[w].op = "renew" /\ new = NoWork
    BY <1>8, <2>0, ProceedingJob DEF HsetJwt
  <2>3. JobAccount(work[w])
    BY <1>0, <2>1
  <2>4. JobAccount(new)
    BY <2>1, <2>2, <2>3, NoWorkAccount, VisitingAccount DEF JobAccount
  <2>5. \A e \in Entity : WillAudit(work[w], e) => WillAudit(new, e)
    BY <2>1, <2>2 DEF WillAudit
  <2> QED BY <2>1, <2>4, <2>5, AuditSame
<1>9. ASSUME NEW w \in Worker, Log(w) PROVE AuditLedger'
  <2> DEFINE entry == [event |-> Event(work[w].before, work[w].sub),
                       entity |-> work[w].entity, active |-> work[w].sub.active]
  <2>1. /\ work' = [work EXCEPT ![w] = NoWork] /\ UNCHANGED <<row, failures>>
        /\ audit' = audit \cup {entry} /\ work[w].pc = "log"
    BY <1>9 DEF Log, Finish
  <2>2. ASSUME NEW e \in Entity, WillAudit(work[w], e) PROVE Accounted(e)'
    <3>1. /\ work[w].entity = e /\ ~work[w].sub.active
          /\ work[w].before = None \/ work[w].before.active
      BY <2>2 DEF WillAudit
    <3>2. /\ entry.entity = e /\ ~entry.active
          /\ entry.event \in {"registration", "revocation"}
      BY <3>1 DEF Event
    <3> HIDE DEF entry
    <3>3. Audited(e)'
      BY <2>1, <3>2 DEF Audited
    <3> QED BY <3>3 DEF Accounted
  <2>3. JobAccount(NoWork)'
    BY DEF JobAccount, NoWork, Job
  <2> HIDE DEF entry
  <2>4. PICK new : new = NoWork
    OBVIOUS
  <2>5. JobAccount(new)'
    BY <2>3, <2>4 DEF JobAccount
  <2> QED BY <2>1, <2>2, <2>4, <2>5, AuditStep
<1>10. ASSUME NEW w \in Worker, RenewAllStart(w) PROVE AuditLedger'
  <2>1. \A e \in Entity : ~WillAudit(work[w], e)
    BY <1>10 DEF RenewAllStart, WillAudit
  <2>2. JobAccount(Visiting(Snapshot))
    BY SnapshotHolds, VisitingAccount
  <2> QED BY <1>10, <2>1, <2>2, AuditSame DEF RenewAllStart
<1>11. ASSUME NEW w \in Worker, RenewAllNext(w) PROVE AuditLedger'
  <2>1. PICK i \in work[w].todo : RenewAllNext(w)!(i)
    BY <1>11 DEF RenewAllNext
  <2>2. /\ \A j \in work[w].todo : j.sub.active
        /\ \A e \in Entity : ~WillAudit(work[w], e)
    BY <1>0, <2>1 DEF JobAccount, WillAudit
  <2>3. CASE Accepts(fed[i.entity], i.sub.jwks)
    <3> DEFINE new == RenewAllJob(work[w], i)
    <3>0. ~Raises(fed[i.entity], i.sub.jwks)
      BY <2>3, Unacceptable
    <3>1. work' = [work EXCEPT ![w] = new]
      BY <2>1, <2>3, <3>0 DEF RenewAllJob
    <3>2. /\ new.op = "renewAll" /\ new.todo = work[w].todo \ {i}
          /\ new.sub.active = i.sub.active
      BY <2>3, RenewAllJobOK
    <3> HIDE DEF new
    <3>3. JobAccount(new)
      BY <2>2, <3>2 DEF JobAccount
    <3> QED BY <2>1, <2>2, <3>1, <3>3, AuditSame
  <2>4. CASE Raises(fed[i.entity], i.sub.jwks)
    <3>0. ~Accepts(fed[i.entity], i.sub.jwks)
      BY <2>4, Unacceptable
    <3>1. Finish(w)
      BY <2>1, <2>4, <3>0
    <3> QED BY <1>b, <2>1, <3>1
  <2>5. CASE ~Accepts(fed[i.entity], i.sub.jwks) /\ ~Raises(fed[i.entity], i.sub.jwks)
    <3>1. work' = [work EXCEPT ![w] = Visiting(work[w].todo \ {i})]
      BY <2>1, <2>5 DEF TypeOK
    <3>2. JobAccount(Visiting(work[w].todo \ {i}))
      BY <2>2, VisitingAccount
    <3> QED BY <2>1, <2>2, <3>1, <3>2, AuditSame
  <2> QED BY <2>3, <2>4, <2>5
<1>12. ASSUME NEW w \in Worker, RenewAllEnd(w) PROVE AuditLedger'
  BY <1>b, <1>12 DEF RenewAllEnd
<1>13. ASSUME NEW w \in Worker, Fail(w) \/ RenewAllSaveFails(w) PROVE FALSE
  BY <1>13 DEF Fail, RenewAllSaveFails, TypeOK
<1>14. ASSUME UNCHANGED <<row, audit, work, failures>> PROVE AuditLedger'
  BY <1>14 DEF AuditLedger, JobAccount, Accounted, Audited, WillAudit
<1> QED
  BY <1>1, <1>2, <1>3, <1>4, <1>5, <1>6, <1>7, <1>8, <1>9, <1>10, <1>11, <1>12,
     <1>13, <1>14
  DEF Next, Step, Readd, Change, vars

(* While no request has died: an inactive subordinate nobody is at work on *)
(* has the audit entry that says since when, however updates and renewals  *)
(* with what they read long ago overlap.                                   *)
THEOREM InactiveIsAudited == Spec => []InactiveAudited
<1>1. Spec => []AuditLedger
  BY InitAudit, StepAudit, TypeCorrect, PTL DEF Spec
<1>2. AuditLedger => InactiveAudited
  BY DEF AuditLedger, InactiveAudited, Accounted, Audited, WillAudit
<1> QED BY <1>1, <1>2, PTL
=============================================================================
