-------------------------- MODULE TrustMarksProofs --------------------------
(***************************************************************************)
(* What holds of TrustMarks for every set of types, domains, claims and    *)
(* workers, every set of requests and any value of the bounds.             *)
(***************************************************************************)
EXTENDS TrustMarks, TLAPS

(* The foreign key, and what rests on it: a row, a request at work on a    *)
(* mark and a row a command has still to visit name a type that exists.    *)
TypesExist ==
  /\ \A p \in Pair : row[p] # None => types[p[1]] # None
  /\ \A w \in Worker : work[w].pc \in MarkPC => types[work[w].type] # None
  /\ \A w \in Worker : \A i \in work[w].todo : types[i.type] # None

TypeInv == TypeOK /\ TypesExist

USE DEF Pair, MarkPC, AddPC, PC, Op

LEMMA InitTypeInv == Init => TypeInv
  BY InitialTypesAssumption
  DEF Init, TypeInv, TypeOK, TypesExist, NoWork, Job, JobRecord, Holding

(* A worker's new job: it is enough that the job is well formed. *)
LEMMA NewJob ==
  ASSUME work \in [Worker -> JobRecord], \A v \in Worker : Holding(work[v]),
         NEW w \in Worker, NEW job \in JobRecord, Holding(job),
         work' = [work EXCEPT ![w] = job]
  PROVE  /\ work' \in [Worker -> JobRecord]
         /\ \A v \in Worker : Holding(work'[v])
  OBVIOUS

(* A step that only moves the program counter. *)
LEMMA MovedJob ==
  ASSUME NEW job \in JobRecord, NEW pc \in PC
  PROVE  LET new == [job EXCEPT !.pc = pc]
         IN  /\ new \in JobRecord
             /\ new.pc = pc /\ new.op = job.op /\ new.type = job.type
             /\ new.domain = job.domain /\ new.tm = job.tm
             /\ new.tmt = job.tmt /\ new.todo = job.todo
  BY DEF JobRecord

(* From one of the four publications to the next. *)
LEMMA PublishingOn ==
  ASSUME NEW job \in JobRecord, Holding(job), job.pc \in AddPC, NEW pc \in AddPC
  PROVE  Holding([job EXCEPT !.pc = pc])
<1> DEFINE new == [job EXCEPT !.pc = pc]
<1>1. /\ new.pc = pc /\ new.op = job.op /\ new.type = job.type
      /\ new.domain = job.domain /\ new.tm = job.tm
  BY MovedJob
<1> HIDE DEF new
<1>2. Holding(new)
  BY <1>1 DEF Holding
<1> QED BY <1>2 DEF new

LEMMA NoWorkOK == NoWork \in JobRecord /\ Holding(NoWork)
  BY DEF NoWork, Job, JobRecord, Holding

(***************************************************************************)
(* Steps of a worker that end the request or move its program counter.     *)
(***************************************************************************)
LEMMA GotoJob ==
  ASSUME TypeInv, NEW w \in Worker, NEW pc \in PC, Goto(w, pc),
         Holding([work[w] EXCEPT !.pc = pc])
  PROVE  /\ work' \in [Worker -> JobRecord]
         /\ \A v \in Worker : Holding(work'[v])
         /\ \A v \in Worker : /\ work'[v].type = work[v].type
                              /\ work'[v].todo = work[v].todo
                              /\ v # w => work'[v].pc = work[v].pc
         /\ work'[w].pc = pc
<1> DEFINE job == [work[w] EXCEPT !.pc = pc]
<1>1. work' = [work EXCEPT ![w] = job]
  BY DEF Goto
<1>2. /\ work \in [Worker -> JobRecord] /\ work[w] \in JobRecord
      /\ \A v \in Worker : Holding(work[v])
  BY DEF TypeInv, TypeOK
<1>3. job \in JobRecord /\ job.type = work[w].type /\ job.todo = work[w].todo
      /\ job.pc = pc
  BY <1>2, MovedJob
<1>4. Holding(job)
  OBVIOUS
<1> HIDE DEF job
<1>5. work' \in [Worker -> JobRecord] /\ \A v \in Worker : Holding(work'[v])
  BY <1>1, <1>2, <1>3, <1>4, NewJob
<1>6. work'[w] = job /\ \A v \in Worker : v # w => work'[v] = work[v]
  BY <1>1, <1>2
<1> QED
  BY <1>3, <1>5, <1>6

LEMMA FinishJob ==
  ASSUME TypeInv, NEW w \in Worker, Finish(w)
  PROVE  /\ work' \in [Worker -> JobRecord]
         /\ \A v \in Worker : Holding(work'[v])
         /\ \A v \in Worker : v # w => work'[v] = work[v]
         /\ work'[w] = NoWork
  BY NoWorkOK DEF Finish, TypeInv, TypeOK

(* A request that starts, and one that ends. *)
LEMMA AcceptJob ==
  ASSUME TypeInv, NEW w \in Worker, NEW job \in JobRecord, Holding(job),
         Accept(w, job)
  PROVE  /\ work' \in [Worker -> JobRecord]
         /\ \A v \in Worker : Holding(work'[v])
         /\ \A v \in Worker : v # w => work'[v] = work[v]
         /\ work'[w] = job
         /\ started' \in Nat
  BY NewJob DEF Accept, TypeInv, TypeOK

LEMMA GotoTypesExist ==
  ASSUME TypeInv, NEW w \in Worker, NEW pc \in PC, Goto(w, pc),
         Holding([work[w] EXCEPT !.pc = pc]),
         pc \in MarkPC => work[w].pc \in MarkPC, UNCHANGED <<types, row>>
  PROVE  TypesExist'
<1>1. \A p \in Pair : row'[p] # None => types'[p[1]] # None
  BY DEF TypesExist, TypeInv
<1>2. \A v \in Worker : /\ work'[v].pc \in MarkPC => work[v].pc \in MarkPC
                        /\ work'[v].type = work[v].type
                        /\ work'[v].todo = work[v].todo
  BY GotoJob
<1>3. \A v \in Worker : work'[v].pc \in MarkPC => types'[work'[v].type] # None
  BY <1>2 DEF TypesExist, TypeInv
<1>4. \A v \in Worker : \A i \in work'[v].todo : types'[i.type] # None
  BY <1>2 DEF TypesExist, TypeInv
<1> QED BY <1>1, <1>3, <1>4 DEF TypesExist

LEMMA FinishTypesExist ==
  ASSUME TypeInv, NEW w \in Worker, Finish(w), UNCHANGED <<types, row>>
  PROVE  TypesExist'
  BY FinishJob DEF TypesExist, TypeInv, NoWork, Job

LEMMA StepTypeInv == TypeInv /\ [Next]_vars => TypeInv'
<1> SUFFICES ASSUME TypeInv, [Next]_vars PROVE TypeInv'
  OBVIOUS
<1> USE DEF TypeInv, database, store, counters
<1>1. ASSUME NEW w \in Worker, NEW t \in Type, NEW d \in Domain,
             CreateGetType(w, t, d)
      PROVE  TypeInv'
  <2>1. PICK q \in Asked("create") :
          CreateGetType(w, t, d)!(q)
    BY <1>1 DEF CreateGetType
  <2> DEFINE tm == [active |-> Given(q.active, types[t].active),
                    autorenew |-> Given(q.autorenew, types[t].autorenew),
                    validFor |-> Given(q.validFor, types[t].validFor),
                    claims |-> q.claims, mark |-> None, expireAt |-> None]
             job == Job("getExisting", "create", t, d, tm, FALSE, FALSE, None, {})
  <2>2. q \in Request
    BY RequestsAssumption DEF Asked
  <2>3. tm \in Row
    BY <2>1, <2>2 DEF Row, Request, TypeOK, TypeRow, Given
  <2>4. job \in JobRecord /\ Holding(job) /\ job.todo = {} /\ job.type = t
    <3> HIDE DEF tm
    <3> QED BY <2>3 DEF Job, JobRecord, Holding
  <2>5. Accept(w, job) /\ types[t] # None
    BY <2>1
  <2> HIDE DEF job
  <2>6. TypeOK'
    BY <2>1, <2>4, <2>5, AcceptJob DEF TypeOK
  <2>7. TypesExist'
    BY <2>1, <2>4, <2>5, AcceptJob DEF TypesExist
  <2> QED BY <2>6, <2>7
<1>2. ASSUME NEW w \in Worker, CreateGetExisting(w) PROVE TypeInv'
  <2>1. CASE row[PairOn(w)] # None
    <3>1. Finish(w)
      BY <1>2, <2>1 DEF CreateGetExisting
    <3>2. TypeOK'
      BY <1>2, <3>1, FinishJob DEF CreateGetExisting, TypeOK
    <3> QED BY <1>2, <3>1, <3>2, FinishTypesExist DEF CreateGetExisting
  <2>2. CASE row[PairOn(w)] = None
    <3>1. Goto(w, "insert") /\ Holding([work[w] EXCEPT !.pc = "insert"])
      BY <1>2, <2>2 DEF CreateGetExisting, At, Holding, TypeOK, JobRecord
    <3>2. TypeOK'
      BY <1>2, <3>1, GotoJob DEF CreateGetExisting, TypeOK
    <3> QED BY <1>2, <3>1, <3>2, GotoTypesExist DEF CreateGetExisting, At
  <2> QED BY <2>1, <2>2
<1>3. ASSUME NEW w \in Worker, CreateInsert(w) PROVE TypeInv'
  <2>1. CASE row[PairOn(w)] = None
    <3>1. Goto(w, "hset") /\ Holding([work[w] EXCEPT !.pc = "hset"])
      BY <1>3, <2>1 DEF CreateInsert, At, Holding, TypeOK, JobRecord
    <3>2. work[w].tm \in Row /\ work[w].type \in Type /\ work[w].domain \in Domain
      BY <1>3 DEF CreateInsert, At, TypeOK, Holding
    <3>3. TypeOK'
      BY <1>3, <2>1, <3>1, <3>2, GotoJob DEF CreateInsert, TypeOK, PairOn
    <3>4. types[work[w].type] # None /\ UNCHANGED types
      BY <1>3 DEF CreateInsert, At, TypesExist
    <3>5. \A p \in Pair : row'[p] # None => types[p[1]] # None
      BY <1>3, <2>1, <3>4 DEF CreateInsert, PairOn, TypeOK, TypesExist
    <3>6. \A v \in Worker : /\ work'[v].pc \in MarkPC => work[v].pc \in MarkPC
                            /\ work'[v].type = work[v].type
                            /\ work'[v].todo = work[v].todo
      BY <1>3, <3>1, GotoJob DEF CreateInsert, At
    <3>7. TypesExist'
      BY <3>4, <3>5, <3>6 DEF TypesExist
    <3> QED BY <3>3, <3>7
  <2>2. CASE row[PairOn(w)] # None
    <3>1. Finish(w) /\ UNCHANGED row
      BY <1>3, <2>2 DEF CreateInsert
    <3>2. TypeOK'
      BY <1>3, <3>1, FinishJob DEF CreateInsert, TypeOK
    <3> QED BY <1>3, <3>1, <3>2, FinishTypesExist DEF CreateInsert
  <2> QED BY <2>1, <2>2
<1>4. ASSUME NEW w \in Worker, HsetMark(w) PROVE TypeInv'
  <2> DEFINE mark == [type |-> work[w].type, domain |-> work[w].domain,
                      id |-> minted + 1, exp |-> now + Hours(w)]
             tm == [work[w].tm EXCEPT !.mark = mark, !.expireAt = mark.exp]
             job == [work[w] EXCEPT !.pc = "saddMember", !.tm = tm]
  <2>1. work[w] \in JobRecord /\ Holding(work[w]) /\ work[w].pc = "hset"
    BY <1>4 DEF HsetMark, At, TypeOK
  <2>2. types[work[w].type] \in TypeRow /\ work[w].tm \in Row
    BY <2>1 DEF TypesExist, TypeOK, Holding
  <2>3. mark \in Mark
    BY <2>1, <2>2 DEF Hours, Holding, Mark, TypeOK, TypeRow, Row
  <2>4. tm \in Row /\ tm.mark = mark
    <3> HIDE DEF mark
    <3>1. mark.exp \in Nat
      BY <2>3 DEF Mark
    <3> QED BY <2>2, <2>3, <3>1 DEF Row
  <2>5. work' = [work EXCEPT ![w] = job]
    BY <1>4 DEF HsetMark
  <2>6. job \in JobRecord /\ Holding(job) /\ job.pc = "saddMember"
        /\ job.type = work[w].type /\ job.todo = work[w].todo
    <3> HIDE DEF tm
    <3> QED BY <2>1, <2>3, <2>4 DEF JobRecord, Holding
  <2>7. served' = [served EXCEPT ![PairOn(w)] = mark] /\ minted' = minted + 1
    BY <1>4 DEF HsetMark
  <2> HIDE DEF job, mark
  <2>8. TypeOK'
    <3>1. work' \in [Worker -> JobRecord] /\ \A v \in Worker : Holding(work'[v])
      BY <2>5, <2>6, NewJob DEF TypeOK
    <3>2. served' \in [Pair -> Mark \cup {None, Revoked}]
      BY <2>3, <2>7 DEF TypeOK
    <3>3. minted' \in Nat
      BY <2>7 DEF TypeOK
    <3> QED BY <1>4, <3>1, <3>2, <3>3 DEF HsetMark, TypeOK
  <2>9. TypesExist'
    BY <1>4, <2>1, <2>5, <2>6 DEF HsetMark, TypesExist, TypeOK
  <2> QED BY <2>8, <2>9
<1>5. ASSUME NEW w \in Worker, SaddMember(w) PROVE TypeInv'
  <2>1. Goto(w, "saddType") /\ Holding([work[w] EXCEPT !.pc = "saddType"]) /\ "saddType" \in PC
    <3>1. work[w] \in JobRecord /\ Holding(work[w]) /\ work[w].pc \in AddPC
      BY <1>5 DEF SaddMember, At, TypeOK
    <3> QED BY <1>5, <3>1, PublishingOn DEF SaddMember
  <2>2. TypeOK'
    <3>1. work[w].type \in Type /\ work[w].domain \in Domain
      BY <1>5 DEF SaddMember, At, TypeOK, Holding
    <3>2. members' \in [Type -> SUBSET Domain]
      BY <1>5, <3>1 DEF SaddMember, TypeOK
    <3> QED BY <1>5, <2>1, <3>2, GotoJob DEF SaddMember, TypeOK
  <2>3. TypesExist'
    BY <1>5, <2>1, GotoTypesExist DEF SaddMember, At
  <2> QED BY <2>2, <2>3
<1>6. ASSUME NEW w \in Worker, SaddType(w) PROVE TypeInv'
  <2>1. Goto(w, "saddAlltime") /\ Holding([work[w] EXCEPT !.pc = "saddAlltime"]) /\ "saddAlltime" \in PC
    <3>1. work[w] \in JobRecord /\ Holding(work[w]) /\ work[w].pc \in AddPC
      BY <1>6 DEF SaddType, At, TypeOK
    <3> QED BY <1>6, <3>1, PublishingOn DEF SaddType
  <2>2. TypeOK'
    <3>1. work[w].type \in Type /\ work[w].domain \in Domain
      BY <1>6 DEF SaddType, At, TypeOK, Holding
    <3> QED BY <1>6, <2>1, <3>1, GotoJob DEF SaddType, TypeOK
  <2>3. TypesExist'
    BY <1>6, <2>1, GotoTypesExist DEF SaddType, At
  <2> QED BY <2>2, <2>3
<1>7. ASSUME NEW w \in Worker, SaddAlltime(w) PROVE TypeInv'
  <2>1. Goto(w, AfterAdd(work[w].op)) /\ Holding([work[w] EXCEPT !.pc = AfterAdd(work[w].op)]) /\ AfterAdd(work[w].op) \in PC
    <3> DEFINE pc == AfterAdd(work[w].op)
               new == [work[w] EXCEPT !.pc = pc]
    <3>1. /\ work[w] \in JobRecord /\ Holding(work[w])
          /\ work[w].pc = "saddAlltime" /\ Goto(w, pc)
      BY <1>7 DEF SaddAlltime, At, TypeOK
    <3>2. pc \in PC /\ pc \in {"each", "save"} /\ (pc = "each" <=> work[w].op = "reissue")
      BY DEF AfterAdd
    <3> HIDE DEF pc
    <3>3. /\ new.pc = pc /\ new.op = work[w].op /\ new.type = work[w].type
          /\ new.domain = work[w].domain /\ new.tm = work[w].tm
      BY <3>1, <3>2, MovedJob
    <3> HIDE DEF new
    <3>4. Holding(new)
      BY <3>1, <3>2, <3>3 DEF Holding
    <3> QED BY <3>1, <3>2, <3>4 DEF new, pc
  <2>2. TypeOK'
    <3> DEFINE pc == AfterAdd(work[w].op)
    <3>1. work[w].tm.mark \in Mark
      BY <1>7 DEF SaddAlltime, At, TypeOK, Holding
    <3>2. /\ alltime' \subseteq Mark
          /\ UNCHANGED <<database, served, members, typeIndex, redis, counters>>
      BY <1>7, <3>1 DEF SaddAlltime, TypeOK
    <3> HIDE DEF pc
    <3>3. work' \in [Worker -> JobRecord] /\ \A v \in Worker : Holding(work'[v])
      BY <2>1, GotoJob DEF pc
    <3> QED BY <3>2, <3>3 DEF TypeOK
  <2>3. TypesExist'
    BY <1>7, <2>1, GotoTypesExist DEF SaddAlltime, At
  <2> QED BY <2>2, <2>3
<1>8. ASSUME NEW w \in Worker, NEW t \in Type, NEW d \in Domain, RenewGet(w, t, d)
      PROVE  TypeInv'
  <2> DEFINE job == Job("hset", "renew", t, d, row[<<t, d>>],
                        row[<<t, d>>].active, FALSE, None, {})
  <2>1. row[<<t, d>>] \in Row /\ types[t] # None
    BY <1>8 DEF RenewGet, TypeOK, TypesExist
  <2>2. job \in JobRecord /\ Holding(job) /\ job.todo = {} /\ job.type = t
    BY <2>1 DEF Job, JobRecord, Holding, Row
  <2>3. Accept(w, job)
    BY <1>8 DEF RenewGet
  <2> HIDE DEF job
  <2>4. TypeOK'
    BY <1>8, <2>2, <2>3, AcceptJob DEF RenewGet, TypeOK
  <2>5. TypesExist'
    BY <1>8, <2>1, <2>2, <2>3, AcceptJob DEF RenewGet, TypesExist
  <2> QED BY <2>4, <2>5
<1>9. ASSUME NEW w \in Worker, NEW t \in Type, NEW d \in Domain, UpdateGet(w, t, d)
      PROVE  TypeInv'
  <2>1. PICK q \in Asked("update") : UpdateGet(w, t, d)!(q)
    BY <1>9 DEF UpdateGet
  <2> DEFINE old == row[<<t, d>>]
             job == Job(IF q.claims # old.claims THEN "hset" ELSE "save",
                        "update", t, d, Updated(old, q), old.active,
                        q.active = FALSE, None, {})
  <2>2. q \in Request
    BY RequestsAssumption DEF Asked
  <2>3. old \in Row /\ types[t] # None
    <3>1. <<t, d>> \in Pair /\ row \in [Pair -> Row \cup {None}] /\ old # None
      BY <2>1 DEF TypeOK
    <3>2. types[<<t, d>>[1]] # None
      BY <3>1 DEF TypesExist
    <3> QED BY <3>1, <3>2
  <2>4. Updated(old, q) \in Row /\ old.active \in BOOLEAN
    <3> HIDE DEF old
    <3>1. /\ Given(q.autorenew, old.autorenew) \in BOOLEAN
          /\ Given(q.active, old.active) \in BOOLEAN
      BY <2>2, <2>3 DEF Given, Row, Request
    <3>2. q.claims \in Claim \cup {None}
      BY <2>2 DEF Request
    <3>3. old.active \in BOOLEAN /\ None \in Mark \cup {None}
      BY <2>3 DEF Row
    <3> QED BY <2>3, <3>1, <3>2, <3>3 DEF Updated, Row
  <2>5. job \in JobRecord /\ Holding(job) /\ job.todo = {} /\ job.type = t
    <3> HIDE DEF old
    <3>1. (q.active = FALSE) \in BOOLEAN
      OBVIOUS
    <3> QED BY <2>4, <3>1 DEF Job, JobRecord, Holding
  <2>6. Accept(w, job)
    BY <2>1
  <2> HIDE DEF job, old
  <2>7. TypeOK'
    BY <2>1, <2>5, <2>6, AcceptJob DEF TypeOK
  <2>8. TypesExist'
    BY <2>1, <2>3, <2>5, <2>6, AcceptJob DEF TypesExist
  <2> QED BY <2>7, <2>8
<1>10. ASSUME NEW w \in Worker, Save(w) PROVE TypeInv'
  <2> DEFINE pc == IF work[w].revoke THEN "hsetRevoked" ELSE "log"
  <2>1. Goto(w, pc) /\ Holding([work[w] EXCEPT !.pc = pc]) /\ pc \in PC
    BY <1>10 DEF Save, At, Holding, TypeOK, JobRecord
  <2>2. work[w].tm \in Row /\ types[work[w].type] # None
    BY <1>10 DEF Save, At, TypeOK, Holding, TypesExist
  <2>3. row' \in [Pair -> Row \cup {None}]
    BY <1>10, <2>2 DEF Save, TypeOK
  <2>4. TypeOK'
    BY <1>10, <2>1, <2>3, GotoJob DEF Save, TypeOK
  <2>5. \A p \in Pair : row'[p] # None => types'[p[1]] # None
    BY <1>10, <2>2 DEF Save, PairOn, TypeOK, TypesExist
  <2>6. \A v \in Worker : work'[v].pc \in MarkPC => work[v].pc \in MarkPC
    BY <1>10, <2>1, GotoJob DEF Save, At
  <2>7. types' = types /\ \A v \in Worker : /\ work'[v].type = work[v].type
                                             /\ work'[v].todo = work[v].todo
    BY <1>10, <2>1, GotoJob DEF Save
  <2>8. TypesExist'
    BY <2>5, <2>6, <2>7 DEF TypesExist
  <2> QED BY <2>4, <2>8
<1>11. ASSUME NEW w \in Worker, HsetRevoked(w) PROVE TypeInv'
  <2>1. Goto(w, "srem") /\ Holding([work[w] EXCEPT !.pc = "srem"]) /\ "srem" \in PC
    BY <1>11 DEF HsetRevoked, At, Holding, TypeOK, JobRecord
  <2>2. TypeOK'
    BY <1>11, <2>1, GotoJob DEF HsetRevoked, At, TypeOK, Holding
  <2> QED BY <1>11, <2>1, <2>2, GotoTypesExist DEF HsetRevoked, At
<1>12. ASSUME NEW w \in Worker, SremMember(w) PROVE TypeInv'
  <2>1. Goto(w, "log") /\ Holding([work[w] EXCEPT !.pc = "log"]) /\ "log" \in PC
    BY <1>12 DEF SremMember, At, Holding, TypeOK, JobRecord
  <2>2. TypeOK'
    BY <1>12, <2>1, GotoJob DEF SremMember, At, TypeOK, Holding
  <2> QED BY <1>12, <2>1, <2>2, GotoTypesExist DEF SremMember, At
<1>13. ASSUME NEW w \in Worker, Log(w) PROVE TypeInv'
  <2>1. Finish(w)
    BY <1>13 DEF Log
  <2>2. /\ work[w].type \in Type /\ work[w].domain \in Domain
        /\ work[w].tm.mark \in Mark \cup {None}
        /\ work[w].op \in {"create", "renew", "update"}
    BY <1>13 DEF Log, At, TypeOK, Holding, Row
  <2>3. audit' \subseteq AuditEntry
    BY <1>13, <2>2 DEF Log, Event, AuditEntry, TypeOK
  <2>4. TypeOK'
    BY <1>13, <2>1, <2>3, FinishJob DEF Log, TypeOK
  <2> QED BY <1>13, <2>1, <2>4, FinishTypesExist DEF Log
<1>14. ASSUME NEW w \in Worker, NEW op \in {"reissue", "reload"}, CommandStart(w, op)
       PROVE  TypeInv'
  <2> DEFINE job == Job("each", op, None, None, None, FALSE, FALSE, None, Snapshot)
  <2>1. Snapshot \subseteq Item /\ \A i \in Snapshot : types[i.type] # None
    BY DEF Snapshot, Item, TypeOK, TypesExist
  <2>2. job \in JobRecord /\ Holding(job) /\ job.todo = Snapshot /\ job.pc = "each"
    BY <2>1 DEF Job, JobRecord, Holding
  <2>3. Accept(w, job)
    BY <1>14 DEF CommandStart
  <2> HIDE DEF job
  <2>4. TypeOK'
    BY <1>14, <2>2, <2>3, AcceptJob DEF CommandStart, TypeOK
  <2>5. TypesExist'
    BY <1>14, <2>1, <2>2, <2>3, AcceptJob DEF CommandStart, TypesExist
  <2> QED BY <2>4, <2>5
<1>15. ASSUME NEW w \in Worker, ReissueNext(w) PROVE TypeInv'
  <2>1. PICK i \in work[w].todo : ReissueNext(w)!(i)
    BY <1>15 DEF ReissueNext
  <2> DEFINE job == ReissueJob(work[w], i)
  <2>2. /\ work[w] \in JobRecord /\ Holding(work[w]) /\ work[w].pc = "each"
        /\ i \in Item /\ types[i.type] # None
    BY <2>1 DEF At, TypeOK, TypesExist, JobRecord
  <2>3. /\ job \in JobRecord /\ Holding(job) /\ job.todo = work[w].todo \ {i}
        /\ job.pc \in MarkPC => types[job.type] # None
    BY <2>2 DEF ReissueJob, Job, JobRecord, Holding, Item
  <2>4. work' = [work EXCEPT ![w] = job]
    BY <2>1
  <2> HIDE DEF job
  <2>5. TypeOK'
    BY <2>1, <2>3, <2>4, NewJob DEF TypeOK
  <2>6. TypesExist'
    BY <2>1, <2>3, <2>4 DEF TypesExist, TypeOK
  <2> QED BY <2>5, <2>6
<1>16. ASSUME NEW w \in Worker, ReloadNext(w) PROVE TypeInv'
  <2>1. PICK i \in work[w].todo : ReloadNext(w)!(i)
    BY <1>16 DEF ReloadNext
  <2> DEFINE job == [work[w] EXCEPT !.todo = @ \ {i}]
  <2>2. /\ work[w] \in JobRecord /\ Holding(work[w]) /\ work[w].pc = "each"
        /\ i \in Item
    BY <2>1 DEF At, TypeOK, JobRecord
  <2>3. /\ job \in JobRecord /\ Holding(job) /\ job.todo = work[w].todo \ {i}
        /\ job.pc = "each"
    BY <2>2 DEF JobRecord, Holding
  <2>4. work' = [work EXCEPT ![w] = job]
    BY <2>1
  <2>5. alltime' \subseteq Mark
    BY <2>1, <2>2 DEF TypeOK, Item, Row
  <2> HIDE DEF job
  <2>6. TypeOK'
    BY <2>1, <2>3, <2>4, <2>5, NewJob DEF TypeOK
  <2>7. TypesExist'
    BY <2>1, <2>3, <2>4 DEF TypesExist, TypeOK
  <2> QED BY <2>6, <2>7
<1>17. ASSUME NEW w \in Worker, CommandEnd(w) PROVE TypeInv'
  <2>1. Finish(w)
    BY <1>17 DEF CommandEnd
  <2>2. TypeOK'
    BY <1>17, <2>1, FinishJob DEF CommandEnd, At, TypeOK, Holding
  <2> QED BY <1>17, <2>1, <2>2, FinishTypesExist DEF CommandEnd
<1>18. ASSUME NEW w \in Worker, NEW t \in Type, CreateType(w, t) PROVE TypeInv'
  <2>1. PICK q \in Asked("createType") : CreateType(w, t)!(q)
    BY <1>18 DEF CreateType
  <2> DEFINE new == [active |-> q.active, autorenew |-> q.autorenew,
                     validFor |-> q.validFor]
             job == Job("logType", "createType", t, None, None, TRUE, FALSE,
                        new, {})
  <2>2. new \in TypeRow /\ new # None
    BY <2>1, RequestsAssumption, SentinelsAssumption DEF TypeRow
  <2> HIDE DEF new
  <2>3. job \in JobRecord /\ Holding(job) /\ job.todo = {} /\ job.pc = "logType"
    BY <2>2 DEF Job, JobRecord, Holding
  <2>4. Accept(w, job) /\ types' = [types EXCEPT ![t] = new]
    BY <2>1 DEF new
  <2> HIDE DEF job
  <2>5. TypeOK'
    BY <2>1, <2>2, <2>3, <2>4, AcceptJob DEF TypeOK
  <2>6. \A u \in Type : types[u] # None => types'[u] # None
    BY <2>2, <2>4 DEF TypeOK
  <2>7. TypesExist'
    BY <2>1, <2>3, <2>4, <2>6, AcceptJob DEF TypesExist, TypeOK
  <2> QED BY <2>5, <2>7
<1>19. ASSUME NEW w \in Worker, NEW t \in Type, UpdateTypeGet(w, t) PROVE TypeInv'
  <2>1. PICK q \in Asked("updateType") : UpdateTypeGet(w, t)!(q)
    BY <1>19 DEF UpdateTypeGet
  <2> DEFINE new == [active |-> Given(q.active, types[t].active),
                     autorenew |-> Given(q.autorenew, types[t].autorenew),
                     validFor |-> Given(q.validFor, types[t].validFor)]
             job == Job("saveType", "updateType", t, None, None,
                        types[t].active, FALSE, new, {})
  <2>2. q \in Request
    BY RequestsAssumption DEF Asked
  <2>3. new \in TypeRow /\ types[t].active \in BOOLEAN
    BY <2>1, <2>2 DEF TypeRow, Given, Request, TypeOK
  <2> HIDE DEF new
  <2>4. job \in JobRecord /\ Holding(job) /\ job.todo = {} /\ job.pc = "saveType"
    BY <2>3 DEF Job, JobRecord, Holding
  <2>5. Accept(w, job)
    BY <2>1 DEF new
  <2> HIDE DEF job
  <2>6. TypeOK'
    BY <2>1, <2>4, <2>5, AcceptJob DEF TypeOK
  <2>7. TypesExist'
    BY <2>1, <2>4, <2>5, AcceptJob DEF TypesExist
  <2> QED BY <2>6, <2>7
<1>20. ASSUME NEW w \in Worker, SaveType(w) PROVE TypeInv'
  <2>1. Goto(w, "logType") /\ Holding([work[w] EXCEPT !.pc = "logType"])
    BY <1>20 DEF SaveType, At, Holding, TypeOK, JobRecord
  <2>2. work[w].tmt \in TypeRow /\ work[w].tmt # None
    BY <1>20, SentinelsAssumption DEF SaveType, At, TypeOK, Holding
  <2>3. types' \in [Type -> TypeRow \cup {None}]
        /\ \A u \in Type : types[u] # None => types'[u] # None
    BY <1>20, <2>2 DEF SaveType, TypeOK
  <2>4. TypeOK'
    BY <1>20, <2>1, <2>3, GotoJob DEF SaveType, TypeOK
  <2>5. UNCHANGED row /\ work[w].pc = "saveType"
    BY <1>20 DEF SaveType, At
  <2>6. \A v \in Worker : work'[v].pc \in MarkPC => work[v].pc \in MarkPC
    <3>1. work'[w].pc = "logType" /\ \A v \in Worker : v # w => work'[v].pc = work[v].pc
      BY <2>1, GotoJob
    <3> QED BY <3>1
  <2>7. \A v \in Worker : work'[v].type = work[v].type /\ work'[v].todo = work[v].todo
    BY <2>1, GotoJob
  <2>8. \A v \in Worker : work[v].todo \subseteq Item
                          /\ (work[v].pc \in MarkPC => work[v].type \in Type)
    BY DEF TypeOK, JobRecord, Holding
  <2>9. TypesExist'
    BY <2>3, <2>5, <2>6, <2>7, <2>8 DEF TypesExist, Item
  <2> QED BY <2>4, <2>9
<1>21. ASSUME NEW w \in Worker, LogType(w) PROVE TypeInv'
  <2>1. Finish(w)
    BY <1>21 DEF LogType
  <2>2. work[w].type \in Type /\ work[w].op \in {"createType", "updateType"}
    BY <1>21 DEF LogType, At, TypeOK, Holding
  <2>3. audit' \subseteq AuditEntry
    BY <1>21, <2>2 DEF LogType, TypeEvent, AuditEntry, TypeOK
  <2>4. TypeOK'
    BY <1>21, <2>1, <2>3, FinishJob DEF LogType, TypeOK
  <2> QED BY <1>21, <2>1, <2>4, FinishTypesExist DEF LogType
<1>22. ASSUME NEW w \in Worker, Fail(w) PROVE TypeInv'
  <2>1. Finish(w)
    BY <1>22 DEF Fail
  <2>2. TypeOK'
    BY <1>22, <2>1, FinishJob DEF Fail, At, TypeOK, Holding
  <2> QED BY <1>22, <2>1, <2>2, FinishTypesExist DEF Fail
<1>23. CASE Tick
  BY <1>23 DEF Tick, TypeOK, TypesExist
<1>24. CASE UNCHANGED vars
  BY <1>24 DEF vars, TypeOK, TypesExist
<1>25. CASE Rest
  BY <1>24, <1>25 DEF Rest
<1> QED
  BY <1>1, <1>2, <1>3, <1>4, <1>5, <1>6, <1>7, <1>8, <1>9, <1>10, <1>11, <1>12,
     <1>13, <1>14, <1>15, <1>16, <1>17, <1>18, <1>19, <1>20, <1>21, <1>22,
     <1>23, <1>24, <1>25
  DEF Next, Arrive, Step

(* Type correctness: rows, Redis values and requests in flight always have *)
(* the shape the models and add_trustmark give them, and no row outlives   *)
(* its type.                                                               *)
LEMMA TypeInvariant == Spec => []TypeInv
  BY InitTypeInv, StepTypeInv, PTL DEF Spec

(* Rows, Redis values and requests in flight keep their shapes.            *)
THEOREM TypeCorrect == Spec => []TypeOK
<1>1. TypeInv => TypeOK
  BY DEF TypeInv
<1> QED BY <1>1, TypeInvariant, PTL

LEMMA InitLedger == Init => MarkLedger
  BY DEF Init, MarkLedger, KnownMarkHasEntry, StoredMarkKnown,
         ExpiryMatchesMark, JobLedger, NoWork, Job

(* Publishing more and recording more disturbs no request in flight. *)
LEMMA LedgerGrows ==
  ASSUME NEW job, JobLedger(job), alltime \subseteq alltime',
         \A p \in Pair : served[p] # None => served'[p] # None,
         job \in JobRecord, Holding(job)
  PROVE  JobLedger(job)'
  BY DEF JobLedger, Holding

(* A step of one worker preserves the ledger if it preserves the three     *)
(* invariants, only adds to Redis, and leaves that worker's job in order.  *)
LEMMA LedgerStep ==
  ASSUME TypeInv, MarkLedger, NEW w \in Worker, NEW job,
         work' = [work EXCEPT ![w] = job], JobLedger(job)',
         alltime \subseteq alltime',
         \A p \in Pair : served[p] # None => served'[p] # None,
         KnownMarkHasEntry', StoredMarkKnown', ExpiryMatchesMark'
  PROVE  MarkLedger'
<1>1. \A v \in Worker : JobLedger(work[v]) /\ work[v] \in JobRecord /\ Holding(work[v])
  BY DEF MarkLedger, TypeInv, TypeOK
<1>2. \A v \in Worker : JobLedger(work[v])'
  <2> SUFFICES ASSUME NEW v \in Worker PROVE JobLedger(work[v])'
    OBVIOUS
  <2>1. CASE v = w
    BY <2>1 DEF TypeInv, TypeOK
  <2>2. CASE v # w
    <3>1. work'[v] = work[v]
      BY <2>2 DEF TypeInv, TypeOK
    <3> QED BY <1>1, <3>1, LedgerGrows DEF JobLedger
  <2> QED BY <2>1, <2>2
<1> QED BY <1>2 DEF MarkLedger

LEMMA LedgerSame ==
  ASSUME TypeInv, MarkLedger, NEW w \in Worker, NEW job, JobLedger(job),
         work' = [work EXCEPT ![w] = job], UNCHANGED <<row, served, alltime>>
  PROVE  MarkLedger'
<1>1. JobLedger(job)'
  BY DEF JobLedger
<1>2. KnownMarkHasEntry' /\ StoredMarkKnown' /\ ExpiryMatchesMark'
  BY DEF MarkLedger, KnownMarkHasEntry, StoredMarkKnown, ExpiryMatchesMark
<1> QED BY <1>1, <1>2, LedgerStep

LEMMA StepLedger == TypeInv /\ MarkLedger /\ [Next]_vars => MarkLedger'
<1> SUFFICES ASSUME TypeInv, MarkLedger, [Next]_vars PROVE MarkLedger'
  OBVIOUS
<1> USE DEF database, store, counters
<1>0. ASSUME NEW w \in Worker
      PROVE  JobLedger(work[w]) /\ work[w] \in JobRecord /\ Holding(work[w])
  BY DEF MarkLedger, TypeInv, TypeOK
<1>a. ASSUME NEW w \in Worker, Finish(w), UNCHANGED <<row, served, alltime>>
      PROVE  MarkLedger'
  <2>1. JobLedger(NoWork)
    BY DEF JobLedger, NoWork, Job
  <2> QED BY <1>a, <2>1, LedgerSame DEF Finish
<1>b. ASSUME NEW w \in Worker, NEW pc \in PC, Goto(w, pc),
             UNCHANGED <<row, served, alltime>>,
             pc \notin {"save", "getExisting"},
             pc = "insert" => work[w].pc = "getExisting",
             pc \in AddPC => work[w].pc \in AddPC
      PROVE  MarkLedger'
  <2> DEFINE job == [work[w] EXCEPT !.pc = pc]
  <2>1. JobLedger(job)
    BY <1>0, <1>b DEF JobLedger, JobRecord
  <2>2. work' = [work EXCEPT ![w] = job]
    BY <1>b DEF Goto
  <2> HIDE DEF job
  <2> QED BY <1>b, <2>1, <2>2, LedgerSame
<1>c. ASSUME NEW w \in Worker, NEW job, Accept(w, job), JobLedger(job),
             UNCHANGED <<row, served, alltime>>
      PROVE  MarkLedger'
  BY <1>c, LedgerSame DEF Accept
<1>d. ASSUME NEW w \in Worker, NEW pc,
             NEW job, job = [work[w] EXCEPT !.pc = pc]
      PROVE  /\ job.pc = pc /\ job.tm = work[w].tm /\ job.type = work[w].type
             /\ job.domain = work[w].domain /\ job.todo = work[w].todo
  BY <1>0, <1>d DEF JobRecord
<1>1. ASSUME NEW w \in Worker, NEW t \in Type, NEW d \in Domain,
             CreateGetType(w, t, d)
      PROVE  MarkLedger'
  <2>1. PICK q \in Asked("create") : CreateGetType(w, t, d)!(q)
    BY <1>1 DEF CreateGetType
  <2> DEFINE tm == [active |-> Given(q.active, types[t].active),
                    autorenew |-> Given(q.autorenew, types[t].autorenew),
                    validFor |-> Given(q.validFor, types[t].validFor),
                    claims |-> q.claims, mark |-> None, expireAt |-> None]
             job == Job("getExisting", "create", t, d, tm, FALSE, FALSE, None, {})
  <2>2. JobLedger(job)
    BY DEF JobLedger, Job
  <2> QED BY <1>c, <2>1, <2>2
<1>2. ASSUME NEW w \in Worker, CreateGetExisting(w) PROVE MarkLedger'
  BY <1>2, <1>a, <1>b DEF CreateGetExisting, At
<1>3. ASSUME NEW w \in Worker, CreateInsert(w) PROVE MarkLedger'
  <2>1. CASE row[PairOn(w)] = None
    <3>0. PICK job : job = [work[w] EXCEPT !.pc = "hset"]
      OBVIOUS
    <3>1. work' = [work EXCEPT ![w] = job] /\ work[w].tm.mark = None
          /\ UNCHANGED <<served, alltime>>
          /\ row' = [row EXCEPT ![PairOn(w)] = work[w].tm]
      BY <1>0, <1>3, <2>1, <3>0 DEF CreateInsert, Goto, At, JobLedger
    <3>a. job.pc = "hset" /\ job.todo = work[w].todo
      BY <1>d, <3>0
    <3>2. JobLedger(job)'
      BY <1>0, <3>a, <3>1 DEF JobLedger
    <3>3. KnownMarkHasEntry'
      BY <3>1 DEF MarkLedger, KnownMarkHasEntry
    <3>4. StoredMarkKnown' /\ ExpiryMatchesMark'
      BY <3>1 DEF MarkLedger, StoredMarkKnown, ExpiryMatchesMark, TypeInv, TypeOK
    <3> QED BY <3>1, <3>2, <3>3, <3>4, LedgerStep
  <2>2. CASE row[PairOn(w)] # None
    BY <1>3, <1>a, <2>2 DEF CreateInsert
  <2> QED BY <2>1, <2>2
<1>4. ASSUME NEW w \in Worker, HsetMark(w) PROVE MarkLedger'
  <2> DEFINE mark == [type |-> work[w].type, domain |-> work[w].domain,
                      id |-> minted + 1, exp |-> now + Hours(w)]
             tm == [work[w].tm EXCEPT !.mark = mark, !.expireAt = mark.exp]
  <2>0. PICK job : job = [work[w] EXCEPT !.pc = "saddMember", !.tm = tm]
    OBVIOUS
  <2>0a. PICK new : new = mark
    OBVIOUS
  <2>1. /\ work' = [work EXCEPT ![w] = job]
        /\ served' = [served EXCEPT ![PairOn(w)] = new]
        /\ UNCHANGED <<row, alltime>>
    BY <1>4, <2>0, <2>0a DEF HsetMark
  <2>2. PairOn(w) \in Pair /\ work[w].tm \in Row
    BY <1>0, <1>4 DEF HsetMark, At, Holding, PairOn
  <2>3. PairOf(new) = PairOn(w) /\ new # None
    <3>1. mark \in Mark
      <4>1. types[work[w].type] # None /\ work[w].type \in Type
            /\ work[w].domain \in Domain
        BY <1>0, <1>4 DEF HsetMark, At, TypeInv, TypesExist, Holding
      <4> QED BY <2>2, <4>1 DEF Mark, Hours, TypeInv, TypeOK, TypeRow, Row
    <3> QED BY <2>0a, <3>1, SentinelsAssumption DEF PairOf, PairOn
  <2> HIDE DEF mark
  <2>4. tm.mark = new /\ tm.expireAt = new.exp
    BY <2>0a, <2>2 DEF Row
  <2> HIDE DEF tm
  <2>5. /\ job.pc = "saddMember" /\ job.tm.mark = new
        /\ job.tm.expireAt = new.exp /\ job.todo = work[w].todo
        /\ <<job.type, job.domain>> = PairOn(w)
    BY <1>0, <2>0, <2>4 DEF JobRecord, PairOn
  <2>6. served'[PairOn(w)] = new
        /\ \A p \in Pair : served[p] # None => served'[p] # None
    BY <2>1, <2>2, <2>3 DEF TypeInv, TypeOK
  <2>7. JobLedger(job)'
    BY <1>0, <2>1, <2>3, <2>5, <2>6 DEF JobLedger
  <2>8. \A m \in alltime : PairOf(m) \in Pair
    BY DEF PairOf, TypeInv, TypeOK, Mark
  <2>9. KnownMarkHasEntry'
    BY <2>1, <2>6, <2>8 DEF MarkLedger, KnownMarkHasEntry
  <2>10. StoredMarkKnown' /\ ExpiryMatchesMark'
    BY <2>1 DEF MarkLedger, StoredMarkKnown, ExpiryMatchesMark
  <2> QED BY <2>1, <2>6, <2>7, <2>9, <2>10, LedgerStep
<1>5. ASSUME NEW w \in Worker, SaddMember(w) PROVE MarkLedger'
  BY <1>5, <1>b DEF SaddMember, At
<1>6. ASSUME NEW w \in Worker, SaddType(w) PROVE MarkLedger'
  BY <1>6, <1>b DEF SaddType, At
<1>7. ASSUME NEW w \in Worker, SaddAlltime(w) PROVE MarkLedger'
  <2> DEFINE mark == work[w].tm.mark
             pc == AfterAdd(work[w].op)
  <2>0. PICK job : job = [work[w] EXCEPT !.pc = pc]
    OBVIOUS
  <2>1. /\ work' = [work EXCEPT ![w] = job]
        /\ alltime' = alltime \cup {mark}
        /\ UNCHANGED <<row, served>> /\ work[w].pc = "saddAlltime"
    BY <1>7, <2>0 DEF SaddAlltime, Goto, At
  <2>2. /\ job.pc \in {"each", "save"} /\ job.tm = work[w].tm
        /\ job.todo = work[w].todo
    <3>1. pc \in {"each", "save"}
      BY DEF AfterAdd
    <3> HIDE DEF pc
    <3> QED BY <1>d, <2>0, <3>1
  <2> HIDE DEF pc
  <2>3. JobLedger(job)'
    BY <1>0, <2>1, <2>2 DEF JobLedger
  <2>4. served[PairOf(mark)] # None
    BY <1>0, <2>1 DEF JobLedger
  <2>5. KnownMarkHasEntry'
    BY <2>1, <2>4 DEF MarkLedger, KnownMarkHasEntry
  <2>6. StoredMarkKnown' /\ ExpiryMatchesMark'
    BY <2>1 DEF MarkLedger, StoredMarkKnown, ExpiryMatchesMark
  <2> QED BY <2>1, <2>3, <2>5, <2>6, LedgerStep
<1>8. ASSUME NEW w \in Worker, NEW t \in Type, NEW d \in Domain, RenewGet(w, t, d)
      PROVE  MarkLedger'
  <2> DEFINE job == Job("hset", "renew", t, d, row[<<t, d>>],
                        row[<<t, d>>].active, FALSE, None, {})
  <2>1. Accept(w, job) /\ UNCHANGED <<row, served, alltime>>
    BY <1>8 DEF RenewGet
  <2>2. JobLedger(job)
    BY DEF JobLedger, Job
  <2> HIDE DEF job
  <2> QED BY <1>c, <2>1, <2>2
<1>9. ASSUME NEW w \in Worker, NEW t \in Type, NEW d \in Domain, UpdateGet(w, t, d)
      PROVE  MarkLedger'
  <2>1. PICK q \in Asked("update") : UpdateGet(w, t, d)!(q)
    BY <1>9 DEF UpdateGet
  <2> DEFINE old == row[<<t, d>>]
             new == Updated(old, q)
             job == Job(IF q.claims # old.claims THEN "hset" ELSE "save",
                        "update", t, d, new, old.active, q.active = FALSE,
                        None, {})
  <2>2. Accept(w, job) /\ UNCHANGED <<row, served, alltime>>
    BY <2>1
  <2>3. old \in Row /\ old # None
    BY <2>1 DEF TypeInv, TypeOK
  <2>4. new.mark \in {old.mark, None} /\ new.expireAt = old.expireAt
    <3> HIDE DEF old
    <3> QED BY <2>3 DEF Updated, Row
  <2>5. old.mark # None => old.mark \in alltime /\ old.expireAt = old.mark.exp
    BY <2>3 DEF MarkLedger, StoredMarkKnown, ExpiryMatchesMark
  <2> HIDE DEF old, new
  <2>6. job.pc \in {"hset", "save"} /\ job.tm = new /\ job.todo = {}
    BY DEF Job
  <2> HIDE DEF job
  <2>7. JobLedger(job)
    BY <2>4, <2>5, <2>6 DEF JobLedger
  <2> QED BY <1>c, <2>2, <2>7
<1>10. ASSUME NEW w \in Worker, Save(w) PROVE MarkLedger'
  <2> DEFINE pc == IF work[w].revoke THEN "hsetRevoked" ELSE "log"
  <2>0. PICK job : job = [work[w] EXCEPT !.pc = pc]
    OBVIOUS
  <2>1. /\ work' = [work EXCEPT ![w] = job]
        /\ row' = [row EXCEPT ![PairOn(w)] = work[w].tm]
        /\ UNCHANGED <<served, alltime>> /\ work[w].pc = "save"
    BY <1>10, <2>0 DEF Save, Goto, At
  <2>2. /\ job.pc \in {"hsetRevoked", "log"} /\ job.todo = work[w].todo
    BY <1>d, <2>0
  <2>3. JobLedger(job)'
    BY <1>0, <2>1, <2>2 DEF JobLedger
  <2>4. work[w].tm.mark # None
          => work[w].tm.mark \in alltime /\ work[w].tm.expireAt = work[w].tm.mark.exp
    BY <1>0, <2>1 DEF JobLedger
  <2>5. \A p \in Pair : row'[p] = row[p] \/ row'[p] = work[w].tm
    BY <2>1 DEF TypeInv, TypeOK
  <2>6. KnownMarkHasEntry'
    BY <2>1 DEF MarkLedger, KnownMarkHasEntry
  <2>7. StoredMarkKnown' /\ ExpiryMatchesMark'
    BY <2>1, <2>4, <2>5 DEF MarkLedger, StoredMarkKnown, ExpiryMatchesMark
  <2> QED BY <2>1, <2>3, <2>6, <2>7, LedgerStep
<1>11. ASSUME NEW w \in Worker, HsetRevoked(w) PROVE MarkLedger'
  <2>0. PICK job : job = [work[w] EXCEPT !.pc = "srem"]
    OBVIOUS
  <2>1. /\ work' = [work EXCEPT ![w] = job]
        /\ served' = [served EXCEPT ![PairOn(w)] = Revoked]
        /\ UNCHANGED <<row, alltime>>
    BY <1>11, <2>0 DEF HsetRevoked, Goto
  <2>2. job.pc = "srem" /\ job.todo = work[w].todo
    BY <1>d, <2>0
  <2>3. JobLedger(job)'
    BY <1>0, <2>1, <2>2 DEF JobLedger
  <2>4. \A p \in Pair : served[p] # None => served'[p] # None
    BY <2>1, SentinelsAssumption DEF TypeInv, TypeOK
  <2>5. \A m \in alltime : PairOf(m) \in Pair
    BY DEF PairOf, TypeInv, TypeOK, Mark
  <2>6. KnownMarkHasEntry'
    BY <2>1, <2>4, <2>5 DEF MarkLedger, KnownMarkHasEntry
  <2>7. StoredMarkKnown' /\ ExpiryMatchesMark'
    BY <2>1 DEF MarkLedger, StoredMarkKnown, ExpiryMatchesMark
  <2> QED BY <2>1, <2>3, <2>4, <2>6, <2>7, LedgerStep
<1>12. ASSUME NEW w \in Worker, SremMember(w) PROVE MarkLedger'
  BY <1>12, <1>b DEF SremMember
<1>13. ASSUME NEW w \in Worker, Log(w) PROVE MarkLedger'
  BY <1>13, <1>a DEF Log
<1>14. ASSUME NEW w \in Worker, NEW op \in {"reissue", "reload"}, CommandStart(w, op)
       PROVE  MarkLedger'
  <2> DEFINE job == Job("each", op, None, None, None, FALSE, FALSE, None, Snapshot)
  <2>1. Accept(w, job) /\ UNCHANGED <<row, served, alltime>>
    BY <1>14 DEF CommandStart
  <2>2. \A i \in Snapshot : i.tm.mark # None => i.tm.mark \in alltime
    BY DEF Snapshot, MarkLedger, StoredMarkKnown
  <2>3. job.pc = "each" /\ job.todo = Snapshot
    BY DEF Job
  <2> HIDE DEF job
  <2>4. JobLedger(job)
    BY <2>2, <2>3 DEF JobLedger
  <2> QED BY <1>c, <2>1, <2>4
<1>15. ASSUME NEW w \in Worker, ReissueNext(w) PROVE MarkLedger'
  <2>1. PICK i \in work[w].todo : ReissueNext(w)!(i)
    BY <1>15 DEF ReissueNext
  <2> DEFINE job == ReissueJob(work[w], i)
  <2>2. work' = [work EXCEPT ![w] = job] /\ UNCHANGED <<row, served, alltime>>
    BY <2>1
  <2>3. job.pc \in {"hset", "each"} /\ job.todo = work[w].todo \ {i}
    BY <1>0, <2>1 DEF ReissueJob, Job, JobRecord, At
  <2> HIDE DEF job
  <2>4. JobLedger(job)
    BY <1>0, <2>3 DEF JobLedger
  <2> QED BY <2>2, <2>4, LedgerSame
<1>16. ASSUME NEW w \in Worker, ReloadNext(w) PROVE MarkLedger'
  <2>1. PICK i \in work[w].todo : ReloadNext(w)!(i)
    BY <1>16 DEF ReloadNext
  <2>2. i.tm.mark # None => i.tm.mark \in alltime
    BY <1>0 DEF JobLedger
  <2>3. UNCHANGED <<row, served, alltime>>
    BY <2>1, <2>2
  <2> DEFINE job == [work[w] EXCEPT !.todo = @ \ {i}]
  <2>4. work' = [work EXCEPT ![w] = job]
    BY <2>1
  <2>5. job.pc = "each" /\ job.todo = work[w].todo \ {i}
    BY <1>0, <2>1 DEF JobRecord, At
  <2> HIDE DEF job
  <2>6. JobLedger(job)
    BY <1>0, <2>5 DEF JobLedger
  <2> QED BY <2>3, <2>4, <2>6, LedgerSame
<1>17. ASSUME NEW w \in Worker, CommandEnd(w) PROVE MarkLedger'
  BY <1>17, <1>a DEF CommandEnd
<1>18. ASSUME NEW w \in Worker, NEW t \in Type, CreateType(w, t) PROVE MarkLedger'
  <2>1. PICK q \in Asked("createType") : CreateType(w, t)!(q)
    BY <1>18 DEF CreateType
  <2> DEFINE new == [active |-> q.active, autorenew |-> q.autorenew,
                     validFor |-> q.validFor]
             job == Job("logType", "createType", t, None, None, TRUE, FALSE,
                        new, {})
  <2>2. Accept(w, job) /\ UNCHANGED <<row, served, alltime>>
    BY <2>1
  <2>3. JobLedger(job)
    BY DEF JobLedger, Job
  <2> HIDE DEF job
  <2> QED BY <1>c, <2>2, <2>3
<1>19. ASSUME NEW w \in Worker, NEW t \in Type, UpdateTypeGet(w, t) PROVE MarkLedger'
  <2>1. PICK q \in Asked("updateType") : UpdateTypeGet(w, t)!(q)
    BY <1>19 DEF UpdateTypeGet
  <2> DEFINE new == [active |-> Given(q.active, types[t].active),
                     autorenew |-> Given(q.autorenew, types[t].autorenew),
                     validFor |-> Given(q.validFor, types[t].validFor)]
             job == Job("saveType", "updateType", t, None, None,
                        types[t].active, FALSE, new, {})
  <2>2. Accept(w, job) /\ UNCHANGED <<row, served, alltime>>
    BY <2>1
  <2>3. JobLedger(job)
    BY DEF JobLedger, Job
  <2> HIDE DEF job
  <2> QED BY <1>c, <2>2, <2>3
<1>20. ASSUME NEW w \in Worker, SaveType(w) PROVE MarkLedger'
  BY <1>20, <1>b DEF SaveType
<1>21. ASSUME NEW w \in Worker, LogType(w) PROVE MarkLedger'
  BY <1>21, <1>a DEF LogType
<1>22. ASSUME NEW w \in Worker, Fail(w) PROVE MarkLedger'
  BY <1>22, <1>a DEF Fail
<1>23. ASSUME UNCHANGED <<row, served, alltime, work>> PROVE MarkLedger'
  BY <1>23 DEF MarkLedger, KnownMarkHasEntry, StoredMarkKnown,
               ExpiryMatchesMark, JobLedger
<1> QED
  BY <1>1, <1>2, <1>3, <1>4, <1>5, <1>6, <1>7, <1>8, <1>9, <1>10, <1>11, <1>12,
     <1>13, <1>14, <1>15, <1>16, <1>17, <1>18, <1>19, <1>20, <1>21, <1>22, <1>23
  DEF Next, Arrive, Step, Tick, Rest, vars

LEMMA LedgerCorrect == Spec => []MarkLedger
  BY InitLedger, StepLedger, TypeInvariant, PTL DEF Spec

(* Whatever the requests, their interleaving and the points where they     *)
(* die: a mark on record has a field to be judged by.                      *)
THEOREM KnownMarksHaveEntries == Spec => []KnownMarkHasEntry
<1>1. MarkLedger => KnownMarkHasEntry
  BY DEF MarkLedger
<1> QED BY <1>1, LedgerCorrect, PTL

(* A mark stored in a row is on record.                                    *)
THEOREM StoredMarksKnown == Spec => []StoredMarkKnown
<1>1. MarkLedger => StoredMarkKnown
  BY DEF MarkLedger
<1> QED BY <1>1, LedgerCorrect, PTL

(* A row's expiry date is its mark's, whichever save came last.            *)
THEOREM ExpiryDatesMatch == Spec => []ExpiryMatchesMark
<1>1. MarkLedger => ExpiryMatchesMark
  BY DEF MarkLedger
<1> QED BY <1>1, LedgerCorrect, PTL

LEMMA InitRegistry == Init => Registry!Init
<1> SUFFICES ASSUME Init PROVE Registry!Init
  OBVIOUS
<1>1. \A p \in Pair : served[p] = None
  BY DEF Init
<1>2. Entry = [p \in Pair |-> None]
  BY <1>1, SentinelsAssumption DEF Entry, IsMark
<1> QED BY <1>2 DEF Init, Registry!Init, Entry

LEMMA StepRegistry ==
  TypeInv /\ MarkLedger /\ [Next]_vars => [Registry!Next]_(Registry!vars)
<1> SUFFICES ASSUME TypeInv, MarkLedger, [Next]_vars
             PROVE  [Registry!Next]_(Registry!vars)
  OBVIOUS
<1> USE DEF database, store, counters
<1>0. ASSUME NEW w \in Worker
      PROVE  JobLedger(work[w]) /\ work[w] \in JobRecord /\ Holding(work[w])
  BY DEF MarkLedger, TypeInv, TypeOK
<1>1. ASSUME NEW w \in Worker, HsetMark(w) PROVE Registry!Next
  <2> DEFINE mark == [type |-> work[w].type, domain |-> work[w].domain,
                      id |-> minted + 1, exp |-> now + Hours(w)]
  <2>1. PairOn(w) \in Pair
    BY <1>0, <1>1 DEF HsetMark, At, Holding, PairOn
  <2>2. IsMark(mark)
    <3>1. types[work[w].type] # None /\ work[w].type \in Type
          /\ work[w].domain \in Domain /\ work[w].tm \in Row
      BY <1>0, <1>1 DEF HsetMark, At, TypeInv, TypesExist, Holding
    <3>2. mark \in Mark
      BY <3>1 DEF Mark, Hours, TypeInv, TypeOK, TypeRow, Row
    <3> QED BY <3>2, SentinelsAssumption DEF IsMark
  <2>3. served' = [served EXCEPT ![PairOn(w)] = mark] /\ UNCHANGED <<alltime, now>>
    BY <1>1 DEF HsetMark
  <2> HIDE DEF mark
  <2>4. Entry' = [Entry EXCEPT ![PairOn(w)] = "live"]
    BY <2>1, <2>2, <2>3 DEF Entry, TypeInv, TypeOK
  <2>5. PICK p \in Pair : p = PairOn(w)
    BY <2>1
  <2>6. Registry!Publish(p)
    BY <2>3, <2>4, <2>5 DEF Registry!Publish, Entry
  <2> QED BY <2>6 DEF Registry!Next
<1>2. ASSUME NEW w \in Worker, SaddAlltime(w)
      PROVE  [Registry!Next]_(Registry!vars)
  <2> DEFINE mark == work[w].tm.mark
  <2>1. /\ work[w].pc \in AddPC /\ alltime' = alltime \cup {mark}
        /\ UNCHANGED <<served, now>>
    BY <1>2 DEF SaddAlltime, At
  <2>2. mark \in Mark /\ PairOf(mark) \in Pair /\ served[PairOf(mark)] # None
    <3>1. /\ PairOf(mark) = PairOn(w) /\ served[PairOn(w)] # None
      BY <1>0, <2>1 DEF JobLedger, PairOn
    <3>2. work[w].type \in Type /\ work[w].domain \in Domain /\ mark \in Mark
      BY <1>0, <2>1 DEF Holding
    <3> QED BY <3>1, <3>2 DEF PairOn
  <2> HIDE DEF mark
  <2>3. Entry[PairOf(mark)] # None
    BY <2>2, SentinelsAssumption DEF Entry, IsMark
  <2>4. Registry!Record
    BY <2>1, <2>2, <2>3 DEF Registry!Record, Entry
  <2> QED BY <2>4 DEF Registry!Next
<1>3. ASSUME NEW w \in Worker, HsetRevoked(w) PROVE Registry!Next
  <2>1. PairOn(w) \in Pair
    BY <1>0, <1>3 DEF HsetRevoked, At, Holding, PairOn
  <2>2. served' = [served EXCEPT ![PairOn(w)] = Revoked] /\ UNCHANGED <<alltime, now>>
    BY <1>3 DEF HsetRevoked
  <2>3. Entry' = [Entry EXCEPT ![PairOn(w)] = "revoked"]
    BY <2>1, <2>2 DEF Entry, IsMark, TypeInv, TypeOK
  <2>4. PICK p \in Pair : p = PairOn(w)
    BY <2>1
  <2>5. Registry!Revoke(p)
    BY <2>2, <2>3, <2>4 DEF Registry!Revoke, Entry
  <2> QED BY <2>5 DEF Registry!Next
<1>4. CASE Tick
  BY <1>4 DEF Tick, Entry, Registry!Next, Registry!Tick
<1>5. ASSUME NEW w \in Worker, ReloadNext(w) PROVE UNCHANGED <<served, alltime, now>>
  <2>1. PICK i \in work[w].todo : ReloadNext(w)!(i)
    BY <1>5 DEF ReloadNext
  <2>2. i.tm.mark # None => i.tm.mark \in alltime
    BY <1>0 DEF JobLedger
  <2> QED BY <2>1, <2>2
<1>6. ASSUME UNCHANGED <<served, alltime, now>> PROVE UNCHANGED Registry!vars
  BY <1>6 DEF Registry!vars, Entry
<1>7. ASSUME NEW w \in Worker, Arrive(w) PROVE UNCHANGED <<served, alltime, now>>
  BY <1>7 DEF Arrive, CreateGetType, RenewGet, UpdateGet, CommandStart,
              CreateType, UpdateTypeGet
<1>8. ASSUME NEW w \in Worker, Step(w), ~HsetMark(w), ~SaddAlltime(w),
             ~HsetRevoked(w)
      PROVE  UNCHANGED <<served, alltime, now>>
  BY <1>5, <1>8 DEF Step, CreateGetExisting, CreateInsert, SaddMember, SaddType,
              Save, SremMember, Log, ReissueNext, CommandEnd, SaveType, LogType
<1>9. ASSUME NEW w \in Worker, Fail(w) PROVE UNCHANGED <<served, alltime, now>>
  BY <1>9 DEF Fail
<1>10. CASE Rest \/ UNCHANGED vars
  BY <1>6, <1>10 DEF Rest, vars
<1> QED
  BY <1>1, <1>2, <1>3, <1>4, <1>6, <1>7, <1>8, <1>9, <1>10 DEF Next

(* Every behaviour of the admin and its Redis commands, with requests      *)
(* interleaved and cut short anywhere, is one of the abstract registry.    *)
THEOREM ImplementsRegistry == Spec => RegistrySpec
  BY LedgerCorrect, InitRegistry, StepRegistry, TypeInvariant, PTL
  DEF Spec, RegistrySpec, Registry!Spec
=============================================================================
