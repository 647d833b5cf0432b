----------------------- MODULE TrustMarksOutcomeProofs -----------------------
(***************************************************************************)
(* What is true of the trust marks once the requests are through.  Each of *)
(* these results needs a limit on what is asked, or on how many workers    *)
(* serve it: without it the code does reach a state that breaks the        *)
(* property, and the comment on the theorem says how.                      *)
(***************************************************************************)
EXTENDS TrustMarksRaceProofs

USE DEF Pair, MarkPC, AddPC, PC, Op, database, store, counters, At

(* No step of a request concerns its worker once it is gone, and no step   *)
(* but a request's own concerns its job.                                   *)
LEMMA OthersStay ==
  ASSUME TypeInv, NEW w \in Worker, Arrive(w) \/ Step(w) \/ Fail(w)
  PROVE  \A v \in Worker : v # w => work'[v] = work[v]
<1>1. CASE Arrive(w)
  BY <1>1, Arrived
<1>2. CASE Step(w)
  BY <1>2
  DEF Step, CreateGetExisting, CreateInsert, HsetMark, SaddMember, SaddType,
      SaddAlltime, Save, HsetRevoked, SremMember, Log, ReissueNext, ReloadNext,
      CommandEnd, SaveType, LogType, Goto, Finish, TypeInv, TypeOK
<1>3. CASE Fail(w)
  BY <1>3, Finished DEF Fail
<1> QED BY <1>1, <1>2, <1>3

-----------------------------------------------------------------------------
(* A deactivated type is in the audit log.                                 *)

SaysInactive(t) ==
  \E a \in audit : a.type = t /\ a.event = "trustmarktype_deactivated"

(* The entry is there or a worker is about to write it. *)
WillSay(job, t) ==
  /\ job.pc = "logType" /\ job.op = "updateType" /\ job.type = t
  /\ job.wasActive /\ ~job.tmt.active

Accounted(t) == SaysInactive(t) \/ \E w \in Worker : WillSay(work[w], t)

(* A worker about to write a type's row keeps the type accounted for,      *)
(* unless it is the one that deactivates it.                               *)
TypeJob(job) ==
  /\ job.pc = "saveType" => job.op = "updateType"
  /\ job.pc = "saveType" /\ ~job.tmt.active /\ ~job.wasActive => Accounted(job.type)

TypeLedger ==
  failures = 0 =>
    /\ \A t \in Type : types[t] # None /\ ~types[t].active => Accounted(t)
    /\ \A w \in Worker : TypeJob(work[w])

(* Every type is active when its row appears. *)
TypesStartActive ==
  /\ \A t \in Type : InitialTypes[t] # None => InitialTypes[t].active
  /\ \A q \in Asked("createType") : q.active

LEMMA InitTypeLedger == TypesStartActive /\ Init => TypeLedger
  BY DEF Init, TypesStartActive, TypeLedger, TypeJob, NoWork, Job

(* An account once given is not taken back while no request dies.          *)
LEMMA StaysAccounted ==
  ASSUME TypeInv, [Next]_vars, failures' = 0, NEW t, Accounted(t)
  PROVE  Accounted(t)' /\ failures = 0
<1>1. ASSUME NEW w \in Worker, Fail(w) PROVE FALSE
  BY <1>1 DEF Fail, TypeInv, TypeOK
<1>2. ASSUME NEW w \in Worker, Step(w)
      PROVE  audit \subseteq audit' /\ failures' = failures
  BY <1>2
  DEF Step, CreateGetExisting, CreateInsert, HsetMark, SaddMember, SaddType,
      SaddAlltime, Save, HsetRevoked, SremMember, Log, ReissueNext, ReloadNext,
      CommandEnd, SaveType, LogType
<1>3. failures = 0 /\ audit \subseteq audit'
  <2>1. ASSUME NEW w \in Worker, Arrive(w)
        PROVE  audit \subseteq audit' /\ failures' = failures
    BY <2>1, Arrived
  <2> QED BY <1>1, <1>2, <2>1 DEF Next, Tick, Rest, vars
<1>4. CASE SaysInactive(t)
  BY <1>3, <1>4 DEF Accounted, SaysInactive
<1>5. ASSUME NEW w \in Worker, WillSay(work[w], t), ~LogType(w)
      PROVE  WillSay(work'[w], t)
  <2>1. ASSUME Arrive(w) \/ Step(w) PROVE FALSE
    BY <1>5, <2>1, Arrived
    DEF WillSay, Step, CreateGetExisting, CreateInsert, HsetMark, SaddMember,
        SaddType, SaddAlltime, Save, HsetRevoked, SremMember, Log, ReissueNext,
        ReloadNext, CommandEnd, SaveType
  <2>2. work'[w] = work[w]
    <3>1. ASSUME NEW v \in Worker, v # w, Arrive(v) \/ Step(v)
          PROVE  work'[w] = work[w]
      BY <3>1, OthersStay
    <3>2. CASE Tick \/ Rest \/ UNCHANGED vars
      BY <3>2 DEF Tick, Rest, vars
    <3> QED BY <1>1, <2>1, <3>1, <3>2 DEF Next
  <2> QED BY <1>5, <2>2
<1>6. ASSUME NEW w \in Worker, WillSay(work[w], t), LogType(w)
      PROVE  SaysInactive(t)'
  <2> DEFINE entry == [event |-> TypeEvent(w), type |-> work[w].type,
                       domain |-> None, mark |-> None]
  <2>1. entry \in audit'
    BY <1>6 DEF LogType
  <2>2. entry.type = t /\ entry.event = "trustmarktype_deactivated"
    BY <1>6 DEF WillSay, TypeEvent
  <2> QED BY <2>1, <2>2 DEF SaysInactive
<1> QED
  BY <1>3, <1>4, <1>5, <1>6 DEF Accounted, WillSay

(* A step of one worker that writes no type keeps the ledger, if its new   *)
(* job is fit for it.                                                      *)
LEMMA TypeLedgerStep ==
  ASSUME TypeInv, TypeLedger, failures = 0, [Next]_vars, failures' = 0,
         NEW w \in Worker, \A v \in Worker : v # w => work'[v] = work[v],
         TypeJob(work[w])',
         \A t \in Type : types'[t] # None /\ ~types'[t].active =>
           types'[t] = types[t] \/ Accounted(t)'
  PROVE  TypeLedger'
<1>1. ASSUME NEW v \in Worker, v # w PROVE TypeJob(work[v])'
  <2>1. TypeJob(work[v]) /\ work'[v] = work[v]
    BY <1>1 DEF TypeLedger
  <2>2. work[v].pc = "saveType" => work[v].op = "updateType"
    BY <2>1 DEF TypeJob
  <2>3. ASSUME work[v].pc = "saveType", ~work[v].tmt.active, ~work[v].wasActive
        PROVE  Accounted(work[v].type)'
    <3>1. PICK t : t = work[v].type
      OBVIOUS
    <3>2. Accounted(t)'
      BY <2>1, <2>3, <3>1, StaysAccounted DEF TypeJob
    <3> QED BY <2>1, <3>1, <3>2
  <2> QED BY <2>1, <2>2, <2>3 DEF TypeJob
<1>2. ASSUME NEW t \in Type, types'[t] # None, ~types'[t].active
      PROVE  Accounted(t)'
  BY <1>2, StaysAccounted DEF TypeLedger
<1> QED BY <1>1, <1>2 DEF TypeLedger

LEMMA StepTypeLedger ==
  TypesStartActive /\ TypeInv /\ TypeLedger /\ [Next]_vars => TypeLedger'
<1> SUFFICES ASSUME TypesStartActive, TypeInv, TypeLedger, [Next]_vars,
                    failures' = 0
             PROVE  TypeLedger'
  BY DEF TypeLedger
<1>a. ASSUME NEW w \in Worker, \A v \in Worker : v # w => work'[v] = work[v],
             work'[w].pc # "saveType", UNCHANGED <<types, failures>>
      PROVE  TypeLedger'
  BY <1>a, TypeLedgerStep DEF TypeJob
<1>1. ASSUME NEW w \in Worker, NEW t \in Type, CreateType(w, t)
      PROVE  TypeLedger'
  <2>1. PICK q \in Asked("createType") : CreateType(w, t)!(q)
    BY <1>1 DEF CreateType
  <2> DEFINE new == [active |-> q.active, autorenew |-> q.autorenew,
                     validFor |-> q.validFor]
             job == Job("logType", "createType", t, None, None, TRUE, FALSE, new, {})
  <2>2. /\ types' = [types EXCEPT ![t] = new] /\ Accept(w, job)
        /\ failures' = failures
    BY <2>1
  <2>3. new.active
    BY DEF TypesStartActive
  <2>4. job.pc = "logType"
    BY DEF Job
  <2> HIDE DEF new, job
  <2>5. /\ work'[w] = job /\ \A v \in Worker : v # w => work'[v] = work[v]
    BY <2>2 DEF Accept, TypeInv, TypeOK
  <2>6. \A s \in Type : types'[s] = types[s] \/ types'[s].active
    BY <2>2, <2>3 DEF TypeInv, TypeOK
  <2> QED BY <2>2, <2>4, <2>5, <2>6, TypeLedgerStep DEF TypeJob
<1>2. ASSUME NEW w \in Worker, NEW t \in Type, UpdateTypeGet(w, t)
      PROVE  TypeLedger'
  <2>1. PICK q \in Asked("updateType") : UpdateTypeGet(w, t)!(q)
    BY <1>2 DEF UpdateTypeGet
  <2> DEFINE tmt == [active |-> Given(q.active, types[t].active),
                     autorenew |-> Given(q.autorenew, types[t].autorenew),
                     validFor |-> Given(q.validFor, types[t].validFor)]
             job == Job("saveType", "updateType", t, None, None,
                        types[t].active, FALSE, tmt, {})
  <2>2. types[t] # None /\ Accept(w, job) /\ UNCHANGED <<types, failures>>
    BY <2>1
  <2>3. job.op = "updateType" /\ job.type = t /\ job.wasActive = types[t].active
    BY DEF Job
  <2> HIDE DEF tmt, job
  <2>4. /\ work'[w] = job /\ \A v \in Worker : v # w => work'[v] = work[v]
    BY <2>2 DEF Accept, TypeInv, TypeOK
  <2>5. ~job.wasActive => Accounted(t)'
    BY <2>2, <2>3, StaysAccounted DEF TypeLedger
  <2>6. TypeJob(work[w])'
    BY <2>3, <2>4, <2>5 DEF TypeJob
  <2> QED BY <2>2, <2>4, <2>6, TypeLedgerStep
<1>3. ASSUME NEW w \in Worker, Arrive(w),
             ~ \E t \in Type : CreateType(w, t) \/ UpdateTypeGet(w, t)
      PROVE  TypeLedger'
  <2>1. work'[w].pc # "saveType" /\ UNCHANGED types
    <3>1. ASSUME NEW job, Accept(w, job), job.pc # "saveType"
          PROVE  work'[w].pc # "saveType"
      BY <3>1 DEF Accept, TypeInv, TypeOK
    <3>2. ASSUME NEW t \in Type, NEW d \in Domain, CreateGetType(w, t, d)
          PROVE  work'[w].pc # "saveType" /\ UNCHANGED types
      BY <3>1, <3>2 DEF CreateGetType, Job
    <3>3. ASSUME NEW t \in Type, NEW d \in Domain, RenewGet(w, t, d)
          PROVE  work'[w].pc # "saveType" /\ UNCHANGED types
      BY <3>1, <3>3 DEF RenewGet, Job
    <3>4. ASSUME NEW t \in Type, NEW d \in Domain, UpdateGet(w, t, d)
          PROVE  work'[w].pc # "saveType" /\ UNCHANGED types
      BY <3>1, <3>4 DEF UpdateGet, Job
    <3>5. ASSUME NEW op, CommandStart(w, op)
          PROVE  work'[w].pc # "saveType" /\ UNCHANGED types
      BY <3>1, <3>5 DEF CommandStart, Job
    <3> QED BY <1>3, <3>2, <3>3, <3>4, <3>5 DEF Arrive
  <2> QED BY <1>3, <1>a, <2>1, Arrived
<1>4. ASSUME NEW w \in Worker, Step(w), ~SaveType(w) PROVE TypeLedger'
  <2>1. \A v \in Worker : v # w => work'[v] = work[v]
    BY <1>4, OthersStay
  <2>2. UNCHANGED <<types, failures>>
    BY <1>4
    DEF Step, CreateGetExisting, CreateInsert, HsetMark, SaddMember, SaddType,
        SaddAlltime, Save, HsetRevoked, SremMember, Log, ReissueNext, ReloadNext,
        CommandEnd, LogType
  <2>3. work'[w].pc # "saveType"
    <3>1. ASSUME NEW pc, pc # "saveType", Goto(w, pc)
          PROVE  work'[w].pc # "saveType"
      BY <3>1, Moved
    <3>2. ASSUME Finish(w) PROVE work'[w].pc # "saveType"
      BY <3>2, Finished
    <3>3. CASE HsetMark(w)
      BY <3>3 DEF HsetMark, TypeInv, TypeOK, JobRecord
    <3>4. CASE ReissueNext(w)
      BY <3>4 DEF ReissueNext, ReissueJob, Job, TypeInv, TypeOK, JobRecord
    <3>5. CASE ReloadNext(w)
      BY <3>5 DEF ReloadNext, TypeInv, TypeOK, JobRecord
    <3> QED
      BY <1>4, <3>1, <3>2, <3>3, <3>4, <3>5
      DEF Step, CreateGetExisting, CreateInsert, SaddMember, SaddType,
          SaddAlltime, Save, HsetRevoked, SremMember, Log, CommandEnd, LogType,
          AfterAdd
  <2> QED BY <1>a, <2>1, <2>2, <2>3
<1>5. ASSUME NEW w \in Worker, SaveType(w) PROVE TypeLedger'
  <2>1. /\ work[w].pc = "saveType" /\ Goto(w, "logType")
        /\ types' = [types EXCEPT ![work[w].type] = work[w].tmt]
        /\ failures' = failures
    BY <1>5 DEF SaveType
  <2>2. /\ work'[w].pc = "logType" /\ work'[w].op = work[w].op
        /\ work'[w].type = work[w].type
        /\ \A v \in Worker : v # w => work'[v] = work[v]
    BY <2>1, Moved
  <2>3. work'[w].wasActive = work[w].wasActive /\ work'[w].tmt = work[w].tmt
    BY <2>1 DEF Goto, TypeInv, TypeOK, JobRecord
  <2>4. /\ work[w].type \in Type /\ TypeJob(work[w])
        /\ work[w].op = "updateType"
    BY <2>1, HeldJob DEF Holding, TypeLedger, TypeJob
  <2>5. ASSUME ~work[w].tmt.active PROVE Accounted(work[w].type)'
    <3>1. CASE work[w].wasActive
      BY <2>2, <2>3, <2>4, <2>5, <3>1 DEF Accounted, WillSay
    <3>2. CASE ~work[w].wasActive
      <4>1. PICK t : t = work[w].type
        OBVIOUS
      <4>2. Accounted(t)'
        BY <2>1, <2>4, <2>5, <3>2, <4>1, StaysAccounted DEF TypeJob
      <4> QED BY <2>2, <4>1, <4>2
    <3> QED BY <3>1, <3>2
  <2>6. \A t \in Type : types'[t] # None /\ ~types'[t].active =>
          types'[t] = types[t] \/ Accounted(t)'
    BY <2>1, <2>2, <2>4, <2>5 DEF TypeInv, TypeOK
  <2> QED BY <2>1, <2>2, <2>6, TypeLedgerStep DEF TypeJob
<1>6. ASSUME NEW w \in Worker, Fail(w) PROVE FALSE
  BY <1>6 DEF Fail, TypeInv, TypeOK
<1>7. CASE Tick \/ Rest \/ UNCHANGED vars
  BY <1>7 DEF Tick, Rest, vars, TypeLedger, TypeJob, Accounted, SaysInactive, WillSay
<1> QED BY <1>1, <1>2, <1>3, <1>4, <1>5, <1>6, <1>7 DEF Next

(* Once the requests are through and none has died, a type that is         *)
(* inactive has an audit entry that says it was deactivated, whatever      *)
(* updates of it interleaved.  A type created inactive has none: hence     *)
(* the hypothesis, which every deployment that keeps the default of the    *)
(* schema meets.                                                           *)
THEOREM DeactivationIsAudited ==
  ASSUME TypesStartActive
  PROVE  Spec => []InactiveTypesAudited
<1>1. TypeInv /\ TypeLedger => InactiveTypesAudited
  BY DEF TypeLedger, Accounted, SaysInactive, WillSay, InactiveTypesAudited, AllIdle
<1>2. Init => TypeLedger
  BY InitTypeLedger
<1>3. TypeInv /\ TypeLedger /\ [Next]_vars => TypeLedger'
  BY StepTypeLedger
<1> QED BY <1>1, <1>2, <1>3, TypeInvariant, PTL DEF Spec
-----------------------------------------------------------------------------
(* A row that was deactivated and cleared is revoked in Redis.             *)

(* Requests that create, renew and revoke marks; an update revokes. *)
OnlyRevocations ==
  /\ Asked("reissue") = {}
  /\ \A q \in Asked("update") : q.active = FALSE

(* The worker will yet publish for the pair and store what it published,   *)
(* or write the revocation to Redis.                                       *)
Settling(job, p) ==
  /\ <<job.type, job.domain>> = p
  /\ job.pc \in {"hset", "save", "hsetRevoked"} \cup AddPC

(* What is saved is a mark or is followed by the revocation. *)
RowJob(job) ==
  /\ job.op # "reissue"
  /\ job.pc = "save" => job.tm.mark # None \/ job.revoke

RowLedger ==
  failures = 0 =>
    /\ \A p \in Pair : Cleared(p) => \/ served[p] = Revoked
                                     \/ \E w \in Worker : Settling(work[w], p)
    /\ \A w \in Worker : RowJob(work[w])

LEMMA InitRowLedger == Init => RowLedger
  BY SentinelsAssumption DEF Init, RowLedger, RowJob, Cleared, NoWork, Job

(* A step of one worker keeps the ledger if it settles each cleared pair   *)
(* itself or leaves it as settled as it was.                               *)
LEMMA RowLedgerStep ==
  ASSUME TypeInv, RowLedger, failures = 0, NEW w \in Worker,
         \A v \in Worker : v # w => work'[v] = work[v],
         RowJob(work[w])',
         \A p \in Pair : Cleared(p)' =>
           \/ Settling(work[w], p)'
           \/ served'[p] = Revoked
           \/ /\ Cleared(p) /\ ~Settling(work[w], p)
              /\ served[p] = Revoked => served'[p] = Revoked
  PROVE  RowLedger'
<1>1. ASSUME NEW v \in Worker PROVE RowJob(work[v])'
  BY <1>1 DEF RowLedger, RowJob
<1>2. ASSUME NEW p \in Pair, Cleared(p)', ~Settling(work[w], p)',
             served'[p] # Revoked
      PROVE  \E v \in Worker : Settling(work[v], p)'
  <2>1. /\ ~Settling(work[w], p)
        /\ served[p] = Revoked \/ \E v \in Worker : Settling(work[v], p)
        /\ served[p] # Revoked
    BY <1>2 DEF RowLedger
  <2>2. PICK v \in Worker : Settling(work[v], p)
    BY <2>1
  <2>3. v # w
    BY <2>1, <2>2
  <2> QED BY <2>2, <2>3 DEF Settling
<1> QED BY <1>1, <1>2 DEF RowLedger

LEMMA StepRowLedger ==
  OnlyRevocations /\ TypeInv /\ RowLedger /\ [Next]_vars => RowLedger'
<1> SUFFICES ASSUME OnlyRevocations, TypeInv, RowLedger, [Next]_vars,
                    failures' = 0
             PROVE  RowLedger'
  BY DEF RowLedger
<1>a. ASSUME NEW w \in Worker, \A v \in Worker : v # w => work'[v] = work[v],
             work[w].pc \notin {"hset", "save", "hsetRevoked"} \cup AddPC,
             RowJob(work[w])', UNCHANGED <<row, served, failures>>
      PROVE  RowLedger'
  BY <1>a, RowLedgerStep DEF Settling, Cleared
<1>b. ASSUME NEW w \in Worker, \A v \in Worker : v # w => work'[v] = work[v],
             \A p \in Pair : Settling(work[w], p) => Settling(work[w], p)',
             RowJob(work[w])', UNCHANGED <<row, failures>>,
             \A p \in Pair : served'[p] = served[p] \/ Settling(work[w], p)'
      PROVE  RowLedger'
  BY <1>b, RowLedgerStep DEF Cleared
<1>1. ASSUME NEW w \in Worker, Arrive(w) PROVE RowLedger'
  <2>1. RowJob(work[w])'
    <3>a. ASSUME NEW job, Accept(w, job), job.op # "reissue",
                 job.pc = "save" => job.revoke
          PROVE  RowJob(work[w])'
      BY <3>a DEF Accept, TypeInv, TypeOK, RowJob
    <3>1. ASSUME NEW t \in Type, NEW d \in Domain, CreateGetType(w, t, d)
          PROVE  RowJob(work[w])'
      BY <3>a, <3>1 DEF CreateGetType, Job
    <3>2. ASSUME NEW t \in Type, NEW d \in Domain, RenewGet(w, t, d)
          PROVE  RowJob(work[w])'
      BY <3>a, <3>2 DEF RenewGet, Job
    <3>3. ASSUME NEW t \in Type, NEW d \in Domain, UpdateGet(w, t, d)
          PROVE  RowJob(work[w])'
      <4>1. PICK q \in Asked("update") : UpdateGet(w, t, d)!(q)
        BY <3>3 DEF UpdateGet
      <4>2. q.active = FALSE
        BY DEF OnlyRevocations
      <4> QED BY <3>a, <4>1, <4>2 DEF Job
    <3>4. ASSUME NEW op \in {"reissue", "reload"}, CommandStart(w, op)
          PROVE  RowJob(work[w])'
      BY <3>a, <3>4 DEF CommandStart, Job, OnlyRevocations
    <3>5. ASSUME NEW t \in Type, CreateType(w, t) PROVE RowJob(work[w])'
      BY <3>a, <3>5 DEF CreateType, Job
    <3>6. ASSUME NEW t \in Type, UpdateTypeGet(w, t) PROVE RowJob(work[w])'
      BY <3>a, <3>6 DEF UpdateTypeGet, Job
    <3> QED BY <1>1, <3>1, <3>2, <3>3, <3>4, <3>5, <3>6 DEF Arrive
  <2> QED BY <1>1, <1>a, <2>1, Arrived
<1>2. ASSUME NEW w \in Worker,
             \/ CreateGetExisting(w) \/ SremMember(w) \/ Log(w) \/ CommandEnd(w)
             \/ SaveType(w) \/ LogType(w) \/ ReloadNext(w)
      PROVE  RowLedger'
  <2>1. /\ \A v \in Worker : v # w => work'[v] = work[v]
        /\ work[w].pc \notin {"hset", "save", "hsetRevoked"} \cup AddPC
        /\ UNCHANGED <<row, served, failures>>
    BY <1>2, OthersStay
    DEF Step, CreateGetExisting, SremMember, Log, CommandEnd, SaveType, LogType,
        ReloadNext
  <2>2. work[w].op # "reissue"
    BY <2>1, <1>2 DEF RowLedger, RowJob
  <2>3. RowJob(work[w])'
    <3>1. ASSUME NEW pc, pc # "save", Goto(w, pc) PROVE RowJob(work[w])'
      BY <2>2, <3>1, Moved DEF RowJob
    <3>2. ASSUME Finish(w) PROVE RowJob(work[w])'
      BY <3>2, Finished, SentinelsAssumption DEF RowJob, NoWork, Job
    <3>3. ASSUME ReloadNext(w) PROVE RowJob(work[w])'
      BY <2>2, <3>3 DEF ReloadNext, TypeInv, TypeOK, JobRecord, RowJob
    <3> QED
      BY <1>2, <3>1, <3>2, <3>3
      DEF CreateGetExisting, SremMember, Log, CommandEnd, SaveType, LogType
  <2> QED BY <1>a, <2>1, <2>3
<1>3. ASSUME NEW w \in Worker, ReissueNext(w) PROVE FALSE
  BY <1>3 DEF ReissueNext, RowLedger, RowJob
<1>4. ASSUME NEW w \in Worker, CreateInsert(w) PROVE RowLedger'
  <2>1. CASE row[PairOn(w)] = None
    <3>1. /\ row' = [row EXCEPT ![PairOn(w)] = work[w].tm] /\ Goto(w, "hset")
          /\ UNCHANGED <<served, failures>> /\ work[w].pc = "insert"
      BY <1>4, <2>1 DEF CreateInsert
    <3>2. /\ RowJob(work[w])' /\ PairOn(w)' = PairOn(w) /\ work'[w].pc = "hset"
          /\ \A v \in Worker : v # w => work'[v] = work[v]
      BY <3>1, Moved DEF RowJob, RowLedger, PairOn
    <3>3. \A p \in Pair : p = PairOn(w) \/ row'[p] = row[p]
      BY <3>1 DEF TypeInv, TypeOK
    <3>4. \A p \in Pair : ~Settling(work[w], p)
      BY <3>1 DEF Settling
    <3>5. ASSUME NEW p \in Pair, Cleared(p)'
          PROVE  Settling(work[w], p)' \/ Cleared(p)
      <4>1. CASE p = PairOn(w)
        BY <3>2, <4>1 DEF Settling, PairOn
      <4>2. CASE row'[p] = row[p]
        BY <3>5, <4>2 DEF Cleared
      <4> QED BY <3>3, <4>1, <4>2
    <3> QED BY <3>1, <3>2, <3>4, <3>5, RowLedgerStep
  <2>2. CASE row[PairOn(w)] # None
    <3>1. /\ Finish(w) /\ UNCHANGED <<row, served, failures>>
          /\ work[w].pc = "insert"
      BY <1>4, <2>2 DEF CreateInsert
    <3>2. RowJob(work[w])'
      BY <3>1, Finished, SentinelsAssumption DEF RowJob, NoWork, Job
    <3> QED BY <1>a, <3>1, <3>2, Finished
  <2> QED BY <2>1, <2>2
<1>5. ASSUME NEW w \in Worker, HsetMark(w) PROVE RowLedger'
  <2>1. PICK mark, tm :
          /\ served' = [served EXCEPT ![PairOn(w)] = mark]
          /\ work' = [work EXCEPT ![w].pc = "saddMember", ![w].tm = tm]
          /\ UNCHANGED <<row, failures>>
    BY <1>5 DEF HsetMark
  <2>2. /\ work[w] \in JobRecord /\ work \in [Worker -> JobRecord]
        /\ served \in [Pair -> Mark \cup {None, Revoked}]
    BY DEF TypeInv, TypeOK
  <2>3. /\ work'[w].pc = "saddMember" /\ work'[w].type = work[w].type
        /\ work'[w].domain = work[w].domain /\ work'[w].op = work[w].op
        /\ \A v \in Worker : v # w => work'[v] = work[v]
    BY <2>1, <2>2 DEF JobRecord
  <2>4. \A p \in Pair : served'[p] = served[p] \/ p = PairOn(w)
    BY <2>1, <2>2
  <2>5. /\ RowJob(work[w])'
        /\ \A p \in Pair : p = PairOn(w) => Settling(work[w], p)'
    BY <2>1, <2>3 DEF RowJob, RowLedger, Settling, PairOn
  <2>6. \A p \in Pair : Settling(work[w], p) => p = PairOn(w)
    BY DEF Settling, PairOn
  <2> QED BY <1>b, <2>1, <2>3, <2>4, <2>5, <2>6
<1>6. ASSUME NEW w \in Worker, SaddMember(w) \/ SaddType(w) \/ SaddAlltime(w)
      PROVE  RowLedger'
  <2>1. PICK pc \in AddPC \cup {"save"} :
          Goto(w, pc) /\ UNCHANGED <<row, served, failures>>
    BY <1>6 DEF SaddMember, SaddType, SaddAlltime, AfterAdd, RowLedger, RowJob
  <2>2. work[w].tm.mark # None
    BY <1>6, HeldJob, SentinelsAssumption
    DEF SaddMember, SaddType, SaddAlltime, Holding
  <2>3. \A p \in Pair : Settling(work[w], p) => Settling(work[w], p)'
    BY <2>1, Moved DEF Settling
  <2>4. RowJob(work[w])'
    BY <2>1, <2>2, Moved DEF RowJob, RowLedger
  <2> QED BY <1>b, <2>1, <2>3, <2>4, Moved
<1>7. ASSUME NEW w \in Worker, Save(w) PROVE RowLedger'
  <2>1. PICK pc \in {"hsetRevoked", "log"} :
          /\ pc = (IF work[w].revoke THEN "hsetRevoked" ELSE "log")
          /\ row' = [row EXCEPT ![PairOn(w)] = work[w].tm] /\ Goto(w, pc)
          /\ UNCHANGED <<served, failures>> /\ work[w].pc = "save"
    BY <1>7 DEF Save
  <2>2. /\ work'[w].pc = pc /\ work'[w].op = work[w].op
        /\ work'[w].type = work[w].type /\ work'[w].domain = work[w].domain
        /\ \A v \in Worker : v # w => work'[v] = work[v]
    BY <2>1, Moved
  <2>3. \A p \in Pair : IF p = PairOn(w) THEN row'[p] = work[w].tm
                                         ELSE row'[p] = row[p]
    BY <2>1 DEF TypeInv, TypeOK
  <2>4. work[w].tm.mark # None \/ work[w].revoke
    BY <2>1 DEF RowLedger, RowJob
  <2>5. ASSUME NEW p \in Pair, Cleared(p)'
        PROVE  Settling(work[w], p)' \/ (Cleared(p) /\ ~Settling(work[w], p))
    <3>1. CASE p = PairOn(w)
      <4>1. work[w].tm.mark = None
        BY <2>3, <2>5, <3>1 DEF Cleared
      <4>2. pc = "hsetRevoked"
        BY <2>1, <2>4, <4>1
      <4> QED BY <2>2, <3>1, <4>2 DEF Settling, PairOn
    <3>2. CASE p # PairOn(w)
      BY <2>3, <2>5, <3>2 DEF Cleared, Settling, PairOn
    <3> QED BY <3>1, <3>2
  <2>6. RowJob(work[w])'
    BY <2>1, <2>2 DEF RowLedger, RowJob
  <2> QED BY <2>1, <2>2, <2>5, <2>6, RowLedgerStep
<1>8. ASSUME NEW w \in Worker, HsetRevoked(w) PROVE RowLedger'
  <2>1. /\ Goto(w, "srem") /\ served' = [served EXCEPT ![PairOn(w)] = Revoked]
        /\ UNCHANGED <<row, failures>> /\ work[w].pc = "hsetRevoked"
    BY <1>8 DEF HsetRevoked
  <2>2. /\ RowJob(work[w])' /\ \A v \in Worker : v # w => work'[v] = work[v]
    BY <2>1, Moved DEF RowJob, RowLedger
  <2>3. \A p \in Pair : IF p = PairOn(w) THEN served'[p] = Revoked
                                         ELSE served'[p] = served[p]
    BY <2>1 DEF TypeInv, TypeOK
  <2>4. \A p \in Pair : p # PairOn(w) => ~Settling(work[w], p)
    BY DEF Settling, PairOn
  <2>5. ASSUME NEW p \in Pair, Cleared(p)'
        PROVE  \/ served'[p] = Revoked
               \/ /\ Cleared(p) /\ ~Settling(work[w], p)
                  /\ served[p] = Revoked => served'[p] = Revoked
    BY <2>1, <2>3, <2>4, <2>5 DEF Cleared
  <2> QED BY <2>1, <2>2, <2>5, RowLedgerStep
<1>9. ASSUME NEW w \in Worker, Fail(w) PROVE FALSE
  BY <1>9 DEF Fail, TypeInv, TypeOK
<1>10. CASE Tick \/ Rest \/ UNCHANGED vars
  BY <1>10 DEF Tick, Rest, vars, RowLedger, RowJob, Cleared, Settling
<1> QED
  BY <1>1, <1>2, <1>3, <1>4, <1>5, <1>6, <1>7, <1>8, <1>9, <1>10 DEF Next, Step

(* While no request dies, a row the API has deactivated and cleared reads  *)
(* "revoked" in Redis as soon as nothing is in flight for it, however      *)
(* creations, renewals and revocations of any number of workers            *)
(* interleave.  The hypothesis is needed: reissue_alltms publishes from a  *)
(* snapshot that may still hold the row as active, and an update that      *)
(* leaves active alone may save a cleared row read before a renewal.       *)
THEOREM ClearedIsRevoked ==
  ASSUME OnlyRevocations
  PROVE  Spec => []ClearedRowIsRevoked
<1>1. TypeInv /\ RowLedger => ClearedRowIsRevoked
  BY DEF RowLedger, Settling, ClearedRowIsRevoked, Busy, PairOn
<1>2. TypeInv /\ RowLedger /\ [Next]_vars => RowLedger'
  BY StepRowLedger
<1> QED BY <1>1, <1>2, InitRowLedger, TypeInvariant, PTL DEF Spec

-----------------------------------------------------------------------------
(* The same system when Redis may lose its data.                           *)

LossyNext == Next \/ RedisLoss

LEMMA LossyTypeInv == TypeInv /\ [LossyNext]_vars => TypeInv'
<1>1. TypeInv /\ RedisLoss => TypeInv'
  BY DEF RedisLoss, TypeInv, TypeOK, TypesExist
<1> QED BY <1>1, StepTypeInv DEF LossyNext

LEMMA LossyTypes == LossySpec => []TypeInv
<1>1. LossySpec => Init /\ [][LossyNext]_vars
  BY PTL DEF LossySpec, LossyNext
<1> QED BY <1>1, InitTypeInv, LossyTypeInv, PTL

(* Redis is intact after a step only if it was before. *)
LEMMA StaysIntact ==
  ASSUME TypeInv, [LossyNext]_vars, redis' = "intact"
  PROVE  redis = "intact" /\ [Next]_vars
<1>1. [Next]_vars
  BY DEF LossyNext, RedisLoss
<1>2. ASSUME NEW w \in Worker, Arrive(w) PROVE redis' = redis
  BY <1>2 DEF Arrive, CreateGetType, RenewGet, UpdateGet, CommandStart,
              CreateType, UpdateTypeGet
<1>3. ASSUME NEW w \in Worker, Step(w) PROVE redis = "intact"
  BY <1>3
  DEF Step, CreateGetExisting, CreateInsert, HsetMark, SaddMember, SaddType,
      SaddAlltime, Save, HsetRevoked, SremMember, Log, ReissueNext, ReloadNext,
      CommandEnd, SaveType, LogType
<1>4. ASSUME NEW w \in Worker, Fail(w) PROVE redis' = redis
  BY <1>4 DEF Fail
<1> QED BY <1>1, <1>2, <1>3, <1>4 DEF Next, Tick, Rest, vars

(* Signing: the mark that is published is the worker's from then on.       *)
LEMMA Signed ==
  ASSUME TypeInv, NEW w \in Worker, HsetMark(w)
  PROVE  /\ work[w].pc = "hset" /\ PairOn(w) \in Pair
         /\ minted' = minted + 1
         /\ UNCHANGED <<row, members, alltime, redis, failures>>
         /\ work'[w].pc = "saddMember" /\ work'[w].op = work[w].op
         /\ work'[w].type = work[w].type /\ work'[w].domain = work[w].domain
         /\ work'[w].todo = work[w].todo
         /\ \A v \in Worker : v # w => work'[v] = work[v]
         /\ \E mark : /\ served' = [served EXCEPT ![PairOn(w)] = mark]
                      /\ IsMark(mark) /\ mark.id = minted + 1
                      /\ work'[w].tm.mark = mark
<1> DEFINE mark == [type |-> work[w].type, domain |-> work[w].domain,
                    id |-> minted + 1, exp |-> now + Hours(w)]
           tm == [work[w].tm EXCEPT !.mark = mark, !.expireAt = mark.exp]
           new == [work[w] EXCEPT !.pc = "saddMember", !.tm = tm]
<1>1. /\ work' = [work EXCEPT ![w] = new] /\ work[w].pc = "hset"
      /\ served' = [served EXCEPT ![PairOn(w)] = mark] /\ minted' = minted + 1
      /\ UNCHANGED <<row, members, alltime, redis, failures>>
  BY DEF HsetMark
<1>2. /\ work[w].type \in Type /\ work[w].domain \in Domain
      /\ work[w].tm \in Row /\ work[w] \in JobRecord
  BY <1>1, HeldJob DEF Holding
<1>3. Hours(w) \in Nat
  <2>1. types[work[w].type] \in TypeRow
    BY <1>1, <1>2 DEF TypeInv, TypeOK, TypesExist
  <2> QED BY <1>2, <2>1 DEF Hours, TypeRow, Row
<1>4. mark \in Mark /\ mark.id = minted + 1
  BY <1>2, <1>3 DEF Mark, TypeInv, TypeOK
<1> HIDE DEF mark
<1>5. IsMark(mark)
  BY <1>4, SentinelsAssumption DEF IsMark
<1>6. tm.mark = mark
  BY <1>2 DEF Row
<1> HIDE DEF tm
<1>7. /\ new.pc = "saddMember" /\ new.tm = tm /\ new.op = work[w].op
      /\ new.type = work[w].type /\ new.domain = work[w].domain
      /\ new.todo = work[w].todo
  BY <1>2 DEF JobRecord
<1> HIDE DEF new
<1>8. work'[w] = new /\ \A v \in Worker : v # w => work'[v] = work[v]
  BY <1>1 DEF TypeInv, TypeOK
<1> QED BY <1>1, <1>2, <1>4, <1>5, <1>6, <1>7, <1>8 DEF PairOn

-----------------------------------------------------------------------------
(* No mark kept anywhere is newer than the one served.                     *)

(* The pair has been revoked since the mark was signed, or serves it or a  *)
(* later one.                                                              *)
Dated(m, p) ==
  /\ m.id <= minted
  /\ served[p] = Revoked \/ (IsMark(served[p]) /\ m.id <= served[p].id)

DatedJob(job) ==
  /\ job.pc \in MarkPC /\ job.tm.mark # None
       => Dated(job.tm.mark, <<job.type, job.domain>>)
  /\ \A i \in job.todo : i.tm.mark # None => Dated(i.tm.mark, <<i.type, i.domain>>)

DatedRow(p) == row[p] # None /\ row[p].mark # None => Dated(row[p].mark, p)

AgeLedger ==
  redis = "intact" =>
    /\ \A p \in Pair : IsMark(served[p]) => served[p].id <= minted
    /\ \A p \in Pair : DatedRow(p)
    /\ \A w \in Worker : DatedJob(work[w])

LEMMA InitAge == Init => AgeLedger
  BY DEF Init, AgeLedger, DatedRow, DatedJob, IsMark, NoWork, Job

(* A pair's mark only gives way to a newer one or to a revocation.         *)
LEMMA StaysDated ==
  ASSUME TypeInv, AgeLedger, redis = "intact", [Next]_vars,
         NEW m \in Mark, NEW p \in Pair, Dated(m, p)
  PROVE  Dated(m, p)'
<1>1. m.id \in Nat /\ minted \in Nat
  BY DEF Mark, TypeInv, TypeOK
<1>2. ASSUME NEW w \in Worker, HsetMark(w) PROVE Dated(m, p)'
  <2>1. PICK mark : /\ served' = [served EXCEPT ![PairOn(w)] = mark]
                    /\ IsMark(mark) /\ mark.id = minted + 1
    BY <1>2, Signed
  <2>2. minted' = minted + 1 /\ served'[p] \in {served[p], mark}
    BY <1>2, <2>1, Signed DEF TypeInv, TypeOK
  <2>3. CASE served'[p] = mark
    BY <1>1, <2>1, <2>2, <2>3 DEF Dated, IsMark
  <2>4. CASE served'[p] = served[p]
    BY <1>1, <2>2, <2>4 DEF Dated, IsMark
  <2> QED BY <2>2, <2>3, <2>4
<1>3. ASSUME NEW w \in Worker, HsetRevoked(w) PROVE Dated(m, p)'
  <2>1. minted' = minted /\ served'[p] \in {served[p], Revoked}
    BY <1>3 DEF HsetRevoked, TypeInv, TypeOK
  <2> QED BY <2>1 DEF Dated, IsMark
<1>4. ASSUME served' = served, minted' = minted PROVE Dated(m, p)'
  BY <1>4 DEF Dated, IsMark
<1>5. ASSUME NEW w \in Worker, Arrive(w) PROVE served' = served /\ minted' = minted
  BY <1>5, Arrived
<1>6. ASSUME NEW w \in Worker, Step(w), ~HsetMark(w), ~HsetRevoked(w)
      PROVE  served' = served /\ minted' = minted
  BY <1>6
  DEF Step, CreateGetExisting, CreateInsert, SaddMember, SaddType, SaddAlltime,
      Save, SremMember, Log, ReissueNext, ReloadNext, CommandEnd, SaveType, LogType
<1>7. ASSUME NEW w \in Worker, Fail(w) PROVE served' = served /\ minted' = minted
  BY <1>7 DEF Fail
<1> QED
  BY <1>2, <1>3, <1>4, <1>5, <1>6, <1>7 DEF Next, Tick, Rest, vars

(* The marks in circulation are marks of a pair. *)
LEMMA InCirculation ==
  ASSUME TypeInv
  PROVE  /\ \A p \in Pair : row[p] # None /\ row[p].mark # None => row[p].mark \in Mark
         /\ \A w \in Worker : work[w].pc \in MarkPC =>
              /\ <<work[w].type, work[w].domain>> \in Pair
              /\ work[w].tm.mark # None => work[w].tm.mark \in Mark
         /\ \A w \in Worker : \A i \in work[w].todo :
              /\ <<i.type, i.domain>> \in Pair
              /\ i.tm.mark # None => i.tm.mark \in Mark
<1>1. \A p \in Pair : row[p] # None => row[p] \in Row
  BY DEF TypeInv, TypeOK
<1>2. \A w \in Worker : work[w].pc \in MarkPC =>
        /\ work[w].type \in Type /\ work[w].domain \in Domain /\ work[w].tm \in Row
  BY HeldJob DEF Holding
<1>3. \A w \in Worker : \A i \in work[w].todo : i \in Item
  BY HeldJob DEF JobRecord
<1>4. \A i \in Item : i.type \in Type /\ i.domain \in Domain /\ i.tm \in Row
  BY DEF Item
<1>5. \A tm \in Row : tm.mark # None => tm.mark \in Mark
  BY DEF Row
<1> QED BY <1>1, <1>2, <1>3, <1>4, <1>5

(* A step of one worker keeps the ledger, if what it writes to a row and   *)
(* what it takes up is dated.                                              *)
LEMMA AgeStep ==
  ASSUME TypeInv, AgeLedger, redis = "intact", [Next]_vars,
         NEW w \in Worker, \A v \in Worker : v # w => work'[v] = work[v],
         \A p \in Pair : IsMark(served'[p]) => served'[p].id <= minted',
         \A p \in Pair : row'[p] = row[p] \/ DatedRow(p)',
         DatedJob(work[w])'
  PROVE  AgeLedger'
<1>1. ASSUME NEW p \in Pair, row'[p] = row[p] PROVE DatedRow(p)'
  <2>1. DatedRow(p) /\ (row[p] # None /\ row[p].mark # None => row[p].mark \in Mark)
    BY InCirculation DEF AgeLedger
  <2>2. PICK m : m = row[p].mark
    OBVIOUS
  <2>3. row[p] # None /\ m # None => Dated(m, p)'
    BY <2>1, <2>2, StaysDated DEF DatedRow
  <2> QED BY <1>1, <2>2, <2>3 DEF DatedRow
<1>2. ASSUME NEW v \in Worker, v # w PROVE DatedJob(work[v])'
  <2>1. DatedJob(work[v]) /\ work'[v] = work[v]
    BY <1>2 DEF AgeLedger
  <2>2. PICK m, p : m = work[v].tm.mark /\ p = <<work[v].type, work[v].domain>>
    OBVIOUS
  <2>3. work[v].pc \in MarkPC /\ m # None => Dated(m, p)'
    BY <2>1, <2>2, StaysDated, InCirculation DEF DatedJob
  <2>4. ASSUME NEW i \in work[v].todo, i.tm.mark # None
        PROVE  Dated(i.tm.mark, <<i.type, i.domain>>)'
    BY <2>1, <2>4, StaysDated, InCirculation DEF DatedJob
  <2> QED BY <2>1, <2>2, <2>3, <2>4 DEF DatedJob
<1> QED BY <1>1, <1>2 DEF AgeLedger

(* A job goes on being dated when only its program counter moves on.       *)
LEMMA DatedMove ==
  ASSUME TypeInv, AgeLedger, redis = "intact", [Next]_vars, NEW w \in Worker,
         NEW pc, Goto(w, pc), pc \in MarkPC => work[w].pc \in MarkPC
  PROVE  DatedJob(work[w])'
<1>1. /\ work'[w].pc = pc /\ work'[w].type = work[w].type
      /\ work'[w].domain = work[w].domain /\ work'[w].tm = work[w].tm
  BY Moved
<1>2. work'[w].todo = work[w].todo
  BY DEF Goto, TypeInv, TypeOK, JobRecord
<1>3. PICK m, p : m = work[w].tm.mark /\ p = <<work[w].type, work[w].domain>>
  OBVIOUS
<1>4. DatedJob(work[w])
  BY DEF AgeLedger
<1>5. pc \in MarkPC /\ m # None => Dated(m, p)'
  BY <1>3, <1>4, StaysDated, InCirculation DEF DatedJob
<1>6. ASSUME NEW i \in work[w].todo, i.tm.mark # None
      PROVE  Dated(i.tm.mark, <<i.type, i.domain>>)'
  BY <1>4, <1>6, StaysDated, InCirculation DEF DatedJob
<1> QED BY <1>1, <1>2, <1>3, <1>5, <1>6 DEF DatedJob

(* What a request that arrives takes up was in a row. *)
LEMMA DatedArrival ==
  ASSUME TypeInv, AgeLedger, redis = "intact", [Next]_vars, NEW w \in Worker,
         Arrive(w)
  PROVE  DatedJob(work[w])'
<1>a. ASSUME NEW job, Accept(w, job) PROVE work'[w] = job
  BY <1>a DEF Accept, TypeInv, TypeOK
<1>b. ASSUME NEW job, Accept(w, job), job.todo = {}, job.pc \in MarkPC,
             <<job.type, job.domain>> \in Pair, row[<<job.type, job.domain>>] # None,
             job.tm.mark \in {None, row[<<job.type, job.domain>>].mark}
      PROVE  DatedJob(work[w])'
  <2>1. PICK p \in Pair : p = <<job.type, job.domain>>
    BY <1>b
  <2>2. row[p].mark # None => Dated(row[p].mark, p)
    BY <1>b, <2>1 DEF AgeLedger, DatedRow
  <2>3. PICK m : m = job.tm.mark
    OBVIOUS
  <2>4. m # None => Dated(m, p)'
    BY <1>b, <2>1, <2>2, <2>3, StaysDated, InCirculation
  <2>5. work'[w] = job
    BY <1>a, <1>b
  <2> QED BY <1>b, <2>1, <2>3, <2>4, <2>5 DEF DatedJob
<1>1. ASSUME NEW t \in Type, NEW d \in Domain, CreateGetType(w, t, d)
      PROVE  DatedJob(work[w])'
  <2>1. PICK job : /\ Accept(w, job) /\ job.todo = {} /\ job.tm.mark = None
    BY <1>1 DEF CreateGetType, Job
  <2> QED BY <1>a, <2>1 DEF DatedJob
<1>2. ASSUME NEW t \in Type, NEW d \in Domain, RenewGet(w, t, d)
      PROVE  DatedJob(work[w])'
  BY <1>b, <1>2 DEF RenewGet, Job
<1>3. ASSUME NEW t \in Type, NEW d \in Domain, UpdateGet(w, t, d)
      PROVE  DatedJob(work[w])'
  <2>1. PICK q \in Asked("update") : UpdateGet(w, t, d)!(q)
    BY <1>3 DEF UpdateGet
  <2> DEFINE old == row[<<t, d>>]
             job == Job(IF q.claims # old.claims THEN "hset" ELSE "save",
                        "update", t, d, Updated(old, q), old.active,
                        q.active = FALSE, None, {})
  <2>2. old # None /\ Accept(w, job)
    BY <2>1
  <2>3. old \in Row
    BY <2>2 DEF TypeInv, TypeOK
  <2>4. Updated(old, q).mark \in {None, old.mark}
    <3> HIDE DEF old
    <3> QED BY <2>3 DEF Updated, Row
  <2>5. /\ job.todo = {} /\ job.pc \in MarkPC /\ job.type = t /\ job.domain = d
        /\ job.tm.mark \in {None, old.mark}
    BY <2>4 DEF Job
  <2> HIDE DEF job
  <2> QED BY <1>b, <2>2, <2>5
<1>4. ASSUME NEW op, CommandStart(w, op) PROVE DatedJob(work[w])'
  <2>1. PICK job : Accept(w, job) /\ job.pc = "each" /\ job.todo = Snapshot
    BY <1>4 DEF CommandStart, Job
  <2>2. work'[w] = job
    BY <1>a, <2>1
  <2>3. ASSUME NEW i \in Snapshot, i.tm.mark # None
        PROVE  Dated(i.tm.mark, <<i.type, i.domain>>)'
    <3>1. PICK p \in Pair : /\ p = <<i.type, i.domain>>
                            /\ row[p] # None /\ i.tm = row[p]
      BY DEF Snapshot
    <3>2. PICK m : m = i.tm.mark
      OBVIOUS
    <3>3. m \in Mark /\ Dated(m, p)
      BY <2>3, <3>1, <3>2, InCirculation DEF AgeLedger, DatedRow
    <3>4. Dated(m, p)'
      BY <3>3, StaysDated
    <3> QED BY <3>1, <3>2, <3>4
  <2> QED BY <2>1, <2>2, <2>3 DEF DatedJob
<1>5. ASSUME NEW t \in Type, CreateType(w, t) PROVE DatedJob(work[w])'
  <2>1. PICK job : Accept(w, job) /\ job.pc = "logType" /\ job.todo = {}
    BY <1>5 DEF CreateType, Job
  <2> QED BY <1>a, <2>1 DEF DatedJob
<1>6. ASSUME NEW t \in Type, UpdateTypeGet(w, t) PROVE DatedJob(work[w])'
  <2>1. PICK job : Accept(w, job) /\ job.pc = "saveType" /\ job.todo = {}
    BY <1>6 DEF UpdateTypeGet, Job
  <2> QED BY <1>a, <2>1 DEF DatedJob
<1> QED BY <1>1, <1>2, <1>3, <1>4, <1>5, <1>6 DEF Arrive

LEMMA StepAge == TypeInv /\ AgeLedger /\ [LossyNext]_vars => AgeLedger'
<1> SUFFICES ASSUME TypeInv, AgeLedger, [LossyNext]_vars, redis' = "intact"
             PROVE  AgeLedger'
  BY DEF AgeLedger
<1>0. redis = "intact" /\ [Next]_vars /\ minted \in Nat
  BY StaysIntact DEF TypeInv, TypeOK
<1>a. ASSUME NEW w \in Worker, Arrive(w) \/ Step(w) \/ Fail(w),
             UNCHANGED <<row, served, minted>>, DatedJob(work[w])'
      PROVE  AgeLedger'
  BY <1>0, <1>a, AgeStep, OthersStay DEF AgeLedger, IsMark
<1>b. ASSUME NEW w \in Worker, Finish(w) PROVE DatedJob(work[w])'
  BY <1>b, Finished DEF DatedJob, NoWork, Job
<1>1. ASSUME NEW w \in Worker, Arrive(w) PROVE AgeLedger'
  BY <1>0, <1>1, <1>a, Arrived, DatedArrival
<1>2. ASSUME NEW w \in Worker,
             \/ CreateGetExisting(w) \/ SaddMember(w) \/ SaddType(w)
             \/ SaddAlltime(w) \/ SremMember(w) \/ Log(w) \/ CommandEnd(w)
             \/ SaveType(w) \/ LogType(w) \/ Fail(w)
      PROVE  AgeLedger'
  <2>1. /\ Step(w) \/ Fail(w)
        /\ UNCHANGED <<row, served, minted>>
    BY <1>2
    DEF Step, CreateGetExisting, SaddMember, SaddType, SaddAlltime, SremMember,
        Log, CommandEnd, SaveType, LogType, Fail
  <2>2. ASSUME NEW pc, Goto(w, pc), work[w].pc \in MarkPC \/ pc \notin MarkPC
        PROVE  DatedJob(work[w])'
    BY <1>0, <2>2, DatedMove
  <2>3. DatedJob(work[w])'
    BY <1>2, <1>b, <2>2
    DEF CreateGetExisting, SaddMember, SaddType, SaddAlltime, SremMember, Log,
        CommandEnd, SaveType, LogType, Fail
  <2> QED BY <1>a, <2>1, <2>3
<1>3. ASSUME NEW w \in Worker, HsetMark(w) PROVE AgeLedger'
  <2>1. PICK mark : /\ served' = [served EXCEPT ![PairOn(w)] = mark]
                    /\ IsMark(mark) /\ mark.id = minted + 1
                    /\ work'[w].tm.mark = mark
    BY <1>3, Signed
  <2>2. /\ minted' = minted + 1 /\ PairOn(w) \in Pair
        /\ \A p \in Pair : served'[p] = IF p = PairOn(w) THEN mark ELSE served[p]
    BY <1>3, <2>1, Signed DEF TypeInv, TypeOK
  <2>3. ASSUME NEW p \in Pair, IsMark(served'[p]) PROVE served'[p].id <= minted'
    <3>1. CASE served'[p] = mark
      BY <1>0, <2>1, <2>2, <3>1
    <3>2. CASE served'[p] = served[p]
      <4>1. IsMark(served[p])
        BY <2>3, <3>2 DEF IsMark
      <4>2. served[p] \in Mark /\ served[p].id <= minted
        BY <1>0, <4>1 DEF AgeLedger, IsMark, TypeInv, TypeOK
      <4> QED BY <1>0, <2>2, <3>2, <4>2 DEF Mark
    <3> QED BY <2>2, <3>1, <3>2
  <2>4. PICK p \in Pair : p = PairOn(w)
    BY <2>2
  <2>5. Dated(mark, p)'
    <3>1. served'[p] = mark /\ mark.id = minted' /\ minted' \in Nat /\ mark.id \in Nat
      BY <1>0, <2>1, <2>2, <2>4
    <3>2. IsMark(served'[p])
      BY <2>1, <3>1
    <3> QED BY <3>1, <3>2 DEF Dated, IsMark
  <2>6. <<work'[w].type, work'[w].domain>> = p /\ work'[w].todo = work[w].todo
    BY <1>3, <2>4, Signed DEF PairOn
  <2>7. ASSUME NEW i \in work[w].todo, i.tm.mark # None
        PROVE  Dated(i.tm.mark, <<i.type, i.domain>>)'
    BY <1>0, <2>7, StaysDated, InCirculation DEF AgeLedger, DatedJob
  <2>8. DatedJob(work[w])'
    BY <2>1, <2>5, <2>6, <2>7 DEF DatedJob
  <2> QED BY <1>0, <1>3, <2>3, <2>8, Signed, AgeStep
<1>4. ASSUME NEW w \in Worker, CreateInsert(w) PROVE AgeLedger'
  <2>1. Step(w) /\ UNCHANGED <<served, minted>> /\ work[w].pc = "insert"
    BY <1>4 DEF CreateInsert, Step
  <2>2. CASE Finish(w) /\ UNCHANGED row
    BY <1>a, <1>b, <2>1, <2>2
  <2>3. CASE /\ row' = [row EXCEPT ![PairOn(w)] = work[w].tm] /\ Goto(w, "hset")
    <3>1. DatedJob(work[w])'
      BY <1>0, <2>1, <2>3, DatedMove
    <3>2. ASSUME NEW p \in Pair PROVE row'[p] = row[p] \/ DatedRow(p)'
      <4>1. work'[w].tm = work[w].tm /\ work'[w].pc = "hset"
            /\ work'[w].type = work[w].type /\ work'[w].domain = work[w].domain
        BY <2>3, Moved
      <4>2. p # PairOn(w) => row'[p] = row[p]
        BY <2>3 DEF TypeInv, TypeOK
      <4>3. p = PairOn(w) => row'[p] = work[w].tm
        BY <2>3 DEF TypeInv, TypeOK
      <4> QED BY <3>1, <4>1, <4>2, <4>3 DEF DatedJob, DatedRow, PairOn
    <3> QED BY <1>0, <2>1, <3>1, <3>2, AgeStep, OthersStay DEF AgeLedger, IsMark
  <2> QED BY <1>4, <2>2, <2>3 DEF CreateInsert
<1>5. ASSUME NEW w \in Worker, Save(w) PROVE AgeLedger'
  <2>1. PICK pc \in {"hsetRevoked", "log"} :
          /\ row' = [row EXCEPT ![PairOn(w)] = work[w].tm] /\ Goto(w, pc)
          /\ UNCHANGED <<served, minted>> /\ work[w].pc = "save" /\ Step(w)
    BY <1>5 DEF Save, Step
  <2>2. DatedJob(work[w])'
    BY <1>0, <2>1, DatedMove
  <2>3. ASSUME NEW p \in Pair PROVE row'[p] = row[p] \/ DatedRow(p)'
    <3>1. work'[w].tm = work[w].tm /\ work'[w].pc = pc
          /\ work'[w].type = work[w].type /\ work'[w].domain = work[w].domain
      BY <2>1, Moved
    <3>2. p # PairOn(w) => row'[p] = row[p]
      BY <2>1 DEF TypeInv, TypeOK
    <3>3. p = PairOn(w) => row'[p] = work[w].tm
      BY <2>1 DEF TypeInv, TypeOK
    <3> QED BY <2>2, <3>1, <3>2, <3>3 DEF DatedJob, DatedRow, PairOn
  <2> QED BY <1>0, <2>1, <2>2, <2>3, AgeStep, OthersStay DEF AgeLedger, IsMark
<1>6. ASSUME NEW w \in Worker, HsetRevoked(w) PROVE AgeLedger'
  <2>1. /\ served' = [served EXCEPT ![PairOn(w)] = Revoked] /\ Goto(w, "srem")
        /\ UNCHANGED <<row, minted>> /\ work[w].pc = "hsetRevoked" /\ Step(w)
    BY <1>6 DEF HsetRevoked, Step
  <2>2. \A p \in Pair : served'[p] \in {served[p], Revoked}
    BY <2>1 DEF TypeInv, TypeOK
  <2>3. \A p \in Pair : IsMark(served'[p]) => served'[p].id <= minted'
    BY <1>0, <2>1, <2>2 DEF AgeLedger, IsMark
  <2>4. DatedJob(work[w])'
    BY <1>0, <2>1, DatedMove
  <2> QED BY <1>0, <2>1, <2>3, <2>4, AgeStep, OthersStay
<1>7. ASSUME NEW w \in Worker, ReissueNext(w) \/ ReloadNext(w) PROVE AgeLedger'
  <2>1. PICK i \in work[w].todo :
          \/ work' = [work EXCEPT ![w] = ReissueJob(@, i)]
          \/ work' = [work EXCEPT ![w].todo = @ \ {i}]
    BY <1>7 DEF ReissueNext, ReloadNext
  <2>2. Step(w) /\ UNCHANGED <<row, served, minted>> /\ work[w].pc = "each"
    BY <1>7, Visited DEF Step
  <2>3. \A j \in work[w].todo : j.tm.mark # None => Dated(j.tm.mark, <<j.type, j.domain>>)'
    BY <1>0, StaysDated, InCirculation DEF AgeLedger, DatedJob
  <2>4. work[w] \in JobRecord /\ work \in [Worker -> JobRecord]
    BY DEF TypeInv, TypeOK
  <2>5. \/ work'[w] = Job("hset", "reissue", i.type, i.domain, i.tm, TRUE, FALSE,
                          None, work[w].todo \ {i})
        \/ work'[w] = [work[w] EXCEPT !.todo = @ \ {i}]
    BY <2>1, <2>4 DEF ReissueJob
  <2>6. CASE work'[w] = Job("hset", "reissue", i.type, i.domain, i.tm, TRUE,
                            FALSE, None, work[w].todo \ {i})
    <3>1. DatedJob(work[w])'
      BY <2>3, <2>6 DEF Job, DatedJob
    <3> QED BY <1>a, <2>2, <3>1
  <2>7. CASE work'[w] = [work[w] EXCEPT !.todo = @ \ {i}]
    <3>1. work'[w].pc = "each" /\ work'[w].todo \subseteq work[w].todo
      BY <2>2, <2>4, <2>7 DEF JobRecord
    <3>2. DatedJob(work[w])'
      BY <2>3, <3>1 DEF DatedJob
    <3> QED BY <1>a, <2>2, <3>2
  <2> QED BY <2>5, <2>6, <2>7
<1>8. CASE Tick \/ Rest \/ UNCHANGED vars
  BY <1>8 DEF Tick, Rest, vars, AgeLedger, DatedRow, DatedJob, Dated, IsMark
<1> QED
  BY <1>0, <1>1, <1>2, <1>3, <1>4, <1>5, <1>6, <1>7, <1>8 DEF Next, Step

(* While Redis keeps its data, the mark a row holds is the one served, an  *)
(* older one than the one served, or the pair is revoked: whatever number  *)
(* of workers is at work, with requests dying anywhere and reissues among  *)
(* them, no late save stores a mark that was not published before it.      *)
THEOREM StoredIsServed == LossySpec => []StoredMarkServed
<1>1. TypeInv /\ AgeLedger => StoredMarkServed
  BY DEF AgeLedger, DatedRow, Dated, StoredMarkServed
<1>2. LossySpec => Init /\ [][LossyNext]_vars
  BY PTL DEF LossySpec, LossyNext
<1> QED BY <1>1, <1>2, InitAge, StepAge, LossyTypes, PTL

-----------------------------------------------------------------------------
(* One worker at a time: what is listed is what is served.                 *)

OneWorker == \A v, w \in Worker : v = w

Agreed(p) == p[2] \in members[p[1]] <=> IsMark(served[p])

(* Between the publication of a mark and the new member, and between the   *)
(* revocation and the removal, the two differ; a pair that is not agreed   *)
(* on has the worker at one of these places.                               *)
MemberLedger ==
  redis = "intact" =>
    /\ \A p \in Pair : Agreed(p) \/ \E w \in Worker :
                         work[w].pc \in {"saddMember", "srem"} /\ PairOn(w) = p
    /\ \A w \in Worker :
         /\ work[w].pc = "saddMember" => IsMark(served[PairOn(w)])
         /\ work[w].pc = "srem" => ~IsMark(served[PairOn(w)])

LEMMA InitMembers == Init => MemberLedger
  BY DEF Init, MemberLedger, Agreed, IsMark, NoWork, Job

(* A step of the only worker, from and to a place where all is agreed on.  *)
LEMMA MemberStep ==
  ASSUME OneWorker, TypeInv, MemberLedger, redis = "intact", NEW w \in Worker,
         work[w].pc \notin {"saddMember", "srem"},
         work'[w].pc \notin {"saddMember", "srem"},
         UNCHANGED <<members, served>>
  PROVE  MemberLedger'
<1>1. \A v \in Worker : v = w
  BY DEF OneWorker
<1>2. \A p \in Pair : Agreed(p)
  BY <1>1 DEF MemberLedger
<1>3. \A p \in Pair : Agreed(p)'
  BY <1>2 DEF Agreed, IsMark
<1> QED BY <1>1, <1>3 DEF MemberLedger

LEMMA StepMembers ==
  OneWorker /\ MaxFailures = 0 /\ TypeInv /\ MemberLedger /\ [LossyNext]_vars
    => MemberLedger'
<1> SUFFICES ASSUME OneWorker, MaxFailures = 0, TypeInv, MemberLedger,
                    [LossyNext]_vars, redis' = "intact"
             PROVE  MemberLedger'
  BY DEF MemberLedger
<1>0. redis = "intact" /\ [Next]_vars
  BY StaysIntact
<1>a. ASSUME NEW w \in Worker PROVE \A v \in Worker : v = w
  BY <1>a DEF OneWorker
<1>1. ASSUME NEW w \in Worker, Arrive(w) PROVE MemberLedger'
  <2>a. ASSUME NEW job, Accept(w, job), job.pc \notin {"saddMember", "srem"}
        PROVE  work'[w].pc \notin {"saddMember", "srem"}
    BY <2>a DEF Accept, TypeInv, TypeOK
  <2>1. work'[w].pc \notin {"saddMember", "srem"}
    <3>1. ASSUME NEW t \in Type, NEW d \in Domain, CreateGetType(w, t, d)
          PROVE  work'[w].pc \notin {"saddMember", "srem"}
      BY <2>a, <3>1 DEF CreateGetType, Job
    <3>2. ASSUME NEW t \in Type, NEW d \in Domain, RenewGet(w, t, d)
          PROVE  work'[w].pc \notin {"saddMember", "srem"}
      BY <2>a, <3>2 DEF RenewGet, Job
    <3>3. ASSUME NEW t \in Type, NEW d \in Domain, UpdateGet(w, t, d)
          PROVE  work'[w].pc \notin {"saddMember", "srem"}
      BY <2>a, <3>3 DEF UpdateGet, Job
    <3>4. ASSUME NEW op, CommandStart(w, op)
          PROVE  work'[w].pc \notin {"saddMember", "srem"}
      BY <2>a, <3>4 DEF CommandStart, Job
    <3>5. ASSUME NEW t \in Type, CreateType(w, t)
          PROVE  work'[w].pc \notin {"saddMember", "srem"}
      BY <2>a, <3>5 DEF CreateType, Job
    <3>6. ASSUME NEW t \in Type, UpdateTypeGet(w, t)
          PROVE  work'[w].pc \notin {"saddMember", "srem"}
      BY <2>a, <3>6 DEF UpdateTypeGet, Job
    <3> QED BY <1>1, <3>1, <3>2, <3>3, <3>4, <3>5, <3>6 DEF Arrive
  <2> QED BY <1>0, <1>1, <2>1, Arrived, MemberStep
<1>2. ASSUME NEW w \in Worker,
             \/ CreateGetExisting(w) \/ CreateInsert(w) \/ SaddType(w)
             \/ SaddAlltime(w) \/ Save(w) \/ Log(w) \/ CommandEnd(w)
             \/ SaveType(w) \/ LogType(w) \/ ReissueNext(w) \/ ReloadNext(w)
      PROVE  MemberLedger'
  <2>1. /\ work[w].pc \notin {"saddMember", "srem"}
        /\ UNCHANGED <<members, served>>
    BY <1>2
    DEF CreateGetExisting, CreateInsert, SaddType, SaddAlltime, Save, Log,
        CommandEnd, SaveType, LogType, ReissueNext, ReloadNext
  <2>2. ASSUME NEW pc, Goto(w, pc), pc \notin {"saddMember", "srem"}
        PROVE  work'[w].pc \notin {"saddMember", "srem"}
    BY <2>2, Moved
  <2>3. ASSUME Finish(w) PROVE work'[w].pc \notin {"saddMember", "srem"}
    BY <2>3, Finished
  <2>4. ASSUME ReissueNext(w) \/ ReloadNext(w)
        PROVE  work'[w].pc \notin {"saddMember", "srem"}
    BY <2>4 DEF ReissueNext, ReloadNext, ReissueJob, Job, TypeInv, TypeOK, JobRecord
  <2>5. work'[w].pc \notin {"saddMember", "srem"}
    BY <1>2, <2>2, <2>3, <2>4
    DEF CreateGetExisting, CreateInsert, SaddType, SaddAlltime, Save, Log,
        CommandEnd, SaveType, LogType, AfterAdd
  <2> QED BY <1>0, <2>1, <2>5, MemberStep
<1>3. ASSUME NEW w \in Worker, HsetMark(w) PROVE MemberLedger'
  <2>1. PICK mark : served' = [served EXCEPT ![PairOn(w)] = mark] /\ IsMark(mark)
    BY <1>3, Signed
  <2>2. /\ work[w].pc = "hset" /\ work'[w].pc = "saddMember"
        /\ PairOn(w)' = PairOn(w) /\ PairOn(w) \in Pair /\ members' = members
    BY <1>3, Signed DEF PairOn
  <2>3. \A p \in Pair : served'[p] = IF p = PairOn(w) THEN mark ELSE served[p]
    BY <2>1 DEF TypeInv, TypeOK
  <2>4. IsMark(served[PairOn(w)])'
    BY <2>1, <2>2, <2>3
  <2>5. ASSUME NEW p \in Pair, p # PairOn(w) PROVE Agreed(p)'
    <3>1. Agreed(p)
      BY <1>0, <1>a, <2>2, <2>5 DEF MemberLedger
    <3> QED BY <2>2, <2>3, <2>5, <3>1 DEF Agreed, IsMark
  <2> QED BY <1>a, <2>2, <2>4, <2>5 DEF MemberLedger
<1>4. ASSUME NEW w \in Worker, HsetRevoked(w) PROVE MemberLedger'
  <2>1. /\ served' = [served EXCEPT ![PairOn(w)] = Revoked]
        /\ Goto(w, "srem") /\ members' = members /\ work[w].pc = "hsetRevoked"
    BY <1>4 DEF HsetRevoked
  <2>2. /\ work'[w].pc = "srem" /\ PairOn(w)' = PairOn(w) /\ PairOn(w) \in Pair
    BY <2>1, Moved, HeldJob DEF PairOn, Holding
  <2>3. \A p \in Pair : served'[p] = IF p = PairOn(w) THEN Revoked ELSE served[p]
    BY <2>1 DEF TypeInv, TypeOK
  <2>4. (~IsMark(served[PairOn(w)]))'
    BY <2>2, <2>3 DEF IsMark
  <2>5. ASSUME NEW p \in Pair, p # PairOn(w) PROVE Agreed(p)'
    <3>1. Agreed(p)
      BY <1>0, <1>a, <2>1, <2>5 DEF MemberLedger
    <3> QED BY <2>1, <2>3, <2>5, <3>1 DEF Agreed, IsMark
  <2> QED BY <1>a, <2>2, <2>4, <2>5 DEF MemberLedger
<1>5. ASSUME NEW w \in Worker, SaddMember(w) PROVE MemberLedger'
  <2>1. /\ members' = [members EXCEPT ![work[w].type] = @ \cup {work[w].domain}]
        /\ Goto(w, "saddType") /\ served' = served /\ work[w].pc = "saddMember"
    BY <1>5 DEF SaddMember
  <2>2. /\ work'[w].pc = "saddType" /\ work[w].type \in Type
        /\ IsMark(served[PairOn(w)])
    BY <1>0, <2>1, Moved, HeldJob DEF Holding, MemberLedger
  <2>3. ASSUME NEW p \in Pair PROVE Agreed(p)'
    <3>1. p # PairOn(w) => Agreed(p)
      BY <1>0, <1>a DEF MemberLedger
    <3>2. p[2] \in members'[p[1]] <=> p[2] \in members[p[1]] \/ p = PairOn(w)
      <4>1. PICK t \in Type, d \in Domain : p = <<t, d>>
        OBVIOUS
      <4>2. members'[t] = IF t = work[w].type THEN members[t] \cup {work[w].domain}
                                              ELSE members[t]
        BY <2>1, <2>2 DEF TypeInv, TypeOK
      <4>3. p = PairOn(w) <=> t = work[w].type /\ d = work[w].domain
        BY <4>1 DEF PairOn
      <4> QED BY <4>1, <4>2, <4>3
    <3> QED BY <2>1, <2>2, <3>1, <3>2 DEF Agreed, IsMark
  <2> QED BY <1>a, <2>2, <2>3 DEF MemberLedger
<1>6. ASSUME NEW w \in Worker, SremMember(w) PROVE MemberLedger'
  <2>1. /\ members' = [members EXCEPT ![work[w].type] = @ \ {work[w].domain}]
        /\ Goto(w, "log") /\ served' = served /\ work[w].pc = "srem"
    BY <1>6 DEF SremMember
  <2>2. /\ work'[w].pc = "log" /\ work[w].type \in Type
        /\ ~IsMark(served[PairOn(w)])
    BY <1>0, <2>1, Moved, HeldJob DEF Holding, MemberLedger
  <2>3. ASSUME NEW p \in Pair PROVE Agreed(p)'
    <3>1. p # PairOn(w) => Agreed(p)
      BY <1>0, <1>a DEF MemberLedger
    <3>2. p[2] \in members'[p[1]] <=> p[2] \in members[p[1]] /\ p # PairOn(w)
      <4>1. PICK t \in Type, d \in Domain : p = <<t, d>>
        OBVIOUS
      <4>2. members'[t] = IF t = work[w].type THEN members[t] \ {work[w].domain}
                                              ELSE members[t]
        BY <2>1, <2>2 DEF TypeInv, TypeOK
      <4>3. p = PairOn(w) <=> t = work[w].type /\ d = work[w].domain
        BY <4>1 DEF PairOn
      <4> QED BY <4>1, <4>2, <4>3
    <3> QED BY <2>1, <2>2, <3>1, <3>2 DEF Agreed, IsMark
  <2> QED BY <1>a, <2>2, <2>3 DEF MemberLedger
<1>7. ASSUME NEW w \in Worker, Fail(w) PROVE FALSE
  BY <1>7 DEF Fail, TypeInv, TypeOK
<1>8. CASE Tick \/ Rest \/ UNCHANGED vars
  BY <1>8 DEF Tick, Rest, vars, MemberLedger, Agreed, IsMark, PairOn
<1> QED
  BY <1>0, <1>1, <1>2, <1>3, <1>4, <1>5, <1>6, <1>7, <1>8 DEF Next, Step

(* With one worker and no request that dies, a domain is on the member     *)
(* list of a type exactly when a mark is served for it, whenever nothing   *)
(* is in flight for the pair and Redis has kept its data.  Two workers     *)
(* break it: a renewal between a revocation's two commands is taken off    *)
(* the list.                                                               *)
THEOREM ListedIsServed ==
  ASSUME OneWorker, MaxFailures = 0
  PROVE  LossySpec => []MembersHoldMarks
<1>1. TypeInv /\ MemberLedger => MembersHoldMarks
  BY DEF MemberLedger, Agreed, MembersHoldMarks, TrustMarkList, TrustMarkQuery, Busy
<1>2. LossySpec => Init /\ [][LossyNext]_vars
  BY PTL DEF LossySpec, LossyNext
<1>3. TypeInv /\ MemberLedger /\ [LossyNext]_vars => MemberLedger'
  BY StepMembers
<1> QED BY <1>1, <1>2, <1>3, InitMembers, LossyTypes, PTL

-----------------------------------------------------------------------------
(* One worker at a time: a reload restores the record.                     *)

(* No update switches a row on again. *)
NoActivation == \A q \in Asked("update") : q.active # TRUE

Recorded(tm) == tm.active /\ tm.mark # None => tm.mark \in alltime

Pending(job, p) == \E i \in job.todo : <<i.type, i.domain>> = p /\ i.tm = row[p]

(* What the worker holds at some of its places, and what a reload under    *)
(* way has yet to see to.                                                  *)
RecordJob(job) ==
  /\ job.pc \in {"getExisting", "insert"} => job.tm.mark = None
  /\ job.op = "reload" => job.pc = "each"
  /\ redis = "reloaded" /\ job.pc = "save" => Recorded(job.tm)
  /\ redis = "lost" /\ job.op = "reload" =>
       \A p \in Pair : row[p] # None => Recorded(row[p]) \/ Pending(job, p)

RecordLedger ==
  /\ redis = "reloaded" => \A p \in Pair : row[p] # None => Recorded(row[p])
  /\ \A w \in Worker : RecordJob(work[w])

LEMMA InitRecord == Init => RecordLedger
  BY SentinelsAssumption DEF Init, RecordLedger, RecordJob, NoWork, Job

(* A step of the only worker that is not a reload's.                       *)
LEMMA RecordStep ==
  ASSUME OneWorker, TypeInv, RecordLedger, NEW w \in Worker,
         redis' = redis, alltime \subseteq alltime',
         \A p \in Pair : \/ row'[p] = row[p]
                         \/ redis = "reloaded" /\ row'[p] # None => Recorded(row[p])',
         RecordJob(work[w])'
  PROVE  RecordLedger'
<1>1. \A v \in Worker : v = w
  BY DEF OneWorker
<1>2. ASSUME NEW p \in Pair, redis = "reloaded", row'[p] # None
      PROVE  Recorded(row[p])'
  BY <1>2 DEF RecordLedger, Recorded
<1> QED BY <1>1, <1>2 DEF RecordLedger

LEMMA StepRecord ==
  OneWorker /\ NoActivation /\ TypeInv /\ RecordLedger /\ [LossyNext]_vars
    => RecordLedger'
<1> SUFFICES ASSUME OneWorker, NoActivation, TypeInv, RecordLedger,
                    [LossyNext]_vars
             PROVE  RecordLedger'
  OBVIOUS
<1>a. ASSUME NEW w \in Worker, NEW job, Accept(w, job) PROVE work'[w] = job
  BY <1>a DEF Accept, TypeInv, TypeOK
<1>b. ASSUME NEW w \in Worker, RecordJob(work[w])',
             UNCHANGED <<row, alltime, redis>>
      PROVE  RecordLedger'
  BY <1>b, RecordStep
<1>c. ASSUME NEW w \in Worker, Finish(w) PROVE RecordJob(work[w])'
  <2>1. NoWork.op # "reload" /\ NoWork.pc = "idle"
    BY SentinelsAssumption DEF NoWork, Job
  <2> QED BY <1>c, <2>1, Finished DEF RecordJob
<1>1. ASSUME NEW w \in Worker, NEW t \in Type, NEW d \in Domain,
             CreateGetType(w, t, d)
      PROVE  RecordLedger'
  <2>1. PICK job : /\ Accept(w, job) /\ job.pc = "getExisting"
                   /\ job.op = "create" /\ job.tm.mark = None
                   /\ UNCHANGED <<row, alltime, redis>>
    BY <1>1 DEF CreateGetType, Job
  <2> QED BY <1>a, <1>b, <2>1 DEF RecordJob
<1>2. ASSUME NEW w \in Worker, NEW t \in Type, NEW d \in Domain, RenewGet(w, t, d)
      PROVE  RecordLedger'
  <2>1. PICK job : /\ Accept(w, job) /\ job.pc = "hset" /\ job.op = "renew"
                   /\ UNCHANGED <<row, alltime, redis>>
    BY <1>2 DEF RenewGet, Job
  <2> QED BY <1>a, <1>b, <2>1 DEF RecordJob
<1>3. ASSUME NEW w \in Worker, NEW t \in Type, NEW d \in Domain, UpdateGet(w, t, d)
      PROVE  RecordLedger'
  <2>1. PICK q \in Asked("update") : UpdateGet(w, t, d)!(q)
    BY <1>3 DEF UpdateGet
  <2> DEFINE old == row[<<t, d>>]
             job == Job(IF q.claims # old.claims THEN "hset" ELSE "save",
                        "update", t, d, Updated(old, q), old.active,
                        q.active = FALSE, None, {})
  <2>2. old # None /\ Accept(w, job) /\ UNCHANGED <<row, alltime, redis>>
    BY <2>1
  <2>3. old \in Row /\ q.active \in {FALSE, None}
    BY <2>2, RequestsAssumption DEF TypeInv, TypeOK, NoActivation, Asked, Request
  <2>4. redis = "reloaded" => Recorded(old)
    BY <2>2 DEF RecordLedger
  <2>5. /\ Updated(old, q).mark = IF q.active = FALSE THEN None ELSE old.mark
        /\ q.active # FALSE => Updated(old, q).active = old.active
    <3> HIDE DEF old
    <3>1. FALSE # None
      BY SentinelsAssumption
    <3> QED BY <2>3, <3>1 DEF Updated, Row, Given
  <2>6. redis = "reloaded" => Recorded(Updated(old, q))
    BY <2>4, <2>5 DEF Recorded
  <2>7. job.op = "update" /\ job.pc \in {"hset", "save"} /\ job.tm = Updated(old, q)
    BY DEF Job
  <2> HIDE DEF job, old
  <2>8. RecordJob(work[w])'
    BY <1>a, <2>2, <2>6, <2>7 DEF RecordJob, Recorded
  <2> QED BY <1>b, <2>2, <2>8
<1>4. ASSUME NEW w \in Worker, NEW op, CommandStart(w, op) PROVE RecordLedger'
  <2>1. PICK job : /\ Accept(w, job) /\ job.pc = "each" /\ job.todo = Snapshot
                   /\ UNCHANGED <<row, alltime, redis>>
    BY <1>4 DEF CommandStart, Job
  <2>2. ASSUME NEW p \in Pair, row[p] # None PROVE Pending(job, p)
    <3> DEFINE i == [type |-> p[1], domain |-> p[2], tm |-> row[p]]
    <3>1. i \in Snapshot /\ <<i.type, i.domain>> = p /\ i.tm = row[p]
      BY <2>2 DEF Snapshot
    <3> QED BY <2>1, <3>1 DEF Pending
  <2>3. RecordJob(work[w])'
    BY <1>a, <2>1, <2>2 DEF RecordJob, Pending
  <2> QED BY <1>b, <2>1, <2>3
<1>5. ASSUME NEW w \in Worker, NEW t \in Type, CreateType(w, t) PROVE RecordLedger'
  <2>1. PICK job : /\ Accept(w, job) /\ job.pc = "logType"
                   /\ job.op = "createType" /\ UNCHANGED <<row, alltime, redis>>
    BY <1>5 DEF CreateType, Job
  <2> QED BY <1>a, <1>b, <2>1 DEF RecordJob
<1>6. ASSUME NEW w \in Worker, NEW t \in Type, UpdateTypeGet(w, t)
      PROVE  RecordLedger'
  <2>1. PICK job : /\ Accept(w, job) /\ job.pc = "saveType"
                   /\ job.op = "updateType" /\ UNCHANGED <<row, alltime, redis>>
    BY <1>6 DEF UpdateTypeGet, Job
  <2> QED BY <1>a, <1>b, <2>1 DEF RecordJob
<1>7. ASSUME NEW w \in Worker, Arrive(w) PROVE RecordLedger'
  BY <1>1, <1>2, <1>3, <1>4, <1>5, <1>6, <1>7 DEF Arrive
<1>8. ASSUME NEW w \in Worker, CreateGetExisting(w) PROVE RecordLedger'
  <2>1. UNCHANGED <<row, alltime, redis>> /\ work[w].pc = "getExisting"
    BY <1>8 DEF CreateGetExisting
  <2>2. CASE Goto(w, "insert")
    BY <1>b, <2>1, <2>2, Moved DEF RecordLedger, RecordJob
  <2> QED BY <1>8, <1>b, <1>c, <2>1, <2>2 DEF CreateGetExisting
<1>9. ASSUME NEW w \in Worker, CreateInsert(w) PROVE RecordLedger'
  <2>1. UNCHANGED <<alltime, redis>> /\ work[w].pc = "insert"
    BY <1>9 DEF CreateInsert
  <2>2. CASE row' = [row EXCEPT ![PairOn(w)] = work[w].tm] /\ Goto(w, "hset")
    <3>1. work[w].tm.mark = None /\ work[w].op # "reload"
      BY <2>1 DEF RecordLedger, RecordJob
    <3>2. RecordJob(work[w])'
      BY <2>2, <3>1, Moved DEF RecordJob
    <3>3. \A p \in Pair : row'[p] = row[p] \/ Recorded(row[p])'
      BY <2>2, <3>1 DEF Recorded, TypeInv, TypeOK
    <3> QED BY <2>1, <3>2, <3>3, RecordStep
  <2> QED BY <1>9, <1>b, <1>c, <2>1, <2>2 DEF CreateInsert
<1>10. ASSUME NEW w \in Worker, HsetMark(w) PROVE RecordLedger'
  <2>1. work[w].op # "reload"
    BY <1>10, Signed DEF RecordLedger, RecordJob
  <2> QED BY <1>10, <1>b, <2>1, Signed DEF RecordJob
<1>11. ASSUME NEW w \in Worker,
              \/ SaddMember(w) \/ SaddType(w) \/ HsetRevoked(w) \/ SremMember(w)
              \/ SaveType(w)
       PROVE  RecordLedger'
  <2>1. PICK pc \in {"saddType", "saddAlltime", "srem", "log", "logType"} :
          Goto(w, pc) /\ UNCHANGED <<row, alltime, redis>> /\ work[w].pc # "each"
    BY <1>11 DEF SaddMember, SaddType, HsetRevoked, SremMember, SaveType
  <2>2. RecordJob(work[w])'
    BY <2>1, Moved DEF RecordLedger, RecordJob
  <2> QED BY <1>b, <2>1, <2>2
<1>12. ASSUME NEW w \in Worker, SaddAlltime(w) PROVE RecordLedger'
  <2>1. PICK pc \in {"each", "save"} :
          /\ pc = AfterAdd(work[w].op) /\ Goto(w, pc)
          /\ UNCHANGED <<row, redis>> /\ alltime' = alltime \cup {work[w].tm.mark}
          /\ work[w].pc = "saddAlltime"
    BY <1>12 DEF SaddAlltime, AfterAdd
  <2>2. RecordJob(work[w])'
    BY <2>1, Moved DEF RecordLedger, RecordJob, Recorded
  <2> QED BY <2>1, <2>2, RecordStep
<1>13. ASSUME NEW w \in Worker, Save(w) PROVE RecordLedger'
  <2>1. PICK pc \in {"hsetRevoked", "log"} :
          /\ row' = [row EXCEPT ![PairOn(w)] = work[w].tm] /\ Goto(w, pc)
          /\ UNCHANGED <<alltime, redis>> /\ work[w].pc = "save"
    BY <1>13 DEF Save
  <2>2. /\ work[w].op # "reload"
        /\ redis = "reloaded" => Recorded(work[w].tm)
    BY <2>1 DEF RecordLedger, RecordJob
  <2>3. RecordJob(work[w])'
    BY <2>1, <2>2, Moved DEF RecordJob
  <2>4. \A p \in Pair : \/ row'[p] = row[p]
                        \/ redis = "reloaded" => Recorded(row[p])'
    BY <2>1, <2>2 DEF Recorded, TypeInv, TypeOK
  <2> QED BY <2>1, <2>3, <2>4, RecordStep
<1>14. ASSUME NEW w \in Worker, Log(w) \/ LogType(w) PROVE RecordLedger'
  BY <1>14, <1>b, <1>c DEF Log, LogType
<1>15. ASSUME NEW w \in Worker, ReissueNext(w) PROVE RecordLedger'
  <2>1. /\ work[w].op = "reissue" /\ UNCHANGED <<row, alltime, redis>>
        /\ work[w].pc = "each"
        /\ \E i \in work[w].todo : work' = [work EXCEPT ![w] = ReissueJob(@, i)]
    BY <1>15 DEF ReissueNext
  <2>2. work'[w].op = "reissue" /\ work'[w].pc \in {"hset", "each"}
    BY <2>1 DEF ReissueJob, Job, TypeInv, TypeOK, JobRecord
  <2> QED BY <1>b, <2>1, <2>2 DEF RecordJob
<1>16. ASSUME NEW w \in Worker, ReloadNext(w) PROVE RecordLedger'
  <2>1. PICK i \in work[w].todo :
          /\ alltime' = IF i.tm.active /\ i.tm.mark # None
                          THEN alltime \cup {i.tm.mark} ELSE alltime
          /\ work' = [work EXCEPT ![w].todo = @ \ {i}]
          /\ work[w].pc = "each" /\ UNCHANGED <<row, redis>>
    BY <1>16 DEF ReloadNext
  <2>2. /\ work'[w].pc = "each" /\ work'[w].op = work[w].op
        /\ work'[w].todo = work[w].todo \ {i}
    BY <2>1 DEF TypeInv, TypeOK, JobRecord
  <2>3. Recorded(i.tm)' /\ alltime \subseteq alltime'
    BY <2>1 DEF Recorded
  <2>4. ASSUME NEW p \in Pair, row[p] # None, redis = "lost",
               work[w].op = "reload"
        PROVE  Recorded(row[p])' \/ Pending(work[w], p)'
    <3>1. Recorded(row[p]) \/ Pending(work[w], p)
      BY <2>4 DEF RecordLedger, RecordJob
    <3>2. CASE Recorded(row[p])
      BY <2>1, <2>3, <3>2 DEF Recorded
    <3>3. ASSUME NEW j \in work[w].todo, <<j.type, j.domain>> = p, j.tm = row[p]
          PROVE  Recorded(row[p])' \/ Pending(work[w], p)'
      <4>1. CASE j = i
        BY <2>1, <2>3, <3>3, <4>1 DEF Recorded
      <4>2. CASE j # i
        BY <2>1, <2>2, <3>3, <4>2 DEF Pending
      <4> QED BY <4>1, <4>2
    <3> QED BY <3>1, <3>2, <3>3 DEF Pending
  <2>5. RecordJob(work[w])'
    BY <2>1, <2>2, <2>4 DEF RecordJob
  <2> QED BY <2>1, <2>3, <2>5, RecordStep
<1>17. ASSUME NEW w \in Worker, CommandEnd(w) PROVE RecordLedger'
  <2>1. /\ work[w].todo = {} /\ Finish(w) /\ UNCHANGED <<row, alltime>>
        /\ redis' = IF work[w].op = "reload" /\ redis = "lost" THEN "reloaded"
                                                               ELSE redis
    BY <1>17 DEF CommandEnd
  <2>2. ASSUME redis' = "reloaded", NEW p \in Pair, row[p] # None
        PROVE  Recorded(row[p])
    BY <2>1, <2>2 DEF RecordLedger, RecordJob, Pending
  <2>3. \A v \in Worker : v = w
    BY DEF OneWorker
  <2> QED BY <1>c, <2>1, <2>2, <2>3 DEF RecordLedger, Recorded
<1>18. ASSUME NEW w \in Worker, Fail(w) PROVE RecordLedger'
  BY <1>18, <1>b, <1>c DEF Fail
<1>19. CASE RedisLoss
  <2>1. \A w \in Worker : work'[w] = work[w] /\ work[w].op # "reload"
    BY <1>19 DEF RedisLoss
  <2>2. redis' = "lost"
    BY <1>19 DEF RedisLoss
  <2> QED BY <2>1, <2>2 DEF RecordLedger, RecordJob
<1>20. CASE Tick \/ Rest \/ UNCHANGED vars
  BY <1>20 DEF Tick, Rest, vars, RecordLedger, RecordJob, Recorded, Pending
<1> QED
  BY <1>7, <1>8, <1>9, <1>10, <1>11, <1>12, <1>13, <1>14, <1>15, <1>16, <1>17,
     <1>18, <1>19, <1>20
  DEF LossyNext, Next, Step

(* With one worker, once Redis has lost its data and reload_issued_tms has *)
(* run to its end, the mark of every active row is on record again and     *)
(* stays there, whatever dies in between.  An update that switches a row   *)
(* on again breaks it, for the reload passes over inactive rows; so does a *)
(* second worker that saves what it published before the loss.             *)
THEOREM ReloadRestores ==
  ASSUME OneWorker, NoActivation
  PROVE  LossySpec => []ReloadRestoresRecord
<1>1. TypeInv /\ RecordLedger => ReloadRestoresRecord
  BY DEF RecordLedger, Recorded, ReloadRestoresRecord
<1>2. LossySpec => Init /\ [][LossyNext]_vars
  BY PTL DEF LossySpec, LossyNext
<1>3. TypeInv /\ RecordLedger /\ [LossyNext]_vars => RecordLedger'
  BY StepRecord
<1> QED BY <1>1, <1>2, <1>3, InitRecord, LossyTypes, PTL


=============================================================================
