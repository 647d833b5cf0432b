------------------------ MODULE TrustMarksRaceProofs ------------------------
(***************************************************************************)
(* What the requests for trust marks cannot do to each other, for every    *)
(* set of types, domains, claims and workers, every set of requests and    *)
(* any value of the bounds.                                                *)
(***************************************************************************)
EXTENDS TrustMarksProofs

USE DEF Pair, MarkPC, AddPC, PC, Op, database, store, counters, At

LEMMA HeldJob ==
  ASSUME TypeInv, NEW w \in Worker
  PROVE  work[w] \in JobRecord /\ Holding(work[w])
  BY DEF TypeInv, TypeOK

(* A step that moves a program counter moves nothing else.                 *)
LEMMA Moved ==
  ASSUME TypeInv, NEW w \in Worker, NEW pc, Goto(w, pc)
  PROVE  /\ work'[w].pc = pc
         /\ work'[w].op = work[w].op /\ work'[w].type = work[w].type
         /\ work'[w].domain = work[w].domain /\ work'[w].tm = work[w].tm
         /\ \A v \in Worker : v # w => work'[v] = work[v]
<1> DEFINE new == [work[w] EXCEPT !.pc = pc]
<1>1. work[w] \in JobRecord
  BY HeldJob
<1>2. /\ new.pc = pc /\ new.op = work[w].op /\ new.type = work[w].type
      /\ new.domain = work[w].domain /\ new.tm = work[w].tm
  BY <1>1 DEF JobRecord
<1>3. work' = [work EXCEPT ![w] = new]
  BY DEF Goto
<1> HIDE DEF new
<1> QED BY <1>2, <1>3 DEF TypeInv, TypeOK

LEMMA Finished ==
  ASSUME TypeInv, NEW w \in Worker, Finish(w)
  PROVE  /\ work'[w] = NoWork /\ work'[w].pc = "idle"
         /\ \A v \in Worker : v # w => work'[v] = work[v]
  BY DEF Finish, TypeInv, TypeOK, NoWork, Job

(* A request that arrives finds its worker idle and leaves Redis alone.    *)
LEMMA Arrived ==
  ASSUME TypeInv, NEW w \in Worker, Arrive(w)
  PROVE  /\ work[w].pc = "idle"
         /\ \A v \in Worker : v # w => work'[v] = work[v]
         /\ UNCHANGED <<row, audit, store, minted, now, failures>>
<1>1. ASSUME NEW t, NEW d, CreateGetType(w, t, d) PROVE \E job : Accept(w, job)
  BY <1>1 DEF CreateGetType
<1>2. ASSUME NEW t, NEW d, UpdateGet(w, t, d) PROVE \E job : Accept(w, job)
  BY <1>2 DEF UpdateGet
<1>3. ASSUME NEW t, CreateType(w, t) PROVE \E job : Accept(w, job)
  BY <1>3 DEF CreateType
<1>4. ASSUME NEW t, UpdateTypeGet(w, t) PROVE \E job : Accept(w, job)
  BY <1>4 DEF UpdateTypeGet
<1>5. PICK job : Accept(w, job)
  BY <1>1, <1>2, <1>3, <1>4 DEF Arrive, RenewGet, CommandStart
<1>6. UNCHANGED <<row, audit, store, minted, now, failures>>
  BY DEF Arrive, CreateGetType, RenewGet, UpdateGet, CommandStart, CreateType,
         UpdateTypeGet
<1> QED BY <1>5, <1>6 DEF Accept, TypeInv, TypeOK

(* The next row of a command: nothing but the record grows.                *)
LEMMA Visited ==
  ASSUME TypeInv, NEW w \in Worker, ReissueNext(w) \/ ReloadNext(w)
  PROVE  /\ work[w].pc = "each"
         /\ \A v \in Worker : v # w => work'[v] = work[v]
         /\ alltime \subseteq alltime'
         /\ UNCHANGED <<row, audit, served, minted, now, failures>>
<1>1. CASE ReissueNext(w)
  BY <1>1 DEF ReissueNext, TypeInv, TypeOK
<1>2. CASE ReloadNext(w)
  BY <1>2 DEF ReloadNext, TypeInv, TypeOK
<1> QED BY <1>1, <1>2

-----------------------------------------------------------------------------
(* A mark that is served is on record or on its way there.                 *)

InFlight(m) == \E w \in Worker : work[w].pc \in AddPC /\ work[w].tm.mark = m

LEMMA InitServed == Init => ServedKnownOrInFlight
  BY DEF Init, ServedKnownOrInFlight, IsMark

(* A step that publishes nothing, of a worker that is not in the middle of *)
(* add_trustmark or goes on with the same mark, keeps the promise.         *)
LEMMA ServedStep ==
  ASSUME TypeInv, ServedKnownOrInFlight, failures = 0, NEW w \in Worker,
         \A v \in Worker : v # w => work'[v] = work[v],
         \/ work[w].pc \notin AddPC
         \/ work'[w].pc \in AddPC /\ work'[w].tm.mark = work[w].tm.mark
         \/ work[w].tm.mark \in alltime',
         alltime \subseteq alltime', served' = served
  PROVE  ServedKnownOrInFlight'
<1> SUFFICES ASSUME NEW p \in Pair, IsMark(served[p])
             PROVE  \/ served[p] \in alltime'
                    \/ \E v \in Worker : /\ work'[v].pc \in AddPC
                                         /\ work'[v].tm.mark = served[p]
  BY DEF ServedKnownOrInFlight, IsMark
<1>1. CASE served[p] \in alltime
  BY <1>1
<1>2. ASSUME NEW v \in Worker, work[v].pc \in AddPC, work[v].tm.mark = served[p]
      PROVE  \/ served[p] \in alltime'
             \/ \E u \in Worker : work'[u].pc \in AddPC /\ work'[u].tm.mark = served[p]
  BY <1>2
<1> QED BY <1>1, <1>2 DEF ServedKnownOrInFlight

LEMMA StepServed ==
  TypeInv /\ ServedKnownOrInFlight /\ [Next]_vars => ServedKnownOrInFlight'
<1> SUFFICES ASSUME TypeInv, ServedKnownOrInFlight, [Next]_vars, failures' = 0
             PROVE  ServedKnownOrInFlight'
  BY DEF ServedKnownOrInFlight
<1>1. ASSUME NEW w \in Worker, Arrive(w) PROVE ServedKnownOrInFlight'
  BY <1>1, Arrived, ServedStep
<1>2. ASSUME NEW w \in Worker,
             \/ CreateGetExisting(w) \/ CreateInsert(w) \/ Save(w) \/ SremMember(w)
             \/ Log(w) \/ CommandEnd(w) \/ SaveType(w) \/ LogType(w)
      PROVE  ServedKnownOrInFlight'
  <2>1. /\ \A v \in Worker : v # w => work'[v] = work[v]
        /\ work[w].pc \notin AddPC /\ UNCHANGED <<served, alltime, failures>>
    BY <1>2 DEF CreateGetExisting, CreateInsert, Save, SremMember, Log,
                CommandEnd, SaveType, LogType, Goto, Finish, TypeInv, TypeOK
  <2> QED BY <2>1, ServedStep
<1>3. ASSUME NEW w \in Worker, HsetMark(w) PROVE ServedKnownOrInFlight'
  <2> DEFINE mark == [type |-> work[w].type, domain |-> work[w].domain,
                      id |-> minted + 1, exp |-> now + Hours(w)]
             tm == [work[w].tm EXCEPT !.mark = mark, !.expireAt = mark.exp]
             new == [work[w] EXCEPT !.pc = "saddMember", !.tm = tm]
  <2>1. /\ work' = [work EXCEPT ![w] = new] /\ work[w].pc = "hset"
        /\ served' = [served EXCEPT ![PairOn(w)] = mark]
        /\ UNCHANGED <<alltime, failures>>
    BY <1>3 DEF HsetMark
  <2>2. PairOn(w) \in Pair /\ work[w].tm \in Row /\ work[w] \in JobRecord
    BY <2>1, HeldJob DEF Holding, PairOn
  <2> HIDE DEF mark
  <2>3. tm.mark = mark
    BY <2>2 DEF Row
  <2> HIDE DEF tm
  <2>4. new.pc = "saddMember" /\ new.tm.mark = mark
    BY <2>2, <2>3 DEF JobRecord
  <2> HIDE DEF new
  <2>5. /\ work'[w].pc \in AddPC /\ work'[w].tm.mark = mark
        /\ \A v \in Worker : v # w => work'[v] = work[v]
        /\ \A p \in Pair : served'[p] \in {served[p], mark}
    BY <2>1, <2>4 DEF TypeInv, TypeOK
  <2> QED BY <2>1, <2>5 DEF ServedKnownOrInFlight
<1>4. ASSUME NEW w \in Worker, SaddMember(w) \/ SaddType(w)
      PROVE  ServedKnownOrInFlight'
  <2>1. PICK pc \in AddPC : /\ Goto(w, pc)
                            /\ UNCHANGED <<served, alltime, failures>>
    BY <1>4 DEF SaddMember, SaddType
  <2> QED BY <2>1, Moved, ServedStep
<1>5. ASSUME NEW w \in Worker, SaddAlltime(w) PROVE ServedKnownOrInFlight'
  <2>1. PICK pc : Goto(w, pc) /\ alltime' = alltime \cup {work[w].tm.mark}
                  /\ UNCHANGED <<served, failures>>
    BY <1>5 DEF SaddAlltime
  <2> QED BY <2>1, Moved, ServedStep
<1>6. ASSUME NEW w \in Worker, HsetRevoked(w) PROVE ServedKnownOrInFlight'
  <2>1. /\ Goto(w, "srem") /\ served' = [served EXCEPT ![PairOn(w)] = Revoked]
        /\ UNCHANGED <<alltime, failures>> /\ work[w].pc = "hsetRevoked"
    BY <1>6 DEF HsetRevoked
  <2>2. \A p \in Pair : IsMark(served'[p]) => served'[p] = served[p]
    BY <2>1 DEF IsMark, TypeInv, TypeOK
  <2>3. \A v \in Worker : v # w => work'[v] = work[v]
    BY <2>1, Moved
  <2> QED BY <2>1, <2>2, <2>3 DEF ServedKnownOrInFlight, IsMark
<1>7. ASSUME NEW w \in Worker, ReissueNext(w) \/ ReloadNext(w)
      PROVE  ServedKnownOrInFlight'
  BY <1>7, Visited, ServedStep
<1>8. ASSUME NEW w \in Worker, Fail(w) PROVE FALSE
  BY <1>8 DEF Fail, TypeInv, TypeOK
<1>9. CASE Tick \/ Rest \/ UNCHANGED vars
  BY <1>9 DEF Tick, Rest, vars, ServedKnownOrInFlight, IsMark
<1> QED
  BY <1>1, <1>2, <1>3, <1>4, <1>5, <1>6, <1>7, <1>8, <1>9 DEF Next, Step

(* While no request has died, a mark /trust_mark hands out is one that     *)
(* /trust_mark_status knows, or its hash is among the next commands of the *)
(* request that published it.                                              *)
THEOREM ServedIsKnownOrInFlight == Spec => []ServedKnownOrInFlight
  BY InitServed, StepServed, TypeInvariant, PTL DEF Spec

-----------------------------------------------------------------------------
(* Between two signings a revoked verdict is final.                        *)

(* The verdict, read off the three things it depends on.                   *)
LEMMA RevokedVerdict ==
  ASSUME TypeInv, NEW m \in alltime
  PROVE  Status(m) = "revoked" <=> m.exp > now /\ served[PairOf(m)] = Revoked
<1>1. m.exp \in Nat /\ now \in Nat /\ PairOf(m) \in Pair
  BY DEF TypeInv, TypeOK, Mark, PairOf
<1>2. /\ None # Revoked
      /\ served[PairOf(m)] \in Mark \cup {None, Revoked}
  BY <1>1, SentinelsAssumption DEF TypeInv, TypeOK
<1> QED BY <1>1, <1>2 DEF Status, IsMark

(* Nothing but a signing takes a verdict of revocation back, and no hash   *)
(* is ever forgotten.                                                      *)
LEMMA VerdictStep ==
  ASSUME TypeInv, [Next]_vars
  PROVE  \/ minted' # minted
         \/ /\ alltime \subseteq alltime'
            /\ now' \in Nat /\ now' >= now
            /\ \A p \in Pair : served[p] = Revoked => served'[p] = Revoked
<1>0. minted \in Nat /\ now \in Nat
  BY DEF TypeInv, TypeOK
<1> DEFINE Keeps == /\ alltime \subseteq alltime' /\ now' = now
                    /\ \A p \in Pair : served[p] = Revoked => served'[p] = Revoked
<1>1. ASSUME NEW w \in Worker, Arrive(w) PROVE Keeps
  BY <1>1, Arrived
<1>2. ASSUME NEW w \in Worker,
             \/ CreateGetExisting(w) \/ CreateInsert(w) \/ SaddMember(w)
             \/ SaddType(w) \/ SaddAlltime(w) \/ Save(w) \/ SremMember(w)
             \/ Log(w) \/ CommandEnd(w) \/ SaveType(w) \/ LogType(w) \/ Fail(w)
      PROVE  Keeps
  BY <1>2 DEF CreateGetExisting, CreateInsert, SaddMember, SaddType, SaddAlltime,
              Save, SremMember, Log, CommandEnd, SaveType, LogType, Fail
<1>3. ASSUME NEW w \in Worker, HsetMark(w) PROVE minted' # minted
  BY <1>0, <1>3 DEF HsetMark
<1>4. ASSUME NEW w \in Worker, HsetRevoked(w) PROVE Keeps
  BY <1>4 DEF HsetRevoked, TypeInv, TypeOK
<1>5. ASSUME NEW w \in Worker, ReissueNext(w) \/ ReloadNext(w) PROVE Keeps
  BY <1>5, Visited
<1>6. ASSUME Rest \/ UNCHANGED vars PROVE Keeps
  BY <1>6 DEF Rest, vars
<1>7. CASE Tick
  BY <1>0, <1>7 DEF Tick
<1> QED
  BY <1>0, <1>1, <1>2, <1>3, <1>4, <1>5, <1>6, <1>7 DEF Next, Step

LEMMA StepRevoked ==
  ASSUME TypeInv, TypeInv', [Next]_vars, NEW m \in alltime,
         Status(m) = "revoked", minted' = minted
  PROVE  Status(m)' \in {"revoked", "expired"}
<1>1. /\ m \in alltime' /\ now' \in Nat /\ now' >= now
      /\ served'[PairOf(m)] = Revoked
  <2>1. served[PairOf(m)] = Revoked /\ PairOf(m) \in Pair
    BY RevokedVerdict DEF PairOf, TypeInv, TypeOK, Mark
  <2> QED BY <2>1, VerdictStep
<1>2. m.exp \in Nat
  BY DEF TypeInv, TypeOK, Mark
<1>3. CASE m.exp <= now'
  BY <1>1, <1>2, <1>3 DEF Status
<1>4. CASE m.exp > now'
  <2>1. None # Revoked
    BY SentinelsAssumption
  <2> QED BY <1>1, <1>2, <1>4, <2>1 DEF Status, IsMark
<1> QED BY <1>1, <1>2, <1>3, <1>4

(* No reload however old its snapshot, no re-activation and no late save   *)
(* makes /trust_mark_status call a revoked mark active again: only a new   *)
(* signing for the pair does.                                              *)
THEOREM RevocationStands == Spec => RevokedUntilReissued
<1>1. TypeInv /\ TypeInv' /\ [Next]_vars
        => [\A m \in alltime : Status(m) = "revoked" =>
              Status(m)' \in {"revoked", "expired"} \/ minted' # minted]_vars
  BY StepRevoked
<1> QED BY <1>1, TypeInvariant, PTL DEF Spec, RevokedUntilReissued

-----------------------------------------------------------------------------
(* Every mark a row holds is in the audit log, or will be.                 *)

InLog(m) == \E a \in audit : a.mark = m

WillLog(job, m) == job.pc \in {"hsetRevoked", "srem", "log"} /\ job.tm.mark = m

LEMMA InitStored == Init => StoredMarkAudited
  BY DEF Init, StoredMarkAudited

(* A step that writes no row, of a worker that owes no entry, goes on      *)
(* owing it, or has made it.                                               *)
LEMMA StoredStep ==
  ASSUME TypeInv, StoredMarkAudited, failures = 0, NEW w \in Worker,
         \A v \in Worker : v # w => work'[v] = work[v],
         \A m : WillLog(work[w], m) => WillLog(work[w], m)' \/ InLog(m)',
         audit \subseteq audit',
         \A p \in Pair : row'[p] # None /\ row'[p].mark # None =>
           \/ row'[p] = row[p]
           \/ WillLog(work[w], row[p].mark)'
  PROVE  StoredMarkAudited'
<1> SUFFICES ASSUME NEW p \in Pair, row'[p] # None, row'[p].mark # None
             PROVE  \/ InLog(row[p].mark)'
                    \/ \E v \in Worker : WillLog(work[v], row[p].mark)'
  BY DEF StoredMarkAudited, InLog, WillLog
<1>1. CASE WillLog(work[w], row[p].mark)'
  BY <1>1
<1>2. CASE row'[p] = row[p]
  <2>1. InLog(row[p].mark) \/ \E v \in Worker : WillLog(work[v], row[p].mark)
    BY <1>2 DEF StoredMarkAudited, InLog, WillLog
  <2>2. CASE InLog(row[p].mark)
    BY <1>2, <2>2 DEF InLog
  <2>3. ASSUME NEW v \in Worker, v # w, WillLog(work[v], row[p].mark)
        PROVE  WillLog(work[v], row[p].mark)'
    BY <1>2, <2>3 DEF WillLog
  <2>4. CASE WillLog(work[w], row[p].mark)
    BY <1>2, <2>4 DEF InLog, WillLog
  <2> QED BY <2>1, <2>2, <2>3, <2>4
<1> QED BY <1>1, <1>2

LEMMA StepStored ==
  TypeInv /\ MarkLedger /\ StoredMarkAudited /\ [Next]_vars => StoredMarkAudited'
<1> SUFFICES ASSUME TypeInv, MarkLedger, StoredMarkAudited, [Next]_vars,
                    failures' = 0
             PROVE  StoredMarkAudited'
  BY DEF StoredMarkAudited
<1>a. ASSUME NEW w \in Worker, failures = 0, UNCHANGED <<row, audit>>,
             \A v \in Worker : v # w => work'[v] = work[v],
             \A m : WillLog(work[w], m) => WillLog(work[w], m)'
      PROVE  StoredMarkAudited'
  BY <1>a, StoredStep
<1>b. ASSUME NEW w \in Worker, failures = 0, UNCHANGED <<row, audit>>,
             \A v \in Worker : v # w => work'[v] = work[v],
             work[w].pc \notin {"hsetRevoked", "srem", "log"}
      PROVE  StoredMarkAudited'
  BY <1>a, <1>b DEF WillLog
<1>1. ASSUME NEW w \in Worker, Arrive(w) PROVE StoredMarkAudited'
  BY <1>1, <1>b, Arrived
<1>2. ASSUME NEW w \in Worker,
             \/ CreateGetExisting(w) \/ HsetMark(w) \/ SaddMember(w)
             \/ SaddType(w) \/ SaddAlltime(w) \/ CommandEnd(w) \/ SaveType(w)
      PROVE  StoredMarkAudited'
  <2>1. /\ \A v \in Worker : v # w => work'[v] = work[v]
        /\ work[w].pc \notin {"hsetRevoked", "srem", "log"}
        /\ UNCHANGED <<row, audit, failures>>
    BY <1>2 DEF CreateGetExisting, HsetMark, SaddMember, SaddType, SaddAlltime,
                CommandEnd, SaveType, Goto, Finish, TypeInv, TypeOK
  <2> QED BY <1>b, <2>1
<1>3. ASSUME NEW w \in Worker, CreateInsert(w) PROVE StoredMarkAudited'
  <2>1. CASE row[PairOn(w)] = None
    <3>1. /\ row' = [row EXCEPT ![PairOn(w)] = work[w].tm] /\ Goto(w, "hset")
          /\ UNCHANGED <<audit, failures>> /\ work[w].pc = "insert"
      BY <1>3, <2>1 DEF CreateInsert
    <3>2. work[w].tm.mark = None
      BY <3>1 DEF MarkLedger, JobLedger
    <3>3. \A p \in Pair : row'[p] # None /\ row'[p].mark # None => row'[p] = row[p]
      BY <3>1, <3>2 DEF TypeInv, TypeOK
    <3>4. \A m : ~WillLog(work[w], m)
      BY <3>1 DEF WillLog
    <3>5. \A v \in Worker : v # w => work'[v] = work[v]
      BY <3>1, Moved
    <3> QED BY <3>1, <3>3, <3>4, <3>5, StoredStep
  <2>2. CASE row[PairOn(w)] # None
    <3>1. /\ Finish(w) /\ UNCHANGED <<row, audit, failures>>
          /\ work[w].pc = "insert"
      BY <1>3, <2>2 DEF CreateInsert
    <3> QED BY <1>b, <3>1, Finished
  <2> QED BY <2>1, <2>2
<1>4. ASSUME NEW w \in Worker, Save(w) PROVE StoredMarkAudited'
  <2>1. PICK pc \in {"hsetRevoked", "log"} :
          /\ row' = [row EXCEPT ![PairOn(w)] = work[w].tm] /\ Goto(w, pc)
          /\ UNCHANGED <<audit, failures>> /\ work[w].pc = "save"
    BY <1>4 DEF Save
  <2>2. /\ work'[w].pc = pc /\ work'[w].tm = work[w].tm
        /\ \A v \in Worker : v # w => work'[v] = work[v]
    BY <2>1, Moved
  <2>3. \A p \in Pair : row'[p] = row[p] \/ row'[p] = work[w].tm
    BY <2>1 DEF TypeInv, TypeOK
  <2>4. \A p \in Pair : row'[p] = row[p] \/ WillLog(work[w], row[p].mark)'
    BY <2>2, <2>3 DEF WillLog
  <2>5. \A m : ~WillLog(work[w], m)
    BY <2>1 DEF WillLog
  <2> QED BY <2>1, <2>2, <2>4, <2>5, StoredStep
<1>5. ASSUME NEW w \in Worker, HsetRevoked(w) \/ SremMember(w)
      PROVE  StoredMarkAudited'
  <2>1. PICK pc \in {"srem", "log"} : /\ Goto(w, pc)
                                      /\ UNCHANGED <<row, audit, failures>>
    BY <1>5 DEF HsetRevoked, SremMember
  <2>2. /\ work'[w].pc = pc /\ work'[w].tm = work[w].tm
        /\ \A v \in Worker : v # w => work'[v] = work[v]
    BY <2>1, Moved
  <2>3. \A m : WillLog(work[w], m) => WillLog(work[w], m)'
    BY <2>2 DEF WillLog
  <2> QED BY <1>a, <2>1, <2>2, <2>3
<1>6. ASSUME NEW w \in Worker, Log(w) PROVE StoredMarkAudited'
  <2> DEFINE entry == [event |-> Event(w), type |-> work[w].type,
                       domain |-> work[w].domain, mark |-> work[w].tm.mark]
  <2>1. /\ audit' = audit \cup {entry} /\ Finish(w)
        /\ UNCHANGED <<row, failures>>
    BY <1>6 DEF Log
  <2>2. entry.mark = work[w].tm.mark
    OBVIOUS
  <2> HIDE DEF entry
  <2>3. \A m : WillLog(work[w], m) => InLog(m)'
    BY <2>1, <2>2 DEF WillLog, InLog
  <2> QED BY <2>1, <2>3, Finished, StoredStep
<1>7. ASSUME NEW w \in Worker, ReissueNext(w) \/ ReloadNext(w)
      PROVE  StoredMarkAudited'
  BY <1>7, <1>b, Visited
<1>8. ASSUME NEW w \in Worker, LogType(w) PROVE StoredMarkAudited'
  <2>1. /\ work[w].pc = "logType" /\ Finish(w) /\ audit \subseteq audit'
        /\ UNCHANGED <<row, failures>>
    BY <1>8 DEF LogType
  <2>2. \A m : ~WillLog(work[w], m)
    BY <2>1 DEF WillLog
  <2> QED BY <2>1, <2>2, Finished, StoredStep
<1>9. ASSUME NEW w \in Worker, Fail(w) PROVE FALSE
  BY <1>9 DEF Fail, TypeInv, TypeOK
<1>10. CASE Tick \/ Rest \/ UNCHANGED vars
  BY <1>10 DEF Tick, Rest, vars, StoredMarkAudited
<1> QED
  BY <1>1, <1>2, <1>3, <1>4, <1>5, <1>6, <1>7, <1>8, <1>9, <1>10 DEF Next, Step

(* While no request has died, a mark a row holds has its audit entry, or   *)
(* the request that stored it is about to write it: a save with a mark     *)
(* read long ago is no exception.                                          *)
THEOREM StoredIsAudited == Spec => []StoredMarkAudited
  BY InitStored, StepStored, TypeInvariant, LedgerCorrect, PTL DEF Spec

-----------------------------------------------------------------------------
(* One creator per mark.                                                   *)

(* Past the unique constraint. *)
Past(w) == work[w].op = "create" /\ work[w].pc \notin {"getExisting", "insert"}

(* A creator is at work on a mark, and past the constraint it has the row. *)
CreatorLedger ==
  /\ OneCreatorPerMark
  /\ \A w \in Worker : work[w].op = "create" => work[w].pc \in MarkPC
  /\ \A w \in Worker : Past(w) => row[PairOn(w)] # None

LEMMA InitCreator == Init => CreatorLedger
  BY SentinelsAssumption
  DEF Init, CreatorLedger, OneCreatorPerMark, Past, NoWork, Job

(* A step of a worker that takes no row away: if it passes the constraint  *)
(* it does so where there was no row, and leaves one there.                *)
LEMMA CreatorStep ==
  ASSUME TypeInv, CreatorLedger, NEW w \in Worker,
         \A v \in Worker : v # w => work'[v] = work[v],
         \A p \in Pair : row[p] # None => row'[p] # None,
         (work[w].op = "create" => work[w].pc \in MarkPC)',
         Past(w)' => /\ row'[PairOn(w)'] # None
                     /\ \/ Past(w) /\ PairOn(w)' = PairOn(w)
                        \/ row[PairOn(w)'] = None
  PROVE  CreatorLedger'
<1>1. ASSUME NEW v \in Worker, v # w
      PROVE  PairOn(v)' = PairOn(v) /\ (Past(v)' <=> Past(v))
             /\ (Past(v) => PairOn(v) \in Pair /\ row[PairOn(v)] # None)
  BY <1>1, HeldJob DEF PairOn, Past, CreatorLedger, Holding
<1>2. ASSUME NEW v \in Worker, v # w, Past(v)', Past(w)', PairOn(v)' = PairOn(w)'
      PROVE  FALSE
  <2>1. CASE Past(w) /\ PairOn(w)' = PairOn(w)
    BY <1>1, <1>2, <2>1 DEF CreatorLedger, OneCreatorPerMark, Past
  <2>2. CASE row[PairOn(w)'] = None
    BY <1>1, <1>2, <2>2
  <2> QED BY <1>2, <2>1, <2>2
<1>3. ASSUME NEW u \in Worker, NEW v \in Worker, u # v, u # w, v # w,
             Past(u)', Past(v)', PairOn(u)' = PairOn(v)'
      PROVE  FALSE
  BY <1>1, <1>3 DEF CreatorLedger, OneCreatorPerMark, Past
<1>4. ASSUME NEW u \in Worker, NEW v \in Worker, u # v, Past(u)', Past(v)',
             PairOn(u)' = PairOn(v)'
      PROVE  FALSE
  BY <1>2, <1>3, <1>4
<1>5. OneCreatorPerMark'
  BY <1>4 DEF OneCreatorPerMark, Past
<1>6. \A v \in Worker : (Past(v) => row[PairOn(v)] # None)'
  <2>1. ASSUME NEW v \in Worker, v # w, Past(v)' PROVE (row[PairOn(v)] # None)'
    BY <1>1, <2>1
  <2> QED BY <2>1
<1>7. \A v \in Worker : (work[v].op = "create" => work[v].pc \in MarkPC)'
  BY DEF CreatorLedger
<1> QED BY <1>5, <1>6, <1>7 DEF CreatorLedger

LEMMA StepCreator == TypeInv /\ CreatorLedger /\ [Next]_vars => CreatorLedger'
<1> SUFFICES ASSUME TypeInv, CreatorLedger, [Next]_vars PROVE CreatorLedger'
  OBVIOUS
<1>a. ASSUME NEW w \in Worker, \A v \in Worker : v # w => work'[v] = work[v],
             work'[w].op # "create", UNCHANGED row
      PROVE  CreatorLedger'
  BY <1>a, CreatorStep DEF Past
<1>b. ASSUME NEW w \in Worker, Finish(w), UNCHANGED row PROVE CreatorLedger'
  <2>1. work'[w].op # "create"
    BY <1>b, Finished, SentinelsAssumption DEF NoWork, Job
  <2> QED BY <1>a, <1>b, <2>1, Finished
<1>c. ASSUME NEW w \in Worker, NEW pc \in MarkPC, Goto(w, pc),
             work[w].pc \in MarkPC,
             \A p \in Pair : row[p] # None => row'[p] # None,
             \/ work[w].pc \notin {"getExisting", "insert"}
             \/ pc \in {"getExisting", "insert"}
             \/ row[PairOn(w)] = None /\ row'[PairOn(w)] # None
      PROVE  CreatorLedger'
  <2>1. /\ work'[w].pc = pc /\ work'[w].op = work[w].op
        /\ PairOn(w)' = PairOn(w)
        /\ \A v \in Worker : v # w => work'[v] = work[v]
    BY <1>c, Moved DEF PairOn
  <2>2. PairOn(w) \in Pair
    BY <1>c, HeldJob DEF Holding, PairOn
  <2>3. Past(w)' => /\ row'[PairOn(w)'] # None
                    /\ \/ Past(w) /\ PairOn(w)' = PairOn(w)
                       \/ row[PairOn(w)'] = None
    BY <1>c, <2>1, <2>2 DEF Past, CreatorLedger
  <2> QED BY <1>c, <2>1, <2>3, CreatorStep
<1>1. ASSUME NEW w \in Worker, Arrive(w) PROVE CreatorLedger'
  <2>1. PICK job : /\ work' = [work EXCEPT ![w] = job]
                   /\ job.op = "create" => job.pc = "getExisting"
    <3>1. ASSUME NEW t, NEW d, CreateGetType(w, t, d)
          PROVE  \E job : Accept(w, job) /\ job.pc = "getExisting"
      BY <3>1 DEF CreateGetType, Job
    <3>2. ASSUME NEW t, NEW d, RenewGet(w, t, d)
          PROVE  \E job : Accept(w, job) /\ job.op # "create"
      BY <3>2 DEF RenewGet, Job
    <3>3. ASSUME NEW t, NEW d, UpdateGet(w, t, d)
          PROVE  \E job : Accept(w, job) /\ job.op # "create"
      BY <3>3 DEF UpdateGet, Job
    <3>4. ASSUME NEW op \in {"reissue", "reload"}, CommandStart(w, op)
          PROVE  \E job : Accept(w, job) /\ job.op # "create"
      BY <3>4 DEF CommandStart, Job
    <3>5. ASSUME NEW t, CreateType(w, t)
          PROVE  \E job : Accept(w, job) /\ job.op # "create"
      BY <3>5 DEF CreateType, Job
    <3>6. ASSUME NEW t, UpdateTypeGet(w, t)
          PROVE  \E job : Accept(w, job) /\ job.op # "create"
      BY <3>6 DEF UpdateTypeGet, Job
    <3>7. \E job : Accept(w, job) /\ (job.op = "create" => job.pc = "getExisting")
      BY <1>1, <3>1, <3>2, <3>3, <3>4, <3>5, <3>6 DEF Arrive
    <3> QED BY <3>7 DEF Accept
  <2>2. work'[w] = job /\ row' = row /\ \A v \in Worker : v # w => work'[v] = work[v]
    BY <1>1, <2>1, Arrived DEF TypeInv, TypeOK
  <2> QED BY <2>1, <2>2, CreatorStep DEF Past
<1>2. ASSUME NEW w \in Worker, CreateGetExisting(w) PROVE CreatorLedger'
  BY <1>2, <1>b, <1>c DEF CreateGetExisting
<1>3. ASSUME NEW w \in Worker, CreateInsert(w) PROVE CreatorLedger'
  <2>1. CASE row[PairOn(w)] = None
    <3>1. /\ row' = [row EXCEPT ![PairOn(w)] = work[w].tm] /\ Goto(w, "hset")
          /\ work[w].pc = "insert"
      BY <1>3, <2>1 DEF CreateInsert
    <3>2. PairOn(w) \in Pair /\ work[w].tm # None
      BY <3>1, HeldJob, SentinelsAssumption DEF Holding, PairOn
    <3>3. row'[PairOn(w)] # None /\ \A p \in Pair : row[p] # None => row'[p] # None
      BY <3>1, <3>2 DEF TypeInv, TypeOK
    <3> QED BY <1>c, <2>1, <3>1, <3>3
  <2>2. CASE row[PairOn(w)] # None
    BY <1>3, <1>b, <2>2 DEF CreateInsert
  <2> QED BY <2>1, <2>2
<1>4. ASSUME NEW w \in Worker, HsetMark(w) PROVE CreatorLedger'
  <2> DEFINE mark == [type |-> work[w].type, domain |-> work[w].domain,
                      id |-> minted + 1, exp |-> now + Hours(w)]
             tm == [work[w].tm EXCEPT !.mark = mark, !.expireAt = mark.exp]
             new == [work[w] EXCEPT !.pc = "saddMember", !.tm = tm]
  <2>1. work' = [work EXCEPT ![w] = new] /\ work[w].pc = "hset" /\ row' = row
    BY <1>4 DEF HsetMark
  <2>2. work[w] \in JobRecord /\ PairOn(w) \in Pair
    BY <2>1, HeldJob DEF Holding, PairOn
  <2> HIDE DEF tm
  <2>3. /\ new.pc = "saddMember" /\ new.op = work[w].op
        /\ new.type = work[w].type /\ new.domain = work[w].domain
    BY <2>2 DEF JobRecord
  <2> HIDE DEF new
  <2>4. work'[w] = new /\ \A v \in Worker : v # w => work'[v] = work[v]
    BY <2>1 DEF TypeInv, TypeOK
  <2>5. /\ PairOn(w)' = PairOn(w) /\ (Past(w)' => Past(w))
        /\ (work[w].op = "create" => work[w].pc \in MarkPC)'
    BY <2>1, <2>3, <2>4 DEF PairOn, Past
  <2>6. Past(w)' => /\ row'[PairOn(w)'] # None
                    /\ \/ Past(w) /\ PairOn(w)' = PairOn(w)
                       \/ row[PairOn(w)'] = None
    BY <2>1, <2>5 DEF CreatorLedger
  <2> QED BY <2>1, <2>4, <2>5, <2>6, CreatorStep
<1>5. ASSUME NEW w \in Worker,
             SaddMember(w) \/ SaddType(w) \/ HsetRevoked(w) \/ SremMember(w)
      PROVE  CreatorLedger'
  <2>1. PICK pc \in MarkPC :
          /\ Goto(w, pc) /\ row' = row
          /\ work[w].pc \in MarkPC \ {"getExisting", "insert"}
    BY <1>5 DEF SaddMember, SaddType, HsetRevoked, SremMember
  <2> QED BY <1>c, <2>1
<1>6. ASSUME NEW w \in Worker, SaddAlltime(w) PROVE CreatorLedger'
  <2>1. /\ Goto(w, AfterAdd(work[w].op)) /\ row' = row
        /\ work[w].pc = "saddAlltime"
    BY <1>6 DEF SaddAlltime
  <2>2. CASE work[w].op = "create"
    BY <1>c, <2>1, <2>2 DEF AfterAdd
  <2>3. CASE work[w].op # "create"
    BY <1>a, <2>1, <2>3, Moved
  <2> QED BY <2>2, <2>3
<1>7. ASSUME NEW w \in Worker, Save(w) PROVE CreatorLedger'
  <2>1. PICK pc \in {"hsetRevoked", "log"} :
          /\ row' = [row EXCEPT ![PairOn(w)] = work[w].tm] /\ Goto(w, pc)
          /\ work[w].pc = "save"
    BY <1>7 DEF Save
  <2>2. work[w].tm # None
    BY <2>1, HeldJob, SentinelsAssumption DEF Holding
  <2>3. \A p \in Pair : row[p] # None => row'[p] # None
    BY <2>1, <2>2 DEF TypeInv, TypeOK
  <2> QED BY <1>c, <2>1, <2>3
<1>8. ASSUME NEW w \in Worker, Log(w) \/ CommandEnd(w) \/ LogType(w) \/ Fail(w)
      PROVE  CreatorLedger'
  BY <1>8, <1>b DEF Log, CommandEnd, LogType, Fail
<1>9. ASSUME NEW w \in Worker, ReissueNext(w) PROVE CreatorLedger'
  <2>1. PICK i \in work[w].todo : ReissueNext(w)!(i)
    BY <1>9 DEF ReissueNext
  <2> DEFINE new == ReissueJob(work[w], i)
  <2>2. new.op = "reissue"
    BY <2>1, HeldJob DEF ReissueJob, Job, JobRecord
  <2>3. work' = [work EXCEPT ![w] = new] /\ row' = row
    BY <2>1 DEF TypeInv, TypeOK
  <2> HIDE DEF new
  <2>4. work'[w] = new /\ \A v \in Worker : v # w => work'[v] = work[v]
    BY <2>3 DEF TypeInv, TypeOK
  <2> QED BY <1>a, <2>2, <2>3, <2>4
<1>10. ASSUME NEW w \in Worker, ReloadNext(w) PROVE CreatorLedger'
  <2>1. PICK i \in work[w].todo : ReloadNext(w)!(i)
    BY <1>10 DEF ReloadNext
  <2> DEFINE new == [work[w] EXCEPT !.todo = @ \ {i}]
  <2>2. new.op = "reload"
    BY <2>1, HeldJob DEF JobRecord
  <2>3. work' = [work EXCEPT ![w] = new] /\ row' = row
    BY <2>1 DEF TypeInv, TypeOK
  <2> HIDE DEF new
  <2>4. work'[w] = new /\ \A v \in Worker : v # w => work'[v] = work[v]
    BY <2>3 DEF TypeInv, TypeOK
  <2> QED BY <1>a, <2>2, <2>3, <2>4
<1>11. ASSUME NEW w \in Worker, SaveType(w) PROVE CreatorLedger'
  <2>1. Goto(w, "logType") /\ row' = row /\ work[w].pc = "saveType"
    BY <1>11 DEF SaveType
  <2>2. work[w].op # "create"
    BY <2>1 DEF CreatorLedger
  <2> QED BY <1>a, <2>1, <2>2, Moved
<1>12. CASE Tick \/ Rest \/ UNCHANGED vars
  BY <1>12 DEF Tick, Rest, vars, CreatorLedger, OneCreatorPerMark, Past, PairOn
<1> QED
  BY <1>1, <1>2, <1>3, <1>4, <1>5, <1>6, <1>7, <1>8, <1>9, <1>10, <1>11, <1>12
  DEF Next, Step

(* However many POST /trustmarks for one domain and type overlap, and      *)
(* wherever they die, one at most gets past the unique constraint.         *)
THEOREM OneCreator == Spec => []OneCreatorPerMark
<1>1. Spec => []CreatorLedger
  BY InitCreator, StepCreator, TypeInvariant, PTL DEF Spec
<1>2. CreatorLedger => OneCreatorPerMark
  BY DEF CreatorLedger
<1> QED BY <1>1, <1>2, PTL
=============================================================================
