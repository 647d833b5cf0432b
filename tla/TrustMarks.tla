----------------------------- MODULE TrustMarks -----------------------------
(***************************************************************************)
(* The life of the trust marks this Trust Anchor issues.                   *)
(*                                                                         *)
(* The Django admin keeps one row per (trust mark type, domain) in         *)
(* PostgreSQL and publishes the signed marks in Redis, from which the Rust *)
(* Trust Anchor answers.  An admin request is a sequence of single-row     *)
(* database statements and single Redis commands with no transaction       *)
(* around them, and several admin workers serve requests at once: each     *)
(* statement and each command is one action here.                          *)
(*                                                                         *)
(* Redis: served is inmor:tm:{domain}[type], members is                    *)
(* inmor:tmtype:{type}, typeIndex is inmor:tmtypes, alltime is             *)
(* inmor:tm:alltime (a mark stands for the hash of its JWT).               *)
(***************************************************************************)
EXTENDS Naturals, FiniteSets

CONSTANTS
  Type,         \* trust mark type URLs
  Domain,       \* entity identifiers
  Claim,        \* values of additional_claims other than null
  Worker,       \* admin workers and management command processes
  Requests,     \* the requests clients and operators issue, see Request
  InitialTypes, \* the TrustMarkType rows present at the start
  None,         \* null, or no such row or key
  Revoked,      \* the string "revoked" in place of a JWT
  MaxRequests,  \* bound: requests accepted in all
  MaxFailures,  \* bound: requests that die half way
  MaxTime       \* bound: ticks of the clock

VARIABLES
  types,     \* TrustMarkType rows
  row,       \* TrustMark rows
  audit,     \* AuditLogEntry rows
  served,    \* Redis: the current mark of each pair
  members,   \* Redis: the domains that hold a mark of each type
  typeIndex, \* Redis: every type a mark was ever issued for
  alltime,   \* Redis: every mark ever issued
  redis,     \* has Redis kept its data: "intact", "lost", "reloaded"
  work,      \* what each worker is doing
  minted,    \* marks signed so far
  now,       \* the clock
  started, failures  \* bounded counters

database == <<types, row, audit>>
store    == <<served, members, typeIndex, alltime>>
counters == <<minted, now, started, failures>>
vars == <<types, row, audit, served, members, typeIndex, alltime, redis,
          work, minted, now, started, failures>>

Pair == Type \X Domain

(***************************************************************************)
(* Two JWTs never have the same bytes (iat is a fractional timestamp), so  *)
(* a mark carries a serial number.  Times are in hours.                    *)
(***************************************************************************)
Mark == [type : Type, domain : Domain, id : Nat, exp : Nat]
IsMark(v) == v \notin {None, Revoked}
PairOf(m) == <<m.type, m.domain>>
ExpOf(m) == m.exp

TypeRow == [active : BOOLEAN, autorenew : BOOLEAN, validFor : Nat]

Row == [active : BOOLEAN, autorenew : BOOLEAN, validFor : Nat,
        claims : Claim \cup {None}, mark : Mark \cup {None},
        expireAt : Nat \cup {None}]

(***************************************************************************)
(* A request names its operation and, None where left out, the fields of   *)
(* its body.  renewal_time is stored and read by nothing: left out.  The   *)
(* schema of createType fills in its defaults, so nothing is left out.     *)
(***************************************************************************)
Op == {"createType", "updateType", "create", "renew", "update", "reissue",
       "reload"}

Request ==
  [op : Op,
   active : BOOLEAN \cup {None}, autorenew : BOOLEAN \cup {None},
   validFor : Nat \cup {None}, claims : Claim \cup {None}]

Asked(op) == {q \in Requests : q.op = op}

ASSUME SentinelsAssumption ==
  /\ None \notin BOOLEAN \cup Nat \cup Type \cup Domain \cup Claim
              \cup Mark \cup Row \cup TypeRow \cup Op \cup {"live", "revoked"}
  /\ Revoked \notin Mark \cup {None}
ASSUME RequestsAssumption ==
  /\ Requests \subseteq Request
  /\ \A q \in Asked("createType") :
       q.active \in BOOLEAN /\ q.autorenew \in BOOLEAN /\ q.validFor \in Nat
ASSUME InitialTypesAssumption ==
  InitialTypes \in [Type -> TypeRow \cup {None}]
ASSUME BoundsAssumption ==
  MaxRequests \in Nat /\ MaxFailures \in Nat /\ MaxTime \in Nat

(***************************************************************************)
(* A worker's request: the program counter, the operation, the pair it is  *)
(* about, the TrustMark instance in memory, whether the row was active     *)
(* when it was read (the audit log's snapshot_before), should_mark_redis_  *)
(* revoked, the TrustMarkType instance in memory, and the rows a command   *)
(* has still to visit.                                                     *)
(***************************************************************************)
AddPC  == {"saddMember", "saddType", "saddAlltime"}  \* inside add_trustmark
MarkPC == {"getExisting", "insert", "hset", "save", "hsetRevoked", "srem",
           "log"} \cup AddPC                         \* at work on one mark
PC == {"idle", "each", "saveType", "logType"} \cup MarkPC

Item == [type : Type, domain : Domain, tm : Row]

Job(pc, op, t, d, tm, was, revoke, tmt, todo) ==
  [pc |-> pc, op |-> op, type |-> t, domain |-> d, tm |-> tm,
   wasActive |-> was, revoke |-> revoke, tmt |-> tmt, todo |-> todo]

NoWork == Job("idle", None, None, None, None, FALSE, FALSE, None, {})

PairOn(w) == <<work[w].type, work[w].domain>>
Busy(p) == \E w \in Worker : work[w].pc # "idle" /\ PairOn(w) = p
AllIdle == \A w \in Worker : work[w].pc = "idle"

Init ==
  /\ types = InitialTypes
  /\ row = [p \in Pair |-> None]
  /\ audit = {}
  /\ served = [p \in Pair |-> None]
  /\ members = [t \in Type |-> {}]
  /\ typeIndex = {}
  /\ alltime = {}
  /\ redis = "intact"
  /\ work = [w \in Worker |-> NoWork]
  /\ minted = 0 /\ now = 0 /\ started = 0 /\ failures = 0

(* An idle worker accepts a request. *)
Accept(w, job) ==
  /\ work[w].pc = "idle"
  /\ started < MaxRequests
  /\ started' = started + 1
  /\ work' = [work EXCEPT ![w] = job]

At(w, pc) == work[w].pc = pc
Goto(w, pc) == work' = [work EXCEPT ![w].pc = pc]
Finish(w) == work' = [work EXCEPT ![w] = NoWork]

Given(v, default) == IF v = None THEN default ELSE v

-----------------------------------------------------------------------------
(* Signing and publishing: add_trustmark, which four callers run.          *)

(* The hours a new mark is valid for.  reissue_alltms takes the type's     *)
(* value, read when the row's turn comes; every other caller takes the     *)
(* mark's own.                                                             *)
Hours(w) == IF work[w].op = "reissue" THEN types[work[w].type].validFor
                                      ELSE work[w].tm.validFor

(* Variants named ...Bug are what a plausible mistake would make of the     *)
(* definition that follows them; each is used to show that a property      *)
(* notices it.  Here: the hash is recorded first and the field forgotten,  *)
(* the expiry is not refreshed, HSETNX in place of HSET.                   *)
HsetMarkRecordsFirstBug(w) ==
  LET mark == [type |-> work[w].type, domain |-> work[w].domain,
               id |-> minted + 1, exp |-> now + Hours(w)]
  IN  /\ At(w, "hset")
      /\ minted' = minted + 1
      /\ alltime' = alltime \cup {mark}
      /\ work' = [work EXCEPT ![w].pc = "saddMember",
                              ![w].tm = [@ EXCEPT !.mark = mark,
                                                  !.expireAt = mark.exp]]
      /\ UNCHANGED <<database, served, members, typeIndex, redis,
                     now, started, failures>>

HsetMarkKeepsExpiryBug(w) ==
  LET mark == [type |-> work[w].type, domain |-> work[w].domain,
               id |-> minted + 1, exp |-> now + Hours(w)]
  IN  /\ At(w, "hset")
      /\ minted' = minted + 1
      /\ served' = [served EXCEPT ![PairOn(w)] = mark]
      /\ work' = [work EXCEPT ![w].pc = "saddMember", ![w].tm.mark = mark]
      /\ UNCHANGED <<database, members, typeIndex, alltime, redis,
                     now, started, failures>>

HsetMarkNxBug(w) ==
  LET mark == [type |-> work[w].type, domain |-> work[w].domain,
               id |-> minted + 1, exp |-> now + Hours(w)]
  IN  /\ At(w, "hset")
      /\ minted' = minted + 1
      /\ served' = [served EXCEPT ![PairOn(w)] = IF @ = None THEN mark ELSE @]
      /\ work' = [work EXCEPT ![w].pc = "saddMember",
                              ![w].tm = [@ EXCEPT !.mark = mark,
                                                  !.expireAt = mark.exp]]
      /\ UNCHANGED <<database, members, typeIndex, alltime, redis,
                     now, started, failures>>

HsetMark(w) ==
  LET mark == [type |-> work[w].type, domain |-> work[w].domain,
               id |-> minted + 1, exp |-> now + Hours(w)]
  IN  /\ At(w, "hset")
      /\ minted' = minted + 1
      /\ served' = [served EXCEPT ![PairOn(w)] = mark]
      /\ work' = [work EXCEPT ![w].pc = "saddMember",
                              ![w].tm = [@ EXCEPT !.mark = mark,
                                                  !.expireAt = mark.exp]]
      /\ UNCHANGED <<database, members, typeIndex, alltime, redis,
                     now, started, failures>>

SaddMember(w) ==
  /\ At(w, "saddMember")
  /\ members' = [members EXCEPT ![work[w].type] = @ \cup {work[w].domain}]
  /\ Goto(w, "saddType")
  /\ UNCHANGED <<database, served, typeIndex, alltime, redis, counters>>

(* The caller goes on once the hash is recorded: the API handlers save the *)
(* row, reissue_alltms turns to its next row without saving.               *)
AfterAddBug(op) == "save"

AfterAdd(op) == IF op = "reissue" THEN "each" ELSE "save"

(* The fourth write is left out. *)
SaddTypeLastBug(w) ==
  /\ At(w, "saddType")
  /\ typeIndex' = typeIndex \cup {work[w].type}
  /\ Goto(w, AfterAdd(work[w].op))
  /\ UNCHANGED <<database, served, members, alltime, redis, counters>>

SaddType(w) ==
  /\ At(w, "saddType")
  /\ typeIndex' = typeIndex \cup {work[w].type}
  /\ Goto(w, "saddAlltime")
  /\ UNCHANGED <<database, served, members, alltime, redis, counters>>

(* Only a first issue is put on record. *)
SaddAlltimeCreateOnlyBug(w) ==
  /\ At(w, "saddAlltime")
  /\ alltime' = IF work[w].op = "create" THEN alltime \cup {work[w].tm.mark}
                                        ELSE alltime
  /\ Goto(w, AfterAdd(work[w].op))
  /\ UNCHANGED <<database, served, members, typeIndex, redis, counters>>

SaddAlltime(w) ==
  /\ At(w, "saddAlltime")
  /\ alltime' = alltime \cup {work[w].tm.mark}
  /\ Goto(w, AfterAdd(work[w].op))
  /\ UNCHANGED <<database, served, members, typeIndex, redis, counters>>

-----------------------------------------------------------------------------
(* POST /trustmarks                                                        *)

(* Reads the type and completes the body from it.  An unknown type (404)   *)
(* or a validity beyond the type's (400) ends the request with no effect.  *)
(* Whether the type is active is not looked at.                            *)
CreateGetType(w, t, d) == \E q \in Asked("create") :
  /\ types[t] # None
  /\ Given(q.validFor, types[t].validFor) <= types[t].validFor
  /\ Accept(w, Job("getExisting", "create", t, d,
                   [active |-> Given(q.active, types[t].active),
                    autorenew |-> Given(q.autorenew, types[t].autorenew),
                    validFor |-> Given(q.validFor, types[t].validFor),
                    claims |-> q.claims, mark |-> None, expireAt |-> None],
                   FALSE, FALSE, None, {}))
  /\ UNCHANGED <<database, store, redis, minted, now, failures>>

(* A row that exists already is answered with 403. *)
CreateGetExisting(w) ==
  /\ At(w, "getExisting")
  /\ IF row[PairOn(w)] # None THEN Finish(w) ELSE Goto(w, "insert")
  /\ UNCHANGED <<database, store, redis, counters>>

(* unique_together (tmt, domain): the loser of a race gets an error. *)
CreateInsertNotUniqueBug(w) ==
  /\ At(w, "insert")
  /\ row' = [row EXCEPT ![PairOn(w)] = work[w].tm]
  /\ Goto(w, "hset")
  /\ UNCHANGED <<types, audit, store, redis, counters>>

CreateInsert(w) ==
  /\ At(w, "insert")
  /\ IF row[PairOn(w)] = None
       THEN /\ row' = [row EXCEPT ![PairOn(w)] = work[w].tm]
            /\ Goto(w, "hset")
       ELSE /\ Finish(w)
            /\ UNCHANGED row
  /\ UNCHANGED <<types, audit, store, redis, counters>>

-----------------------------------------------------------------------------
(* POST /trustmarks/{tmid}/renew and PUT /trustmarks/{tmid}                *)

(* Renewal reads the row; nothing asks whether it is active. *)
RenewGet(w, t, d) ==
  /\ Asked("renew") # {}
  /\ row[<<t, d>>] # None
  /\ Accept(w, Job("hset", "renew", t, d, row[<<t, d>>],
                   row[<<t, d>>].active, FALSE, None, {}))
  /\ UNCHANGED <<database, store, redis, minted, now, failures>>

(* The instance in memory once the fields of the body are applied.  A body *)
(* that leaves additional_claims out means null.                           *)
Updated(tm, q) ==
  [tm EXCEPT !.autorenew = Given(q.autorenew, tm.autorenew),
             !.active = Given(q.active, tm.active),
             !.mark = IF q.active = FALSE THEN None ELSE @,
             !.claims = q.claims]

UpdateGet(w, t, d) == \E q \in Asked("update") :
  LET tm == row[<<t, d>>]
  IN  /\ tm # None
      /\ Accept(w, Job(IF q.claims # tm.claims THEN "hset" ELSE "save",
                       "update", t, d, Updated(tm, q), tm.active,
                       q.active = FALSE, None, {}))
      /\ UNCHANGED <<database, store, redis, minted, now, failures>>

(* Revoking only what was active; revoking in the database only; no log    *)
(* entry after a save.                                                     *)
SaveRevokesActiveOnlyBug(w) ==
  /\ At(w, "save")
  /\ row' = [row EXCEPT ![PairOn(w)] = work[w].tm]
  /\ Goto(w, IF work[w].revoke /\ work[w].wasActive THEN "hsetRevoked" ELSE "log")
  /\ UNCHANGED <<types, audit, store, redis, counters>>

SaveForgetsRedisBug(w) ==
  /\ At(w, "save")
  /\ row' = [row EXCEPT ![PairOn(w)] = work[w].tm]
  /\ Goto(w, "log")
  /\ UNCHANGED <<types, audit, store, redis, counters>>

SaveWithoutLogBug(w) ==
  /\ At(w, "save")
  /\ row' = [row EXCEPT ![PairOn(w)] = work[w].tm]
  /\ IF work[w].revoke THEN Goto(w, "hsetRevoked") ELSE Finish(w)
  /\ UNCHANGED <<types, audit, store, redis, counters>>

(* save() writes every column of the instance in memory. *)
Save(w) ==
  /\ At(w, "save")
  /\ row' = [row EXCEPT ![PairOn(w)] = work[w].tm]
  /\ Goto(w, IF work[w].revoke THEN "hsetRevoked" ELSE "log")
  /\ UNCHANGED <<types, audit, store, redis, counters>>

(* The field is deleted; the member list is left as it was. *)
HdelRevokedBug(w) ==
  /\ At(w, "hsetRevoked")
  /\ served' = [served EXCEPT ![PairOn(w)] = None]
  /\ Goto(w, "srem")
  /\ UNCHANGED <<database, members, typeIndex, alltime, redis, counters>>

HsetRevokedOnlyBug(w) ==
  /\ At(w, "hsetRevoked")
  /\ served' = [served EXCEPT ![PairOn(w)] = Revoked]
  /\ Goto(w, "log")
  /\ UNCHANGED <<database, members, typeIndex, alltime, redis, counters>>

HsetRevoked(w) ==
  /\ At(w, "hsetRevoked")
  /\ served' = [served EXCEPT ![PairOn(w)] = Revoked]
  /\ Goto(w, "srem")
  /\ UNCHANGED <<database, members, typeIndex, alltime, redis, counters>>

SremMember(w) ==
  /\ At(w, "srem")
  /\ members' = [members EXCEPT ![work[w].type] = @ \ {work[w].domain}]
  /\ Goto(w, "log")
  /\ UNCHANGED <<database, served, typeIndex, alltime, redis, counters>>

(* The event the audit log derives from the operation and the diff. *)
Event(w) ==
  CASE work[w].op = "create" -> "trustmark_issued"
    [] work[w].op = "renew"  -> "trustmark_renewed"
    [] work[w].op = "update" ->
         IF work[w].wasActive /\ ~work[w].tm.active THEN "trustmark_revoked"
                                                    ELSE "trustmark_updated"

Log(w) ==
  /\ At(w, "log")
  /\ audit' = audit \cup {[event |-> Event(w), type |-> work[w].type,
                           domain |-> work[w].domain,
                           mark |-> work[w].tm.mark]}
  /\ Finish(w)
  /\ UNCHANGED <<types, row, store, redis, counters>>

-----------------------------------------------------------------------------
(* The management commands reissue_alltms and reload_issued_tms.  Each     *)
(* fetches every row once and then works from that snapshot.               *)

Snapshot == {i \in [type : Type, domain : Domain, tm : {row[p] : p \in Pair}] :
               row[<<i.type, i.domain>>] # None /\ i.tm = row[<<i.type, i.domain>>]}

CommandStart(w, op) ==
  /\ Asked(op) # {}
  /\ Accept(w, Job("each", op, None, None, None, FALSE, FALSE, None, Snapshot))
  /\ UNCHANGED <<database, store, redis, minted, now, failures>>

(* The next row, if active, is signed and published anew. *)
ReissueJob(job, i) ==
  IF i.tm.active
    THEN Job("hset", "reissue", i.type, i.domain, i.tm, TRUE, FALSE, None,
             job.todo \ {i})
    ELSE [job EXCEPT !.todo = @ \ {i}]

ReissueNext(w) == \E i \in work[w].todo :
  /\ At(w, "each") /\ work[w].op = "reissue"
  /\ work' = [work EXCEPT ![w] = ReissueJob(@, i)]
  /\ UNCHANGED <<database, store, redis, counters>>

(* The mark itself is put back too, from a snapshot that may be stale. *)
ReloadNextPublishesBug(w) == \E i \in work[w].todo :
  /\ At(w, "each") /\ work[w].op = "reload"
  /\ alltime' = IF i.tm.active /\ i.tm.mark # None
                  THEN alltime \cup {i.tm.mark} ELSE alltime
  /\ served' = IF i.tm.active /\ i.tm.mark # None
                 THEN [served EXCEPT ![<<i.type, i.domain>>] = i.tm.mark]
                 ELSE served
  /\ work' = [work EXCEPT ![w].todo = @ \ {i}]
  /\ UNCHANGED <<database, members, typeIndex, redis, counters>>

(* The hash of the next row's mark, if the row is active and has one. *)
ReloadNext(w) == \E i \in work[w].todo :
  /\ At(w, "each") /\ work[w].op = "reload"
  /\ alltime' = IF i.tm.active /\ i.tm.mark # None
                  THEN alltime \cup {i.tm.mark} ELSE alltime
  /\ work' = [work EXCEPT ![w].todo = @ \ {i}]
  /\ UNCHANGED <<database, served, members, typeIndex, redis, counters>>

CommandEndEarlyBug(w) ==
  /\ At(w, "each")
  /\ redis' = IF work[w].op = "reload" /\ redis = "lost" THEN "reloaded"
                                                         ELSE redis
  /\ Finish(w)
  /\ UNCHANGED <<database, store, counters>>

CommandEnd(w) ==
  /\ At(w, "each") /\ work[w].todo = {}
  /\ redis' = IF work[w].op = "reload" /\ redis = "lost" THEN "reloaded"
                                                         ELSE redis
  /\ Finish(w)
  /\ UNCHANGED <<database, store, counters>>

-----------------------------------------------------------------------------
(* POST /trustmarktypes and PUT /trustmarktypes/{tmtid}                    *)

(* get_or_create under the unique tmtype; an existing type is answered     *)
(* with 403 or an error and changes nothing.                               *)
CreateType(w, t) == \E q \in Asked("createType") :
  LET new == [active |-> q.active, autorenew |-> q.autorenew,
              validFor |-> q.validFor]
  IN  /\ types[t] = None
      /\ types' = [types EXCEPT ![t] = new]
      /\ Accept(w, Job("logType", "createType", t, None, None, TRUE, FALSE,
                       new, {}))
      /\ UNCHANGED <<row, audit, store, redis, minted, now, failures>>

(* A body that gives no field at all neither saves nor logs; one with None *)
(* in all three fields here gives the renewal time alone.                  *)
UpdateTypeGet(w, t) == \E q \in Asked("updateType") :
  /\ types[t] # None
  /\ Accept(w, Job("saveType", "updateType", t, None, None, types[t].active,
                   FALSE,
                   [active |-> Given(q.active, types[t].active),
                    autorenew |-> Given(q.autorenew, types[t].autorenew),
                    validFor |-> Given(q.validFor, types[t].validFor)], {}))
  /\ UNCHANGED <<database, store, redis, minted, now, failures>>

SaveType(w) ==
  /\ At(w, "saveType")
  /\ types' = [types EXCEPT ![work[w].type] = work[w].tmt]
  /\ Goto(w, "logType")
  /\ UNCHANGED <<row, audit, store, redis, counters>>

TypeEventBug(w) ==
  IF work[w].op = "createType" THEN "trustmarktype_created"
                               ELSE "trustmarktype_updated"

TypeEvent(w) ==
  CASE work[w].op = "createType" -> "trustmarktype_created"
    [] work[w].op = "updateType" ->
         IF work[w].wasActive /\ ~work[w].tmt.active
           THEN "trustmarktype_deactivated" ELSE "trustmarktype_updated"

LogType(w) ==
  /\ At(w, "logType")
  /\ audit' = audit \cup {[event |-> TypeEvent(w), type |-> work[w].type,
                           domain |-> None, mark |-> None]}
  /\ Finish(w)
  /\ UNCHANGED <<types, row, store, redis, counters>>

-----------------------------------------------------------------------------
(* The environment                                                         *)

(* A statement or a command fails, or the worker dies: the request ends    *)
(* there, and what it has written stays written.                           *)
Fail(w) ==
  /\ ~At(w, "idle")
  /\ failures < MaxFailures
  /\ failures' = failures + 1
  /\ Finish(w)
  /\ UNCHANGED <<database, store, redis, minted, now, started>>

Tick ==
  /\ now < MaxTime
  /\ now' = now + 1
  /\ UNCHANGED <<database, store, redis, work, minted, started, failures>>

(* Redis comes back empty.  Once, and not while a reload is running.       *)
RedisLoss ==
  /\ redis = "intact"
  /\ \A w \in Worker : work[w].op # "reload"
  /\ redis' = "lost"
  /\ served' = [p \in Pair |-> None]
  /\ members' = [t \in Type |-> {}]
  /\ typeIndex' = {}
  /\ alltime' = {}
  /\ UNCHANGED <<database, work, counters>>

(* The bounded environment has no more requests to make. *)
Rest ==
  /\ started = MaxRequests /\ AllIdle /\ now = MaxTime
  /\ UNCHANGED vars

-----------------------------------------------------------------------------

(* A worker accepts a request; this may or may not happen. *)
Arrive(w) ==
  \/ \E t \in Type, d \in Domain :
       CreateGetType(w, t, d) \/ RenewGet(w, t, d) \/ UpdateGet(w, t, d)
  \/ \E op \in {"reissue", "reload"} : CommandStart(w, op)
  \/ \E t \in Type : CreateType(w, t) \/ UpdateTypeGet(w, t)

(* A worker goes on with its request. *)
Step(w) ==
  \/ CreateGetExisting(w) \/ CreateInsert(w)
  \/ HsetMark(w) \/ SaddMember(w) \/ SaddType(w) \/ SaddAlltime(w)
  \/ Save(w) \/ HsetRevoked(w) \/ SremMember(w) \/ Log(w)
  \/ ReissueNext(w) \/ ReloadNext(w) \/ CommandEnd(w)
  \/ SaveType(w) \/ LogType(w)

Next ==
  \/ \E w \in Worker : Arrive(w) \/ Step(w) \/ Fail(w)
  \/ Tick
  \/ Rest

Spec == Init /\ [][Next]_vars

(* A worker that has accepted a request runs it to its end. *)
FairSpec == Spec /\ \A w \in Worker : WF_vars(Step(w))

(* The same system when Redis may lose its data. *)
LossySpec == Init /\ [][Next \/ RedisLoss]_vars

(***************************************************************************)
(* POST /trust_mark_status, and the same decision in /resolve.  A field    *)
(* that is missing from inmor:tm:{sub} is a 500.                           *)
(***************************************************************************)
Status(m) ==
  CASE m \notin alltime -> "not_found"
    [] m \in alltime /\ m.exp <= now -> "expired"
    [] m \in alltime /\ m.exp > now /\ served[PairOf(m)] = None -> "error"
    [] m \in alltime /\ m.exp > now /\ served[PairOf(m)] = Revoked -> "revoked"
    [] m \in alltime /\ m.exp > now /\ IsMark(served[PairOf(m)]) -> "active"

(* GET /trust_mark answers with the field as it is, None standing for 404, *)
(* and GET /trust_mark_list with the members.                              *)
TrustMarkQuery(p) == served[p]

TrustMarkList(t) == members[t]

-----------------------------------------------------------------------------
(* Properties                                                              *)

AuditEntry ==
  [event : {"trustmark_issued", "trustmark_renewed", "trustmark_revoked",
            "trustmark_updated", "trustmarktype_created",
            "trustmarktype_deactivated", "trustmarktype_updated"},
   type : Type, domain : Domain \cup {None}, mark : Mark \cup {None}]

JobRecord ==
  [pc : PC, op : Op \cup {None}, type : Type \cup {None},
   domain : Domain \cup {None}, tm : Row \cup {None}, wasActive : BOOLEAN,
   revoke : BOOLEAN, tmt : TypeRow \cup {None}, todo : SUBSET Item]

(* What a worker holds at each program counter. *)
Holding(job) ==
  /\ job.pc \in MarkPC
       => /\ job.type \in Type /\ job.domain \in Domain /\ job.tm \in Row
          /\ job.op \in {"create", "renew", "update", "reissue"}
  /\ job.pc \in {"save", "hsetRevoked", "srem", "log"} => job.op # "reissue"
  /\ job.pc \in AddPC => job.tm.mark \in Mark
  /\ job.pc = "each" => job.op \in {"reissue", "reload"}
  /\ job.pc \in {"saveType", "logType"}
       => /\ job.type \in Type /\ job.tmt \in TypeRow
          /\ job.op \in {"createType", "updateType"}

(* Type invariant: rows, Redis values and in-flight requests have the      *)
(* shape the models and add_trustmark give them.                           *)
TypeOK ==
  /\ types \in [Type -> TypeRow \cup {None}]
  /\ row \in [Pair -> Row \cup {None}]
  /\ audit \subseteq AuditEntry
  /\ served \in [Pair -> Mark \cup {None, Revoked}]
  /\ members \in [Type -> SUBSET Domain]
  /\ typeIndex \subseteq Type
  /\ alltime \subseteq Mark
  /\ redis \in {"intact", "lost", "reloaded"}
  /\ work \in [Worker -> JobRecord]
  /\ \A w \in Worker : Holding(work[w])
  /\ minted \in Nat /\ now \in Nat /\ started \in Nat /\ failures \in Nat

(* A mark whose hash is in inmor:tm:alltime always has a field in          *)
(* inmor:tm:{sub} to be judged by, at whatever point other requests stand  *)
(* or have died: /trust_mark_status never answers 500 for it.              *)
KnownMarkHasEntry == \A m \in alltime : served[PairOf(m)] # None

(* A mark an admin can read in the database, and hand out, is one that     *)
(* /trust_mark_status knows: no row holds a mark whose hash is missing.    *)
StoredMarkKnown ==
  \A p \in Pair : row[p] # None /\ row[p].mark # None => row[p].mark \in alltime

(* The expiry date the API reports for a row is that of the mark it        *)
(* reports, whatever concurrent save() wrote the row last.                 *)
ExpiryMatchesMark ==
  \A p \in Pair : row[p] # None /\ row[p].mark # None
                    => row[p].expireAt = row[p].mark.exp

(* What the three invariants above rest on, for a request in flight: a     *)
(* mark being published already has its field in Redis, and a mark held in *)
(* memory that may yet be saved or reloaded is on record.                  *)
JobLedger(job) ==
  /\ job.pc \in AddPC => /\ PairOf(job.tm.mark) = <<job.type, job.domain>>
                         /\ served[<<job.type, job.domain>>] # None
  /\ job.pc \in {"getExisting", "insert"} => job.tm.mark = None
  /\ job.pc = "save" /\ job.tm.mark # None => job.tm.mark \in alltime
  /\ job.pc \in AddPC \cup {"save"} /\ job.tm.mark # None
       => job.tm.expireAt = job.tm.mark.exp
  /\ \A i \in job.todo : i.tm.mark # None => i.tm.mark \in alltime

MarkLedger ==
  /\ KnownMarkHasEntry /\ StoredMarkKnown /\ ExpiryMatchesMark
  /\ \A w \in Worker : JobLedger(work[w])

(* Of two concurrent POST /trustmarks for one domain and type, one at most *)
(* gets past the unique constraint and signs a mark.                       *)
OneCreatorPerMark ==
  \A v, w \in Worker :
    (/\ v # w /\ PairOn(v) = PairOn(w)
     /\ work[v].op = "create" /\ work[w].op = "create"
     /\ work[v].pc # "getExisting" /\ work[v].pc # "insert")
    => work[w].pc \in {"getExisting", "insert"}

(* A mark that GET /trust_mark hands out is known to /trust_mark_status,   *)
(* unless add_trustmark is between its first and its fourth command, or    *)
(* died there.                                                             *)
ServedKnownOrInFlight ==
  failures = 0 =>
    \A p \in Pair : IsMark(served[p]) =>
      \/ served[p] \in alltime
      \/ \E w \in Worker : work[w].pc \in AddPC /\ work[w].tm.mark = served[p]

(* Every mark a row holds is in the audit log, or the request that stored  *)
(* it has yet to reach its log entry, or died before it.                   *)
StoredMarkAudited ==
  failures = 0 =>
    \A p \in Pair : row[p] # None /\ row[p].mark # None =>
      \/ \E a \in audit : a.mark = row[p].mark
      \/ \E w \in Worker : /\ work[w].pc \in {"hsetRevoked", "srem", "log"}
                           /\ work[w].tm.mark = row[p].mark

(* What a relying party can tell about a pair: that is all it is promised. *)
Entry == [p \in Pair |-> IF IsMark(served[p]) THEN "live"
                         ELSE IF served[p] = Revoked THEN "revoked" ELSE None]

Registry == INSTANCE MarkRegistry WITH entry <- Entry, known <- alltime

(* The admin and Redis together implement the registry relying parties     *)
(* are promised, in every interleaving and with requests dying anywhere.   *)
RegistrySpec == Registry!Spec

(* With no request on the pair in flight, the member list of the type and  *)
(* inmor:tm agree while Redis keeps its data: listed exactly when a mark   *)
(* is served.                                                              *)
MembersHoldMarks ==
  redis = "intact" => \A p \in Pair : ~Busy(p) => (p[2] \in TrustMarkList(p[1]) <=> IsMark(TrustMarkQuery(p)))

(* Whatever is in flight, while Redis keeps its data the mark a row holds  *)
(* is the one served, an older one than the one served (reissue_alltms     *)
(* does not save), or the pair is revoked.                                 *)
StoredMarkServed ==
  redis = "intact" => \A p \in Pair : row[p] # None /\ row[p].mark # None =>
    \/ served[p] = Revoked
    \/ IsMark(served[p]) /\ row[p].mark.id <= served[p].id

Cleared(p) == row[p] # None /\ row[p].mark = None /\ ~row[p].active

(* A row the API has deactivated and cleared reads "revoked" in Redis as   *)
(* soon as nothing is in flight for it: renewals and revocations may       *)
(* interleave in any way.  The member list does not follow: the SADD of a  *)
(* renewal may come after the SREM of the revocation, so what holds of it  *)
(* is MembersHoldMarks, for requests one at a time.                        *)
ClearedRowIsRevoked ==
  failures = 0 => \A p \in Pair : ~Busy(p) /\ Cleared(p) => served[p] = Revoked

(* Between two signings a revoked verdict is final: no reload, however old *)
(* its snapshot, no re-activation and no late save() undoes it.            *)
RevokedUntilReissued ==
  [][\A m \in alltime : Status(m) = "revoked" =>
       Status(m)' \in {"revoked", "expired"} \/ minted' # minted]_vars

(* After Redis lost its data and reload_issued_tms has run, each active    *)
(* row's mark is on record again.                                          *)
ReloadRestoresRecord ==
  redis = "reloaded" => \A p \in Pair :
    row[p] # None /\ row[p].active /\ row[p].mark # None => row[p].mark \in alltime

(* A deactivated type has an audit log entry that says so, whatever        *)
(* updates of the type interleaved.                                        *)
InactiveTypesAudited ==
  AllIdle /\ failures = 0 =>
    \A t \in Type : types[t] # None /\ ~types[t].active =>
      \E a \in audit : a.type = t /\ a.event = "trustmarktype_deactivated"

(* A revocation that has reached the database reaches Redis, unless a      *)
(* renewal overtakes it.                                                   *)
RevokeTakesEffect ==
  \A p \in Pair : Cleared(p) ~> (served[p] = Revoked \/ ~Cleared(p))

(* A mark that is served becomes known to /trust_mark_status, or is        *)
(* replaced.                                                               *)
ServedMarkBecomesKnown ==
  \A p \in Pair : IsMark(served[p]) ~> (served[p] \in alltime \cup {Revoked})
=============================================================================
