---------------------------- MODULE Subordinates ----------------------------
(***************************************************************************)
(* The life of the subordinates of this Trust Anchor.                      *)
(*                                                                         *)
(* The Django admin keeps a row per subordinate in PostgreSQL and          *)
(* publishes in Redis the statement it signs about it and the entity       *)
(* configuration it fetched from it, from which the Rust Trust Anchor      *)
(* answers /fetch and /list.  Every request fetches the configuration      *)
(* anew, between reading its row and saving it.  Each database statement,  *)
(* Redis command and fetch is one action, for requests and the renewal     *)
(* that cron starts every five minutes overlap.                            *)
(***************************************************************************)
EXTENDS Naturals, FiniteSets

CONSTANTS
  Entity,          \* entity identifiers
  Key,             \* signing keys of entities
  Forced,          \* values of forced_metadata
  Class,           \* kinds of metadata: which of inmor:rp, op, taia it means
  Worker,          \* admin workers and management command processes
  Requests,        \* the requests clients and operators issue, see Request
  Configurations,  \* what each entity may publish, see Configuration
  Federations,     \* what they may publish at first
  None,            \* null, or no such row or field
  MaxRequests,     \* bound: requests accepted in all, renewals by cron apart
  MaxFailures,     \* bound: requests that die half way
  MaxChanges       \* bound: changes of what entities publish

VARIABLES
  row,        \* Subordinate rows
  audit,      \* AuditLogEntry rows of subordinates
  served,     \* Redis: inmor:subordinates, the statements
  listed,     \* Redis: inmor:subordinates:jwt, the configurations
  unread,     \* Redis: keys written here that nothing reads
  fed,        \* what the entities publish
  work,       \* what each worker is doing
  started, failures, changes  \* bounded counters

store    == <<served, listed, unread>>
counters == <<started, failures, changes>>
vars == <<row, audit, served, listed, unread, fed, work,
          started, failures, changes>>

(***************************************************************************)
(* An entity configuration: the key that signed it, its jwks, the kind of  *)
(* its metadata, and what becomes of it once its signature is verified.    *)
(* It is accepted if our TA_DOMAIN is among its authority_hints, and our   *)
(* policy merges with its policy and applies to its metadata.  It raises   *)
(* an exception that nothing handles if what is read of it is not there:   *)
(* metadata is missing, or authority_hints is null.                        *)
(***************************************************************************)
Configuration ==
  [signer : Key, jwks : {None} \cup SUBSET Key, metadata : Class,
   verdict : {"accepted", "refused", "raises"}]

(* A signed subordinate statement.  additional_claims and valid_for go the *)
(* way forced_metadata goes and are left out.                              *)
Statement == [jwks : SUBSET Key, forced : Forced]

Row == [active : BOOLEAN, forced : Forced, metadata : Class \cup {None},
        jwks : SUBSET Key, statement : Statement]

(* A request names an entity, unless it is about all of them, None.  The   *)
(* rest is its body, where it has one; metadata may be empty, None.        *)
Op == {"create", "update", "renew", "readd", "renewAll"}
Request ==
  [op : Op, entity : Entity \cup {None}, jwks : SUBSET Key, forced : Forced,
   metadata : Class \cup {None}, active : BOOLEAN]

Asked(op, e) == {q \in Requests : q.op = op /\ q.entity = e}

ASSUME RequestsAssumption == Requests \subseteq Request
ASSUME ConfigurationsAssumption ==
  /\ Configurations \in [Entity -> SUBSET (Configuration \cup {None})]
  /\ \A f \in Federations : f \in [Entity -> Configuration \cup {None}]
ASSUME SentinelsAssumption ==
  /\ None \notin Row \cup Statement \cup Configuration \cup Class \cup Entity
  /\ \A keys \in SUBSET Key : None # keys
ASSUME BoundsAssumption ==
  MaxRequests \in Nat /\ MaxFailures \in Nat /\ MaxChanges \in Nat

(***************************************************************************)
(* A worker's request: the program counter, the operation, the entity it   *)
(* is about, the Subordinate instance in memory, the row as it was read    *)
(* (the audit log's snapshot_before, None for a new one), the              *)
(* configuration fetched, and the rows a command has still to visit.       *)
(***************************************************************************)
SubPC == {"fetch", "insert", "save", "hset", "hsetJwt", "log"}
PC == SubPC \cup {"idle", "each"}

Item == [entity : Entity, sub : Row]

Job(pc, op, e, sub, before, config, todo) ==
  [pc |-> pc, op |-> op, entity |-> e, sub |-> sub, before |-> before,
   config |-> config, todo |-> todo]

NoWork == Job("idle", None, None, None, None, None, {})

(* renew_subordinates with these rows still to visit. *)
Visiting(todo) == Job("each", "renewAll", None, None, None, None, todo)

Init ==
  /\ row = [e \in Entity |-> None]
  /\ audit = {}
  /\ served = [e \in Entity |-> None]
  /\ listed = [e \in Entity |-> None]
  /\ unread = {}
  /\ fed \in Federations
  /\ work = [w \in Worker |-> NoWork]
  /\ started = 0 /\ failures = 0 /\ changes = 0

(* An idle worker accepts a request. *)
Accept(w, job) ==
  /\ work[w].pc = "idle"
  /\ started < MaxRequests
  /\ started' = started + 1
  /\ work' = [work EXCEPT ![w] = job]

At(w, pc) == work[w].pc = pc
Goto(w, pc) == work' = [work EXCEPT ![w].pc = pc]
Finish(w) == work' = [work EXCEPT ![w] = NoWork]

-----------------------------------------------------------------------------
(* Fetching and signing.                                                   *)

(* fetch_entity_configuration with these keys. *)
Fetches(config, keys) == config # None /\ config.signer \in keys

(* The checks of authority hints and policy come after it. *)
Accepts(config, keys) == Fetches(config, keys) /\ config.verdict = "accepted"
Raises(config, keys)  == Fetches(config, keys) /\ config.verdict = "raises"

(* create_subordinate_statement *)
Sign(keys, forced) == [jwks |-> keys, forced |-> forced]

(* The instance update_subordinate builds from the body. *)
Updated(q) ==
  [active |-> q.active, forced |-> q.forced, metadata |-> q.metadata,
   jwks |-> q.jwks, statement |-> Sign(q.jwks, q.forced)]

(* The instance a renewal saves: the jwks just fetched go to the row, the  *)
(* statement carries those the configuration was verified with.            *)
Renewed(sub, config) ==
  [sub EXCEPT !.metadata = config.metadata,
              !.jwks = IF config.jwks = None THEN @ ELSE config.jwks,
              !.statement = Sign(sub.jwks, sub.forced)]

-----------------------------------------------------------------------------
(* POST /subordinates                                                      *)

(* The configuration is fetched before the database is looked at. *)
Create(w, e) == \E q \in Asked("create", e) :
  /\ Accepts(fed[e], q.jwks)
  /\ Accept(w, Job("insert", "create", e, Updated(q), None, fed[e], {}))
  /\ UNCHANGED <<row, audit, store, fed, failures, changes>>

(* Variants named ...Bug are what a plausible mistake would make of the     *)
(* definition that follows them; each is used to show that a property      *)
(* notices it.  Here: Redis is told before the row is there.               *)
CreatePublishesFirstBug(w) ==
  /\ At(w, "insert")
  /\ served' = [served EXCEPT ![work[w].entity] = work[w].sub.statement]
  /\ IF row[work[w].entity] = None THEN Goto(w, "save") ELSE Finish(w)
  /\ UNCHANGED <<row, audit, listed, unread, fed, counters>>

(* get_or_create under the unique entityid: the lookup is by all columns,  *)
(* so that an existing row always ends in the unique constraint and 403.   *)
CreateInsert(w) ==
  /\ At(w, "insert")
  /\ IF row[work[w].entity] = None
       THEN /\ row' = [row EXCEPT ![work[w].entity] = work[w].sub]
            /\ Goto(w, "hset")
       ELSE /\ Finish(w)
            /\ UNCHANGED row
  /\ UNCHANGED <<audit, store, fed, counters>>

-----------------------------------------------------------------------------
(* POST /subordinates/{subid} and POST /subordinates/{subid}/renew         *)

UpdateGet(w, e) == \E q \in Asked("update", e) :
  /\ row[e] # None
  /\ Accept(w, Job("fetch", "update", e, Updated(q), row[e], None, {}))
  /\ UNCHANGED <<row, audit, store, fed, failures, changes>>

(* Renewal of an inactive row is refused. *)
RenewGet(w, e) ==
  /\ Asked("renew", e) # {}
  /\ row[e] # None /\ row[e].active
  /\ Accept(w, Job("fetch", "renew", e, row[e], row[e], None, {}))
  /\ UNCHANGED <<row, audit, store, fed, failures, changes>>

(* The answer of the entity, verified with the keys of the body, or of the *)
(* row as it was read.  One that is not accepted ends the request, with    *)
(* 400, or with 500 if it raises.                                          *)
Fetch(w) ==
  LET job    == work[w]
      config == fed[job.entity]
  IN  /\ At(w, "fetch")
      /\ IF Accepts(config, job.sub.jwks)
           THEN work' = [work EXCEPT
                  ![w].pc = "save", ![w].config = config,
                  ![w].sub = IF job.op = "renew" THEN Renewed(@, config) ELSE @]
           ELSE Finish(w)
      /\ UNCHANGED <<row, audit, store, fed, counters>>

(* A renewal saves only what it changes. *)
SaveFieldsBug(w) ==
  LET e == work[w].entity
  IN  /\ At(w, "save")
      /\ row' = [row EXCEPT ![e] =
            IF work[w].op = "update" THEN work[w].sub
            ELSE [@ EXCEPT !.metadata = work[w].sub.metadata,
                           !.jwks = work[w].sub.jwks,
                           !.statement = work[w].sub.statement]]
      /\ Goto(w, "hset")
      /\ UNCHANGED <<audit, store, fed, counters>>

(* save() writes every column of the instance in memory. *)
Save(w) ==
  /\ At(w, "save")
  /\ row' = [row EXCEPT ![work[w].entity] = work[w].sub]
  /\ Goto(w, "hset")
  /\ UNCHANGED <<audit, store, fed, counters>>

-----------------------------------------------------------------------------
(* update_redis_with_subordinate, which four callers run.                  *)

(* inmor:rp, inmor:op or inmor:taia, and inmor:subordinates. *)
HsetStatement(w) ==
  LET job == work[w]
  IN  /\ At(w, "hset")
      /\ unread' = unread \cup ({job.sub.metadata} \ {None}) \X {job.entity}
      /\ served' = [served EXCEPT ![job.entity] = job.sub.statement]
      /\ Goto(w, "hsetJwt")
      /\ UNCHANGED <<row, audit, listed, fed, counters>>

(* A renewal writes an audit entry. *)
ProceedBug(w) ==
  work' = [work EXCEPT ![w] =
    IF @.op = "renewAll" THEN Visiting(@.todo) ELSE [@ EXCEPT !.pc = "log"]]

(* A renewal writes no audit entry. *)
Proceed(w) ==
  work' = [work EXCEPT ![w] =
    CASE @.op \in {"create", "update"} -> [@ EXCEPT !.pc = "log"]
      [] @.op = "renewAll"             -> Visiting(@.todo)
      [] @.op = "renew"                -> NoWork]

(* The configuration of a new subordinate is left to its first renewal. *)
HsetJwtNotNewBug(w) ==
  LET job == work[w]
  IN  /\ At(w, "hsetJwt")
      /\ listed' = IF job.op = "create" THEN listed
                   ELSE [listed EXCEPT ![job.entity] = job.config]
      /\ unread' = unread \cup {<<"newsubordinate", job.entity>>}
      /\ Proceed(w)
      /\ UNCHANGED <<row, audit, served, fed, counters>>

(* inmor:subordinates:jwt and inmor:newsubordinate.                        *)
HsetJwt(w) ==
  LET job == work[w]
  IN  /\ At(w, "hsetJwt")
      /\ listed' = [listed EXCEPT ![job.entity] = job.config]
      /\ unread' = unread \cup {<<"newsubordinate", job.entity>>}
      /\ Proceed(w)
      /\ UNCHANGED <<row, audit, served, fed, counters>>

(* The lowest event first. *)
EventLowestFirstBug(before, sub) ==
  IF before = None THEN "registration"
  ELSE IF before.jwks # sub.jwks THEN "jwks_update"
  ELSE IF before.metadata # sub.metadata THEN "metadata_update"
  ELSE IF before.forced # sub.forced THEN "metadata_policy_update"
  ELSE IF before.active /\ ~sub.active THEN "revocation"
  ELSE None

(* The event the audit log derives from the diff, the highest one first. *)
Event(before, sub) ==
  IF before = None THEN "registration"
  ELSE IF before.active /\ ~sub.active THEN "revocation"
  ELSE IF before.forced # sub.forced THEN "metadata_policy_update"
  ELSE IF before.metadata # sub.metadata THEN "metadata_update"
  ELSE IF before.jwks # sub.jwks THEN "jwks_update"
  ELSE None

Log(w) ==
  /\ At(w, "log")
  /\ audit' = audit \cup
       {[event |-> Event(work[w].before, work[w].sub),
         entity |-> work[w].entity, active |-> work[w].sub.active]}
  /\ Finish(w)
  /\ UNCHANGED <<row, store, fed, counters>>

-----------------------------------------------------------------------------
(* Management commands renew_subordinates and readd_subordinates           *)

Snapshot == {i \in [entity : Entity, sub : {row[e] : e \in Entity}] :
               i.sub = row[i.entity] /\ i.sub # None /\ i.sub.active}

(* Cron starts a renewal now and again, whatever else is under way. *)
RenewAllStart(w) ==
  /\ At(w, "idle") /\ Asked("renewAll", None) # {}
  /\ work' = [work EXCEPT ![w] = Visiting(Snapshot)]
  /\ UNCHANGED <<row, audit, store, fed, counters>>

(* A row that fails ends the command. *)
RenewAllNextStopsBug(w) == \E i \in work[w].todo :
  /\ At(w, "each")
  /\ work' = [work EXCEPT ![w] =
       IF Accepts(fed[i.entity], i.sub.jwks)
         THEN Job("save", "renewAll", i.entity, Renewed(i.sub, fed[i.entity]),
                  i.sub, fed[i.entity], @.todo \ {i})
         ELSE NoWork]
  /\ UNCHANGED <<row, audit, store, fed, counters>>

(* The next row of the snapshot, which comes in no particular order.  A    *)
(* fetch that fails or a configuration that is refused leaves it as it is; *)
(* one that raises ends the command, with the rows after it unvisited.     *)
RenewAllNext(w) == \E i \in work[w].todo :
  LET config == fed[i.entity]
      rest   == work[w].todo \ {i}
  IN  /\ At(w, "each")
      /\ \/ /\ Accepts(config, i.sub.jwks)
            /\ work' = [work EXCEPT ![w] =
                 Job("save", "renewAll", i.entity, Renewed(i.sub, config), i.sub,
                     config, rest)]
         \/ /\ Raises(config, i.sub.jwks)
            /\ Finish(w)
         \/ /\ ~Accepts(config, i.sub.jwks) /\ ~Raises(config, i.sub.jwks)
            /\ work' = [work EXCEPT ![w] = Visiting(rest)]
      /\ UNCHANGED <<row, audit, store, fed, counters>>

RenewAllEnd(w) ==
  /\ At(w, "each") /\ work[w].todo = {}
  /\ Finish(w)
  /\ UNCHANGED <<row, audit, store, fed, counters>>

(* readd_subordinates deletes inmor:subordinates, then prints. *)
Readd(w) ==
  /\ Asked("readd", None) # {}
  /\ At(w, "idle") /\ started < MaxRequests /\ started' = started + 1
  /\ served' = [e \in Entity |-> None]
  /\ UNCHANGED <<row, audit, listed, unread, fed, work, failures, changes>>

-----------------------------------------------------------------------------
(* A request dies: an exception, a lost connection, a killed process. *)
Fail(w) ==
  /\ ~At(w, "idle") /\ failures < MaxFailures
  /\ failures' = failures + 1
  /\ Finish(w)
  /\ UNCHANGED <<row, audit, store, fed, started, changes>>

(* A save that fails ends the turn of one row only. *)
RenewAllSaveFails(w) ==
  /\ At(w, "save") /\ work[w].op = "renewAll" /\ failures < MaxFailures
  /\ failures' = failures + 1
  /\ work' = [work EXCEPT ![w] = Visiting(@.todo)]
  /\ UNCHANGED <<row, audit, store, fed, started, changes>>

(* An entity publishes something else, or nothing. *)
Change(e) ==
  /\ changes < MaxChanges
  /\ changes' = changes + 1
  /\ \E c \in Configurations[e] \ {fed[e]} : fed' = [fed EXCEPT ![e] = c]
  /\ UNCHANGED <<row, audit, store, work, started, failures>>

Step(w) ==
  \/ CreateInsert(w) \/ Fetch(w) \/ Save(w)
  \/ HsetStatement(w) \/ HsetJwt(w) \/ Log(w)
  \/ RenewAllNext(w) \/ RenewAllEnd(w)

Next ==
  \/ \E w \in Worker :
       \/ \E e \in Entity : Create(w, e) \/ UpdateGet(w, e) \/ RenewGet(w, e)
       \/ RenewAllStart(w) \/ Readd(w) \/ Step(w)
       \/ Fail(w) \/ RenewAllSaveFails(w)
  \/ \E e \in Entity : Change(e)

Spec == Init /\ [][Next]_vars

(* A worker runs its request to the end, and cron goes on starting         *)
(* renewals.                                                               *)
FairSpec ==
  /\ Spec
  /\ \A w \in Worker : WF_vars(Step(w))
  /\ WF_vars(\E w \in Worker : RenewAllStart(w))

-----------------------------------------------------------------------------
(* What the Trust Anchor answers.                                          *)

(* GET /fetch, None standing for 404; GET /list without filters. *)
FetchSubordinate(e) == served[e]
ListSubordinates == {e \in Entity : listed[e] # None}

-----------------------------------------------------------------------------
(* Properties                                                              *)

AuditEntry ==
  [event : {"registration", "revocation", "metadata_policy_update",
            "metadata_update", "jwks_update", None},
   entity : Entity, active : BOOLEAN]

JobRecord ==
  [pc : PC, op : Op \cup {None}, entity : Entity \cup {None},
   sub : Row \cup {None}, before : Row \cup {None},
   config : Configuration \cup {None}, todo : SUBSET Item]

(* What a worker holds at each program counter. *)
Holding(job) ==
  /\ job.pc \in SubPC => job.entity \in Entity /\ job.sub \in Row
                         /\ job.op \in {"create", "update", "renew", "renewAll"}
  /\ job.pc \in {"insert", "save", "hset", "hsetJwt"} => job.config # None
  /\ job.pc = "log" => job.op \in {"create", "update"}
  /\ job.pc = "each" => job.op = "renewAll"

(* Type invariant: rows, Redis values and requests in flight have the      *)
(* shape the models and the handlers give them.                            *)
TypeOK ==
  /\ row \in [Entity -> Row \cup {None}]
  /\ audit \subseteq AuditEntry
  /\ served \in [Entity -> Statement \cup {None}]
  /\ listed \in [Entity -> Configuration \cup {None}]
  /\ unread \subseteq (Class \cup {"newsubordinate"}) \X Entity
  /\ fed \in [Entity -> Configuration \cup {None}]
  /\ work \in [Worker -> JobRecord]
  /\ \A w \in Worker : Holding(work[w])
  /\ started \in Nat /\ failures \in Nat /\ changes \in Nat

(* The Trust Anchor hands out statements about entities it has registered  *)
(* only, at whatever point a registration stands, has died or was refused. *)
OnlyRegisteredServed == \A e \in Entity : FetchSubordinate(e) # None => row[e] # None

(* The statement of a row says what the row says, whichever of the         *)
(* overlapping saves came last.                                            *)
StatementMatchesRow ==
  \A e \in Entity : row[e] # None => row[e].statement.forced = row[e].forced

(* What can be fetched is listed too, once its request is through.         *)
FetchableIsListed ==
  failures = 0 =>
    \A e \in Entity : FetchSubordinate(e) # None =>
      \/ e \in ListSubordinates
      \/ \E w \in Worker : At(w, "hsetJwt") /\ work[w].entity = e

(* An inactive subordinate has an audit entry that says since when: its    *)
(* registration as inactive or its deactivation, whatever else the same    *)
(* update changed and however updates and renewals overlap.                *)
InactiveAudited ==
  failures = 0 =>
    \A e \in Entity :
      /\ row[e] # None /\ ~row[e].active
      /\ \A w \in Worker : work[w].entity # e
      => \E a \in audit : /\ a.entity = e /\ ~a.active
                          /\ a.event \in {"registration", "revocation"}

(* A subordinate as the next renewal wants it. *)
Renewable(e) ==
  row[e] # None /\ row[e].active /\ Accepts(fed[e], row[e].jwks)

(* What /fetch serves about a subordinate links to its configuration.      *)
Verifiable(e) ==
  /\ FetchSubordinate(e) # None /\ fed[e] # None
  /\ fed[e].signer \in FetchSubordinate(e).jwks

(* A subordinate that ends the renewal of all of them. *)
StopsRenewal(e) ==
  row[e] # None /\ row[e].active /\ Raises(fed[e], row[e].jwks)

(* While a subordinate stays renewable, what /fetch serves comes back to   *)
(* a statement with the key it signs with: after a rollover of keys, after *)
(* a registration or renewal that died before it reached Redis, and after  *)
(* a readd that emptied the hash.  Others that cannot be fetched or are    *)
(* refused do not stop that; one whose configuration raises does, in every *)
(* renewal that visits it first.                                           *)
StatementCatchesUp ==
  \A e \in Entity :
    <>[](Renewable(e) /\ ~\E f \in Entity : StopsRenewal(f)) => []<>Verifiable(e)

(* A renewal is refused for an inactive subordinate. *)
RenewsOnlyActive ==
  [][\A w \in Worker :
       At(w, "save") /\ work[w].op \in {"renew", "renewAll"} /\ work'[w].pc = "hset"
         => row[work[w].entity].active]_vars
=============================================================================
