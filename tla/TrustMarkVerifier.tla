-------------------------- MODULE TrustMarkVerifier --------------------------
(***************************************************************************)
(* The trust mark phase of /resolve: which of the trust marks a subject    *)
(* carries are passed on.  The marks are judged one after the other, those *)
(* of the Trust Anchor with Redis, the others with their issuers: an       *)
(* entity configuration, sometimes its keys from elsewhere, the status of  *)
(* the mark.  All of it has one budget of time.  Several requests run at   *)
(* once, and share the cache of remote keys in Redis.                      *)
(*                                                                         *)
(* A tick is the timeout of one HTTP attempt, ten seconds.  Time passes    *)
(* only while a request waits for another server: Redis answers at once.   *)
(* Expiry of what issuers sign anew for each answer is left out.           *)
(*                                                                         *)
(* The Trust Anchor's own marks live in MarkRegistry, the specification    *)
(* that TrustMarks implements.                                             *)
(***************************************************************************)
EXTENDS Naturals, Sequences, FiniteSets, SequencesExt

CONSTANTS
  Request,              \* requests in progress
  Entity, TA,           \* trust mark issuers and owners, the Trust Anchor one
  Subject,              \* the entity being resolved
  Type,                 \* trust mark types
  Key,                  \* signing keys of issuers
  OwnKeys,              \* public_keyset of the Trust Anchor
  Mark,                 \* trust mark JWTs, see MarkRecord
  Federations,          \* what the entities publish, see Federation
  FETCH_MAX_RETRIES,
  MAX_TRUST_MARKS,      \* MAX_TRUST_MARKS_PER_RESOLVE
  BUDGET,               \* TRUST_MARK_VERIFICATION_BUDGET_SECS, in ticks
  TTL,                  \* of a cached key set, in ticks
  MayLapse,             \* bound: marks that may be withdrawn or expire
  None,                 \* no value
  Invalid               \* what does not parse or verify; a failed lookup

Issuer == Entity \ {TA}

(* A delegation: who signed it, to whom, for which type. *)
Delegation == [by : Entity, to : Entity, type : Type]

(* A mark, and the key with whose signature it verifies. *)
MarkRecord ==
  [type : Type, sub : {Subject, None}, iss : Entity, kid : Key \cup OwnKeys,
   delegation : Delegation \cup {None}]

(* An entry of trust_marks. *)
Entry == [type : Type, mark : Mark \cup {Invalid}]

(***************************************************************************)
(* The keys of an issuer go through stages: those published, the one of    *)
(* them that signs, and how long the stage is kept at least.  An issuer    *)
(* may offer its keys inline ("inline"), at a signed_jwks_uri ("signed"),  *)
(* at a jwks_uri ("uri"), and may have a status endpoint.                  *)
(***************************************************************************)
Stage == [keys : SUBSET Key, signer : Key, hold : Nat]

Site == [stages : Seq(Stage) \ {<<>>}, offers : SUBSET {"inline", "signed", "uri"},
         endpoint : BOOLEAN]

Federation(f) ==
  /\ f.requests \subseteq Request
  /\ f.carried \in Seq(Entry)
  /\ f.site \in [Issuer -> Site]
  /\ DOMAIN f.issuers \subseteq Type      \* TA_TRUSTED_TRUSTMARK_ISSUERS
  /\ \A t \in DOMAIN f.issuers : f.issuers[t] \subseteq Entity
  /\ f.owners = Invalid \/ f.owners \in UNION {[D -> Entity] : D \in SUBSET Type}

ASSUME EntityAssumption == TA \in Entity /\ Subject # None
ASSUME NoneAssumption ==
  None \notin Delegation /\ \A keys \in SUBSET Key : keys # Invalid
ASSUME MarkAssumption ==
  Mark \subseteq MarkRecord /\ Invalid \notin Mark /\ MayLapse \subseteq Mark
ASSUME FederationsAssumption == \A f \in Federations : Federation(f)
ASSUME BoundsAssumption ==
  /\ FETCH_MAX_RETRIES \in Nat /\ MAX_TRUST_MARKS \in Nat
  /\ BUDGET \in Nat /\ TTL \in Nat \ {0}

VARIABLES
  fed,       \* what the entities publish, and the settings of the anchor
  active,    \* active trust mark types of the admin
  config,    \* inmor:entity_id: its trust_mark_issuers and trust_mark_owners
  entry,     \* of each pair: inmor:tm:{sub}, as the registry has it
  known,     \* inmor:tm:alltime
  stage,     \* of each issuer's keys
  age,       \* ticks since that stage began, up to Horizon
  withdrawn, \* marks their issuers no longer call active
  expired,   \* marks whose exp has passed
  cache,     \* inmor:jwks_cache:*
  work,      \* the requests
  seen       \* ghost: what a request might have seen since it began

world  == <<fed, active, config, entry, known, stage, age, withdrawn, expired>>
vars   == <<world, cache, work, seen>>

PairOf(m) == <<m.type, m.sub>>
ExpOf(m)  == 1

Registry == INSTANCE MarkRegistry
              WITH Pair <- Type \X {Subject}, Mark <- {m \in Mark : m.iss = TA},
                   now <- 0

Horizon == TTL + BUDGET + 1

SiteStage(i) == fed.site[i].stages[stage[i]]

(***************************************************************************)
(* A request.  memo is its IssuerInfoCache: the keys of an issuer, Invalid *)
(* after a failed lookup.  signer is the key that signed the configuration *)
(* just fetched, fetched the key set to be cached.                         *)
(***************************************************************************)
Blank(pc) ==
  [pc |-> pc, config |-> None, left |-> <<>>, verified |-> {},
   memo |-> [i \in Issuer |-> None], signer |-> None, fetched |-> {},
   tries |-> 0, waited |-> FALSE, elapsed |-> 0, failed |-> {}]

Running(q) == work[q].pc \notin {"idle", "done", "late"}
Fetching(q) == work[q].pc \in {"configuration", "signed", "uri"}
Waiting(q)  == Fetching(q) \/ work[q].pc = "status"

Nothing == [active |-> {}, inactive |-> {}, old |-> {}]

Init ==
  /\ fed \in Federations
  /\ active = {} /\ config = None
  /\ Registry!Init
  /\ stage = [i \in Issuer |-> 1] /\ age = [i \in Issuer |-> Horizon]
  /\ withdrawn = {} /\ expired = {}
  /\ cache = [i \in Issuer |-> None]
  /\ work = [q \in Request |-> Blank("idle")]
  /\ seen = [q \in Request |-> Nothing]

-----------------------------------------------------------------------------
(* Verification without side effects                                       *)

(* from_ta_payload failed, or there is nothing to parse. *)
Unusable(c) == c = None \/ c.owners = Invalid

(***************************************************************************)
(* The gates before any verification: the type is recognised, the mark is  *)
(* the subject's and of the type it is listed under, and, unless an owner  *)
(* is pinned, its issuer is allowed; an empty list allows anyone.          *)
(***************************************************************************)
Recognised(c, e) ==
  /\ e.type \in DOMAIN c.issuers \cup DOMAIN c.owners
  /\ e.mark # Invalid
  /\ e.mark.type = e.type
  /\ e.mark.sub = Subject
  /\ \/ e.type \in DOMAIN c.owners
     \/ c.issuers[e.type] = {}
     \/ e.mark.iss \in c.issuers[e.type]

(* The entries considered at all. *)
Considered == SubSeq(fed.carried, 1, Min({Len(fed.carried), MAX_TRUST_MARKS}))

(* verify_jwt_with_jwks. *)
Verifies(m, keys) == m.kid \in keys /\ m \notin expired

(* Variants named ...Bug are what a plausible mistake would make of the     *)
(* definition that follows them; each is used to show that a property      *)
(* notices it.  Here: any delegation will do.                              *)
DelegatedToAnyoneBug(c, m) ==
  m.type \in DOMAIN c.owners =>
    m.delegation # None \/ m.iss = c.owners[m.type]

(* A pinned owner has issued the mark, or delegated the type to its issuer. *)
Delegated(c, m) ==
  m.type \in DOMAIN c.owners =>
    IF m.delegation = None THEN m.iss = c.owners[m.type]
    ELSE m.delegation = [by |-> c.owners[m.type], to |-> m.iss, type |-> m.type]

(* A mark of an issuer already looked up that will not be asked about. *)
Rejected(r, m) ==
  /\ m.iss # TA /\ r.memo[m.iss] # None
  /\ \/ r.memo[m.iss] = Invalid
     \/ ~Verifies(m, r.memo[m.iss])
     \/ ~Delegated(r.config, m)

-----------------------------------------------------------------------------
(* The steps of a request                                                  *)

Become(q, r) == work' = [work EXCEPT ![q] = r]

Query(r, pc) == [r EXCEPT !.pc = pc, !.tries = 0, !.waited = FALSE]

(* The mark a request is at. *)
Current(r) == Head(r.left).mark

(* On to the next mark that needs an answer from Redis or an issuer. *)
Onward(r) ==
  LET open == {k \in DOMAIN r.left : /\ Recognised(r.config, r.left[k])
                                     /\ ~Rejected(r, r.left[k].mark)}
      next == CHOOSE k \in open : \A j \in open : k <= j
      iss  == r.left[next].mark.iss
      on   == [r EXCEPT !.left = SubSeq(@, next, Len(@)), !.signer = None, !.fetched = {}]
  IN  IF open = {}
        THEN [Blank("done") EXCEPT !.verified = r.verified, !.failed = r.failed]
        ELSE Query(on, IF iss = TA THEN "alltime"
                       ELSE IF r.memo[iss] = None THEN "configuration"
                       ELSE "status")

Accepted(r) ==
  Onward([r EXCEPT !.left = Tail(@), !.verified = @ \cup {Current(r)}])
Dropped(r) == Onward([r EXCEPT !.left = Tail(@)])

(* The issuer of the current mark has failed to answer. *)
Blamed(r) == [r EXCEPT !.failed = @ \cup {Current(r).iss}]

(* The marks after that of a failed issuer are not looked at. *)
UnresolvedReturnsBug(r) ==
  Onward(Blamed([r EXCEPT !.memo[Current(r).iss] = Invalid, !.left = <<@[1]>>]))

(* The issuer's keys are at hand, and its configuration is checked with    *)
(* them; or they could not be had.                                         *)
Resolved(r, keys) ==
  LET i == Current(r).iss
  IN  Onward([r EXCEPT !.memo[i] = IF r.signer \in keys /\ fed.site[i].endpoint
                                     THEN keys ELSE Invalid])
Unresolved(r) == Onward(Blamed([r EXCEPT !.memo[Current(r).iss] = Invalid]))

(* get_jwks_from_uri_cached, up to a fetch. *)
FromUri(r) ==
  LET i == Current(r).iss
  IN  IF "uri" \notin fed.site[i].offers THEN Unresolved(r)
      ELSE IF cache[i] # None THEN Resolved(r, cache[i].keys)
      ELSE Query(r, "uri")

Begin(q) ==
  /\ q \in fed.requests /\ ~Running(q)
  /\ Become(q, Onward([Blank("idle") EXCEPT
                             !.config = config,
                             !.left = IF Unusable(config) THEN <<>> ELSE Considered]))
  /\ UNCHANGED cache

(* A mark of the Trust Anchor: SISMEMBER, then its signature and its       *)
(* delegation.                                                             *)
Sismember(q) ==
  LET r == work[q]  m == Current(r)
  IN  /\ r.pc = "alltime"
      /\ Become(q, IF m \in known /\ Verifies(m, OwnKeys) /\ Delegated(r.config, m)
                     THEN [r EXCEPT !.pc = "field"] ELSE Dropped(r))
      /\ UNCHANGED cache

(* Then HGET, which fails if there is no field. *)
Hget(q) ==
  LET r == work[q]
  IN  /\ r.pc = "field"
      /\ Become(q, IF entry[PairOf(Current(r))] = "live"
                     THEN Accepted(r) ELSE Dropped(r))
      /\ UNCHANGED cache

(* The issuer's configuration, and where it says its keys are. *)
GotConfiguration(q) ==
  LET i == Current(work[q]).iss
      r == [work[q] EXCEPT !.signer = SiteStage(i).signer]
  IN  /\ work[q].pc = "configuration"
      /\ Become(q, IF "inline" \in fed.site[i].offers
                     THEN Resolved(r, SiteStage(i).keys)
                   ELSE IF "signed" \in fed.site[i].offers
                     THEN Query(r, "signed")
                   ELSE FromUri(r))
      /\ UNCHANGED cache

(* The keys at the signed_jwks_uri, signed with one of them. *)
GotSigned(q) ==
  LET keys == SiteStage(Current(work[q]).iss).keys
  IN  /\ work[q].pc = "signed"
      /\ Become(q, Resolved(work[q], keys))
      /\ UNCHANGED cache

GotKeys(q) ==
  /\ work[q].pc = "uri"
  /\ Become(q, [work[q] EXCEPT !.pc = "setex",
                               !.fetched = SiteStage(Current(work[q]).iss).keys])
  /\ UNCHANGED cache

SetEx(q) ==
  LET r == work[q]
  IN  /\ r.pc = "setex"
      /\ cache' = [cache EXCEPT ![Current(r).iss] = [keys |-> r.fetched, age |-> 0]]
      /\ Become(q, Resolved(r, r.fetched))

(* The status of the mark.  An issuer may answer about another mark. *)
GotStatus(q) ==
  LET r == work[q]  m == Current(r)
  IN  /\ r.pc = "status"
      /\ \E x \in {y \in Mark : y.iss = m.iss} :
           Become(q, IF x # m THEN Dropped(Blamed(r))
                     ELSE IF /\ SiteStage(m.iss).signer \in r.memo[m.iss]
                             /\ m \notin withdrawn
                       THEN Accepted(r) ELSE Dropped(r))
      /\ UNCHANGED cache

(* One attempt too many. *)
RetryOnceMoreBug(q) ==
  /\ Fetching(q) /\ work[q].tries <= FETCH_MAX_RETRIES
  /\ Become(q, [work[q] EXCEPT !.tries = @ + 1, !.waited = FALSE])
  /\ UNCHANGED cache

(* A transient failure of a GET. *)
Retry(q) ==
  /\ Fetching(q) /\ work[q].tries < FETCH_MAX_RETRIES
  /\ Become(q, [work[q] EXCEPT !.tries = @ + 1, !.waited = FALSE])
  /\ UNCHANGED cache

(* A permanent failure of a GET, or the last transient one. *)
GiveUp(q) ==
  /\ Fetching(q)
  /\ Become(q, IF work[q].pc = "signed" THEN FromUri(work[q]) ELSE Unresolved(work[q]))
  /\ UNCHANGED cache

(* A failure of the POST, which has one attempt. *)
PostFails(q) ==
  /\ work[q].pc = "status"
  /\ Become(q, Dropped(Blamed(work[q])))
  /\ UNCHANGED cache

(* The whole phase is given up, and no mark is passed on. *)
TimeOut(q) ==
  /\ Running(q) /\ work[q].elapsed = BUDGET
  /\ Become(q, Blank("late"))
  /\ UNCHANGED cache

Go(q) ==
  \/ Sismember(q) \/ Hget(q)
  \/ GotConfiguration(q) \/ GotSigned(q) \/ GotKeys(q) \/ SetEx(q)
  \/ GotStatus(q) \/ Retry(q) \/ GiveUp(q) \/ PostFails(q) \/ TimeOut(q)

-----------------------------------------------------------------------------
(* Meanwhile                                                               *)

(* Only the marks the subject carries matter. *)
Carried == {m \in Mark : \E k \in DOMAIN fed.carried : fed.carried[k].mark = m}

(***************************************************************************)
(* create_server_statement: the settings, and the Trust Anchor for every   *)
(* active type that is not open to anyone.                                 *)
(***************************************************************************)
ServerConfig ==
  LET set(t)  == IF t \in DOMAIN fed.issuers THEN fed.issuers[t] ELSE {}
      open(t) == t \in DOMAIN fed.issuers /\ set(t) = {}
  IN  [issuers |-> [t \in DOMAIN fed.issuers \cup active |->
                      IF t \in active /\ ~open(t) THEN set(t) \cup {TA} ELSE set(t)],
       owners  |-> fed.owners]

Regenerate ==
  /\ config # ServerConfig
  /\ config' = ServerConfig
  /\ UNCHANGED <<fed, active, entry, known, stage, age, withdrawn, expired>>

(* The type of one of the anchor's marks is activated or deactivated. *)
SwitchType(m) ==
  /\ m.iss = TA
  /\ active' = IF m.type \in active THEN active \ {m.type} ELSE active \cup {m.type}
  /\ UNCHANGED <<fed, config, entry, known, stage, age, withdrawn, expired>>

(* The admin publishes, records or revokes a mark of the Trust Anchor. *)
Administer ==
  /\ \E m \in Carried :
       /\ m.iss = TA
       /\ \/ Registry!Publish(PairOf(m))
          \/ Registry!Revoke(PairOf(m))
          \/ m \notin known /\ known' = known \cup {m} /\ Registry!Record
  /\ UNCHANGED <<fed, active, config, stage, age, withdrawn, expired>>

RollOver(i) ==
  /\ stage[i] < Len(fed.site[i].stages) /\ age[i] >= SiteStage(i).hold
  /\ stage' = [stage EXCEPT ![i] = @ + 1]
  /\ age' = [age EXCEPT ![i] = 0]
  /\ UNCHANGED <<fed, active, config, entry, known, withdrawn, expired>>

Withdraw(m) ==
  /\ m.iss # TA /\ m \notin withdrawn
  /\ withdrawn' = withdrawn \cup {m}
  /\ UNCHANGED <<fed, active, config, entry, known, stage, age, expired>>

Expire(m) ==
  /\ m \notin expired
  /\ expired' = expired \cup {m}
  /\ UNCHANGED <<fed, active, config, entry, known, stage, age, withdrawn>>

(* Whoever is asked about the mark would call it active. *)
Active(m) == IF m.iss = TA THEN m \in known /\ entry[PairOf(m)] = "live"
                           ELSE m \notin withdrawn

Observe ==
  LET on   == {m \in Carried : Active(m)}
      old  == expired \cap Carried
      past(q) == IF Running(q) THEN seen[q] ELSE [Nothing EXCEPT !.old = old]
  IN  seen' = [q \in Request |->
                 IF ~Running(q)' THEN Nothing
                 ELSE [past(q) EXCEPT !.active = @ \cup on',
                                      !.inactive = @ \cup (Carried \ on')]]

(* SET in place of SETEX. *)
AgedNeverBug(c) == c

(* What Redis still has of a key set a tick later. *)
Aged(c) == IF c = None \/ c.age + 1 = TTL THEN None ELSE [c EXCEPT !.age = @ + 1]

(* An attempt lasts a tick at most, a request no longer than its budget. *)
Tick ==
  /\ \A q \in Request : Running(q) =>
       Waiting(q) /\ ~work[q].waited /\ work[q].elapsed < BUDGET
  /\ work' = [q \in Request |->
                IF Running(q)
                  THEN [work[q] EXCEPT !.waited = TRUE, !.elapsed = @ + 1]
                  ELSE work[q]]
  /\ age' = [i \in Issuer |-> IF age[i] = Horizon THEN Horizon ELSE age[i] + 1]
  /\ cache' = [i \in Issuer |-> Aged(cache[i])]
  /\ UNCHANGED <<fed, active, config, entry, known, stage, withdrawn, expired>>
  /\ Observe

Environment ==
  \/ Regenerate
  \/ Administer
  \/ \E i \in Issuer : RollOver(i)
  \/ \E m \in Carried : SwitchType(m)
  \/ \E m \in Carried \cap MayLapse : Withdraw(m) \/ Expire(m)

Proceed(q) == (Begin(q) \/ Go(q)) /\ UNCHANGED world /\ Observe

Change == Environment /\ UNCHANGED <<cache, work>> /\ Observe

Next == (\E q \in Request : Proceed(q)) \/ Change \/ Tick

Spec == Init /\ [][Next]_vars

-----------------------------------------------------------------------------
(* Properties                                                              *)

(* Type invariant. *)
TypeOK ==
  /\ fed \in Federations /\ active \subseteq Type
  /\ config = None \/ DOMAIN config.issuers \subseteq Type
  /\ Registry!TypeOK
  /\ \A i \in Issuer : stage[i] \in DOMAIN fed.site[i].stages /\ age[i] \in 0 .. Horizon
  /\ withdrawn \cup expired \subseteq Mark
  /\ cache \in [Issuer -> [keys : SUBSET Key, age : 0 .. TTL - 1] \cup {None}]
  /\ \A q \in Request :
       /\ work[q].pc \in {"idle", "alltime", "field", "configuration", "signed",
                          "uri", "setex", "status", "done", "late"}
       /\ work[q].left \in Seq(Entry) /\ work[q].verified \subseteq Mark
       /\ work[q].memo \in [Issuer -> (SUBSET Key) \cup {None, Invalid}]
       /\ work[q].tries \in 0 .. FETCH_MAX_RETRIES /\ work[q].elapsed \in 0 .. BUDGET
  /\ seen \in [Request -> [active : SUBSET Mark, inactive : SUBSET Mark,
                         old : SUBSET Mark]]

Ends(q, pc) == work'[q] # work[q] /\ work'[q].pc = pc

(* The configuration of the anchor a request goes by. *)
Used(q) == IF Running(q) THEN work[q].config ELSE config

(* Who may issue marks of a type: its owner if there is one, and those it  *)
(* has delegated the type to; else anyone listed, or anyone at all.  No    *)
(* one, as long as it cannot be told who the owners are.                   *)
HasAuthority(c, m) ==
  /\ c # None /\ c.owners # Invalid
  /\ IF m.type \in DOMAIN c.owners
       THEN \/ m.iss = c.owners[m.type] /\ m.delegation = None
            \/ m.delegation = [by |-> c.owners[m.type], to |-> m.iss, type |-> m.type]
       ELSE /\ m.type \in DOMAIN c.issuers
            /\ c.issuers[m.type] = {} \/ m.iss \in c.issuers[m.type]

(* Every mark passed on is the subject's, from an issuer with authority    *)
(* for its type, and has been active and not expired at some moment since  *)
(* the request began: whatever is revoked, rolled over or reconfigured     *)
(* while the marks before it are asked about.                              *)
AnswersQualify ==
  [][\A q \in Request : Ends(q, "done") =>
       \A m \in work'[q].verified :
         /\ m.sub = Subject /\ HasAuthority(Used(q), m)
         /\ m \in seen[q].active \ seen[q].old]_vars

(* Key k has been published by i for n ticks at least. *)
PublishedFor(i, k, n) ==
  LET stages == fed.site[i].stages
  IN  \E s \in 1 .. stage[i] :
        /\ \A u \in s .. stage[i] : k \in stages[u].keys
        /\ s = 1 \/ (IF s = stage[i] THEN age[i] ELSE stages[s].hold) >= n

(* The mark can be verified with the keys its issuer has published for     *)
(* long enough that no copy of what was there before is in use.            *)
Verifiable(m) ==
  IF m.iss = TA THEN m.kid \in OwnKeys
  ELSE /\ fed.site[m.iss].endpoint /\ fed.site[m.iss].offers # {}
       /\ \A k \in {m.kid, SiteStage(m.iss).signer} :
            PublishedFor(m.iss, k, TTL + BUDGET)

(* A mark is left out for a reason of its own: it lacks authority or was   *)
(* not good at some moment of the request, its issuer has failed to answer *)
(* or changed its keys at short notice.  The failures of other issuers,    *)
(* whose marks stand before it, and other requests have no part in it.     *)
FailureIsContained ==
  [][\A q \in Request : Ends(q, "done") =>
       \A e \in ToSet(Considered) :
         LET m == e.mark
         IN  \/ m = Invalid
             \/ m \in work'[q].verified \cup seen[q].inactive \cup expired
             \/ m.sub # Subject \/ m.type # e.type
             \/ ~HasAuthority(Used(q), m)
             \/ m.iss \in work'[q].failed
             \/ ~Verifiable(m)]_vars

(***************************************************************************)
(* An issuer that publishes a key before it signs with it takes care of    *)
(* the keys it signs with until then: each has been published for          *)
(* TTL + BUDGET, and stays so for longer than BUDGET once it is replaced.  *)
(* Of an issuer that replaces its keys all at once nothing is asked.  With *)
(* such issuers FailureIsContained holds of any federation.                *)
(***************************************************************************)
Announced(stages, d) ==
  \E s \in 1 .. d :
    /\ \A w \in s .. d : stages[d].signer \in stages[w].keys
    /\ s = 1 \/ stages[s].hold >= TTL + BUDGET

Retained(stages, d, z) ==
  \A w \in d + 1 .. z :
    \/ stages[d].signer \in stages[w].keys
    \/ \E v \in d + 1 .. w - 1 : stages[v].hold > BUDGET

Prudent(stages) ==
  \A d, z \in DOMAIN stages :
    d < z /\ (\A w \in d .. z : stages[z].signer \in stages[w].keys) =>
      Announced(stages, d) /\ Retained(stages, d, z)

(* The keys in the cache were those of the issuer less than TTL ago, and   *)
(* the keys a request uses less than that before it began, in whatever     *)
(* order requests find the cache empty, fetch and fill it.                 *)
KeysAreRecent ==
  LET recent(i, keys, n) ==
        \E s \in 1 .. stage[i] : /\ keys = fed.site[i].stages[s].keys
                                 /\ s = stage[i] \/ age[i] <= n
  IN  \A i \in Issuer :
        /\ cache[i] # None => recent(i, cache[i].keys, TTL - 1)
        /\ \A q \in Request : work[q].memo[i] \notin {None, Invalid} =>
             recent(i, work[q].memo[i], TTL - 1 + work[q].elapsed)
=============================================================================
