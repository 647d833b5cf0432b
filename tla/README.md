# Verification of inmor

inmor is a Trust Anchor for OpenID Federation: a Rust server that answers the
federation endpoints from Redis, a Django admin that keeps the anchor's
subordinates and trust marks in PostgreSQL and publishes what it signs in
Redis, and a command line program that walks the federation and collects its
entities. This directory holds TLA+ models of the parts where order,
concurrency and failure matter, the TLC runs that check them, and TLAPS proofs.

Sections: [Inventory](#inventory) · [Modules](#modules) ·
[Trust marks](#trust-marks) · [Collection](#collection) ·
[Resolver](#resolver) · [Trust mark verification](#trust-mark-verification) ·
[Subordinates](#subordinates) · [Runs](#runs) ·
[Proofs](#proofs) · [Observed divergences](#observed-divergences) ·
[Not modelled](#not-modelled) · [Plan](#plan)

## Inventory

| Component | Where | State | Operations |
|---|---|---|---|
| Trust mark registry | `admin/inmoradmin/api.py`, `admin/trustmarks/` | rows `TrustMarkType`, `TrustMark`; Redis `inmor:tm:{domain}`, `inmor:tmtype:{type}`, `inmor:tmtypes`, `inmor:tm:alltime` | create/update type; create/renew/update mark; `reissue_alltms`, `reload_issued_tms`; `/trust_mark_status`, `/trust_mark`, `/trust_mark_list` |
| Collection walk | `src/tree.rs`, `get_collection_entities` and `fetch_collections` in `src/lib.rs` | Redis `inmor:collection:*` live and staging; the visited set of a walk | a walk, the swap, `/collection` |
| Trust chain resolver | `resolve_entity_to_trustanchor` in `src/lib.rs` | visited set, depth, fetch budget of one request | `/resolve` |
| Subordinate registry | `admin/inmoradmin/api.py`, `admin/entities/` | rows `Subordinate`; Redis `inmor:subordinates`, `inmor:subordinates:jwt` | create/update/renew; `renew_subordinates`, `readd_subordinates`; `/fetch`, `/list` |
| Outbound fetch | `get_query`, `try_one_fetch` | attempts, backoff | one fetch with retries |
| JWKS cache | `get_jwks_from_payload_or_uri` | Redis `inmor:jwks_cache:*` with a time to live | lookup, fetch, fill |
| Trust mark verification | `verify_trust_marks_for_resolve` and helpers | the request's memo of issuers, its budget of time | part of `/resolve` |
| Metadata policy fold | `resolve_entity` | merged policy | fold over a chain |
| Server entity configuration | `create_server_statement` in `admin/entities/lib.py` | Redis `inmor:entity_id` | regenerate |
| Audit log | `admin/auditlog/` | `AuditLogEntry` rows | one entry per change |
| API keys | `admin/apikeys/` | key rows | create, revoke, verify |
| Others | historical keys, health pages, validation, signature verification, admin site, settings | | |

Components meet in Redis. The admin writes, the Trust Anchor reads, and
neither holds a lock: no MULTI, no Lua, no database transaction around a
request (`ATOMIC_REQUESTS` is not set). The admin runs several gunicorn
workers, management commands are further processes, and the collection walk is
started by cron every five minutes whether or not the previous walk has ended.

What is hard in each, and what makes it correct:

* *Trust mark registry.* One issue is four Redis commands and two database
  statements, each of which may interleave with, or be lost to, another
  request. A mark that relying parties can be told about must be judgeable, a
  mark the admin reports must be on record, and a revoked verdict must stand.
* *Collection walk.* Staging keys are shared by all walks, the swap is a
  pipeline and not a transaction, RENAME skips missing keys, and lists may
  loop. What is published must be the federation, with indexes that agree.
* *Resolver.* A depth-first search with a visited set shared by all branches,
  two kinds of failure (transient, permanent) and constraints that depend on
  the path, in a federation whose keys may roll over meanwhile. A chain it
  returns must be a chain that others can verify; a transient failure must not
  be reported as a final verdict.
* *Subordinate registry.* The same two-store problem as trust marks, with an
  `active` flag that the readers do not see.
* *Trust mark verification.* Marks are judged in turn while the registry, the
  settings, the issuers and their keys change; retries run against one budget;
  requests share a cache that outlives a rollover. A mark passed on must come
  from someone with authority and have been active during the request; a mark
  left out must not pay for another's issuer.
* *Policy fold.* The policies of a chain and what is forced upon the subject
  arrive in an order that must not matter, or must.

`PROJECT.json` lists every component with its status, and every hazard at its
line with the properties that cover it.

## Modules

| Module | Content |
|---|---|
| `MarkRegistry` | abstract specification: what relying parties are promised about trust marks |
| `TrustMarks` | the admin API, the commands and the Redis keys of trust marks |
| `TrustMarksProofs` | theorems about `TrustMarks`: its types, its ledger, the refinement of `MarkRegistry` |
| `TrustMarksRaceProofs` | theorems about what overlapping requests for trust marks cannot do to each other |
| `TrustMarksOutcomeProofs` | theorems about what the requests for trust marks leave behind, some for one worker or for some kinds of request only |
| `MCTrustMarks` | small instances of `TrustMarks` |
| `Collection` | collection walks, their swap, and `/collection` |
| `CollectionProofs` | theorems about `Collection`: types, indexes, answers |
| `CollectionContentProofs` | the theorem about what a walk publishes |
| `MCCollection` | small federations for `Collection` |
| `ChainResolver` | one request to `/resolve`: the search for a trust chain, and the metadata policies of it |
| `ChainResolverProofs` | theorems about `ChainResolver` |
| `MCChainResolver` | small federations for `ChainResolver` |
| `TrustMarkVerifier` | requests to `/resolve` that verify the trust marks of a subject, and the cache of remote keys |
| `TrustMarkVerifierProofs` | theorems about `TrustMarkVerifier` |
| `MCTrustMarkVerifier` | small federations of issuers and owners for `TrustMarkVerifier` |
| `Subordinates` | the admin API, the commands and the Redis keys of subordinates |
| `SubordinatesProofs` | theorems about `Subordinates` |
| `MCSubordinates` | small instances of `Subordinates` |

In every module one action is one step that other processes can see: a database
statement, a Redis command, a request to another server. Local computation is
part of the step that follows or precedes it. Definitions named `...Bug` are
deliberate mistakes: each property is checked to fail on one of them.

## Trust marks

`TrustMarks` keeps a row per (type, domain) in `row`, types in `types`, audit
entries in `audit`; `served`, `members`, `typeIndex` and `alltime` are the
Redis keys. A worker's request is a record `work[w]` with a program counter,
the model instance it holds in memory (Django's `save()` writes all of it) and,
for the commands, the rows of their snapshot still to be visited.

| Code | Actions |
|---|---|
| `add_trustmark` (four Redis commands) | `HsetMark`, `SaddMember`, `SaddType`, `SaddAlltime` |
| `create_trust_mark` | `CreateGetType`, `CreateGetExisting`, `CreateInsert`, the four above, `Save`, `Log` |
| `renew_trustmark` | `RenewGet`, the four, `Save`, `Log` |
| `update_trustmark` | `UpdateGet`, the four if the claims change, `Save`, `HsetRevoked` and `SremMember` on deactivation, `Log` |
| `create_trust_mark_type`, `update_trust_mark_type` | `CreateType`, `UpdateTypeGet`, `SaveType`, `LogType` |
| `reissue_alltms`, `reload_issued_tms` | `CommandStart`, `ReissueNext`, `ReloadNext`, `CommandEnd` |
| exception or death at any point | `Fail` |
| Redis restarted empty | `RedisLoss` (only in `LossySpec`) |

Abstracted: a mark is a record with a serial number in place of the JWT (two
JWTs never have the same bytes, `iat` is fractional); times are whole hours;
`renewal_time` is stored and read by nothing. `/trust_mark_status` reads two
keys and is modelled as one read: `alltime` only grows, so its verdict is that
of the second read.

`MarkRegistry` promises: a pair's entry is absent, live or revoked; a mark is
on record only if its pair has an entry; entries never disappear and the record
only grows; only a publication makes an entry live. `TrustMarks` implements it
with `entry` mapped to what `inmor:tm` holds and `known` to `inmor:tm:alltime`,
with requests dying anywhere, as long as Redis keeps its data.

Fairness (`FairSpec`): a worker that has accepted a request goes on with it
(weak fairness of `Step(w)`); arrivals, failures and the clock have none. A
gunicorn worker runs its request synchronously, with timeouts far above the
time of a few statements.

## Collection

`Collection` keeps the staging and live keys as two stores, a walk as a record
`walk[w]` whose `stack` is the recursion of `collection_tree_walking` (the
subordinates still to visit at each depth, innermost first), and the request to
`/collection` in progress. The federation `fed` says what each entity
publishes; it may change between any two steps.

| Code | Actions |
|---|---|
| `run_collection_walk`, start | `StartWalk` (DEL of staging) |
| `collection_tree_walking` | `Enter`, `HsetEntity`, `SaddType`, `ZaddSorted`, `FetchList`; `Onward` is its loop and return |
| swap pipeline | `DelLive`, `RenameKey` for each key, `SetUpdated` |
| `fetch_collections`, `get_collection_entities` | `StartRead`, `ReadIds`, `ReadEntity`, `ReadUpdated` |
| environment | `Change`, `Die` |

A missing Redis key is the empty set, since Redis has no empty collections; so
RENAME of an empty key does nothing, which is what leaves room for stale
indexes. The types of an entity are a set, written one after the other in any
order, as each goes to a key of its own. `inmor:entities`, `inmor:subordinate_query` and `inmor:rp|op|taia` are
written by a walk and read by nobody: `caches` keeps them, written in the same
action as the neighbouring request. A walk does not die inside its swap: the
pipeline is one write of a few hundred bytes, and Redis runs what it has
received. Individual Redis commands of a walk do not fail. The two ghost
fields `alone` and `steady` (no other walk since, no change since) and the
variable `clean` only serve to state the properties.

Fairness: a walk that runs is scheduled (weak fairness of `Walk(w)`).

## Resolver

`ChainResolver` is one request to `/resolve`. `fed` says what the entities
publish, one version after another; `version` is that of the moment, and may
advance between any two steps (`Change`). The recursion of `resolve_entity_to_trustanchor` is `stack`, the
innermost frame first; a frame holds the entity it is about, the authority
hints still to be tried, the authority whose turn it is, and the versions of
what was fetched. `visited` is the
set all frames share, `attempt` the retries of the fetch in progress, `late`
whether the deadline has passed.

| Code | Definitions |
|---|---|
| `get_entity_configruation_as_jwt(sub)`, `self_verify_jwt` | `GotSubject` |
| the same for an authority hint, and its fetch endpoint | `GotAuthority` |
| `fetch_subordinate_statement`, its verification, `check_subject`, the descent | `GotStatement`, `Binds`, `Admits`, `FoundChain` |
| the loop over the hints, `return Ok(vec![])`, `r_result.is_empty()` | `Continue` |
| `check_chain_fetch_budget` | `Fetch`, `DeadlinePasses` |
| `get_query`: permanent and transient failures, retries | `FailPermanently`, `FailForNow` |
| the fold of the policies in `resolve_entity` | `Merge`, `Merged`, `Resolve` |
| the answer of `resolve_entity` | `NoChain`, `Unavailable`, `PolicyError`, `Chain` |
| environment | `Change` |

Abstracted: a configuration or a statement names the key it is signed with, and
verifies with a key set that has it. Whether the name and type constraints
admit the subject of the request is a fact of the statement, as it depends on
nothing else; `max_path_length` is computed, since it depends on the path. What
`Change` does to the federation, at which steps, is left to the versions.
`ChainIsSound`, `MetadataObeysEveryPolicy` and `OrderlyChainVerifies` speak of
the statements as they were fetched; the properties that compare the verdict
with what exists (`VerdictIsFinal`, `AlternativesAreTried`) suppose that nothing
changes. `OrderlyChainVerifies` says which rollovers leave a chain that verifies
(`OrderlyRollovers`): an entity signs with one key at a time, and a superior
that lists a new key of it still lists those before. Backoff and `Retry-After` take time and nothing else. A `jwks_uri` is never
fetched here: an authority whose configuration has only that fails
`self_verify_jwt` before. Metadata is one parameter; a `metadata_policy` is the
set of values it permits, merging two is their intersection, and an empty one
is the error of the external crate. The order in which policies are merged,
statements without one, the metadata forced by the last statement of the chain
and not by others, and the three errors are those of the code. In the code one
option stands for "no policy yet" and, before the subject's own configuration,
is never empty; hence `Resolve` starts from the policy that permits everything.

Fairness (`FairSpec`): weak fairness of `Search`, for every fetch is answered
or fails within the timeout of the HTTP client. As `Search` is enabled until the
request is answered, it is spelled out as `[]<>(pc = "done") \/ []<><<Search>>_vars`,
which spares TLC the evaluation of ENABLED. None for the deadline or a change.

## Trust mark verification

`TrustMarkVerifier` is the phase of `/resolve` after there is a chain. Several
requests `work[q]` run at once and share `cache`, the remote key sets in Redis.
Around them live what the Trust Anchor serves about its own marks (`entry`,
`known`: `MarkRegistry`, the specification `TrustMarks` is proved to
implement, so that the two models compose), its configuration `config`, which
lags behind the settings and the `active` types until it is regenerated, and
the issuers: their keys go through the stages of a rollover, their marks are
withdrawn and expire.

| Code | Definitions |
|---|---|
| `verify_trust_marks_for_resolve`, the gates before any verification | `Begin`, `Recognised`, `Considered` |
| its loop, `verify_single_trust_mark`, the memo of issuers | `Onward`, `Rejected`, `Accepted`, `Dropped` |
| `verify_ta_issued_trust_mark` | `Sismember`, `Hget` |
| `delegation_gate_for_ta_issued`, `verify_delegation_against_owner` | `Delegated` |
| `resolve_external_issuer` | `GotConfiguration`, `Resolved`, `Unresolved` |
| `get_jwks_from_payload_or_uri`, `fetch_signed_jwks_from_uri` | `GotConfiguration`, `GotSigned`, `FromUri` |
| `get_jwks_from_uri_cached` | `FromUri`, `GotKeys`, `SetEx`, `Aged` |
| the status request | `GotStatus`, `PostFails` |
| `get_query` | `Retry`, `GiveUp` |
| `tokio::time::timeout` around the phase | `TimeOut`, `Tick` |
| `create_server_statement`, `regenerate_entity` | `ServerConfig`, `Regenerate` |
| the admin, one Redis command at a time | `Administer`, `SwitchType` |
| issuers | `RollOver`, `Withdraw`, `Expire` |

Time: a tick is the ten seconds after which the HTTP client gives up an
attempt. It passes only while every running request waits for another server,
once for each attempt at most; `BUDGET` and `TTL` are counted in ticks. An
attempt may also end at once, so an attempt takes anything up to a tick.

Abstracted: a mark, a delegation and a status answer are records of what is
read of them; a mark verifies if the key it was signed with is in the key set
and it has not expired. `seen` and `failed` only serve to state the properties:
what was active or not at some moment of the request, and which issuers failed
it. Rejections that need no answer (`Rejected`, the gates) are part of the step
before. Individual Redis commands of a request do not fail.

`FailureIsContained` says under which conditions a mark gets through, and with
them what an issuer behind a `jwks_uri` has to do at a rollover: publish a key
for the time to live of the cache and one budget before anything is signed with
it, and keep the old one for longer than a budget after it last signed
(`Prepared` in `MCTrustMarkVerifier`; `Sudden` does neither, and its marks fail
until the cached key set expires). `Prudent` says so of any stages, and TLC
evaluates it for the federations of the run.

No fairness is assumed and no liveness is stated: that the phase ends is
`TimeOut`, a guard of the clock.

## Subordinates

`Subordinates` keeps the `Subordinate` rows in `row`, their audit entries in
`audit`, and the Redis hashes `inmor:subordinates` (`served`, from which
`/fetch` answers) and `inmor:subordinates:jwt` (`listed`, from which `/list`
does). `fed` is what the entities publish at
`/.well-known/openid-federation`; it may change between any two steps. A
worker's request `work[w]` holds the model instance in memory, the row as it was
read, the configuration fetched, and for the renewal by cron the rows of its
snapshot still to be visited.

| Code | Actions |
|---|---|
| `create_subordinate` | `Create` (the fetch comes before the database), `CreateInsert`, then the two below, `Log` |
| `update_subordinate` | `UpdateGet`, `Fetch`, `Save`, the two below, `Log` |
| `renew_subordinate` | `RenewGet`, `Fetch`, `Save`, the two below |
| `update_redis_with_subordinate` | `HsetStatement`, `HsetJwt` |
| `_derive_subordinate_event_type` | `Event` |
| `renew_subordinates` | `RenewAllStart`, `RenewAllNext`, `Save` or `RenewAllSaveFails`, the two above, `RenewAllEnd` |
| `readd_subordinates` | `Readd` |
| environment | `Change`, `Fail` |

Abstracted: a configuration is the key that signed it, its `jwks`, the kind of
its metadata, and its verdict once the signature is verified: accepted, refused
by a check on authority hints or policy, or raising an exception that nothing
handles (`metadata` missing, `authority_hints` null). The last two end a request
to the API alike (400 and 500), but in `renew_subordinates` a refusal goes on
with the next row and an exception ends the command. A statement is the keys and the forced metadata it carries. `additional_claims`
and `valid_for` go the way `forced_metadata` goes and are left out, as is the
expiry of statements, on which nothing here depends. `inmor:rp|op|taia` and
`inmor:newsubordinate` are read by nothing: `unread` keeps them, written in the
action of the command that follows or precedes them. Statements have no serial
number, so a renewal that changes nothing leads back to the same state, and
renewals by cron need no bound.

Fairness (`FairSpec`): a worker goes on with what it has accepted (weak
fairness of `Step(w)`; the HTTP client has a timeout), and the renewal goes on
being started (weak fairness of `RenewAllStart`), as `docs/deployment.rst:504`
has cron do every five minutes. A start is enabled only while a worker is idle,
and every worker comes back to idle. Requests, changes and failures have none.

`StatementCatchesUp` says that the served statement of a subordinate that stays
renewable comes to carry the key it signs with, whatever becomes of the others,
but for one case, named `StopsRenewal`: while some active subordinate's verified
configuration raises, a renewal that visits it first never gets to the rows after
it, and as rows come in no promised order that may be so every time. Without that
exception the property is violated.

## Runs

| Run | Instance | What it shows |
|---|---|---|
| `TrustMarksConcurrent` | 1 type, 1 domain, 2 workers, 3 requests, deaths | The invariants that hold under any interleaving and any death, and the refinement of `MarkRegistry`. |
| `TrustMarksSequential` | 2 types, 1 worker, Redis loss | One request at a time, the marks served and the member lists agree; `reload_issued_tms` restores the record. |
| `TrustMarksLive` | 2 workers, 4 requests | A revocation takes effect, a served mark gets on record, a cleared row is a revoked one. |
| `CollectionWalk` | 1 walker, 2 walks, 2 changes, a death, a read, depth 2 | A walk ends, and publishes the federation; `/collection` answers what was published, unless a swap is under its feet. |
| `CollectionHeals` | 2 walkers, 3 walks, a change | Whatever overlapping walks left behind, a walk that runs alone restores indexes that agree with the entities. |
| `CollectionOverlap` | violation | Two walks at once, in a federation that never changes: one publishes what the other is still collecting. |
| `ResolverSearch` | 5 entities, depth 2, 2 retries, 3 failed attempts, a rollover in up to 3 steps | A chain returned is a trust chain, whoever receives it can verify it as long as rollovers are orderly, and its metadata obeys every policy of it; 400 and 503 mean what they say; no fetch after the deadline; an answer comes. |
| `ResolverAlternatives` | violation | An intermediate rejected at the end of a long path is not tried along a short one: 400 although there is a chain. |
| `ResolverRollover` | violation | An intermediate rolls over between the two fetches of its configuration: a chain with a statement that no key in the next one verifies. |
| `ResolveMarks` | 2 requests, 3 issuers or owners, 2 marks considered, 2 stages to 4 of a rollover, 1 retry, budget 2, time to live 3 | A mark passed on has authority and was active during the request; a mark left out has a reason of its own; cached keys are no older than their time to live. |
| `SubordinatesLife` | 2 entities, 2 workers, 2 requests, a failure, a change, renewals without bound | Only registered subordinates are served, rows, statements and audit log agree, and while a subordinate can be renewed, what is served comes to carry the key it signs with, though another is refused, unless another ends the renewal with an exception. |
| `SubordinatesRenewal` | violation | A subordinate deactivated while its renewal waits for an answer is renewed, and active again. |

Each property of a passing run is checked to fail on a mistake put into the
code it is about (`mutants` in `PROJECT.json`).

Bounds. Two workers are enough for every race between a writer and another
writer of one pair, which is what rows, fields and sets are keyed by; a third
worker would have to touch the same pair to matter, and the invariants that
must hold for any number are proved. Three requests allow create, renew and
revoke to overlap, a fourth the same after a re-creation or a reload.
`MaxTime` 1 with marks valid for one or two hours lets one mark expire while
another lives. The collection runs use four entities: enough for a loop, for a
chain one deeper than `MAX_COLLECTION_DEPTH` (2 there, 20 in the code), and for
an entity that vanishes or changes type between two walks. The resolver's
federations have a subject, three intermediates and an anchor, so that there
are loops, two paths of different lengths to one intermediate, and paths longer
than `MAX_RESOLVE_DEPTH` (2 there, 10 in the code); every combination of the
hints in `MCChainResolver` is taken with at most one statement or configuration
missing, invalid or constrained. For rollovers one intermediate, the issuer of
one statement and the subject of another, is enough, as keys are compared
between neighbours; it changes in one or two steps, with the new key published
before or not, and its superior has listed the old key, both or the new one. The renewal's
snapshot is all that ties one subordinate to another, so `SubordinatesLife` has a
second one that only registers and then may become one that is refused or
raises, and `SubordinatesRenewal` has one; two workers, for a request
against another or against the renewal; two requests, besides renewals by cron,
as every race there is between two writers of a row; and the stages of a
rollover between two keys. Three failed attempts exhaust one fetch
(`FETCH_MAX_RETRIES` 2) and leave one more for another. Policies range over all
sets of two values for two statements of a chain, with and without forced
metadata. The marks of `ResolveMarks` are two per subject, one of them the
anchor's or one that meets a delegation, as what one mark does to the next is
already a matter of two; a third entry is beyond the cap `MAX_TRUST_MARKS` (2
there, 32 in the code). Two requests are enough for every race on a cache entry.
A time to live longer than the budget (360 ticks and 3 in the code) makes a
cached key set outlive the request that fetched it. Deadlock is checked
in every run: `Rest` marks the states in which the bounded environment has
nothing more to start.

## Proofs

Every theorem holds for any value of the constants that meets its hypotheses
(most have none), so for any number of workers, walkers, requests, entities and
marks, for any federation, and for any bound. They rest on the assumptions named
in the modules and on nothing else:
sentinels such as `None` are not data, requests and federations have the shape
the code gives them, bounds are numbers, `Entity` is finite where a walk visits
it, and a cached key set lives for a tick at least. TLC evaluates each of them
in the runs. No proof uses that a bound is reached or that a counter ends.

| Module | Theorem | States |
|---|---|---|
| `TrustMarksProofs` | `TypeCorrect` | `[]TypeOK` |
| | `KnownMarksHaveEntries` | `[]KnownMarkHasEntry` |
| | `StoredMarksKnown` | `[]StoredMarkKnown` |
| | `ExpiryDatesMatch` | `[]ExpiryMatchesMark` |
| | `ImplementsRegistry` | `RegistrySpec`, the refinement of `MarkRegistry` |
| `TrustMarksRaceProofs` | `ServedIsKnownOrInFlight` | `[]ServedKnownOrInFlight` |
| | `RevocationStands` | `RevokedUntilReissued` |
| | `StoredIsAudited` | `[]StoredMarkAudited` |
| | `OneCreator` | `[]OneCreatorPerMark` |
| `TrustMarksOutcomeProofs` | `StoredIsServed` | `[]StoredMarkServed`, of `LossySpec` |
| | `DeactivationIsAudited` | `[]InactiveTypesAudited`, if types start active |
| | `ClearedIsRevoked` | `[]ClearedRowIsRevoked`, if no mark is reissued and each update revokes |
| | `ListedIsServed` | `[]MembersHoldMarks` of `LossySpec`, for one worker that does not die |
| | `ReloadRestores` | `[]ReloadRestoresRecord` of `LossySpec`, for one worker, if no update activates a row |
| `SubordinatesProofs` | `TypeCorrect` | `[]TypeOK` |
| | `ServedIsRegistered` | `[]OnlyRegisteredServed` |
| | `StatementsMatchRows` | `[]StatementMatchesRow` |
| | `FetchableListed` | `[]FetchableIsListed` |
| | `InactiveIsAudited` | `[]InactiveAudited` |
| `ChainResolverProofs` | `TypeCorrect` | `[]TypeOK` |
| | `SearchFollowsPath` | `[]StackIsPath` |
| | `VerdictIsSound` | `[]ChainIsSound` |
| | `ReceiverCanVerify` | `[]OrderlyChainVerifies` |
| | `PoliciesObeyed` | `[]MetadataObeysEveryPolicy` |
| | `RefusalIsFinal` | `[]VerdictIsFinal`, if `Entity` is finite and the subject is no anchor |
| | `RetryIsWarranted` | `[]UnavailableIsTemporary` |
| | `DeadlineStopsFetches` | `NoFetchAfterDeadline` |
| `TrustMarkVerifierProofs` | `TypeCorrect` | `[]TypeOK` |
| | `KeysStayRecent` | `[]KeysAreRecent` |
| | `MarksQualify` | `AnswersQualify` |
| | `ReasonsOfTheirOwn` | `FailureIsContained`, if every issuer's stages are `Prudent` |
| `CollectionProofs` | `TypeCorrect` | `[]TypeOK` |
| | `IndexesAgree` | `[]LiveIndexAgrees` |
| | `UndisturbedIsRight` | `[]UndisturbedAnswer` |
| `CollectionContentProofs` | `WalkPublishesFederation` | `PublishedComplete` |

### The arguments

*Trust marks.* Whether a stored mark is on record depends on what the requests
in flight hold in memory and may yet save, so the three invariants of the
stores are not inductive. `MarkLedger` adds that (`JobLedger`): a mark being
published already has its field in Redis (this is why the order of the four
commands matters), a mark held at `save` or in a command's snapshot is on
record, and in memory the expiry date is that of the mark. `StepLedger` goes
through the actions; most either leave the stores alone (`LedgerSame`) or only
add to them (`LedgerGrows`). The refinement uses the ledger for one step:
recording a hash is allowed in the registry only where the pair has an entry.
`RevocationStands` needs no more than that: without a signing nothing but
`HsetMark` makes a field live, and every mark that is on its way there was
counted by `minted`. `OneCreator` follows the row: past the unique constraint a
creator has one (`CreatorLedger`), and no row is ever deleted. `StoredIsAudited`
says of each request with a mark in memory whether the audit entry is there, is
its own to write, or its predecessor's.

The five theorems of `TrustMarksOutcomeProofs` have a ledger each. A pair's
mark only gives way to a newer one or to a revocation, so whatever a row, a
request or a snapshot holds has been served before (`AgeLedger`). An inactive
type has its entry, or a worker that read the type while it was active is at
`logType` (`TypeLedger`). A cleared pair is revoked in Redis, or some worker is
yet to revoke it or to save the mark it publishes (`RowLedger`). The member list
and the field differ only while the worker is between its two commands
(`MemberLedger`). During a reload, each row whose mark is not on record is still
in the snapshot (`RecordLedger`). Four of them have hypotheses on the constants,
met by the run that checks the property, and each is needed: the comment on the
theorem names the behaviour of the code that breaks the property without it (a
type created inactive; a reissue from an old snapshot, or an update that saves a
row as it was before a renewal; a renewal between the two commands of a
revocation; a row activated after the reload passed it over).

*Subordinates.* `Ledger` says of each worker that what it is to save is about
an entity with a row, that its statement carries its forced metadata, and that
what it is to publish comes from a row. `AuditLedger` is about the events: an
inactive row has its entry, or a worker that read the row while it was active
is about to write one; what a renewal read was active, so what it saves is too.

*Resolver.* `SearchInv` has `Path` at its heart: the frames of the stack are a
path of entities of which all that was checked on the way still holds of the
versions that were fetched then. Every action does one of four things to the
stack, each of which keeps a path. A verdict speaks of its chain and of past
versions, so what it promises goes on holding (`VerdictInv`). The merge of the
policies is a recursive function; that it is their intersection is shown with
the least prefix of which it would not be true, for which the well-foundedness
of the order of the numbers is enough. That a refusal is final takes an
invariant about what has been tried and given up (`Thorough`): whatever a visited
entity leads to has been visited, or is a hint left in its frame, or is the
authority whose turn it is (`Pending`). A frame is dropped only when its hints
have all been visited. No path is cut off, as its entities are distinct and no
more than there are to meet (`NeverTooDeep`, by the pigeonhole principle). So
when the hints run out the visited entities lead to no others, and no anchor is
among them (`Closed`). The subject must be no anchor itself: it is visited first,
and a chain that comes back to it is not found.

*Trust mark verification.* Keys in the cache are no older than their age says
(`CacheOK`), so those in the memo of a request are at most `TTL` - 1 ticks
older than the request (`RecentMemo`); each gate a mark has passed is
remembered while the request waits for the next one (`Sane`); and what was
withdrawn or expired when a request began, or has been since, is in what it has
seen (`Attentive`). That no mark is left out without a reason takes an account
of every entry of the statement: it is still ahead or being judged, or has been
passed on, or is `Excused` (`Accounted`), and an excuse lasts (`ExcusesLast`).
What may be held against an issuer are two moments of its keys that do not agree
(`Distrusted`), both no older than the request and the cache allow
(`LatelyAt`). `RightlyHeld` shows that with `Prudent` rollovers no two such
moments disagree about a key published for long, which is what `Verifiable`
asks. The hypothesis is needed: an issuer that announces a key in time but
withdraws the old one at once can lose its marks to a configuration and a key
set fetched either side of the change. Every federation of the run `ResolveMarks`
is `Prudent` (`PrudentAssumption` of `MCTrustMarkVerifier`), the one with the
sudden rollover included: nothing is asked of an issuer that replaces its keys
all at once, and of its marks nothing is promised until the new keys have been
published for long.

*Collection.* A walk without another beside it leaves in staging indexes that
say what the hash says, but for the entity it is writing (`Staged`, `Halfway`);
in the course of its swap the live keys that are done and the staging keys that
are not do so together (`Moving`), so at its end the live keys do (`LiveOK`).
What a request has in hand is, as long as no swap touches the live keys, a part
of what it is to answer, and what it has still to read leads to the rest
(`Gathering`). For the content (`ContentInv`): what the walk is at, and what is
on its stack, is listed by an entity one level up (`OnTrack`), so all that it
records is within the depth bound (`Truthful`). Every level of the stack belongs
to an entity visited before, and none is visited twice; so where no more
entities are listed than the bound allows, it cuts nothing off, all that a
visited entity lists is visited or on the stack (`Thorough`), and all that was
visited is recorded (`Whole`). At the end the stack is empty, and a chain of
lists that led to an entity not visited would have a first one.

TLC has checked each inductive invariant on the instances of the runs.

### Model-checked only

* Liveness, which is out of the prover's reach: `RevokeTakesEffect`,
  `ServedMarkBecomesKnown`, `WalkEnds`, `Answered`, `StatementCatchesUp`.

Every safety invariant and action property of the passing runs is the subject of
a theorem. The four properties of the violated runs are false, and so have no proof.

## Observed divergences

Four are checked by runs that TLC finds violated (`CollectionOverlap`,
`ResolverAlternatives`, `ResolverRollover`, `SubordinatesRenewal`), see
`findings` in `PROJECT.json`. The others follow from a statement or two of the
code and are listed here with their lines (under `src/`):

* A revoked mark can be renewed: `renew_trustmark` does not look at `active`
  (`api.py:448-458`), and its HSET makes every unexpired mark of the pair active
  again, the revoked one included (`docs/guides/trustmarks.rst:228` says status
  checks return revoked for the old JWT). `RevokedUntilReissued` says what holds.
* A renewal whose HSET comes before a revocation and whose SADD comes after it
  leaves a revoked mark's domain on the member list (`lib.py:56-58`,
  `api.py:495-496`; `trustmarks.rst:227` says it is removed). `MembersHoldMarks`
  holds for requests one at a time, and `ClearedRowIsRevoked` is about the mark
  served only.
* A revocation that omits `additional_claims` counts as a change to null: it
  signs and publishes a new mark before it marks it revoked
  (`admin/inmoradmin/api.py:486`). The request `docs/guides/trustmarks.rst`
  shows for a revocation, with `{"active": false}` alone, is of that kind; line
  225 says no more than that the `mark` field is cleared.
* A deactivated type goes on issuing, only with `active` false by default
  (`api.py:360-361`; `trustmarks.rst:70` says no new marks can be issued).
* `reload_issued_tms` restores only `inmor:tm:alltime`
  (`reload_issued_tms.py:14-18`); with the `inmor:tm:*` fields still missing,
  `/trust_mark_status` answers 500 (`docs/guides/management-commands.rst:88`
  says it restores trust mark lookup data). It signs nothing, although
  `trustmarks.rst:198` says it handles automatic renewal; nothing else does.
  Rows inactive at that time are skipped, and are not on record when they are
  reactivated.
* Renewal does not compare a mark's validity with the maximum of its type,
  which may have been lowered (`api.py:451`, against `api.py:367`;
  `trustmarks.rst:64`).
* `GET /trust_mark` of a revoked mark answers 200 with the word `revoked`
  (`src/lib.rs:2986-2993`; `docs/api/trust-anchor.rst:312` says a signed mark).
* An update that reads its row before a creation has saved the mark overwrites
  it with null: an active row without a mark, while the mark stays on record and is
  served. `ClearedRowIsRevoked` says what holds of inactive rows.
* A reader of `/collection` that straddles a swap may see parts of two
  collections or none (`src/tree.rs:451-460`); the comment at `tree.rs:419-420`
  says it never sees partial data. A trust anchor that cannot be fetched makes
  the walk publish an empty collection (`tree.rs:207-215`).
* The visited set of a walk hides what is reached first at the depth bound and
  again along a shorter path (`tree.rs:190-200`).
* A permanent failure to fetch one authority ends the frame with its other
  hints untried (`src/lib.rs:1576-1584`), although the comment at
  `lib.rs:1453-1455` says callers can still try alternative hints.
* One GET of an issuer that does not answer is tried three times with ten seconds
  each (`lib.rs:114`, 3214), the whole budget of the trust marks, and the timeout
  drops those verified before (`lib.rs:2565-2570`); the comment at
  `lib.rs:1446-1447` says a single slow issuer does not starve the rest.
* `allowed_leaf_entity_types` of a statement above the first is not applied to
  the leaf (`lib.rs:1092-1094`, 1183-1240).
* A deactivated subordinate stays in both hashes: `update_subordinate` writes its
  statement whatever `active` says (`api.py:716-727`), so `/fetch` serves it and
  `/list` lists it, against `docs/guides/subordinates.rst:331-332`.
* `readd_subordinates` deletes `inmor:subordinates` and adds nothing
  (`readd_subordinates.py:12-17`; `docs/guides/management-commands.rst:108-110`
  says it re-adds every subordinate). The active ones come back with their next
  renewal.
* A renewal that overlaps an update also saves the `forced_metadata` it read before
  (`api.py:810`; `docs/api/admin.rst:763` says the setting is preserved).
* A subordinate whose configuration verifies but has no `metadata`, or whose
  `authority_hints` are null, ends `renew_subordinates` with an exception
  (`renew_subordinates.py:65`, 47, outside any `try`): the rows after it are not
  renewed, in that run or in any later one while it stays so
  (`docs/deployment.rst:490-492` and `docs/guides/subordinates.rst:533-535` say
  that a failure on one does not stop the others). `StatementCatchesUp` says what
  holds.
* A registration that dies between its insert and Redis is answered 403 when it
  is tried again (`api.py:587-591`), and gets to Redis with a renewal only, if
  the subordinate is active.
* Two saves and their publications may come in opposite orders, after which
  `/fetch` serves a statement that is not that of the row. Renewals mend it.
* `expire_at` of the API is `added + valid_for` (`api.py:222-227`) and does not
  move when a subordinate is renewed. No code reads `autorenew`.

## Not modelled

The Django admin site's own forms, the frontend and MFA; signature and key
handling (cryptography); string and address validation; the health and status
pages; historical keys, a single value written once and read as it is; API
keys, whose check is one read and whose use writes one column that nothing
reads (`update_fields`); deployment files. Of the server's entity configuration only the
claims about trust marks. Trust mark claims whose `additional_claims` override
`exp` or `sub` are left out. The filter of `/resolve` by entity type and the
filters of `/list` and `/collection` are pure and have unit tests.

Liveness of the trust mark phase would only restate its timeout.

## Plan

What is there: trust marks, the collection walk, the resolver with its policies,
the trust mark phase with the cache of remote keys, the subordinates, each with
its proofs. No safety property of a passing run is left to prove. What could be
added:

1. the reads of `trust_mark_status` (`lib.rs:2794`) as two steps, the one hazard
   listed without a property;
2. the refinement of an abstract specification for the subordinates, as
   `MarkRegistry` is for the trust marks.
