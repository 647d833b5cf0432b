----------------------------- MODULE Collection -----------------------------
(***************************************************************************)
(* The collection of the federation's entities: inmor-collection walks the *)
(* tree below a trust anchor, writes what it finds to staging keys in      *)
(* Redis and swaps them to the live keys at the end; GET /collection       *)
(* answers from the live keys.                                             *)
(*                                                                         *)
(* A walk is a process started by cron or by hand, so two of them may run  *)
(* at once.  Each Redis command and each request to the federation is one  *)
(* action; the recursion of collection_tree_walking is an explicit stack   *)
(* of the subordinates still to visit, the innermost entity first.         *)
(***************************************************************************)
EXTENDS Naturals, Sequences, FiniteSets, Functions

CONSTANTS
  Entity,                \* entity identifiers
  Root,                  \* the trust anchor the walks start from
  KNOWN_ENTITY_TYPES,    \* the entity types looked for, in their order
  MAX_COLLECTION_DEPTH,
  Federations,           \* what the entities may publish, see Federation
  Walker,                \* processes running inmor-collection
  Filters,               \* the entity_type parameters of GET /collection
  None,                  \* no value
  MaxWalks,              \* bound: walks started in all
  MaxChanges,            \* bound: changes of the federation
  MaxDeaths,             \* bound: walks that die half way
  MaxReads               \* bound: requests to /collection

EntityType == Range(KNOWN_ENTITY_TYPES)

VARIABLES
  fed,       \* what the entities publish
  staging,   \* Redis: inmor:collection:staging:*
  live,      \* Redis: inmor:collection:*
  updated,   \* Redis: whether there is an inmor:collection:last_updated
  caches,    \* Redis: inmor:entities, inmor:subordinate_query, inmor:rp/op/taia
  walk,      \* what each walker is doing
  reader,    \* the request to /collection in progress, or the last answer
  clean,     \* whether the walk that swapped last had run alone
  started, changes, deaths, reads  \* bounded counters

counters == <<started, changes, deaths, reads>>
vars == <<fed, staging, live, updated, caches, walk, reader, clean,
          started, changes, deaths, reads>>

(***************************************************************************)
(* What an entity publishes: a configuration that can be fetched and       *)
(* verified, or None.  metadata is None for a missing or malformed claim,  *)
(* else the entity types it has; list is what the list endpoint answers,   *)
(* <<>> standing for no endpoint and for an endpoint that fails too.       *)
(***************************************************************************)
Configuration ==
  [metadata : (SUBSET EntityType) \cup {None}, hints : SUBSET Entity,
   list : Seq(Entity)]

Federation == [Entity -> Configuration \cup {None}]

(* Redis has no empty hashes, sets and sorted sets: {} is a missing key.   *)
(* A record of the hash entities is the identifier with its response, of   *)
(* which the types are kept.                                               *)
Keys == <<"entities", "all_sorted">> \o KNOWN_ENTITY_TYPES
Record == [id : Entity, types : SUBSET EntityType]
Store == [entities : SUBSET Record, all_sorted : SUBSET Entity]
EmptyStore == [k \in Range(Keys) |-> {}]

ASSUME EntityAssumption == Root \in Entity /\ IsFiniteSet(Entity)
ASSUME TypesAssumption ==
  /\ KNOWN_ENTITY_TYPES \in Seq(STRING)
  /\ {"federation_entity", "openid_provider", "openid_relying_party"} \subseteq EntityType
  /\ {"entities", "all_sorted"} \cap EntityType = {}
ASSUME FederationsAssumption == Federations \subseteq Federation
ASSUME FiltersAssumption == Filters \subseteq Seq(EntityType)
ASSUME BoundsAssumption ==
  /\ MAX_COLLECTION_DEPTH \in Nat /\ MaxWalks \in Nat /\ MaxChanges \in Nat
  /\ MaxDeaths \in Nat /\ MaxReads \in Nat

(***************************************************************************)
(* A walk: its program counter, the entity it is at, what that entity      *)
(* published, the types still to be written, the subordinates still to be  *)
(* visited at each depth, the entities visited, the next command of the    *)
(* swap, whether the federation has stayed as it was when it started, and  *)
(* whether no other walk has been in progress since.                       *)
(***************************************************************************)
NoWalk == [pc |-> "idle", at |-> None, config |-> None, types |-> {},
           stack |-> <<>>, visited |-> {}, command |-> 0, steady |-> TRUE,
           alone |-> TRUE]

NoRead == [pc |-> "idle", filter |-> <<>>, types |-> <<>>, ids |-> {},
           answer |-> {}, stamp |-> FALSE,
           undisturbed |-> FALSE]

(* Some command of a swap has run, and not yet the last. *)
Swapping == \E w \in Walker : walk[w].pc = "swap" /\ walk[w].command > 1

Init ==
  /\ fed \in Federations
  /\ staging = EmptyStore
  /\ live = EmptyStore
  /\ updated = FALSE
  /\ caches = [entities |-> {}, statements |-> {}, rp |-> {}, op |-> {},
               taia |-> {}]
  /\ walk = [w \in Walker |-> NoWalk]
  /\ reader = NoRead
  /\ clean = TRUE
  /\ started = 0 /\ changes = 0 /\ deaths = 0 /\ reads = 0

Running(W) == \E w \in W : walk[w].pc # "idle"
At(w, pc) == walk[w].pc = pc
Proceed(w, job) == walk' = [walk EXCEPT ![w] = job]

-----------------------------------------------------------------------------
(* run_collection_walk and collection_tree_walking                         *)

(* Variants named ...Bug are what a plausible mistake would make of the     *)
(* definition that follows them; each is used to show that a property      *)
(* notices it.  Here: staging is not cleaned.                              *)
StartWalkKeepsStagingBug(w) ==
  /\ At(w, "idle") /\ started < MaxWalks
  /\ started' = started + 1
  /\ UNCHANGED staging
  /\ walk' = [v \in Walker |->
                IF v = w THEN [NoWalk EXCEPT !.pc = "enter", !.at = Root,
                                             !.alone = ~Running(Walker \ {w})]
                         ELSE [walk[v] EXCEPT !.alone = (@ /\ At(v, "idle"))]]
  /\ UNCHANGED <<fed, live, updated, caches, reader, clean, changes, deaths,
                 reads>>

(* A walk begins by deleting whatever an earlier one left in staging.      *)
StartWalk(w) ==
  /\ At(w, "idle") /\ started < MaxWalks
  /\ started' = started + 1
  /\ staging' = EmptyStore
  /\ walk' = [v \in Walker |->
                IF v = w THEN [NoWalk EXCEPT !.pc = "enter", !.at = Root,
                                             !.alone = ~Running(Walker \ {w})]
                         ELSE [walk[v] EXCEPT !.alone = (@ /\ At(v, "idle"))]]
  /\ UNCHANGED <<fed, live, updated, caches, reader, clean, changes, deaths,
                 reads>>

(* The subordinate statements that can be fetched for the entity: from     *)
(* those of its authorities that answer and have a federation_entity.      *)
Statements(e) ==
  {a \in fed[e].hints : fed[a] # None /\ fed[a].metadata # None
                        /\ "federation_entity" \in fed[a].metadata}

(***************************************************************************)
(* On to the next subordinate not visited yet, of the innermost entity     *)
(* that has one left; the calls inside it return.  With none left, the     *)
(* walk is done and the swap begins.                                       *)
(***************************************************************************)
Onward(job) ==
  LET left(i)   == {k \in DOMAIN job.stack[i] : job.stack[i][k] \notin job.visited}
      open      == {i \in DOMAIN job.stack : left(i) # {}}
      least(ns) == CHOOSE n \in ns : \A m \in ns : n <= m
      inner     == least(open)
      next      == least(left(inner))
      subs      == job.stack[inner]
      later     == SubSeq(subs, next + 1, Len(subs))
      outer     == SubSeq(job.stack, inner + 1, Len(job.stack))
  IN  IF open = {} THEN [job EXCEPT !.pc = "swap", !.stack = <<>>, !.command = 1]
      ELSE [job EXCEPT !.pc = "enter", !.at = subs[next],
                       !.stack = <<later>> \o outer]

(* One level too deep; a failing entity is tried again, for ever. *)
EnterOneDeeperBug(w) ==
  LET e == walk[w].at
      visit == [walk[w] EXCEPT !.visited = @ \cup {e}, !.config = fed[e]]
  IN  /\ At(w, "enter")
      /\ \/ /\ Len(walk[w].stack) > MAX_COLLECTION_DEPTH + 1
            /\ Proceed(w, Onward(walk[w]))
            /\ UNCHANGED caches
         \/ /\ Len(walk[w].stack) <= MAX_COLLECTION_DEPTH + 1 /\ fed[e] = None
            /\ Proceed(w, Onward(visit))
            /\ UNCHANGED caches
         \/ /\ Len(walk[w].stack) <= MAX_COLLECTION_DEPTH + 1 /\ fed[e] # None
            /\ Proceed(w, IF fed[e].metadata = None THEN Onward(visit)
                          ELSE [visit EXCEPT !.pc = "record"])
            /\ caches' = [caches EXCEPT
                 !.entities = @ \cup {e},
                 !.statements = @ \cup {<<a, e>> : a \in Statements(e)}]
      /\ UNCHANGED <<fed, staging, live, updated, reader, clean, counters>>

EnterRetriesBug(w) ==
  LET e == walk[w].at
      visit == [walk[w] EXCEPT !.visited = @ \cup {e}, !.config = fed[e]]
  IN  /\ At(w, "enter")
      /\ \/ /\ Len(walk[w].stack) > MAX_COLLECTION_DEPTH
            /\ Proceed(w, Onward(walk[w]))
            /\ UNCHANGED caches
         \/ /\ Len(walk[w].stack) <= MAX_COLLECTION_DEPTH /\ fed[e] = None
            /\ UNCHANGED walk
            /\ UNCHANGED caches
         \/ /\ Len(walk[w].stack) <= MAX_COLLECTION_DEPTH /\ fed[e] # None
            /\ Proceed(w, IF fed[e].metadata = None THEN Onward(visit)
                          ELSE [visit EXCEPT !.pc = "record"])
            /\ caches' = [caches EXCEPT
                 !.entities = @ \cup {e},
                 !.statements = @ \cup {<<a, e>> : a \in Statements(e)}]
      /\ UNCHANGED <<fed, staging, live, updated, reader, clean, counters>>

(* One call of collection_tree_walking, as far as the metadata.  The depth *)
(* is that of the stack.  Nobody reads the caches it fills on the way.     *)
Enter(w) ==
  LET e == walk[w].at
      visit == [walk[w] EXCEPT !.visited = @ \cup {e}, !.config = fed[e]]
  IN  /\ At(w, "enter")
      /\ \/ /\ Len(walk[w].stack) > MAX_COLLECTION_DEPTH
            /\ Proceed(w, Onward(walk[w]))
            /\ UNCHANGED caches
         \/ /\ Len(walk[w].stack) <= MAX_COLLECTION_DEPTH /\ fed[e] = None
            /\ Proceed(w, Onward(visit))
            /\ UNCHANGED caches
         \/ /\ Len(walk[w].stack) <= MAX_COLLECTION_DEPTH /\ fed[e] # None
            /\ Proceed(w, IF fed[e].metadata = None THEN Onward(visit)
                          ELSE [visit EXCEPT !.pc = "record"])
            /\ caches' = [caches EXCEPT
                 !.entities = @ \cup {e},
                 !.statements = @ \cup {<<a, e>> : a \in Statements(e)}]
      /\ UNCHANGED <<fed, staging, live, updated, reader, clean, counters>>

(* Every entity of a federation is implicitly a federation_entity. *)
DetectedTypes(metadata) == metadata \cup {"federation_entity"}

HsetEntity(w) ==
  LET types == DetectedTypes(walk[w].config.metadata)
  IN  /\ At(w, "record")
      /\ staging' = [staging EXCEPT !.entities =
                       {r \in @ : r.id # walk[w].at}
                         \cup {[id |-> walk[w].at, types |-> types]}]
      /\ walk' = [walk EXCEPT ![w].pc = "types", ![w].types = types]
      /\ UNCHANGED <<fed, live, updated, caches, reader, clean, counters>>

(* One type after the other; in which order makes no difference.           *)
SaddType(w) == \E t \in walk[w].types :
  /\ At(w, "types")
  /\ staging' = [staging EXCEPT ![t] = @ \cup {walk[w].at}]
  /\ walk' = [walk EXCEPT ![w].types = @ \ {t}]
  /\ UNCHANGED <<fed, live, updated, caches, reader, clean, counters>>

ZaddSorted(w) ==
  /\ At(w, "types") /\ walk[w].types = {}
  /\ staging' = [staging EXCEPT !.all_sorted = @ \cup {walk[w].at}]
  /\ walk' = [walk EXCEPT ![w].pc = "list"]
  /\ UNCHANGED <<fed, live, updated, caches, reader, clean, counters>>

Class(metadata) ==
  IF "openid_relying_party" \in metadata THEN "rp"
  ELSE IF "openid_provider" \in metadata THEN "op" ELSE "taia"

(* The entity joins inmor:rp, inmor:op or inmor:taia, which nobody reads,  *)
(* and is asked for its subordinates if it is a federation_entity; by now  *)
(* it may answer otherwise than its configuration did.                     *)
FetchList(w) ==
  LET e == walk[w].at
      metadata == walk[w].config.metadata
      subs == IF "federation_entity" \in metadata /\ fed[e] # None
                THEN fed[e].list ELSE <<>>
  IN  /\ At(w, "list")
      /\ caches' = [caches EXCEPT ![Class(metadata)] = @ \cup {e}]
      /\ Proceed(w, Onward([walk[w] EXCEPT !.stack = <<subs>> \o @]))
      /\ UNCHANGED <<fed, staging, live, updated, reader, clean, counters>>

(***************************************************************************)
(* The swap: DEL of the live keys, a RENAME for each staging key, SET of   *)
(* last_updated, sent together but not run as a transaction.  RENAME of a  *)
(* missing key is an error that touches nothing.                           *)
(***************************************************************************)
Disturb == reader' = [reader EXCEPT !.undisturbed = FALSE]

(* The keys by type are forgotten. *)
DelLiveForgetsTypesBug(w) ==
  /\ At(w, "swap") /\ walk[w].command = 1
  /\ live' = [live EXCEPT !.entities = {}, !.all_sorted = {}]
  /\ updated' = FALSE
  /\ walk' = [walk EXCEPT ![w].command = 2]
  /\ Disturb
  /\ UNCHANGED <<fed, staging, caches, clean, counters>>

DelLive(w) ==
  /\ At(w, "swap") /\ walk[w].command = 1
  /\ live' = EmptyStore
  /\ updated' = FALSE
  /\ walk' = [walk EXCEPT ![w].command = 2]
  /\ Disturb
  /\ UNCHANGED <<fed, staging, caches, clean, counters>>

RenameKey(w) ==
  LET n == walk[w].command - 1
      k == Keys[n]
  IN  /\ At(w, "swap") /\ n \in DOMAIN Keys
      /\ IF staging[k] = {} THEN UNCHANGED <<live, staging>>
           ELSE /\ live' = [live EXCEPT ![k] = staging[k]]
                /\ staging' = [staging EXCEPT ![k] = {}]
      /\ walk' = [walk EXCEPT ![w].command = @ + 1]
      /\ Disturb
      /\ UNCHANGED <<fed, updated, caches, clean, counters>>

SetUpdated(w) ==
  /\ At(w, "swap") /\ walk[w].command = Len(Keys) + 2
  /\ updated' = TRUE
  /\ walk' = [walk EXCEPT ![w] = NoWalk]
  /\ clean' = walk[w].alone
  /\ Disturb
  /\ UNCHANGED <<fed, staging, live, caches, counters>>

-----------------------------------------------------------------------------
(* GET /collection, one request at a time                                  *)

StartRead == \E f \in Filters :
  /\ reader.pc \in {"idle", "done"} /\ reads < MaxReads
  /\ reads' = reads + 1
  /\ reader' = [NoRead EXCEPT !.pc = "ids", !.filter = f, !.types = f,
                              !.undisturbed = ~Swapping]
  /\ UNCHANGED <<fed, staging, live, updated, caches, walk, clean,
                 started, changes, deaths>>

(* Only the members of the last type. *)
ReadIdsLastTypeBug ==
  /\ reader.pc = "ids"
  /\ reader' =
       IF reader.filter = <<>>
         THEN [reader EXCEPT !.ids = {r.id : r \in live.entities}, !.pc = "each"]
       ELSE IF reader.types = <<>> THEN [reader EXCEPT !.pc = "each"]
       ELSE [reader EXCEPT !.ids = live[Head(reader.types)],
                           !.types = Tail(@)]
  /\ UNCHANGED <<fed, staging, live, updated, caches, walk, clean, counters>>

(* Without a filter all fields of the hash, else the members of each type  *)
(* in turn.                                                                *)
ReadIds ==
  /\ reader.pc = "ids"
  /\ reader' =
       IF reader.filter = <<>>
         THEN [reader EXCEPT !.ids = {r.id : r \in live.entities}, !.pc = "each"]
       ELSE IF reader.types = <<>> THEN [reader EXCEPT !.pc = "each"]
       ELSE [reader EXCEPT !.ids = @ \cup live[Head(reader.types)],
                           !.types = Tail(@)]
  /\ UNCHANGED <<fed, staging, live, updated, caches, walk, clean, counters>>

(* Each entity in turn; one that is gone by now is left out. *)
ReadEntity == \E e \in reader.ids :
  /\ reader.pc = "each"
  /\ reader' = [reader EXCEPT
                  !.ids = @ \ {e},
                  !.answer = @ \cup {r \in live.entities : r.id = e}]
  /\ UNCHANGED <<fed, staging, live, updated, caches, walk, clean, counters>>

ReadUpdated ==
  /\ reader.pc = "each" /\ reader.ids = {}
  /\ reader' = [reader EXCEPT !.stamp = updated, !.pc = "done"]
  /\ UNCHANGED <<fed, staging, live, updated, caches, walk, clean, counters>>

-----------------------------------------------------------------------------
(* The environment                                                         *)

(* The entities publish something else. *)
Change == \E f \in Federations :
  /\ changes < MaxChanges /\ f # fed
  /\ changes' = changes + 1
  /\ fed' = f
  /\ walk' = [w \in Walker |-> [walk[w] EXCEPT !.steady = FALSE]]
  /\ UNCHANGED <<staging, live, updated, caches, reader, clean, started,
                 deaths, reads>>

(* A walk dies.  The swap is a single write of a few hundred bytes: once   *)
(* begun it is in Redis' hands.                                            *)
Die(w) ==
  /\ walk[w].pc \notin {"idle", "swap"} /\ deaths < MaxDeaths
  /\ deaths' = deaths + 1
  /\ walk' = [walk EXCEPT ![w] = NoWalk]
  /\ UNCHANGED <<fed, staging, live, updated, caches, reader, clean,
                 started, changes, reads>>

(* The bounded environment starts nothing more. *)
Rest ==
  /\ started = MaxWalks /\ reads = MaxReads /\ reader.pc \in {"idle", "done"}
  /\ ~Running(Walker)
  /\ UNCHANGED vars

Walk(w) ==
  \/ Enter(w) \/ HsetEntity(w) \/ SaddType(w) \/ ZaddSorted(w) \/ FetchList(w)
  \/ DelLive(w) \/ RenameKey(w) \/ SetUpdated(w)

Read == ReadIds \/ ReadEntity \/ ReadUpdated

Next ==
  \/ \E w \in Walker : StartWalk(w) \/ Walk(w) \/ Die(w)
  \/ StartRead \/ Read
  \/ Change
  \/ Rest

Spec == Init /\ [][Next]_vars

(* A walk that runs is scheduled. *)
FairSpec == Spec /\ \A w \in Walker : WF_vars(Walk(w))

-----------------------------------------------------------------------------
(* Properties                                                              *)

WalkRecord ==
  [pc : {"idle", "enter", "record", "types", "list", "swap"},
   at : Entity \cup {None}, config : Configuration \cup {None},
   types : SUBSET EntityType, stack : Seq(Seq(Entity)), visited : SUBSET Entity,
   command : 0 .. Len(Keys) + 2, steady : BOOLEAN, alone : BOOLEAN]

ReadRecord ==
  [pc : {"idle", "ids", "each", "done"}, filter : Filters \cup {<<>>},
   types : Seq(EntityType), ids : SUBSET Entity, answer : SUBSET Record,
   stamp : BOOLEAN, undisturbed : BOOLEAN]

StoreOK(s) ==
  /\ DOMAIN s = Range(Keys)
  /\ s.entities \subseteq Record
  /\ \A r, q \in s.entities : r.id = q.id => r = q
  /\ \A k \in Range(Keys) \ {"entities"} : s[k] \subseteq Entity

(* Type invariant; the hash of entities has one value for each field, and  *)
(* no walk writes an entity deeper than MAX_COLLECTION_DEPTH.              *)
TypeOK ==
  /\ fed \in Federations
  /\ StoreOK(staging) /\ StoreOK(live)
  /\ updated \in BOOLEAN /\ clean \in BOOLEAN
  /\ caches.entities \subseteq Entity /\ caches.statements \subseteq Entity \X Entity
  /\ \A c \in {"rp", "op", "taia"} : caches[c] \subseteq Entity
  /\ walk \in [Walker -> WalkRecord]
  /\ \A w \in Walker : walk[w].pc \in {"record", "types", "list"}
       => Len(walk[w].stack) <= MAX_COLLECTION_DEPTH
  /\ reader \in ReadRecord

Ids(store) == {r.id : r \in store.entities}
OfType(store, t) == {r.id : r \in {q \in store.entities : t \in q.types}}

(* Outside a swap the indexes by type and in order list the very entities  *)
(* of the hash, each under the types it has; whatever walks have died or   *)
(* overlapped before, one that ran alone puts this right.                  *)
LiveIndexAgrees ==
  clean /\ ~Swapping =>
    /\ live.all_sorted = Ids(live)
    /\ \A t \in EntityType : live[t] = OfType(live, t)

(* The entities that a walk ought to collect: those that publish metadata  *)
(* and that a chain of lists leads to from the anchor, by n links at most. *)
Published(f) == {e \in Entity : f[e] # None /\ f[e].metadata # None}
Lists(f, p, e) == "federation_entity" \in f[p].metadata /\ e \in Range(f[p].list)

Within(f, n) ==
  {e \in Published(f) : \E k \in 0 .. n : \E chain \in [0 .. k -> Published(f)] :
     /\ chain[0] = Root /\ chain[k] = e
     /\ \A i \in 1 .. k : Lists(f, chain[i - 1], chain[i])}

Listed(f) ==
  {Root} \cup UNION {Range(f[e].list) : e \in {p \in Entity : f[p] # None}}

(* A walk that ran alone in a federation that stayed as it was publishes   *)
(* that federation: what is within the depth bound and nothing else, each  *)
(* entity with its types, and all of it where no path can be too long.     *)
PublishedComplete ==
  [][\A w \in Walker :
       (/\ walk[w].pc = "swap" /\ walk'[w].pc = "idle"
        /\ walk[w].steady /\ walk[w].alone)
       => /\ Ids(live') \subseteq Within(fed, MAX_COLLECTION_DEPTH)
          /\ Cardinality(Listed(fed)) <= MAX_COLLECTION_DEPTH + 1
               => Ids(live') = Within(fed, MAX_COLLECTION_DEPTH)
          /\ \A r \in live'.entities :
               r.types = DetectedTypes(fed[r.id].metadata)]_vars

(* An answer of /collection that no swap came in between of is the part of *)
(* the collection its filter asks for, although it is put together from    *)
(* the indexes by type and from the hash one command at a time.            *)
UndisturbedAnswer ==
  reader.pc = "done" /\ reader.undisturbed /\ clean =>
    /\ reader.answer = {r \in live.entities :
                         reader.filter = <<>> \/ r.types \cap Range(reader.filter) # {}}
    /\ reader.stamp = updated

(* Once a collection is published, the live keys hold all of it whenever   *)
(* no walk is running, if the federation never changes.                    *)
LiveStaysComplete ==
  updated /\ ~Running(Walker) /\ changes = 0
    => Ids(live) = Within(fed, MAX_COLLECTION_DEPTH)

(* Every walk ends, whatever loops the lists of the federation form.       *)
WalkEnds == \A w \in Walker : walk[w].pc # "idle" ~> walk[w].pc = "idle"
=============================================================================
