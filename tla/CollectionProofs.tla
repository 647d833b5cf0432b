-------------------------- MODULE CollectionProofs --------------------------
(***************************************************************************)
(* What holds of Collection for every federation, set of entity types,     *)
(* depth bound and set of walkers, and for any value of the bounds.        *)
(*                                                                         *)
(* The argument: a walk that has had no other beside it leaves staging     *)
(* with indexes that say what the hash says, but for the entity it is      *)
(* writing (Staged, Halfway); in the course of its swap the live keys that *)
(* are done and the staging keys that are not do so together (Moving), so  *)
(* at its end the live keys do (LiveOK).  What a request has in hand is,   *)
(* as long as no swap touches the live keys, a part of what it is to       *)
(* answer, and what it has still to read leads to the rest (Gathering).    *)
(***************************************************************************)
EXTENDS Collection, SequenceTheorems, WellFoundedInduction, TLAPS

USE DEF At, counters

Stored == {"entities", "all_sorted"} \cup EntityType

-----------------------------------------------------------------------------
(* The keys of a store.                                                    *)

LEMMA KeysStored ==
  /\ Range(Keys) = Stored /\ Len(Keys) \in Nat
  /\ DOMAIN Keys = 1 .. Len(Keys)
  /\ "federation_entity" \in EntityType
<1> DEFINE two == <<"entities", "all_sorted">>
           types == KNOWN_ENTITY_TYPES
           S == STRING \cup {"entities", "all_sorted"}
<1>1. two \in Seq(S) /\ types \in Seq(S) /\ Len(two) = 2
  <2>1. two \in Seq(S) /\ Len(two) = 2
    OBVIOUS
  <2>2. types \in Seq(S)
    BY TypesAssumption, SeqMonotonic
  <2> QED BY <2>1, <2>2
<1>2. PICK n \in Nat : n = Len(types)
  BY <1>1
<1>3. /\ Keys \in Seq(S) /\ Len(Keys) = 2 + n
      /\ \A i \in 1 .. 2 + n : Keys[i] = IF i <= 2 THEN two[i] ELSE types[i - 2]
  BY <1>1, <1>2, ConcatProperties DEF Keys
<1>4. DOMAIN Keys = 1 .. 2 + n /\ DOMAIN types = 1 .. n
  BY <1>1, <1>2, <1>3
<1>5. ASSUME NEW k \in Range(Keys)
      PROVE  k \in Stored
  <2>1. PICK i \in 1 .. 2 + n : k = Keys[i]
    BY <1>4 DEF Range
  <2>2. CASE i <= 2
    <3>1. i = 1 \/ i = 2
      BY <2>2
    <3> QED BY <1>3, <2>1, <2>2, <3>1 DEF Stored
  <2>3. CASE ~(i <= 2)
    <3>1. i - 2 \in 1 .. n
      BY <2>3
    <3> QED BY <1>3, <1>4, <2>1, <2>3, <3>1 DEF Stored, EntityType, Range
  <2> QED BY <2>2, <2>3
<1>6. ASSUME NEW k \in Stored
      PROVE  k \in Range(Keys)
  <2>1. CASE k = "entities" \/ k = "all_sorted"
    <3>1. 1 \in 1 .. 2 + n /\ 2 \in 1 .. 2 + n
      OBVIOUS
    <3>2. Keys[1] = "entities" /\ Keys[2] = "all_sorted"
      BY <1>3, <3>1
    <3> QED BY <1>4, <2>1, <3>1, <3>2 DEF Range
  <2>2. CASE k \in EntityType
    <3>1. PICK i \in 1 .. n : k = types[i]
      BY <1>4, <2>2 DEF EntityType, Range
    <3>2. i + 2 \in 1 .. 2 + n /\ ~(i + 2 <= 2) /\ i + 2 - 2 = i
      OBVIOUS
    <3>3. PICK j \in 1 .. 2 + n : j = i + 2
      BY <3>2
    <3>4. Keys[j] = types[i]
      BY <1>3, <3>2, <3>3
    <3> QED BY <1>4, <3>1, <3>3, <3>4 DEF Range
  <2> QED BY <2>1, <2>2 DEF Stored
<1>7. "federation_entity" \in EntityType
  BY TypesAssumption
<1>8. Range(Keys) = Stored
  BY <1>5, <1>6
<1>9. PICK m \in Nat : m = 2 + n
  OBVIOUS
<1>10. Len(Keys) = m /\ DOMAIN Keys = 1 .. m
  BY <1>3, <1>4, <1>9
<1> QED BY <1>7, <1>8, <1>10

LEMMA KeysDiffer ==
  /\ "entities" \in Stored /\ "all_sorted" \in Stored
  /\ "entities" \notin EntityType /\ "all_sorted" \notin EntityType
  /\ EntityType \subseteq Stored
  BY TypesAssumption DEF Stored

-----------------------------------------------------------------------------
(* What a store holds.                                                     *)

(* The indexes say of the entities what the hash says. *)
Consistent(s) ==
  /\ s.all_sorted = Ids(s)
  /\ \A t \in EntityType : s[t] = OfType(s, t)

(* They do so but for e, which is yet to be put in order and under the     *)
(* types in rest.                                                          *)
Halfway(s, e, rest) ==
  /\ e \in Ids(s) /\ s.all_sorted = Ids(s) \ {e}
  /\ \A t \in EntityType :
       IF t \in rest THEN s[t] = OfType(s, t) \ {e} /\ e \in OfType(s, t)
                     ELSE s[t] = OfType(s, t)

LEMMA IdsAndTypes ==
  ASSUME NEW s, NEW u, s.entities = u.entities
  PROVE  Ids(s) = Ids(u) /\ \A t : OfType(s, t) = OfType(u, t)
  BY DEF Ids, OfType

LEMMA EmptyConsistent ==
  StoreOK(EmptyStore) /\ Consistent(EmptyStore) /\ Ids(EmptyStore) = {}
<1>1. DOMAIN EmptyStore = Stored /\ \A k \in Stored : EmptyStore[k] = {}
  BY KeysStored DEF EmptyStore
<1>2. EmptyStore.entities = {} /\ EmptyStore.all_sorted = {}
  BY <1>1, KeysDiffer
<1> QED BY <1>1, <1>2, KeysStored, KeysDiffer DEF StoreOK, Consistent, Ids, OfType

LEMMA EntityStored ==
  ASSUME NEW s, StoreOK(s), NEW e \in Entity, NEW T \in SUBSET EntityType,
         NEW new, new = [s EXCEPT !.entities = {r \in s.entities : r.id # e}
                                                 \cup {[id |-> e, types |-> T]}]
  PROVE  /\ StoreOK(new) /\ Ids(new) = Ids(s) \cup {e}
         /\ Consistent(s) /\ e \notin Ids(s) => Halfway(new, e, T)
<1> DEFINE record == [id |-> e, types |-> T]
           others == {r \in s.entities : r.id # e}
<1>1. /\ DOMAIN s = Stored /\ s.entities \subseteq Record
      /\ \A r, q \in s.entities : r.id = q.id => r = q
      /\ \A k \in Stored \ {"entities"} : s[k] \subseteq Entity
  BY KeysStored DEF StoreOK
<1>2. record \in Record /\ record.id = e /\ record.types = T
  BY DEF Record
<1> HIDE DEF record
<1>3. /\ DOMAIN new = Stored /\ new.entities = others \cup {record}
      /\ \A k \in Stored \ {"entities"} : new[k] = s[k]
  BY <1>1, KeysDiffer DEF record
<1>4. StoreOK(new)
  BY <1>1, <1>2, <1>3, KeysStored DEF StoreOK
<1>5. Ids(new) = Ids(s) \cup {e}
  BY <1>2, <1>3 DEF Ids
<1>6. ASSUME Consistent(s), e \notin Ids(s)
      PROVE  Halfway(new, e, T)
  <2>1. others = s.entities
    BY <1>6 DEF Ids
  <2>2. ASSUME NEW t
        PROVE  OfType(new, t) = IF t \in T THEN OfType(s, t) \cup {e} ELSE OfType(s, t)
    BY <1>2, <1>3, <2>1 DEF OfType
  <2>3. \A t : e \notin OfType(s, t)
    BY <1>6 DEF Ids, OfType
  <2>4. new.all_sorted = s.all_sorted /\ \A t \in EntityType : new[t] = s[t]
    BY <1>3, KeysDiffer
  <2>5. s.all_sorted = Ids(s) /\ \A t \in EntityType : s[t] = OfType(s, t)
    BY <1>6 DEF Consistent
  <2>6. e \in Ids(new) /\ new.all_sorted = Ids(new) \ {e}
    BY <1>5, <1>6, <2>4, <2>5
  <2>7. ASSUME NEW t \in EntityType
        PROVE  IF t \in T THEN new[t] = OfType(new, t) \ {e} /\ e \in OfType(new, t)
                          ELSE new[t] = OfType(new, t)
    <3>1. PICK on : on = OfType(s, t)
      OBVIOUS
    <3>2. PICK upon : upon = OfType(new, t)
      OBVIOUS
    <3>3. new[t] = on /\ e \notin on /\ upon = IF t \in T THEN on \cup {e} ELSE on
      BY <2>2, <2>3, <2>4, <2>5, <3>1, <3>2
    <3> QED BY <3>2, <3>3
  <2> QED BY <2>6, <2>7 DEF Halfway
<1> QED BY <1>4, <1>5, <1>6

LEMMA TypeStored ==
  ASSUME NEW s, StoreOK(s), NEW e \in Entity, NEW t \in EntityType, NEW rest,
         NEW new, new = [s EXCEPT ![t] = s[t] \cup {e}]
  PROVE  /\ StoreOK(new) /\ Ids(new) = Ids(s)
         /\ Halfway(s, e, rest) /\ t \in rest => Halfway(new, e, rest \ {t})
<1>1. /\ DOMAIN s = Stored /\ s.entities \subseteq Record
      /\ \A r, q \in s.entities : r.id = q.id => r = q
      /\ \A k \in Stored \ {"entities"} : s[k] \subseteq Entity
  BY KeysStored DEF StoreOK
<1>2. t \in Stored \ {"entities", "all_sorted"}
  BY KeysDiffer
<1>3. /\ DOMAIN new = Stored /\ new.entities = s.entities
      /\ new.all_sorted = s.all_sorted /\ new[t] = s[t] \cup {e}
      /\ \A k \in Stored \ {t} : new[k] = s[k]
  BY <1>1, <1>2, KeysDiffer
<1>4. StoreOK(new)
  BY <1>1, <1>2, <1>3, KeysStored DEF StoreOK
<1>5. Ids(new) = Ids(s) /\ \A u : OfType(new, u) = OfType(s, u)
  BY <1>3, IdsAndTypes
<1>6. \A u \in EntityType \ {t} : new[u] = s[u]
  BY <1>3, KeysDiffer
<1> QED BY <1>3, <1>4, <1>5, <1>6 DEF Halfway

LEMMA OrderStored ==
  ASSUME NEW s, StoreOK(s), NEW e \in Entity,
         NEW new, new = [s EXCEPT !.all_sorted = s.all_sorted \cup {e}]
  PROVE  /\ StoreOK(new) /\ Ids(new) = Ids(s)
         /\ Halfway(s, e, {}) => Consistent(new)
<1>1. /\ DOMAIN s = Stored /\ s.entities \subseteq Record
      /\ \A r, q \in s.entities : r.id = q.id => r = q
      /\ \A k \in Stored \ {"entities"} : s[k] \subseteq Entity
  BY KeysStored DEF StoreOK
<1>2. /\ DOMAIN new = Stored /\ new.entities = s.entities
      /\ new.all_sorted = s.all_sorted \cup {e}
      /\ \A k \in Stored \ {"all_sorted"} : new[k] = s[k]
  BY <1>1, KeysDiffer
<1>3. StoreOK(new)
  BY <1>1, <1>2, KeysStored, KeysDiffer DEF StoreOK
<1>4. Ids(new) = Ids(s) /\ \A u : OfType(new, u) = OfType(s, u)
  BY <1>2, IdsAndTypes
<1>5. \A u \in EntityType : new[u] = s[u]
  BY <1>2, KeysDiffer
<1> QED BY <1>2, <1>3, <1>4, <1>5 DEF Halfway, Consistent

-----------------------------------------------------------------------------
(* The search for the next subordinate.                                    *)

LEMMA LeastBelow ==
  ASSUME NEW S, S \subseteq Nat, S # {}
  PROVE  \E n \in S : \A m \in S : n <= m
<1>1. PICK n \in S : \A m \in S : ~(<<m, n>> \in OpToRel(<, Nat))
  BY NatLessThanWellFounded, WFMin
<1>2. \A m \in S : ~(m < n)
  BY <1>1 DEF OpToRel
<1> QED BY <1>2

LEMMA LeastIn ==
  ASSUME NEW S, S \subseteq Nat, S # {}
  PROVE  LET n == CHOOSE n \in S : \A m \in S : n <= m
         IN  n \in S /\ \A m \in S : n <= m
  BY LeastBelow

LEMMA RestIsSeq ==
  ASSUME NEW S, NEW s \in Seq(S), NEW k \in DOMAIN s
  PROVE  SubSeq(s, k + 1, Len(s)) \in Seq(S)
<1>1. Len(s) \in Nat /\ DOMAIN s = 1 .. Len(s)
  BY LenProperties
<1>2. PICK n \in Nat : n = Len(s)
  BY <1>1
<1>3. k + 1 \in Int /\ n \in Int /\ \A j \in k + 1 .. n : s[j] \in S
  BY <1>1, <1>2, ElementOfSeq
<1> QED BY <1>2, <1>3, SubSeqProperties

(* Onward visits an entity that has not been visited, or begins the swap.  *)
Moved(job, new) ==
  /\ new \in WalkRecord
  /\ new.visited = job.visited /\ new.alone = job.alone /\ new.steady = job.steady
  /\ \/ new.pc = "swap" /\ new.command = 1
     \/ new.pc = "enter" /\ new.at \in Entity /\ new.at \notin job.visited

LEMMA OnwardMoves ==
  ASSUME NEW job \in WalkRecord
  PROVE  Moved(job, Onward(job))
<1> DEFINE left(i)   == {k \in DOMAIN job.stack[i] : job.stack[i][k] \notin job.visited}
           open      == {i \in DOMAIN job.stack : left(i) # {}}
           least(ns) == CHOOSE n \in ns : \A m \in ns : n <= m
           inner     == least(open)
           next      == least(left(inner))
           subs      == job.stack[inner]
           later     == SubSeq(subs, next + 1, Len(subs))
           outer     == SubSeq(job.stack, inner + 1, Len(job.stack))
<1>1. CASE open = {}
  <2> DEFINE new == [job EXCEPT !.pc = "swap", !.stack = <<>>, !.command = 1]
  <2>1. Onward(job) = new
    BY <1>1 DEF Onward
  <2>2. 1 \in 0 .. Len(Keys) + 2
    BY KeysStored
  <2>3. /\ new \in WalkRecord /\ new.pc = "swap" /\ new.command = 1
        /\ new.visited = job.visited /\ new.alone = job.alone /\ new.steady = job.steady
    <3>1. PICK none : none = <<>> /\ none \in Seq(Seq(Entity))
      BY EmptySeq
    <3>2. PICK n : n = Len(Keys) + 2 /\ 1 \in 0 .. n
      BY <2>2
    <3>3. new = [job EXCEPT !.pc = "swap", !.stack = none, !.command = 1]
      BY <3>1
    <3> HIDE DEF new, open
    <3> QED BY <3>1, <3>2, <3>3 DEF WalkRecord
  <2> HIDE DEF new
  <2> QED BY <2>1, <2>3 DEF Moved
<1>2. CASE open # {}
  <2>1. job.stack \in Seq(Seq(Entity))
    BY DEF WalkRecord
  <2>2. DOMAIN job.stack = 1 .. Len(job.stack) /\ Len(job.stack) \in Nat
    BY <2>1, LenProperties
  <2>3. open \subseteq Nat
    BY <2>2
  <2>4. inner \in open
    BY <1>2, <2>3, LeastIn
  <2>5. inner \in DOMAIN job.stack /\ left(inner) # {}
    BY <2>4
  <2>6. inner \in 1 .. Len(job.stack)
    BY <2>2, <2>5
  <2> HIDE DEF inner
  <2>7. subs \in Seq(Entity)
    BY <2>1, <2>6, ElementOfSeq
  <2>8. DOMAIN subs = 1 .. Len(subs) /\ Len(subs) \in Nat
    BY <2>7, LenProperties
  <2>9. left(inner) \subseteq Nat
    BY <2>8
  <2>10. next \in left(inner)
    BY <2>5, <2>9, LeastIn
  <2>11. next \in DOMAIN subs /\ subs[next] \notin job.visited
    BY <2>10
  <2> DEFINE first == subs[next]
  <2>12. first \in Entity
    <3> HIDE DEF next, subs
    <3> QED BY <2>7, <2>8, <2>11, ElementOfSeq
  <2>13. later \in Seq(Entity)
    <3> HIDE DEF next, subs
    <3> QED BY <2>7, <2>11, RestIsSeq
  <2>14. outer \in Seq(Seq(Entity))
    BY <2>1, <2>5, RestIsSeq
  <2> DEFINE stack == <<later>> \o outer
             new == [job EXCEPT !.pc = "enter", !.at = first, !.stack = stack]
  <2>15. Onward(job) = new
    BY <1>2 DEF Onward, inner
  <2> HIDE DEF later, outer
  <2>16. <<later>> \in Seq(Seq(Entity))
    BY <2>13
  <2>17. stack \in Seq(Seq(Entity))
    BY <2>14, <2>16, ConcatProperties
  <2>18. first \notin job.visited
    BY <2>11
  <2> HIDE DEF stack, first, next, open
  <2>19. /\ new \in WalkRecord /\ new.pc = "enter" /\ new.at = first
         /\ new.visited = job.visited /\ new.alone = job.alone /\ new.steady = job.steady
    BY <2>12, <2>17 DEF WalkRecord
  <2> HIDE DEF new
  <2> QED BY <2>12, <2>15, <2>18, <2>19 DEF Moved
<1> QED BY <1>1, <1>2

-----------------------------------------------------------------------------
(* The inductive invariant.                                                *)

JobOK(job) ==
  /\ job \in WalkRecord
  /\ job.pc \in {"enter", "record", "types", "list"} => job.at \in Entity
  /\ job.pc \in {"record", "types", "list"} =>
       /\ job.config \in Configuration /\ job.config.metadata \in SUBSET EntityType
       /\ Len(job.stack) <= MAX_COLLECTION_DEPTH

CachesOK ==
  caches \in [entities : SUBSET Entity, statements : SUBSET (Entity \X Entity),
              rp : SUBSET Entity, op : SUBSET Entity, taia : SUBSET Entity]

TypesOK ==
  /\ fed \in Federations /\ StoreOK(staging) /\ StoreOK(live)
  /\ updated \in BOOLEAN /\ clean \in BOOLEAN /\ CachesOK
  /\ walk \in [Walker -> WalkRecord] /\ \A w \in Walker : JobOK(walk[w])
  /\ reader \in ReadRecord

(* The keys renamed when command c of a swap is next, and what was and is  *)
(* staged: with those already live.                                        *)
Done(c) == {Keys[n] : n \in 1 .. c - 2}
Merged(st, lv, c) == [k \in Stored |-> IF k \in Done(c) THEN lv[k] ELSE st[k]]

Moving(st, lv, c) ==
  /\ Consistent(Merged(st, lv, c))
  /\ \A k \in Stored : IF k \in Done(c) THEN st[k] = {} ELSE c > 1 => lv[k] = {}

(* What a walk on its own has made of the staging keys.                    *)
Staged(job, st, lv) ==
  /\ job.pc \in {"enter", "record", "list"} => Consistent(st)
  /\ job.pc \in {"enter", "record", "types", "list"} => Ids(st) \subseteq job.visited
  /\ job.pc = "enter" => job.at \notin job.visited
  /\ job.pc = "record" => job.at \in job.visited \ Ids(st)
  /\ job.pc = "types" => Halfway(st, job.at, job.types)
  /\ job.pc = "swap" => Moving(st, lv, job.command)

Lone(w) ==
  walk[w].pc # "idle" /\ walk[w].alone =>
    /\ \A v \in Walker \ {w} : walk[v].pc = "idle"
    /\ Staged(walk[w], staging, live)

LiveOK == clean /\ ~Swapping => Consistent(live)

(* What a request is to be answered, and what of it is in hand while it is *)
(* put together.                                                           *)
Wanted(lv, f) == {r \in lv.entities : f = <<>> \/ r.types \cap Range(f) # {}}

Gathering(rd, lv, up) ==
  /\ rd.pc = "ids" =>
       /\ rd.answer = {} /\ Range(rd.types) \subseteq Range(rd.filter)
       /\ rd.ids \subseteq {r.id : r \in Wanted(lv, rd.filter)}
       /\ \A t \in Range(rd.filter) \ Range(rd.types) : lv[t] \subseteq rd.ids
  /\ rd.pc = "each" =>
       /\ rd.ids \subseteq {r.id : r \in Wanted(lv, rd.filter)}
       /\ rd.answer = {r \in Wanted(lv, rd.filter) : r.id \notin rd.ids}
  /\ rd.pc = "done" => rd.answer = Wanted(lv, rd.filter) /\ rd.stamp = up

ReaderOK ==
  reader.undisturbed /\ clean => ~Swapping /\ Gathering(reader, live, updated)

CollectionInv ==
  TypesOK /\ (\A w \in Walker : Lone(w)) /\ LiveOK /\ ReaderOK

-----------------------------------------------------------------------------
(* The steps of a walk.                                                    *)

LEMMA OnlyOne ==
  ASSUME CollectionInv, NEW w \in Walker, NEW v \in Walker, v # w,
         walk[v].pc # "idle", walk[w].pc # "idle"
  PROVE  ~walk[v].alone /\ ~walk[w].alone
  BY DEF CollectionInv, Lone

LEMMA NoWalkOK == JobOK(NoWalk) /\ NoWalk.pc = "idle" /\ NoWalk.command = 0
<1>1. PICK none : none = <<>> /\ none \in Seq(Seq(Entity))
  BY EmptySeq
<1>2. 0 \in 0 .. Len(Keys) + 2
  BY KeysStored
<1>3. NoWalk = [pc |-> "idle", at |-> None, config |-> None, types |-> {},
                stack |-> none, visited |-> {}, command |-> 0, steady |-> TRUE,
                alone |-> TRUE]
  BY <1>1 DEF NoWalk
<1>4. NoWalk \in WalkRecord
  BY <1>1, <1>2, <1>3 DEF WalkRecord
<1> QED BY <1>3, <1>4 DEF JobOK

(* A step of a walk, and of nothing else but staging and the caches.       *)
LEMMA WalkSteps ==
  ASSUME CollectionInv, NEW w \in Walker, walk[w].pc # "idle", NEW new,
         walk' = [walk EXCEPT ![w] = new], JobOK(new),
         new.alone = walk[w].alone \/ new.pc = "idle",
         walk[w].alone /\ new.pc # "idle" => Staged(new, staging', live')
  PROVE  /\ walk' \in [Walker -> WalkRecord] /\ \A v \in Walker : JobOK(walk'[v])
         /\ \A v \in Walker : Lone(v)'
<1>1. walk \in [Walker -> WalkRecord] /\ \A v \in Walker : JobOK(walk[v])
  BY DEF CollectionInv, TypesOK
<1>2. /\ walk'[w] = new /\ \A v \in Walker \ {w} : walk'[v] = walk[v]
      /\ walk' \in [Walker -> WalkRecord]
  BY <1>1 DEF JobOK
<1>3. \A v \in Walker : JobOK(walk'[v])
  BY <1>1, <1>2
<1>4. ASSUME NEW v \in Walker, walk'[v].pc # "idle", walk'[v].alone
      PROVE  /\ \A u \in Walker \ {v} : walk'[u].pc = "idle"
             /\ Staged(walk'[v], staging', live')
  <2>1. v = w
    BY <1>2, <1>4, OnlyOne
  <2>2. walk[w].alone /\ new.pc # "idle"
    BY <1>2, <1>4, <2>1
  <2>3. \A u \in Walker \ {w} : walk[u].pc = "idle"
    BY <2>2 DEF CollectionInv, Lone
  <2> QED BY <1>2, <2>1, <2>2, <2>3
<1>5. \A v \in Walker : Lone(v)'
  BY <1>4 DEF Lone
<1> QED BY <1>2, <1>3, <1>5

LEMMA QuietStep ==
  ASSUME CollectionInv, NEW w \in Walker, walk[w].pc \notin {"idle", "swap"}, NEW new,
         walk' = [walk EXCEPT ![w] = new], JobOK(new),
         new.alone = walk[w].alone \/ new.pc = "idle",
         walk[w].alone /\ new.pc # "idle" => Staged(new, staging', live'),
         new.pc = "swap" => new.command = 1,
         fed' = fed, StoreOK(staging'), live' = live, updated' = updated,
         clean' = clean, reader' = reader, CachesOK'
  PROVE  CollectionInv'
<1>1. /\ walk' \in [Walker -> WalkRecord] /\ \A v \in Walker : JobOK(walk'[v])
      /\ \A v \in Walker : Lone(v)'
  BY WalkSteps
<1>2. TypesOK'
  BY <1>1 DEF CollectionInv, TypesOK, StoreOK, Keys, JobOK
<1>3. Swapping' <=> Swapping
  <2>1. walk \in [Walker -> WalkRecord]
    BY DEF CollectionInv, TypesOK
  <2>2. walk'[w] = new /\ \A v \in Walker \ {w} : walk'[v] = walk[v]
    BY <2>1
  <2>3. ~(new.pc = "swap" /\ new.command > 1)
    OBVIOUS
  <2> QED BY <2>2, <2>3 DEF Swapping
<1>4. LiveOK' /\ ReaderOK'
  BY <1>3 DEF CollectionInv, LiveOK, ReaderOK, Consistent, Ids, OfType, Gathering, Wanted
<1> QED BY <1>1, <1>2, <1>4 DEF CollectionInv

(* What Onward leaves of a walk on its own. *)
LEMMA NothingDone == Done(1) = {} /\ Done(2) = {}
  BY DEF Done

LEMMA SameFields ==
  ASSUME NEW s, NEW u, \A k \in Stored : s[k] = u[k]
  PROVE  Ids(s) = Ids(u) /\ (Consistent(s) <=> Consistent(u))
<1>1. /\ s.entities = u.entities /\ s.all_sorted = u.all_sorted
      /\ \A t \in EntityType : s[t] = u[t]
  BY KeysDiffer
<1>2. Ids(s) = Ids(u) /\ \A t : OfType(s, t) = OfType(u, t)
  BY <1>1, IdsAndTypes
<1> QED BY <1>1, <1>2 DEF Consistent

LEMMA MergedStaging ==
  ASSUME NEW st, NEW lv, NEW c \in {1, 2}
  PROVE  Consistent(Merged(st, lv, c)) <=> Consistent(st)
<1> DEFINE m == Merged(st, lv, c)
<1>1. \A k \in Stored : m[k] = st[k]
  BY NothingDone DEF Merged
<1> HIDE DEF m
<1> QED BY <1>1, SameFields DEF m

LEMMA MovedOK ==
  ASSUME NEW job, NEW new, Moved(job, new), NEW st, NEW lv
  PROVE  /\ JobOK(new) /\ new.alone = job.alone
         /\ new.pc = "swap" => new.command = 1
         /\ Consistent(st) /\ Ids(st) \subseteq job.visited => Staged(new, st, lv)
<1>1. JobOK(new)
  BY DEF Moved, JobOK
<1>2. ASSUME Consistent(st)
      PROVE  Moving(st, lv, 1)
  BY <1>2, NothingDone, MergedStaging DEF Moving
<1> QED BY <1>1, <1>2 DEF Moved, Staged

(* What is known of a walk that runs. *)
LEMMA WalkKnown ==
  ASSUME CollectionInv, NEW w \in Walker
  PROVE  /\ walk \in [Walker -> WalkRecord] /\ JobOK(walk[w]) /\ walk[w] \in WalkRecord
         /\ StoreOK(staging) /\ StoreOK(live) /\ CachesOK /\ fed \in Federation
         /\ walk[w].alone /\ walk[w].pc # "idle" => Staged(walk[w], staging, live)
  BY FederationsAssumption DEF CollectionInv, TypesOK, Lone, JobOK

LEMMA EnterStep ==
  ASSUME CollectionInv, NEW w \in Walker, Enter(w)
  PROVE  CollectionInv'
<1>1. PICK job : job = walk[w]
  OBVIOUS
<1>2. /\ JobOK(job) /\ job \in WalkRecord /\ StoreOK(staging) /\ CachesOK
      /\ fed \in Federation /\ job.pc = "enter" /\ job.at \in Entity
      /\ job.alone => /\ Consistent(staging) /\ Ids(staging) \subseteq job.visited
                      /\ job.at \notin job.visited
  BY <1>1, WalkKnown DEF Enter, Staged, JobOK
<1> DEFINE e == job.at
           visit == [job EXCEPT !.visited = @ \cup {e}, !.config = fed[e]]
           record == [visit EXCEPT !.pc = "record"]
<1>3. /\ fed' = fed /\ staging' = staging /\ live' = live /\ updated' = updated
      /\ reader' = reader /\ clean' = clean
  BY DEF Enter
<1>4. fed[e] \in Configuration \cup {None}
  BY <1>2 DEF Federation
<1>5. /\ visit \in WalkRecord /\ visit.visited = job.visited \cup {e}
      /\ visit.config = fed[e] /\ visit.at = e /\ visit.alone = job.alone
      /\ visit.stack = job.stack /\ visit.pc = "enter"
  BY <1>2, <1>4 DEF WalkRecord
<1> HIDE DEF visit
<1>6. JobOK(visit)
  BY <1>2, <1>5 DEF JobOK
<1>7. ASSUME NEW new, Moved(job, new) \/ Moved(visit, new)
      PROVE  /\ JobOK(new) /\ new.alone = job.alone
             /\ new.pc = "swap" => new.command = 1
             /\ job.alone => Staged(new, staging, live)
  <2>1. CASE Moved(job, new)
    BY <1>2, <2>1, MovedOK
  <2>2. CASE Moved(visit, new)
    BY <1>2, <1>5, <1>6, <2>2, MovedOK
  <2> QED BY <1>7, <2>1, <2>2
<1>8. ASSUME Len(job.stack) <= MAX_COLLECTION_DEPTH, fed[e] # None,
             fed[e].metadata # None
      PROVE  /\ JobOK(record) /\ record.alone = job.alone /\ record.pc = "record"
             /\ job.alone => Staged(record, staging, live)
  <2>1. /\ record \in WalkRecord /\ record.pc = "record" /\ record.at = e
        /\ record.config = fed[e] /\ record.visited = job.visited \cup {e}
        /\ record.stack = job.stack /\ record.alone = job.alone
    BY <1>5 DEF WalkRecord
  <2>2. fed[e] \in Configuration /\ fed[e].metadata \in SUBSET EntityType
    BY <1>4, <1>8 DEF Configuration
  <2> HIDE DEF record
  <2>3. JobOK(record)
    BY <1>2, <1>8, <2>1, <2>2 DEF JobOK
  <2>4. job.alone => Staged(record, staging, live)
    BY <1>2, <2>1 DEF Staged
  <2> QED BY <2>1, <2>3, <2>4
<1>9. PICK new :
        /\ walk' = [walk EXCEPT ![w] = new] /\ JobOK(new) /\ new.alone = job.alone
        /\ new.pc = "swap" => new.command = 1
        /\ job.alone => Staged(new, staging, live)
  <2>1. \/ Proceed(w, Onward(job))
        \/ Proceed(w, Onward(visit))
        \/ /\ Len(job.stack) <= MAX_COLLECTION_DEPTH /\ fed[e] # None
           /\ fed[e].metadata # None /\ Proceed(w, record)
    BY <1>1 DEF Enter, visit
  <2>2. Moved(job, Onward(job)) /\ Moved(visit, Onward(visit))
    BY <1>2, <1>5, OnwardMoves
  <2> HIDE DEF record
  <2> QED BY <1>7, <1>8, <2>1, <2>2 DEF Proceed
<1>10. CachesOK'
  <2>1. CASE caches' = caches
    BY <1>2, <2>1 DEF CachesOK
  <2>2. CASE /\ fed[e] # None
             /\ caches' = [caches EXCEPT
                   !.entities = @ \cup {e},
                   !.statements = @ \cup {<<a, e>> : a \in Statements(e)}]
    <3>1. Statements(e) \subseteq Entity
      BY <1>4, <2>2 DEF Statements, Configuration
    <3>2. PICK added : added = {<<a, e>> : a \in Statements(e)}
      OBVIOUS
    <3>3. added \subseteq Entity \X Entity
      BY <1>2, <3>1, <3>2
    <3>4. PICK found \in SUBSET Entity : found = caches.entities \cup {e}
      BY <1>2 DEF CachesOK
    <3>5. PICK told \in SUBSET (Entity \X Entity) : told = caches.statements \cup added
      BY <1>2, <3>3 DEF CachesOK
    <3>6. caches' = [caches EXCEPT !.entities = found, !.statements = told]
      BY <2>2, <3>2, <3>4, <3>5
    <3> QED BY <1>2, <3>6 DEF CachesOK
  <2> QED BY <1>1, <2>1, <2>2 DEF Enter
<1> QED BY <1>1, <1>2, <1>3, <1>9, <1>10, QuietStep

LEMMA HsetStep ==
  ASSUME CollectionInv, NEW w \in Walker, HsetEntity(w)
  PROVE  CollectionInv'
<1>1. PICK job : job = walk[w]
  OBVIOUS
<1>2. /\ JobOK(job) /\ job \in WalkRecord /\ StoreOK(staging) /\ CachesOK
      /\ job.pc = "record" /\ job.at \in Entity
      /\ job.config.metadata \in SUBSET EntityType /\ job.config \in Configuration
      /\ Len(job.stack) <= MAX_COLLECTION_DEPTH
      /\ job.alone => /\ Consistent(staging) /\ Ids(staging) \subseteq job.visited
                      /\ job.at \in job.visited \ Ids(staging)
  BY <1>1, WalkKnown DEF HsetEntity, Staged, JobOK
<1> DEFINE T == DetectedTypes(job.config.metadata)
           new == [job EXCEPT !.pc = "types", !.types = T]
<1>3. T \in SUBSET EntityType
  BY <1>2, KeysStored DEF DetectedTypes
<1> HIDE DEF T
<1>4. /\ fed' = fed /\ live' = live /\ updated' = updated /\ caches' = caches
      /\ reader' = reader /\ clean' = clean
      /\ staging' = [staging EXCEPT !.entities =
                       {r \in staging.entities : r.id # job.at}
                         \cup {[id |-> job.at, types |-> T]}]
  BY <1>1 DEF HsetEntity, T
<1>5. walk' = [walk EXCEPT ![w] = new]
  <2>1. walk' = [walk EXCEPT ![w].pc = "types", ![w].types = T]
    BY <1>1 DEF HsetEntity, T
  <2>2. walk \in [Walker -> WalkRecord]
    BY WalkKnown
  <2> QED BY <1>1, <2>1, <2>2 DEF WalkRecord
<1>6. /\ StoreOK(staging') /\ Ids(staging') = Ids(staging) \cup {job.at}
      /\ Consistent(staging) /\ job.at \notin Ids(staging) => Halfway(staging', job.at, T)
  BY <1>2, <1>3, <1>4, EntityStored
<1>7. /\ new \in WalkRecord /\ new.pc = "types" /\ new.types = T /\ new.at = job.at
      /\ new.config = job.config /\ new.visited = job.visited
      /\ new.stack = job.stack /\ new.alone = job.alone
  BY <1>2, <1>3 DEF WalkRecord
<1> HIDE DEF new
<1>8. JobOK(new)
  BY <1>2, <1>7 DEF JobOK
<1>9. PICK st : st = staging'
  OBVIOUS
<1>10. job.alone => Staged(new, st, live')
  BY <1>2, <1>6, <1>7, <1>9 DEF Staged
<1>11. CachesOK'
  BY <1>2, <1>4 DEF CachesOK
<1> QED BY <1>1, <1>2, <1>4, <1>5, <1>6, <1>7, <1>8, <1>9, <1>10, <1>11, QuietStep

LEMMA SaddStep ==
  ASSUME CollectionInv, NEW w \in Walker, SaddType(w)
  PROVE  CollectionInv'
<1>1. PICK job : job = walk[w]
  OBVIOUS
<1>2. PICK t \in job.types :
        /\ job.pc = "types"
        /\ staging' = [staging EXCEPT ![t] = @ \cup {job.at}]
        /\ walk' = [walk EXCEPT ![w].types = @ \ {t}]
        /\ UNCHANGED <<fed, live, updated, caches, reader, clean, counters>>
  BY <1>1 DEF SaddType
<1>3. /\ JobOK(job) /\ job \in WalkRecord /\ StoreOK(staging) /\ CachesOK
      /\ job.at \in Entity /\ t \in EntityType
      /\ job.config.metadata \in SUBSET EntityType /\ job.config \in Configuration
      /\ Len(job.stack) <= MAX_COLLECTION_DEPTH
      /\ job.alone => /\ Halfway(staging, job.at, job.types)
                      /\ Ids(staging) \subseteq job.visited
  BY <1>1, <1>2, WalkKnown DEF Staged, JobOK, WalkRecord
<1> DEFINE rest == job.types \ {t}
           new == [job EXCEPT !.types = rest]
<1>4. walk' = [walk EXCEPT ![w] = new]
  BY <1>1, <1>2, WalkKnown DEF WalkRecord
<1>5. staging' = [staging EXCEPT ![t] = staging[t] \cup {job.at}]
  <2>1. t \in DOMAIN staging
    BY <1>3, KeysStored, KeysDiffer DEF StoreOK
  <2> QED BY <1>2, <2>1
<1>6. /\ StoreOK(staging') /\ Ids(staging') = Ids(staging)
      /\ Halfway(staging, job.at, job.types) /\ t \in job.types =>
           Halfway(staging', job.at, rest)
  BY <1>3, <1>5, TypeStored
<1>7. rest \in SUBSET EntityType
  BY <1>3 DEF WalkRecord
<1> HIDE DEF rest
<1>8. /\ new \in WalkRecord /\ new.pc = "types" /\ new.types = rest /\ new.at = job.at
      /\ new.config = job.config /\ new.visited = job.visited
      /\ new.stack = job.stack /\ new.alone = job.alone
  BY <1>2, <1>3, <1>7 DEF WalkRecord
<1> HIDE DEF new
<1>9. JobOK(new)
  BY <1>3, <1>8 DEF JobOK
<1>10. PICK st : st = staging'
  OBVIOUS
<1>11. job.alone => Staged(new, st, live')
  BY <1>2, <1>3, <1>6, <1>8, <1>10 DEF Staged
<1>12. CachesOK'
  BY <1>2, <1>3 DEF CachesOK
<1> QED BY <1>1, <1>2, <1>4, <1>6, <1>8, <1>9, <1>10, <1>11, <1>12, QuietStep

LEMMA ZaddStep ==
  ASSUME CollectionInv, NEW w \in Walker, ZaddSorted(w)
  PROVE  CollectionInv'
<1>1. PICK job : job = walk[w]
  OBVIOUS
<1>2. /\ job.pc = "types" /\ job.types = {}
      /\ staging' = [staging EXCEPT !.all_sorted = @ \cup {job.at}]
      /\ walk' = [walk EXCEPT ![w].pc = "list"]
      /\ UNCHANGED <<fed, live, updated, caches, reader, clean, counters>>
  BY <1>1 DEF ZaddSorted
<1>3. /\ JobOK(job) /\ job \in WalkRecord /\ StoreOK(staging) /\ CachesOK
      /\ job.at \in Entity
      /\ job.config.metadata \in SUBSET EntityType /\ job.config \in Configuration
      /\ Len(job.stack) <= MAX_COLLECTION_DEPTH
      /\ job.alone => /\ Halfway(staging, job.at, {})
                      /\ Ids(staging) \subseteq job.visited
  BY <1>1, <1>2, WalkKnown DEF Staged, JobOK
<1> DEFINE new == [job EXCEPT !.pc = "list"]
<1>4. walk' = [walk EXCEPT ![w] = new]
  BY <1>1, <1>2, WalkKnown DEF WalkRecord
<1>5. staging' = [staging EXCEPT !.all_sorted = staging.all_sorted \cup {job.at}]
  <2>1. "all_sorted" \in DOMAIN staging
    BY <1>3, KeysStored, KeysDiffer DEF StoreOK
  <2> QED BY <1>2, <2>1
<1>6. /\ StoreOK(staging') /\ Ids(staging') = Ids(staging)
      /\ Halfway(staging, job.at, {}) => Consistent(staging')
  BY <1>3, <1>5, OrderStored
<1>7. /\ new \in WalkRecord /\ new.pc = "list" /\ new.at = job.at
      /\ new.config = job.config /\ new.visited = job.visited
      /\ new.stack = job.stack /\ new.alone = job.alone
  BY <1>3 DEF WalkRecord
<1> HIDE DEF new
<1>8. JobOK(new)
  BY <1>3, <1>7 DEF JobOK
<1>9. PICK st : st = staging'
  OBVIOUS
<1>10. job.alone => Staged(new, st, live')
  BY <1>3, <1>6, <1>7, <1>9 DEF Staged
<1>11. CachesOK'
  BY <1>2, <1>3 DEF CachesOK
<1> QED BY <1>1, <1>2, <1>4, <1>6, <1>7, <1>8, <1>9, <1>10, <1>11, QuietStep

LEMMA ListStep ==
  ASSUME CollectionInv, NEW w \in Walker, FetchList(w)
  PROVE  CollectionInv'
<1>1. PICK job : job = walk[w]
  OBVIOUS
<1> DEFINE e == job.at
           subs == IF "federation_entity" \in job.config.metadata /\ fed[e] # None
                     THEN fed[e].list ELSE <<>>
           class == Class(job.config.metadata)
<1>2. /\ job.pc = "list"
      /\ caches' = [caches EXCEPT ![class] = @ \cup {e}]
      /\ walk' = [walk EXCEPT ![w] = Onward([job EXCEPT !.stack = <<subs>> \o @])]
      /\ UNCHANGED <<fed, staging, live, updated, reader, clean, counters>>
  BY <1>1 DEF FetchList, Proceed
<1>3. /\ JobOK(job) /\ job \in WalkRecord /\ StoreOK(staging) /\ CachesOK
      /\ e \in Entity /\ fed \in Federation
      /\ job.alone => Consistent(staging) /\ Ids(staging) \subseteq job.visited
  BY <1>1, <1>2, WalkKnown DEF Staged, JobOK
<1>4. subs \in Seq(Entity)
  <2>1. fed[e] \in Configuration \cup {None}
    BY <1>3 DEF Federation
  <2>2. <<>> \in Seq(Entity)
    BY EmptySeq
  <2> QED BY <2>1, <2>2 DEF Configuration
<1>5. class \in {"rp", "op", "taia"}
  BY DEF Class
<1> HIDE DEF subs, class
<1> DEFINE stack == <<subs>> \o job.stack
           deeper == [job EXCEPT !.stack = stack]
<1>6. stack \in Seq(Seq(Entity))
  <2>1. <<subs>> \in Seq(Seq(Entity)) /\ job.stack \in Seq(Seq(Entity))
    BY <1>3, <1>4 DEF WalkRecord
  <2> QED BY <2>1, ConcatProperties
<1>7. walk' = [walk EXCEPT ![w] = Onward(deeper)]
  BY <1>2, <1>3 DEF WalkRecord
<1> HIDE DEF stack
<1>8. /\ deeper \in WalkRecord /\ deeper.visited = job.visited
      /\ deeper.alone = job.alone
  BY <1>3, <1>6 DEF WalkRecord
<1> HIDE DEF deeper
<1>9. Moved(deeper, Onward(deeper))
  BY <1>8, OnwardMoves
<1>10. PICK new : new = Onward(deeper)
  OBVIOUS
<1>11. /\ JobOK(new) /\ new.alone = job.alone /\ (new.pc = "swap" => new.command = 1)
       /\ job.alone => Staged(new, staging, live)
  BY <1>3, <1>8, <1>9, <1>10, MovedOK
<1>12. CachesOK'
  BY <1>2, <1>3, <1>5 DEF CachesOK
<1> QED BY <1>1, <1>2, <1>3, <1>7, <1>10, <1>11, <1>12, QuietStep

LEMMA DieStep ==
  ASSUME CollectionInv, NEW w \in Walker, Die(w)
  PROVE  CollectionInv'
<1>1. PICK job : job = walk[w]
  OBVIOUS
<1>2. PICK new : new = NoWalk
  OBVIOUS
<1>3. /\ job.pc \notin {"idle", "swap"} /\ walk' = [walk EXCEPT ![w] = new]
      /\ UNCHANGED <<fed, staging, live, updated, caches, reader, clean>>
  BY <1>1, <1>2 DEF Die
<1>4. JobOK(new) /\ new.pc = "idle"
  BY <1>2, NoWalkOK
<1>5. StoreOK(staging') /\ CachesOK'
  BY <1>3, WalkKnown DEF CachesOK
<1> QED BY <1>1, <1>3, <1>4, <1>5, QuietStep

-----------------------------------------------------------------------------
(* The steps of the swap.                                                  *)

(* A step of the swap disturbs the request in progress.                    *)
LEMMA SwapStep ==
  ASSUME CollectionInv, NEW w \in Walker, walk[w].pc = "swap", NEW new,
         walk' = [walk EXCEPT ![w] = new], JobOK(new),
         new.alone = walk[w].alone \/ new.pc = "idle",
         walk[w].alone /\ new.pc # "idle" => Staged(new, staging', live'),
         new.pc = "swap" => new.command > 1,
         new.pc = "idle" /\ clean' => Consistent(live'),
         new.pc \in {"idle", "swap"},
         StoreOK(staging'), StoreOK(live'), updated' \in BOOLEAN, clean' \in BOOLEAN,
         fed' = fed, caches' = caches, Disturb
  PROVE  CollectionInv'
<1>1. /\ walk' \in [Walker -> WalkRecord] /\ \A v \in Walker : JobOK(walk'[v])
      /\ \A v \in Walker : Lone(v)'
  BY WalkSteps
<1>2. reader' \in ReadRecord /\ reader'.undisturbed = FALSE
  <2>1. reader \in ReadRecord
    BY DEF CollectionInv, TypesOK
  <2> QED BY <2>1 DEF Disturb, ReadRecord
<1>3. TypesOK'
  <2>1. PICK st : st = staging'
    OBVIOUS
  <2>2. PICK lv : lv = live'
    OBVIOUS
  <2>3. StoreOK(st) /\ StoreOK(lv) /\ CachesOK' /\ fed' \in Federations
    BY <2>1, <2>2 DEF CachesOK, CollectionInv, TypesOK
  <2> QED BY <1>1, <1>2, <2>1, <2>2, <2>3 DEF TypesOK, StoreOK, Keys, JobOK
<1>4. LiveOK'
  <2>1. walk'[w] = new
    BY DEF CollectionInv, TypesOK
  <2>2. CASE new.pc = "swap"
    BY <2>1, <2>2 DEF LiveOK, Swapping
  <2>3. CASE new.pc = "idle"
    <3>1. PICK lv : lv = live'
      OBVIOUS
    <3>2. clean' => Consistent(lv)
      BY <2>3, <3>1
    <3> QED BY <3>1, <3>2 DEF LiveOK, Consistent, Ids, OfType
  <2> QED BY <2>2, <2>3
<1>5. ReaderOK'
  BY <1>2 DEF ReaderOK
<1> QED BY <1>1, <1>3, <1>4, <1>5 DEF CollectionInv

LEMMA DelStep ==
  ASSUME CollectionInv, NEW w \in Walker, DelLive(w)
  PROVE  CollectionInv'
<1>1. PICK job : job = walk[w]
  OBVIOUS
<1>2. /\ job.pc = "swap" /\ job.command = 1 /\ walk' = [walk EXCEPT ![w].command = 2]
      /\ staging' = staging /\ updated' = FALSE /\ fed' = fed /\ caches' = caches
      /\ clean' = clean /\ Disturb
  BY <1>1 DEF DelLive
<1>3. PICK lv : lv = EmptyStore
  OBVIOUS
<1>4. live' = lv /\ StoreOK(lv) /\ \A k \in Stored : lv[k] = {}
  BY <1>3, EmptyConsistent, KeysStored DEF DelLive, EmptyStore
<1>5. /\ JobOK(job) /\ job \in WalkRecord /\ StoreOK(staging)
      /\ walk \in [Walker -> WalkRecord]
      /\ job.alone => Moving(staging, live, 1)
  BY <1>1, <1>2, WalkKnown DEF Staged
<1> DEFINE new == [job EXCEPT !.command = 2]
<1>6. walk' = [walk EXCEPT ![w] = new]
  BY <1>1, <1>2, <1>5 DEF WalkRecord
<1>7. /\ new \in WalkRecord /\ new.pc = "swap" /\ new.command = 2
      /\ new.alone = job.alone
  <2>1. 2 \in 0 .. Len(Keys) + 2
    BY KeysStored
  <2> QED BY <1>2, <1>5, <2>1 DEF WalkRecord
<1> HIDE DEF new
<1>8. JobOK(new)
  BY <1>7 DEF JobOK
<1>9. job.alone => Staged(new, staging, lv)
  <2>1. ASSUME job.alone
        PROVE  Moving(staging, lv, 2)
    <3>1. Consistent(Merged(staging, lv, 2))
      BY <1>5, <2>1, MergedStaging DEF Moving
    <3> QED BY <1>4, <3>1, NothingDone DEF Moving
  <2> QED BY <1>7, <2>1 DEF Staged
<1>10. clean' \in BOOLEAN /\ updated' \in BOOLEAN
  BY <1>2 DEF CollectionInv, TypesOK
<1>11. PICK st : st = staging'
  OBVIOUS
<1>12. /\ StoreOK(staging') /\ StoreOK(live')
       /\ walk[w].alone /\ new.pc # "idle" => Staged(new, staging', live')
  BY <1>1, <1>2, <1>4, <1>5, <1>9, <1>11
<1>13. /\ walk[w].pc = "swap" /\ new.alone = walk[w].alone /\ new.pc = "swap"
       /\ new.command > 1
       /\ fed' = fed /\ caches' = caches /\ Disturb
  BY <1>1, <1>2, <1>7
<1> QED BY <1>6, <1>8, <1>10, <1>12, <1>13, SwapStep

(* One more key is done, and what is merged stays as it was.               *)
LEMMA KeyMoves ==
  ASSUME NEW st, StoreOK(st), NEW lv, StoreOK(lv), NEW n \in DOMAIN Keys,
         NEW nst, NEW nlv,
         IF st[Keys[n]] = {} THEN nst = st /\ nlv = lv
         ELSE /\ nlv = [lv EXCEPT ![Keys[n]] = st[Keys[n]]]
              /\ nst = [st EXCEPT ![Keys[n]] = {}]
  PROVE  /\ StoreOK(nst) /\ StoreOK(nlv)
         /\ Moving(st, lv, n + 1) => /\ Moving(nst, nlv, n + 2)
                                     /\ Merged(nst, nlv, n + 2) = Merged(st, lv, n + 1)
<1>1. PICK k : k = Keys[n]
  OBVIOUS
<1>2. k \in Stored /\ n \in Nat /\ n >= 1
  BY <1>1, KeysStored DEF Range
<1>3. /\ DOMAIN st = Stored /\ DOMAIN lv = Stored
      /\ st.entities \subseteq Record /\ lv.entities \subseteq Record
      /\ \A r, q \in st.entities : r.id = q.id => r = q
      /\ \A r, q \in lv.entities : r.id = q.id => r = q
      /\ \A i \in Stored \ {"entities"} : st[i] \subseteq Entity /\ lv[i] \subseteq Entity
  BY KeysStored DEF StoreOK
<1>4. CASE st[k] = {}
  <2>1. nst = st /\ nlv = lv
    BY <1>1, <1>4
  <2>2. ASSUME Moving(st, lv, n + 1)
        PROVE  /\ Moving(st, lv, n + 2)
               /\ Merged(st, lv, n + 2) = Merged(st, lv, n + 1)
    <3>1. Done(n + 2) = Done(n + 1) \cup {k}
      BY <1>1, <1>2 DEF Done
    <3>2. \A i \in Stored : IF i \in Done(n + 1) THEN st[i] = {}
                            ELSE n + 1 > 1 => lv[i] = {}
      BY <2>2 DEF Moving
    <3>3. n + 1 > 1 /\ n + 2 > 1
      BY <1>2
    <3>4. \A i \in Stored : IF i \in Done(n + 2) THEN st[i] = {}
                            ELSE n + 2 > 1 => lv[i] = {}
      BY <1>4, <3>1, <3>2, <3>3
    <3> DEFINE a == Merged(st, lv, n + 1)
               b == Merged(st, lv, n + 2)
    <3>5. k \notin Done(n + 1) => lv[k] = {}
      BY <1>2, <3>2, <3>3
    <3>6. \A i \in Stored : a[i] = b[i]
      BY <1>4, <3>1, <3>5 DEF Merged
    <3>7. Consistent(a)
      BY <2>2 DEF Moving
    <3>8. a = b
      BY <3>6 DEF Merged
    <3> HIDE DEF a, b
    <3>9. Consistent(b)
      BY <3>7, <3>8
    <3> QED BY <3>4, <3>8, <3>9 DEF Moving, a, b
  <2> QED BY <2>1, <2>2
<1>5. CASE st[k] # {}
  <2>1. /\ nlv = [lv EXCEPT ![k] = st[k]] /\ nst = [st EXCEPT ![k] = {}]
    BY <1>1, <1>5
  <2>2. /\ DOMAIN nst = Stored /\ DOMAIN nlv = Stored
        /\ nst[k] = {} /\ nlv[k] = st[k]
        /\ \A i \in Stored \ {k} : nst[i] = st[i] /\ nlv[i] = lv[i]
    BY <1>2, <1>3, <2>1
  <2>3. \A i \in Stored : (nst[i] = st[i] \/ nst[i] = {}) /\ (nlv[i] = lv[i] \/ nlv[i] = st[i])
    BY <2>2
  <2>4. StoreOK(nst) /\ StoreOK(nlv)
    <3>1. /\ nst.entities = st.entities \/ nst.entities = {}
          /\ nlv.entities = lv.entities \/ nlv.entities = st.entities
      BY <2>3, KeysDiffer
    <3>2. \A i \in Stored \ {"entities"} : nst[i] \subseteq Entity /\ nlv[i] \subseteq Entity
      BY <1>3, <2>3
    <3> QED BY <1>3, <2>2, <3>1, <3>2, KeysStored DEF StoreOK
  <2>5. ASSUME Moving(st, lv, n + 1)
        PROVE  /\ Moving(nst, nlv, n + 2)
               /\ Merged(nst, nlv, n + 2) = Merged(st, lv, n + 1)
    <3>1. Done(n + 2) = Done(n + 1) \cup {k}
      BY <1>1, <1>2 DEF Done
    <3>2. \A i \in Stored : IF i \in Done(n + 1) THEN st[i] = {}
                            ELSE n + 1 > 1 => lv[i] = {}
      BY <2>5 DEF Moving
    <3>3. n + 1 > 1 /\ n + 2 > 1 /\ k \notin Done(n + 1)
      BY <1>2, <1>5, <3>2
    <3>4. \A i \in Stored : IF i \in Done(n + 2) THEN nst[i] = {}
                            ELSE n + 2 > 1 => nlv[i] = {}
      BY <2>2, <3>1, <3>2, <3>3
    <3> DEFINE a == Merged(st, lv, n + 1)
               b == Merged(nst, nlv, n + 2)
    <3>5. \A i \in Stored : a[i] = b[i]
      BY <2>2, <3>1, <3>3 DEF Merged
    <3>6. Consistent(a)
      BY <2>5 DEF Moving
    <3>7. a = b
      BY <3>5 DEF Merged
    <3> HIDE DEF a, b
    <3>8. Consistent(b)
      BY <3>6, <3>7
    <3> QED BY <3>4, <3>7, <3>8 DEF Moving, a, b
  <2> QED BY <2>4, <2>5
<1> QED BY <1>4, <1>5

LEMMA RenameStep ==
  ASSUME CollectionInv, NEW w \in Walker, RenameKey(w)
  PROVE  CollectionInv'
<1>1. PICK job : job = walk[w]
  OBVIOUS
<1>2. /\ JobOK(job) /\ job \in WalkRecord /\ StoreOK(staging) /\ StoreOK(live)
      /\ walk \in [Walker -> WalkRecord] /\ job.pc = "swap"
      /\ job.alone => Moving(staging, live, job.command)
  BY <1>1, WalkKnown DEF Staged, RenameKey
<1>3. job.command \in Nat
  BY <1>2, KeysStored DEF WalkRecord
<1>4. PICK n : n = job.command - 1
  OBVIOUS
<1>5. /\ n \in DOMAIN Keys
      /\ IF staging[Keys[n]] = {} THEN UNCHANGED <<live, staging>>
           ELSE /\ live' = [live EXCEPT ![Keys[n]] = staging[Keys[n]]]
                /\ staging' = [staging EXCEPT ![Keys[n]] = {}]
      /\ walk' = [walk EXCEPT ![w].command = @ + 1]
      /\ Disturb
      /\ UNCHANGED <<fed, updated, caches, clean, counters>>
  BY <1>1, <1>4 DEF RenameKey
<1>6. n \in 1 .. Len(Keys) /\ Len(Keys) \in Nat
  BY <1>5, KeysStored
<1>7. PICK m \in Nat : m = Len(Keys)
  BY <1>6
<1>8. job.command = n + 1 /\ n + 2 \in 0 .. Len(Keys) + 2 /\ n + 2 > 1
  BY <1>3, <1>4, <1>6, <1>7
<1>9. PICK c : c = n + 2 /\ c = job.command + 1 /\ c > 1 /\ c \in 0 .. Len(Keys) + 2
  BY <1>6, <1>8
<1> DEFINE new == [job EXCEPT !.command = c]
<1>10. walk' = [walk EXCEPT ![w] = new]
  BY <1>1, <1>2, <1>5, <1>9 DEF WalkRecord
<1>11. /\ new \in WalkRecord /\ new.pc = "swap" /\ new.command = c
       /\ new.alone = job.alone
  BY <1>2, <1>9 DEF WalkRecord
<1> HIDE DEF new
<1>12. JobOK(new)
  BY <1>11 DEF JobOK
<1>13. PICK st : st = staging'
  OBVIOUS
<1>14. PICK lv : lv = live'
  OBVIOUS
<1>15. IF staging[Keys[n]] = {} THEN st = staging /\ lv = live
       ELSE /\ lv = [live EXCEPT ![Keys[n]] = staging[Keys[n]]]
            /\ st = [staging EXCEPT ![Keys[n]] = {}]
  BY <1>5, <1>13, <1>14
<1>16. /\ StoreOK(st) /\ StoreOK(lv)
       /\ Moving(staging, live, n + 1) => Moving(st, lv, n + 2)
  BY <1>2, <1>5, <1>15, KeyMoves
<1>17. job.alone => Staged(new, st, lv)
  BY <1>2, <1>8, <1>9, <1>11, <1>16 DEF Staged
<1>18. clean' \in BOOLEAN /\ updated' \in BOOLEAN /\ fed' = fed /\ caches' = caches
  BY <1>5 DEF CollectionInv, TypesOK
<1> QED BY <1>1, <1>2, <1>5, <1>9, <1>10, <1>11, <1>12, <1>13, <1>14, <1>16, <1>17, <1>18,
           SwapStep

LEMMA UpdatedStep ==
  ASSUME CollectionInv, NEW w \in Walker, SetUpdated(w)
  PROVE  CollectionInv'
<1>1. PICK job : job = walk[w]
  OBVIOUS
<1>2. /\ job \in WalkRecord /\ StoreOK(staging) /\ StoreOK(live)
      /\ job.pc = "swap" /\ job.command = Len(Keys) + 2
      /\ job.alone => Moving(staging, live, job.command)
  BY <1>1, WalkKnown DEF Staged, SetUpdated
<1>3. PICK new : new = NoWalk
  OBVIOUS
<1>4. /\ walk' = [walk EXCEPT ![w] = new] /\ updated' = TRUE /\ clean' = job.alone
      /\ UNCHANGED <<fed, staging, live, caches, counters>> /\ Disturb
  BY <1>1, <1>3 DEF SetUpdated
<1>5. JobOK(new) /\ new.pc = "idle"
  BY <1>3, NoWalkOK
<1>6. PICK m \in Nat : m = Len(Keys)
  BY KeysStored
<1>7. Done(job.command) = Stored
  <2>1. job.command - 2 = m
    BY <1>2, <1>6
  <2>2. DOMAIN Keys = 1 .. m /\ Range(Keys) = Stored
    BY <1>6, KeysStored
  <2> QED BY <2>1, <2>2 DEF Done, Range
<1>8. job.alone => Consistent(live)
  <2> DEFINE merged == Merged(staging, live, job.command)
  <2>1. \A k \in Stored : merged[k] = live[k]
    BY <1>7 DEF Merged
  <2>2. job.alone => Consistent(merged)
    BY <1>2 DEF Moving
  <2> HIDE DEF merged
  <2> QED BY <2>1, <2>2, SameFields
<1>9. job.alone \in BOOLEAN
  BY <1>2 DEF WalkRecord
<1> QED BY <1>1, <1>2, <1>4, <1>5, <1>8, <1>9, SwapStep

-----------------------------------------------------------------------------
(* A walk begins, or the federation changes.                               *)

LEMMA StartStep ==
  ASSUME CollectionInv, NEW w \in Walker, StartWalk(w)
  PROVE  CollectionInv'
<1>1. PICK none : none = <<>> /\ none \in Seq(Seq(Entity))
  BY EmptySeq
<1>2. PICK lone \in BOOLEAN : lone = ~Running(Walker \ {w})
  OBVIOUS
<1>3. PICK new : new = [NoWalk EXCEPT !.pc = "enter", !.at = Root, !.alone = lone]
  OBVIOUS
<1>4. /\ new.pc = "enter" /\ new.at = Root /\ new.visited = {} /\ new.alone = lone
      /\ new \in WalkRecord /\ JobOK(new)
  <2>1. 0 \in 0 .. Len(Keys) + 2
    BY KeysStored
  <2>2. new = [pc |-> "enter", at |-> Root, config |-> None, types |-> {},
               stack |-> none, visited |-> {}, command |-> 0, steady |-> TRUE,
               alone |-> lone]
    BY <1>1, <1>3 DEF NoWalk
  <2>3. new \in WalkRecord
    BY <1>1, <2>1, <2>2, EntityAssumption DEF WalkRecord
  <2> QED BY <2>2, <2>3, EntityAssumption DEF JobOK
<1> DEFINE other(v) == [walk[v] EXCEPT !.alone = (walk[v].alone /\ walk[v].pc = "idle")]
<1>5. /\ walk[w].pc = "idle"
      /\ walk' = [v \in Walker |-> IF v = w THEN new ELSE other(v)]
      /\ UNCHANGED <<fed, live, updated, caches, reader, clean>>
  BY <1>2, <1>3 DEF StartWalk
<1>6. ASSUME NEW v \in Walker
      PROVE  /\ other(v) \in WalkRecord /\ JobOK(other(v))
             /\ other(v).pc = walk[v].pc /\ other(v).command = walk[v].command
             /\ other(v).alone => walk[v].pc = "idle"
  <2>1. JobOK(walk[v]) /\ walk[v] \in WalkRecord
    BY WalkKnown
  <2>2. PICK b \in BOOLEAN : b = (walk[v].alone /\ walk[v].pc = "idle")
    BY <2>1 DEF WalkRecord
  <2>3. PICK job : job = [walk[v] EXCEPT !.alone = b]
    OBVIOUS
  <2>4. other(v) = job
    BY <2>2, <2>3
  <2>5. /\ job \in WalkRecord /\ job.alone = b /\ job.pc = walk[v].pc
        /\ job.command = walk[v].command /\ job.at = walk[v].at
        /\ job.config = walk[v].config /\ job.stack = walk[v].stack
    BY <2>1, <2>3 DEF WalkRecord
  <2>6. JobOK(job)
    BY <2>1, <2>5 DEF JobOK
  <2>7. b => walk[v].pc = "idle"
    BY <2>2
  <2> QED BY <2>4, <2>5, <2>6, <2>7
<1> HIDE DEF other
<1>7. /\ walk'[w] = new /\ \A v \in Walker \ {w} : walk'[v] = other(v)
      /\ walk' \in [Walker -> WalkRecord] /\ \A v \in Walker : JobOK(walk'[v])
  BY <1>4, <1>5, <1>6
<1>8. PICK st : st = EmptyStore
  OBVIOUS
<1>9. staging' = st /\ StoreOK(st) /\ Consistent(st) /\ Ids(st) = {}
  BY <1>8, EmptyConsistent DEF StartWalk
<1>10. TypesOK'
  <2>1. fed' \in Federations /\ CachesOK'
    BY <1>5 DEF CollectionInv, TypesOK, CachesOK
  <2> QED BY <1>5, <1>7, <1>9, <2>1 DEF CollectionInv, TypesOK, StoreOK, Keys, JobOK
<1>11. \A v \in Walker : Lone(v)'
  <2>1. ASSUME NEW v \in Walker, walk'[v].pc # "idle", walk'[v].alone
        PROVE  /\ \A u \in Walker \ {v} : walk'[u].pc = "idle"
               /\ Staged(walk'[v], staging', live')
    <3>1. v = w
      BY <1>6, <1>7, <2>1
    <3>2. \A u \in Walker \ {w} : walk[u].pc = "idle"
      BY <1>2, <1>4, <1>7, <2>1, <3>1 DEF Running
    <3>3. \A u \in Walker \ {w} : walk'[u].pc = "idle"
      BY <1>6, <1>7, <3>2
    <3>4. Staged(new, st, live)
      BY <1>4, <1>9 DEF Staged
    <3> QED BY <1>5, <1>7, <1>9, <3>1, <3>3, <3>4
  <2> QED BY <2>1 DEF Lone
<1>12. Swapping' <=> Swapping
  BY <1>4, <1>5, <1>6, <1>7 DEF Swapping
<1>13. LiveOK' /\ ReaderOK'
  BY <1>5, <1>12 DEF CollectionInv, LiveOK, ReaderOK, Consistent, Ids, OfType,
                     Gathering, Wanted
<1> QED BY <1>10, <1>11, <1>13 DEF CollectionInv

LEMMA ChangeStep ==
  ASSUME CollectionInv, Change
  PROVE  CollectionInv'
<1> DEFINE other(v) == [walk[v] EXCEPT !.steady = FALSE]
<1>1. /\ fed' \in Federations /\ walk' = [v \in Walker |-> other(v)]
      /\ UNCHANGED <<staging, live, updated, caches, reader, clean>>
  BY DEF Change
<1>2. ASSUME NEW v \in Walker
      PROVE  /\ other(v) \in WalkRecord /\ JobOK(other(v))
             /\ other(v).pc = walk[v].pc /\ other(v).command = walk[v].command
             /\ other(v).alone = walk[v].alone
             /\ \A st, lv : Staged(walk[v], st, lv) => Staged(other(v), st, lv)
  <2>1. JobOK(walk[v]) /\ walk[v] \in WalkRecord
    BY WalkKnown
  <2>2. PICK old : old = walk[v]
    OBVIOUS
  <2>3. PICK job : job = [old EXCEPT !.steady = FALSE]
    OBVIOUS
  <2>4. other(v) = job
    BY <2>2, <2>3
  <2>5. /\ job \in WalkRecord /\ job.alone = old.alone /\ job.pc = old.pc
        /\ job.command = old.command /\ job.at = old.at /\ job.types = old.types
        /\ job.config = old.config /\ job.stack = old.stack
        /\ job.visited = old.visited
    BY <2>1, <2>2, <2>3 DEF WalkRecord
  <2>6. JobOK(job)
    BY <2>1, <2>2, <2>5 DEF JobOK
  <2>7. \A st, lv : Staged(old, st, lv) => Staged(job, st, lv)
    BY <2>5 DEF Staged
  <2> QED BY <2>2, <2>4, <2>5, <2>6, <2>7
<1> HIDE DEF other
<1>3. \A v \in Walker : walk'[v] = other(v)
  BY <1>1
<1>4. TypesOK'
  <2>1. CachesOK'
    BY <1>1 DEF CollectionInv, TypesOK, CachesOK
  <2>2. walk' \in [Walker -> WalkRecord] /\ \A v \in Walker : JobOK(walk'[v])
    BY <1>1, <1>2
  <2> QED BY <1>1, <2>1, <2>2 DEF CollectionInv, TypesOK, StoreOK, Keys, JobOK
<1>5. \A v \in Walker : Lone(v)'
  <2>1. ASSUME NEW v \in Walker, walk'[v].pc # "idle", walk'[v].alone
        PROVE  /\ \A u \in Walker \ {v} : walk'[u].pc = "idle"
               /\ Staged(walk'[v], staging', live')
    <3>1. walk[v].pc # "idle" /\ walk[v].alone
      BY <1>2, <1>3, <2>1
    <3>2. /\ \A u \in Walker \ {v} : walk[u].pc = "idle"
          /\ Staged(walk[v], staging, live)
      BY <3>1 DEF CollectionInv, Lone
    <3> QED BY <1>1, <1>2, <1>3, <3>2
  <2> QED BY <2>1 DEF Lone
<1>6. Swapping' <=> Swapping
  BY <1>2, <1>3 DEF Swapping
<1>7. LiveOK' /\ ReaderOK'
  BY <1>1, <1>6 DEF CollectionInv, LiveOK, ReaderOK, Consistent, Ids, OfType,
                    Gathering, Wanted
<1> QED BY <1>4, <1>5, <1>7 DEF CollectionInv

-----------------------------------------------------------------------------
(* The steps of a request.                                                 *)

LEMMA ReaderStep ==
  ASSUME CollectionInv, reader' \in ReadRecord, ReaderOK',
         UNCHANGED <<fed, staging, live, updated, caches, walk, clean>>
  PROVE  CollectionInv'
<1>1. TypesOK'
  <2>1. CachesOK'
    BY DEF CollectionInv, TypesOK, CachesOK
  <2> QED BY <2>1 DEF CollectionInv, TypesOK, StoreOK, Keys, JobOK
<1>2. \A w \in Walker : Lone(w)'
  <2>1. PICK st : st = staging'
    OBVIOUS
  <2>2. PICK lv : lv = live'
    OBVIOUS
  <2>3. st = staging /\ lv = live /\ walk' = walk
    BY <2>1, <2>2
  <2>4. ASSUME NEW w \in Walker, walk'[w].pc # "idle", walk'[w].alone
        PROVE  /\ \A v \in Walker \ {w} : walk'[v].pc = "idle"
               /\ Staged(walk'[w], st, lv)
    BY <2>3, <2>4 DEF CollectionInv, Lone
  <2> QED BY <2>1, <2>2, <2>4 DEF Lone
<1>3. LiveOK'
  BY DEF CollectionInv, LiveOK, Consistent, Ids, OfType, Swapping
<1> QED BY <1>1, <1>2, <1>3 DEF CollectionInv

(* The ids and the indexes that a request reads.                           *)
LEMMA ReaderKnown ==
  ASSUME CollectionInv
  PROVE  /\ StoreOK(live) /\ live.entities \subseteq Record /\ Ids(live) \subseteq Entity
         /\ \A t \in EntityType : live[t] \subseteq Entity
         /\ reader \in ReadRecord /\ updated \in BOOLEAN
         /\ Range(reader.filter) \subseteq EntityType
         /\ reader.undisturbed /\ clean =>
              ~Swapping /\ Consistent(live) /\ Gathering(reader, live, updated)
<1>1. StoreOK(live) /\ reader \in ReadRecord /\ updated \in BOOLEAN
  BY DEF CollectionInv, TypesOK
<1>2. /\ live.entities \subseteq Record
      /\ \A t \in EntityType : live[t] \subseteq Entity
  BY <1>1, KeysStored, KeysDiffer DEF StoreOK
<1>3. Ids(live) \subseteq Entity
  BY <1>2 DEF Ids, Record
<1>4. reader.filter \in Seq(EntityType)
  BY <1>1, FiltersAssumption, EmptySeq DEF ReadRecord
<1>5. Range(reader.filter) \subseteq EntityType
  BY <1>4, RangeOfSeq DEF Range
<1> QED BY <1>1, <1>2, <1>3, <1>5 DEF CollectionInv, ReaderOK, LiveOK

LEMMA StartReadStep ==
  ASSUME CollectionInv, StartRead
  PROVE  CollectionInv'
<1>1. PICK f \in Filters :
        /\ reader' = [NoRead EXCEPT !.pc = "ids", !.filter = f, !.types = f,
                                    !.undisturbed = ~Swapping]
        /\ UNCHANGED <<fed, staging, live, updated, caches, walk, clean>>
  BY DEF StartRead
<1>2. PICK none : none = <<>>
  OBVIOUS
<1>3. PICK b \in BOOLEAN : b = ~Swapping
  OBVIOUS
<1>4. reader' = [pc |-> "ids", filter |-> f, types |-> f, ids |-> {}, answer |-> {},
                 stamp |-> FALSE, undisturbed |-> b]
  BY <1>1, <1>2, <1>3 DEF NoRead
<1>5. reader' \in ReadRecord
  BY <1>4, FiltersAssumption DEF ReadRecord
<1>6. PICK new : new = reader'
  OBVIOUS
<1>7. Gathering(new, live, updated)
  BY <1>4, <1>6 DEF Gathering
<1>8. Swapping' <=> Swapping
  BY <1>1 DEF Swapping
<1>9. new.undisturbed = b
  BY <1>4, <1>6
<1>10. new.undisturbed => ~Swapping
  BY <1>3, <1>9
<1>11. ReaderOK'
  BY <1>1, <1>6, <1>7, <1>8, <1>10 DEF ReaderOK
<1> QED BY <1>1, <1>5, <1>11, ReaderStep

LEMMA ReadIdsStep ==
  ASSUME CollectionInv, ReadIds
  PROVE  CollectionInv'
<1>1. PICK rd : rd = reader
  OBVIOUS
<1>2. PICK new : new = reader'
  OBVIOUS
<1>3. /\ rd.pc = "ids" /\ UNCHANGED <<fed, staging, live, updated, caches, walk, clean>>
      /\ new = IF rd.filter = <<>>
                 THEN [rd EXCEPT !.ids = Ids(live), !.pc = "each"]
               ELSE IF rd.types = <<>> THEN [rd EXCEPT !.pc = "each"]
               ELSE [rd EXCEPT !.ids = @ \cup live[Head(rd.types)], !.types = Tail(@)]
  BY <1>1, <1>2 DEF ReadIds, Ids
<1>4. /\ StoreOK(live) /\ live.entities \subseteq Record /\ Ids(live) \subseteq Entity
      /\ \A t \in EntityType : live[t] \subseteq Entity
      /\ rd \in ReadRecord /\ updated \in BOOLEAN
      /\ Range(rd.filter) \subseteq EntityType
      /\ rd.undisturbed /\ clean =>
           ~Swapping /\ Consistent(live) /\ Gathering(rd, live, updated)
  BY <1>1, ReaderKnown
<1> DEFINE wanted == Wanted(live, rd.filter)
           wantedIds == {r.id : r \in wanted}
<1>5. /\ new \in ReadRecord /\ new.undisturbed = rd.undisturbed
      /\ rd.undisturbed /\ clean => Gathering(new, live, updated)
  <2>1. CASE rd.filter = <<>>
    <3>1. new = [rd EXCEPT !.ids = Ids(live), !.pc = "each"]
      BY <1>3, <2>1
    <3>2. /\ new \in ReadRecord /\ new.pc = "each" /\ new.ids = Ids(live)
          /\ new.filter = rd.filter /\ new.answer = rd.answer
          /\ new.undisturbed = rd.undisturbed
      BY <1>4, <3>1 DEF ReadRecord
    <3>3. wanted = live.entities
      BY <2>1 DEF Wanted
    <3>4. wantedIds = Ids(live)
      BY <3>3 DEF Ids
    <3>5. ASSUME rd.undisturbed, clean
          PROVE  Gathering(new, live, updated)
      <4>1. rd.answer = {}
        BY <1>3, <1>4, <3>5 DEF Gathering
      <4>2. {r \in wanted : r.id \notin wantedIds} = {}
        OBVIOUS
      <4> QED BY <3>2, <3>4, <4>1, <4>2 DEF Gathering
    <3> QED BY <3>2, <3>5
  <2>2. CASE rd.filter # <<>> /\ rd.types = <<>>
    <3>1. new = [rd EXCEPT !.pc = "each"]
      BY <1>3, <2>2
    <3>2. /\ new \in ReadRecord /\ new.pc = "each" /\ new.ids = rd.ids
          /\ new.filter = rd.filter /\ new.answer = rd.answer
          /\ new.undisturbed = rd.undisturbed
      BY <1>4, <3>1 DEF ReadRecord
    <3>3. ASSUME rd.undisturbed, clean
          PROVE  Gathering(new, live, updated)
      <4>1. /\ rd.answer = {} /\ rd.ids \subseteq wantedIds
            /\ \A t \in Range(rd.filter) \ Range(rd.types) : live[t] \subseteq rd.ids
        BY <1>3, <1>4, <3>3 DEF Gathering
      <4>2. Range(rd.types) = {}
        BY <2>2 DEF Range
      <4>3. ASSUME NEW r \in wanted
            PROVE  r.id \in rd.ids
        <5>1. PICK t \in Range(rd.filter) : t \in r.types /\ r \in live.entities
          BY <2>2 DEF Wanted
        <5>2. live[t] = OfType(live, t)
          BY <1>4, <3>3, <5>1 DEF Consistent
        <5>3. r.id \in OfType(live, t)
          BY <5>1 DEF OfType
        <5> QED BY <4>1, <4>2, <5>1, <5>2, <5>3
      <4>4. {r \in wanted : r.id \notin rd.ids} = {}
        BY <4>3
      <4> QED BY <3>2, <4>1, <4>4 DEF Gathering
    <3> QED BY <3>2, <3>3
  <2>3. CASE rd.filter # <<>> /\ rd.types # <<>>
    <3>1. PICK t : t = Head(rd.types)
      OBVIOUS
    <3>2. PICK rest : rest = Tail(rd.types)
      OBVIOUS
    <3>3. rd.types \in Seq(EntityType)
      BY <1>4 DEF ReadRecord
    <3>4. /\ t \in EntityType /\ rest \in Seq(EntityType)
          /\ Range(rd.types) = {t} \cup Range(rest)
      <4>1. PICK m \in Nat : m = Len(rd.types)
        BY <3>3, LenProperties
      <4>2. m # 0 /\ DOMAIN rd.types = 1 .. m
        BY <2>3, <3>3, <4>1, EmptySeq, LenProperties
      <4>3. /\ t = rd.types[1] /\ rest \in Seq(EntityType) /\ Len(rest) = m - 1
            /\ \A i \in 1 .. m - 1 : rest[i] = rd.types[i + 1]
            /\ t \in EntityType
        BY <2>3, <3>1, <3>2, <3>3, <4>1, HeadTailProperties
      <4>4. DOMAIN rest = 1 .. m - 1
        BY <4>3, LenProperties
      <4>5. Range(rest) \cup {t} \subseteq Range(rd.types)
        <5>1. 1 \in 1 .. m /\ \A i \in 1 .. m - 1 : i + 1 \in 1 .. m
          BY <4>2
        <5>2. t \in Range(rd.types)
          BY <4>2, <4>3, <5>1 DEF Range
        <5>3. \A i \in 1 .. m - 1 : rd.types[i + 1] \in Range(rd.types)
          BY <4>2, <5>1 DEF Range
        <5>4. ASSUME NEW u \in Range(rest)
              PROVE  u \in Range(rd.types)
          <6>1. PICK i \in 1 .. m - 1 : u = rest[i]
            BY <4>4 DEF Range
          <6> QED BY <4>3, <5>3, <6>1
        <5> QED BY <5>2, <5>4
      <4>6. ASSUME NEW u \in Range(rd.types)
            PROVE  u \in {t} \cup Range(rest)
        <5>1. PICK i \in 1 .. m : u = rd.types[i]
          BY <4>2 DEF Range
        <5>2. CASE i = 1
          BY <4>3, <5>1, <5>2
        <5>3. CASE i # 1
          <6>1. PICK j \in 1 .. m - 1 : i = j + 1
            BY <5>3, i - 1 \in 1 .. m - 1, i = (i - 1) + 1
          <6>2. u = rest[j]
            BY <4>3, <5>1, <6>1
          <6> QED BY <4>4, <6>1, <6>2 DEF Range
        <5> QED BY <5>2, <5>3
      <4> QED BY <4>3, <4>5, <4>6
    <3>5. PICK found \in SUBSET Entity : found = rd.ids \cup live[t]
      BY <1>4, <3>4 DEF ReadRecord
    <3>6. new = [rd EXCEPT !.ids = found, !.types = rest]
      BY <1>3, <1>4, <2>3, <3>1, <3>2, <3>5 DEF ReadRecord
    <3>7. /\ new \in ReadRecord /\ new.pc = "ids" /\ new.ids = found
          /\ new.types = rest /\ new.filter = rd.filter /\ new.answer = rd.answer
          /\ new.undisturbed = rd.undisturbed
      BY <1>3, <1>4, <3>4, <3>6 DEF ReadRecord
    <3>8. ASSUME rd.undisturbed, clean
          PROVE  Gathering(new, live, updated)
      <4>1. /\ rd.answer = {} /\ Range(rd.types) \subseteq Range(rd.filter)
            /\ rd.ids \subseteq wantedIds
            /\ \A u \in Range(rd.filter) \ Range(rd.types) : live[u] \subseteq rd.ids
        BY <1>3, <1>4, <3>8 DEF Gathering
      <4>2. live[t] = OfType(live, t)
        BY <1>4, <3>4, <3>8 DEF Consistent
      <4>3. OfType(live, t) \subseteq wantedIds
        BY <3>4, <4>1 DEF OfType, Wanted
      <4>4. found \subseteq wantedIds
        BY <3>5, <4>1, <4>2, <4>3
      <4>5. \A u \in Range(rd.filter) \ Range(rest) : live[u] \subseteq found
        BY <3>4, <3>5, <4>1
      <4> QED BY <3>4, <3>7, <4>1, <4>4, <4>5 DEF Gathering
    <3> QED BY <3>7, <3>8
  <2> QED BY <2>1, <2>2, <2>3
<1>6. Swapping' <=> Swapping
  BY <1>3 DEF Swapping
<1>7. ReaderOK'
  BY <1>2, <1>3, <1>4, <1>5, <1>6 DEF ReaderOK
<1> QED BY <1>2, <1>3, <1>5, <1>7, ReaderStep

LEMMA ReadEntityStep ==
  ASSUME CollectionInv, ReadEntity
  PROVE  CollectionInv'
<1>1. PICK rd : rd = reader
  OBVIOUS
<1>2. PICK new : new = reader'
  OBVIOUS
<1>3. PICK e \in rd.ids :
        /\ rd.pc = "each"
        /\ new = [rd EXCEPT !.ids = @ \ {e},
                            !.answer = @ \cup {r \in live.entities : r.id = e}]
        /\ UNCHANGED <<fed, staging, live, updated, caches, walk, clean>>
  BY <1>1, <1>2 DEF ReadEntity
<1>4. /\ StoreOK(live) /\ live.entities \subseteq Record /\ rd \in ReadRecord
      /\ rd.undisturbed /\ clean => ~Swapping /\ Gathering(rd, live, updated)
  BY <1>1, ReaderKnown
<1> DEFINE wanted == Wanted(live, rd.filter)
<1>5. PICK left \in SUBSET Entity : left = rd.ids \ {e}
  BY <1>4 DEF ReadRecord
<1>6. PICK answer \in SUBSET Record :
        answer = rd.answer \cup {r \in live.entities : r.id = e}
  BY <1>4 DEF ReadRecord
<1>7. /\ new \in ReadRecord /\ new.pc = "each" /\ new.ids = left
      /\ new.answer = answer /\ new.filter = rd.filter
      /\ new.undisturbed = rd.undisturbed
  <2>1. new = [rd EXCEPT !.ids = left, !.answer = answer]
    BY <1>3, <1>4, <1>5, <1>6 DEF ReadRecord
  <2> QED BY <1>3, <1>4, <2>1 DEF ReadRecord
<1>8. ASSUME rd.undisturbed, clean
      PROVE  Gathering(new, live, updated)
  <2>1. /\ rd.ids \subseteq {r.id : r \in wanted}
        /\ rd.answer = {r \in wanted : r.id \notin rd.ids}
    BY <1>3, <1>4, <1>8 DEF Gathering
  <2>2. PICK q \in wanted : q.id = e
    BY <2>1
  <2>3. wanted \subseteq live.entities
    BY DEF Wanted
  <2>4. \A r \in live.entities : r.id = e => r = q
    BY <1>4, <2>2, <2>3 DEF StoreOK
  <2>5. {r \in live.entities : r.id = e} = {q}
    BY <2>2, <2>3, <2>4
  <2> HIDE DEF wanted
  <2>6. answer = {r \in wanted : r.id \notin left}
    <3>1. ASSUME NEW r \in answer
          PROVE  r \in wanted /\ r.id \notin left
      BY <1>5, <1>6, <2>1, <2>2, <2>5, <3>1
    <3>2. ASSUME NEW r \in wanted, r.id \notin left
          PROVE  r \in answer
      <4>1. CASE r.id = e
        BY <1>6, <2>3, <4>1
      <4>2. CASE r.id # e
        BY <1>5, <1>6, <2>1, <3>2, <4>2
      <4> QED BY <4>1, <4>2
    <3> QED BY <3>1, <3>2
  <2>7. left \subseteq {r.id : r \in wanted}
    BY <1>5, <2>1
  <2> QED BY <1>7, <2>6, <2>7 DEF Gathering, wanted
<1>9. Swapping' <=> Swapping
  BY <1>3 DEF Swapping
<1>10. ReaderOK'
  BY <1>2, <1>3, <1>4, <1>7, <1>8, <1>9 DEF ReaderOK
<1> QED BY <1>2, <1>3, <1>7, <1>10, ReaderStep

LEMMA ReadUpdatedStep ==
  ASSUME CollectionInv, ReadUpdated
  PROVE  CollectionInv'
<1>1. PICK rd : rd = reader
  OBVIOUS
<1>2. PICK new : new = reader'
  OBVIOUS
<1>3. /\ rd.pc = "each" /\ rd.ids = {}
      /\ new = [rd EXCEPT !.stamp = updated, !.pc = "done"]
      /\ UNCHANGED <<fed, staging, live, updated, caches, walk, clean>>
  BY <1>1, <1>2 DEF ReadUpdated
<1>4. /\ rd \in ReadRecord /\ updated \in BOOLEAN
      /\ rd.undisturbed /\ clean => ~Swapping /\ Gathering(rd, live, updated)
  BY <1>1, ReaderKnown
<1>5. /\ new \in ReadRecord /\ new.pc = "done" /\ new.stamp = updated
      /\ new.answer = rd.answer /\ new.filter = rd.filter
      /\ new.undisturbed = rd.undisturbed
  BY <1>3, <1>4 DEF ReadRecord
<1>6. ASSUME rd.undisturbed, clean
      PROVE  Gathering(new, live, updated)
  <2> DEFINE wanted == Wanted(live, rd.filter)
  <2>1. rd.answer = {r \in wanted : r.id \notin rd.ids}
    BY <1>3, <1>4, <1>6 DEF Gathering
  <2>2. rd.answer = wanted
    BY <1>3, <2>1
  <2> QED BY <1>5, <2>2 DEF Gathering
<1>7. Swapping' <=> Swapping
  BY <1>3 DEF Swapping
<1>8. ReaderOK'
  BY <1>2, <1>3, <1>4, <1>5, <1>6, <1>7 DEF ReaderOK
<1> QED BY <1>2, <1>3, <1>5, <1>8, ReaderStep

-----------------------------------------------------------------------------
(* The invariant holds, and what follows from it.                          *)

LEMMA CollectionInit == Init => CollectionInv
<1> SUFFICES ASSUME Init
             PROVE  CollectionInv
  OBVIOUS
<1>1. PICK idle : idle = NoWalk
  OBVIOUS
<1>2. /\ idle.pc = "idle" /\ JobOK(idle) /\ walk = [w \in Walker |-> idle]
  BY <1>1, NoWalkOK DEF Init
<1>3. \A w \in Walker : walk[w] = idle
  BY <1>2
<1>4. PICK st : st = EmptyStore
  OBVIOUS
<1>5. staging = st /\ live = st /\ StoreOK(st) /\ Consistent(st)
  BY <1>4, EmptyConsistent DEF Init
<1>6. CachesOK
  BY DEF Init, CachesOK
<1>7. PICK none : none = <<>> /\ none \in Seq(EntityType)
  BY EmptySeq
<1>8. reader = [pc |-> "idle", filter |-> none, types |-> none, ids |-> {},
                answer |-> {}, stamp |-> FALSE, undisturbed |-> FALSE]
  BY <1>7 DEF Init, NoRead
<1>9. reader \in ReadRecord /\ ~reader.undisturbed
  <2>1. none \in Filters \cup {<<>>}
    BY <1>7
  <2> QED BY <1>7, <1>8, <2>1 DEF ReadRecord
<1>10. walk \in [Walker -> WalkRecord] /\ \A w \in Walker : JobOK(walk[w])
  BY <1>2, <1>3 DEF JobOK
<1>11. fed \in Federations /\ updated \in BOOLEAN /\ clean \in BOOLEAN
  BY DEF Init
<1>12. TypesOK
  BY <1>5, <1>6, <1>9, <1>10, <1>11 DEF TypesOK
<1>13. \A w \in Walker : Lone(w)
  BY <1>2, <1>3 DEF Lone
<1> QED BY <1>5, <1>9, <1>12, <1>13 DEF CollectionInv, LiveOK, ReaderOK

LEMMA CollectionStep ==
  ASSUME CollectionInv, [Next]_vars
  PROVE  CollectionInv'
<1>1. ASSUME UNCHANGED vars
      PROVE  CollectionInv'
  <2>1. reader' \in ReadRecord /\ ReaderOK'
    BY <1>1 DEF CollectionInv, TypesOK, ReaderOK, Swapping, Gathering, Wanted, vars
  <2> QED BY <1>1, <2>1, ReaderStep DEF vars
<1>2. ASSUME NEW w \in Walker, Walk(w)
      PROVE  CollectionInv'
  BY <1>2, EnterStep, HsetStep, SaddStep, ZaddStep, ListStep, DelStep, RenameStep,
     UpdatedStep DEF Walk
<1>3. ASSUME NEW w \in Walker, StartWalk(w) \/ Die(w)
      PROVE  CollectionInv'
  BY <1>3, StartStep, DieStep
<1>4. CASE StartRead \/ Read
  BY <1>4, StartReadStep, ReadIdsStep, ReadEntityStep, ReadUpdatedStep DEF Read
<1>5. CASE Change
  BY <1>5, ChangeStep
<1>6. CASE Rest
  BY <1>1, <1>6 DEF Rest
<1> QED BY <1>1, <1>2, <1>3, <1>4, <1>5, <1>6 DEF Next

LEMMA CollectionHolds == Spec => []CollectionInv
<1>1. Init => CollectionInv
  BY CollectionInit
<1>2. CollectionInv /\ [Next]_vars => CollectionInv'
  BY CollectionStep
<1> QED BY <1>1, <1>2, PTL DEF Spec

(* The keys hold what their readers take them to hold, whatever walks      *)
(* overlap or die: a record for each entity, entities under each type, and *)
(* no entity deeper than the bound of collection_tree_walking.             *)
THEOREM TypeCorrect == Spec => []TypeOK
<1>1. CollectionInv => TypeOK
  BY DEF CollectionInv, TypesOK, CachesOK, JobOK, TypeOK
<1> QED BY <1>1, CollectionHolds, PTL

(* After a swap by a walk that ran alone, and until the next one, the      *)
(* indexes that run_collection_walk publishes by type and in order list    *)
(* the entities of the hash, each under its types.                         *)
THEOREM IndexesAgree == Spec => []LiveIndexAgrees
<1>1. CollectionInv => LiveIndexAgrees
  BY DEF CollectionInv, LiveOK, Consistent, LiveIndexAgrees
<1> QED BY <1>1, CollectionHolds, PTL

(* A request to /collection that no command of a swap came in between of   *)
(* answers what its entity_type parameters ask for, with the time stamp of *)
(* that collection, although it reads them one command at a time.          *)
THEOREM UndisturbedIsRight == Spec => []UndisturbedAnswer
<1>1. CollectionInv => UndisturbedAnswer
  BY DEF CollectionInv, ReaderOK, Gathering, Wanted, UndisturbedAnswer
<1> QED BY <1>1, CollectionHolds, PTL
=============================================================================
