---------------------- MODULE TrustMarkVerifierProofs ----------------------
(***************************************************************************)
(* What holds of TrustMarkVerifier for every set of requests, issuers,     *)
(* types, keys and marks, whatever is carried and published, and for any   *)
(* value of the bounds.                                                    *)
(*                                                                         *)
(* The argument: the keys in the cache are at most as old as their age     *)
(* says (CacheOK), so those in the memo of a request are at most TTL - 1   *)
(* ticks older than the request (RecentMemo); each gate of the             *)
(* verification that a mark has passed is remembered while the request     *)
(* waits for the next one (Sane); and what was expired or withdrawn when   *)
(* a request began, or has been since, is in what it has seen (Attentive). *)
(*                                                                         *)
(* That no mark is left out for the failures of others rests on the same   *)
(* invariant: every entry is still ahead or Excused (Accounted), and what  *)
(* is held against an issuer, two moments of its keys that do not agree,   *)
(* is at most as old as the request and the cache allow (Distrusted).      *)
(***************************************************************************)
EXTENDS TrustMarkVerifier, SequenceTheorems, WellFoundedInduction, TLAPS

PC == {"idle", "alltime", "field", "configuration", "signed", "uri", "setex",
       "status", "done", "late"}

(* What Regenerate can have published. *)
Setting == [issuers : UNION {[D -> SUBSET Entity] : D \in SUBSET Type},
            owners : {f.owners : f \in Federations}]

Job == [pc : PC, config : Setting \cup {None}, left : Seq(Entry),
        verified : SUBSET Mark, memo : [Issuer -> (SUBSET Key) \cup {None, Invalid}],
        signer : Key \cup {None}, fetched : SUBSET Key,
        tries : 0 .. FETCH_MAX_RETRIES, waited : BOOLEAN, elapsed : 0 .. BUDGET,
        failed : SUBSET Entity]

USE DEF PC, Issuer

-----------------------------------------------------------------------------
(* The operators of a request.                                             *)

LEMMA LeastExists ==
  ASSUME NEW S, S \subseteq Nat, S # {}
  PROVE  \E n \in S : \A m \in S : n <= m
<1>1. PICK n \in S : \A m \in S : ~(<<m, n>> \in OpToRel(<, Nat))
  BY NatLessThanWellFounded, WFMin
<1>2. \A m \in S : ~(m < n)
  BY <1>1 DEF OpToRel
<1> QED BY <1>2

LEMMA HeadOfEntries ==
  ASSUME NEW s \in Seq(Entry), s # <<>>
  PROVE  /\ Head(s) = s[1] /\ 1 \in DOMAIN s /\ s[1] \in Entry
         /\ Tail(s) \in Seq(Entry)
         /\ \A k \in DOMAIN Tail(s) : \E j \in DOMAIN s : Tail(s)[k] = s[j]
         /\ \A j \in DOMAIN s : s[j] = s[1] \/ \E k \in DOMAIN Tail(s) : Tail(s)[k] = s[j]
<1>1. PICK n \in Nat : n = Len(s)
  OBVIOUS
<1>2. DOMAIN s = 1 .. n /\ n # 0
  BY <1>1, EmptySeq
<1>3. /\ Tail(s) \in Seq(Entry) /\ Len(Tail(s)) = n - 1
      /\ \A k \in 1 .. n - 1 : Tail(s)[k] = s[k + 1]
  BY <1>1, HeadTailProperties
<1>4. DOMAIN Tail(s) = 1 .. n - 1
  BY <1>2, <1>3
<1>5. \A k \in 1 .. n - 1 : k + 1 \in 1 .. n
  BY <1>2
<1>6. \A j \in 1 .. n : j = 1 \/ (j - 1 \in 1 .. n - 1 /\ j - 1 + 1 = j)
  BY <1>2
<1>7. \A j \in 1 .. n : s[j] = s[1] \/ \E k \in 1 .. n - 1 : Tail(s)[k] = s[j]
  BY <1>3, <1>6
<1>8. Head(s) = s[1] /\ 1 \in DOMAIN s /\ s[1] \in Entry
  BY <1>1, <1>2, HeadTailProperties
<1> QED BY <1>2, <1>3, <1>4, <1>5, <1>7, <1>8

(* What is left when all before the k-th entry are done with. *)
LEMMA RestOfEntries ==
  ASSUME NEW s \in Seq(Entry), NEW k \in DOMAIN s
  PROVE  LET rest == SubSeq(s, k, Len(s))
         IN  /\ rest \in Seq(Entry) /\ rest # <<>> /\ rest[1] = s[k]
             /\ \A j \in DOMAIN rest : \E l \in DOMAIN s : rest[j] = s[l]
             /\ \A l \in DOMAIN s : k <= l => \E j \in DOMAIN rest : rest[j] = s[l]
<1>1. PICK n \in Nat : n = Len(s)
  OBVIOUS
<1>2. DOMAIN s = 1 .. n /\ k \in 1 .. n
  BY <1>1
<1> DEFINE rest == SubSeq(s, k, n)
<1>3. k \in 1 .. n + 1 /\ n \in k - 1 .. n
  BY <1>2
<1>4. /\ rest \in Seq(Entry) /\ Len(rest) = n - k + 1
      /\ \A i \in 1 .. n - k + 1 : rest[i] = s[k + i - 1]
  BY <1>1, <1>3, SubSeqProperties
<1>5. DOMAIN rest = 1 .. n - k + 1
  BY <1>2, <1>4
<1>6. \A j \in 1 .. n - k + 1 : k + j - 1 \in 1 .. n
  BY <1>2
<1>7. 1 \in 1 .. n - k + 1 /\ k + 1 - 1 = k
  BY <1>2
<1>8. rest[1] = s[k]
  BY <1>4, <1>7
<1>9. rest # <<>>
  BY <1>5, <1>7
<1>10. \A l \in 1 .. n : k <= l => \E j \in 1 .. n - k + 1 : rest[j] = s[l]
  <2>1. \A l \in 1 .. n : k <= l => l - k + 1 \in 1 .. n - k + 1 /\ k + (l - k + 1) - 1 = l
    BY <1>2
  <2> QED BY <1>4, <2>1
<1> QED BY <1>1, <1>2, <1>4, <1>5, <1>6, <1>8, <1>9, <1>10

LEMMA ConsideredAreCarried ==
  ASSUME fed.carried \in Seq(Entry)
  PROVE  /\ Considered \in Seq(Entry)
         /\ \A k \in DOMAIN Considered :
              \E j \in DOMAIN fed.carried : Considered[k] = fed.carried[j]
<1> DEFINE s == fed.carried
           least == Min({Len(s), MAX_TRUST_MARKS})
<1>1. PICK n \in Nat : n = Len(s)
  OBVIOUS
<1>2. least \in 0 .. n
  BY <1>1, BoundsAssumption DEF Min
<1>3. PICK m \in 0 .. n : m = least
  BY <1>2
<1>4. 1 \in 1 .. n + 1 /\ m \in 1 - 1 .. n
  BY <1>1
<1> DEFINE t == SubSeq(s, 1, m)
<1>5. /\ t \in Seq(Entry) /\ Len(t) = m - 1 + 1
      /\ \A i \in 1 .. m - 1 + 1 : t[i] = s[1 + i - 1]
  BY <1>1, <1>4, SubSeqProperties
<1>6. DOMAIN t = 1 .. m /\ DOMAIN s = 1 .. n
  BY <1>1, <1>5
<1>7. \A k \in 1 .. m : k \in 1 .. n /\ k \in 1 .. m - 1 + 1 /\ 1 + k - 1 = k
  BY <1>1
<1>8. Considered = t
  BY <1>3 DEF Considered
<1> QED BY <1>5, <1>6, <1>7, <1>8

LEMMA BlankIsJob ==
  ASSUME NEW pc \in PC
  PROVE  /\ Blank(pc) \in Job /\ Blank(pc).pc = pc /\ Blank(pc).verified = {}
         /\ \A i \in Issuer : Blank(pc).memo[i] = None
  BY BoundsAssumption DEF Blank, Job

(* Where the entries left to a request stand in the list of the subject.   *)
Listed(left) ==
  \A k \in DOMAIN left : \E j \in DOMAIN fed.carried : left[k] = fed.carried[j]

(* The entry a request is at has passed the gates. *)
Placed(r) ==
  /\ r.left # <<>> /\ Listed(r.left)
  /\ ~Unusable(r.config) /\ Recognised(r.config, r.left[1])

LEMMA ListedTail ==
  ASSUME NEW s \in Seq(Entry), s # <<>>, Listed(s)
  PROVE  Tail(s) \in Seq(Entry) /\ Listed(Tail(s))
  BY HeadOfEntries DEF Listed

(* The mark a request is at is one the subject carries. *)
LEMMA PlacedMark ==
  ASSUME fed.carried \in Seq(Entry), NEW r \in Job, Placed(r)
  PROVE  /\ Current(r) = r.left[1].mark /\ Current(r) \in Mark
         /\ Current(r) \in Carried /\ Current(r).iss \in Entity
         /\ r.left \in Seq(Entry) /\ r.left # <<>> /\ Listed(r.left)
         /\ ~Unusable(r.config)
<1>1. r.left \in Seq(Entry) /\ r.left # <<>>
  BY DEF Job, Placed
<1>2. Head(r.left) = r.left[1] /\ 1 \in DOMAIN r.left /\ r.left[1] \in Entry
  BY <1>1, HeadOfEntries
<1>3. r.left[1].mark \in Mark
  BY <1>2 DEF Entry, Placed, Recognised
<1>4. PICK j \in DOMAIN fed.carried : r.left[1] = fed.carried[j]
  BY <1>2 DEF Placed, Listed
<1>5. r.left[1].mark \in Carried
  BY <1>3, <1>4 DEF Carried
<1>6. r.left[1].mark.iss \in Entity
  BY <1>3, MarkAssumption DEF MarkRecord
<1> QED BY <1>1, <1>2, <1>3, <1>5, <1>6 DEF Current, Placed

(* The mark of an entry is worth asking about. *)
Worthy(r, e) == Recognised(r.config, e) /\ ~Rejected(r, e.mark)

(* Onward ends a request, or puts it before a mark that is worth asking    *)
(* about, passes over no other such mark, and does nothing else.           *)
Moved(r, new) ==
  /\ new \in Job
  /\ new.verified = r.verified /\ new.failed = r.failed
  /\ \/ /\ new.pc = "done" /\ \A i \in Issuer : new.memo[i] = None
        /\ \A k \in DOMAIN r.left : ~Worthy(r, r.left[k])
     \/ /\ \A k \in DOMAIN r.left : Worthy(r, r.left[k]) =>
             \E j \in DOMAIN new.left : new.left[j] = r.left[k]
        /\ new.memo = r.memo /\ new.config = r.config /\ new.elapsed = r.elapsed
        /\ Placed(new) /\ ~Rejected(r, new.left[1].mark)
        /\ IF new.left[1].mark.iss = TA THEN new.pc = "alltime"
           ELSE /\ r.memo[new.left[1].mark.iss] = None => new.pc = "configuration"
                /\ r.memo[new.left[1].mark.iss] # None => new.pc = "status"

LEMMA OnwardMoves ==
  ASSUME NEW r \in Job, Listed(r.left), r.left # <<>> => ~Unusable(r.config)
  PROVE  Moved(r, Onward(r))
<1> DEFINE open == {k \in DOMAIN r.left : /\ Recognised(r.config, r.left[k])
                                          /\ ~Rejected(r, r.left[k].mark)}
           next == CHOOSE k \in open : \A j \in open : k <= j
           rest == SubSeq(r.left, next, Len(r.left))
           iss  == r.left[next].mark.iss
           on   == [r EXCEPT !.left = rest, !.signer = None, !.fetched = {}]
           pc   == IF iss = TA THEN "alltime"
                   ELSE IF r.memo[iss] = None THEN "configuration" ELSE "status"
<1>1. CASE open = {}
  <2>1. Onward(r) = [Blank("done") EXCEPT !.verified = r.verified, !.failed = r.failed]
    BY <1>1 DEF Onward
  <2>2. r.verified \in SUBSET Mark /\ r.failed \in SUBSET Entity
    BY DEF Job
  <2>3. Blank("done") \in Job /\ Blank("done").pc = "done"
        /\ \A i \in Issuer : Blank("done").memo[i] = None
    BY BlankIsJob
  <2>4. \A k \in DOMAIN r.left : ~Worthy(r, r.left[k])
    BY <1>1 DEF Worthy
  <2> HIDE DEF open
  <2>5. /\ Onward(r) \in Job /\ Onward(r).pc = "done" /\ Onward(r).verified = r.verified
        /\ Onward(r).failed = r.failed /\ Onward(r).memo = Blank("done").memo
    BY <2>1, <2>2, <2>3 DEF Job
  <2> QED BY <2>3, <2>4, <2>5 DEF Moved
<1>2. CASE open # {}
  <2>1. Onward(r) = Query(on, pc)
    BY <1>2 DEF Onward
  <2>2. r.left \in Seq(Entry)
    BY DEF Job
  <2>3. PICK n \in Nat : n = Len(r.left)
    BY <2>2
  <2>4. DOMAIN r.left = 1 .. n
    BY <2>2, <2>3
  <2>5. open \in SUBSET Nat /\ open # {}
    BY <2>4, <1>2
  <2>6. next \in open /\ \A j \in open : next <= j
    <3> HIDE DEF open
    <3>1. \E k \in open : \A j \in open : k <= j
      BY <2>5, LeastExists
    <3> QED BY <3>1
  <2>7. PICK k \in DOMAIN r.left : /\ k = next /\ Recognised(r.config, r.left[k])
                                   /\ ~Rejected(r, r.left[k].mark)
    BY <2>6
  <2>8. /\ rest \in Seq(Entry) /\ rest # <<>> /\ rest[1] = r.left[next]
        /\ \A j \in DOMAIN rest : \E l \in DOMAIN r.left : rest[j] = r.left[l]
        /\ \A l \in DOMAIN r.left : next <= l => \E j \in DOMAIN rest : rest[j] = r.left[l]
    BY <2>2, <2>7, RestOfEntries
  <2>9. Listed(rest)
    <3> HIDE DEF rest
    <3> QED BY <2>8 DEF Listed
  <2>10. ~Unusable(r.config)
    BY <2>7, <2>2, EmptySeq
  <2> DEFINE new == [r EXCEPT !.left = rest, !.signer = None, !.fetched = {},
                              !.pc = pc, !.tries = 0, !.waited = FALSE]
  <2>11. Onward(r) = new
    BY <2>1 DEF Query, Job
  <2>12. pc \in PC /\ \A l \in DOMAIN r.left : Worthy(r, r.left[l]) => l \in open
    BY DEF Worthy
  <2> HIDE DEF rest, pc, next, open
  <2>13. /\ new \in Job /\ new.left = rest /\ new.pc = pc
         /\ new.verified = r.verified /\ new.memo = r.memo /\ new.config = r.config
         /\ new.elapsed = r.elapsed /\ new.failed = r.failed
    <3> DEFINE half == [r EXCEPT !.left = rest, !.signer = None, !.fetched = {}]
    <3>1. /\ half \in Job /\ half.left = rest
          /\ half.verified = r.verified /\ half.memo = r.memo
          /\ half.config = r.config /\ half.elapsed = r.elapsed /\ half.failed = r.failed
      BY <2>8 DEF Job
    <3>2. new = [half EXCEPT !.pc = pc, !.tries = 0, !.waited = FALSE]
      BY DEF Job
    <3>3. 0 \in 0 .. FETCH_MAX_RETRIES
      BY BoundsAssumption
    <3> HIDE DEF half, new
    <3> QED BY <2>12, <3>1, <3>2, <3>3 DEF Job
  <2>14. new.left[1].mark.iss = iss
    BY <2>8, <2>13
  <2>15. /\ iss = TA => pc = "alltime"
         /\ iss # TA /\ r.memo[iss] = None => pc = "configuration"
         /\ iss # TA /\ r.memo[iss] # None => pc = "status"
    BY DEF pc
  <2> HIDE DEF new
  <2>16. Placed(new) /\ ~Rejected(r, new.left[1].mark)
    BY <2>7, <2>8, <2>9, <2>10, <2>13 DEF Placed
  <2>17. \A l \in DOMAIN r.left : Worthy(r, r.left[l]) =>
           \E j \in DOMAIN new.left : new.left[j] = r.left[l]
    BY <2>6, <2>8, <2>12, <2>13
  <2> QED BY <2>11, <2>13, <2>14, <2>15, <2>16, <2>17 DEF Moved
<1> QED BY <1>1, <1>2

-----------------------------------------------------------------------------
(* The inductive invariant.                                                *)

Live(r) == r.pc \notin {"idle", "done", "late"}

(***************************************************************************)
(* Stage u is the present one, s, which began a ticks ago, or one that     *)
(* ended at most n ticks ago, as have all that came between.               *)
(***************************************************************************)
LatelyAt(stages, s, a, u, n) ==
  /\ u \in 1 .. s
  /\ \A v \in u + 1 .. s : IF v = s THEN a <= n ELSE stages[v].hold <= n

Lately(i, u, n) == LatelyAt(fed.site[i].stages, stage[i], age[i], u, n)

(* These keys, or this signer, are those of a stage of n ticks ago or less. *)
Recent(i, keys, n) ==
  \E u \in 1 .. stage[i] : keys = fed.site[i].stages[u].keys /\ Lately(i, u, n)

Signing(i, k, n) ==
  \E u \in 1 .. stage[i] : k = fed.site[i].stages[u].signer /\ Lately(i, u, n)

(***************************************************************************)
(* What a request that is n ticks old can hold against an issuer: it has   *)
(* no status endpoint, or the keys of one moment do not include the signer *)
(* of another; and against its mark, that they do not include k.           *)
(***************************************************************************)
Distrusted(i, n) ==
  \/ ~fed.site[i].endpoint
  \/ \E keys \in SUBSET Key : \E k \in Key \ keys :
       Signing(i, k, n) /\ Recent(i, keys, TTL - 1 + n)

Outdated(i, k, n) ==
  \E keys \in SUBSET Key : k \notin keys /\ Recent(i, keys, TTL - 1 + n)

Unverified(m, n) ==
  IF m.iss = TA THEN m.kid \notin OwnKeys
  ELSE Distrusted(m.iss, n) \/ Outdated(m.iss, m.kid, n)

(* A mark that may be left out: the disjuncts of FailureIsContained, with  *)
(* what is held against it in place of ~Verifiable.                        *)
Excused(c, n, verified, failed, s, e) ==
  LET m == e.mark
  IN  \/ m = Invalid
      \/ m \in verified \cup s.inactive \cup expired
      \/ m.sub # Subject \/ m.type # e.type
      \/ ~HasAuthority(c, m)
      \/ m.iss \in failed
      \/ Unverified(m, n)

ExcusedBy(r, s, e) == Excused(r.config, r.elapsed, r.verified, r.failed, s, e)

(* No entry is forgotten. *)
Accounted(r, s) ==
  \A e \in ToSet(Considered) :
    ExcusedBy(r, s, e) \/ \E k \in DOMAIN r.left : r.left[k] = e

(* A mark that may be passed on by a request that goes by c and sees s.    *)
Qualifies(c, s, m) ==
  m.sub = Subject /\ HasAuthority(c, m) /\ m \in s.active \ s.old

(* The keys a request remembers are recent, and its failures are blamed on *)
(* the issuer or held against it.                                          *)
RecentMemo(r) ==
  \A i \in Issuer : r.memo[i] # None =>
    IF r.memo[i] = Invalid THEN i \in r.failed \/ Distrusted(i, r.elapsed)
    ELSE Recent(i, r.memo[i], TTL - 1 + r.elapsed)

(* What is known of the mark a request is at, when it waits for an answer. *)
Sane(r, s) ==
  /\ r \in Job
  /\ Live(r) =>
       /\ Placed(r) /\ (r.pc \in {"alltime", "field"} <=> Current(r).iss = TA)
       /\ r.pc \in {"field", "status"} =>
            Delegated(r.config, Current(r)) /\ Current(r) \notin s.old
       /\ r.pc = "field" => Current(r) \in known
       /\ r.pc = "status" => r.memo[Current(r).iss] \notin {None, Invalid}
       /\ r.pc \in {"signed", "uri", "setex"} =>
            Signing(Current(r).iss, r.signer, r.elapsed)
       /\ r.pc = "setex" => Recent(Current(r).iss, r.fetched, 0)
       /\ \A m \in r.verified : Qualifies(r.config, s, m)
       /\ Accounted(r, s)
  /\ ~Live(r) => \A i \in Issuer : r.memo[i] = None
  /\ RecentMemo(r)

(* What a step of a request that goes by c leaves it with.                 *)
Outcome(c, new, s) ==
  /\ Sane(new, s)
  /\ new.pc = "done" =>
       /\ \A m \in new.verified : Qualifies(c, s, m)
       /\ \E n \in 0 .. BUDGET : \A e \in ToSet(Considered) :
            Excused(c, n, new.verified, new.failed, s, e)

WorldOK ==
  /\ fed \in Federations /\ active \subseteq Type /\ config \in Setting \cup {None}
  /\ Registry!TypeOK
  /\ stage \in [Issuer -> Nat] /\ age \in [Issuer -> 0 .. Horizon]
  /\ \A i \in Issuer : stage[i] \in DOMAIN fed.site[i].stages
  /\ withdrawn \in SUBSET Mark /\ expired \in SUBSET Mark

CacheOK ==
  /\ cache \in [Issuer -> [keys : SUBSET Key, age : 0 .. TTL - 1] \cup {None}]
  /\ \A i \in Issuer : cache[i] # None => Recent(i, cache[i].keys, cache[i].age)

(* What a request has seen is all there was to see since it began.         *)
Attentive(q) ==
  Running(q) => /\ seen[q].old \subseteq expired
                /\ \A m \in Carried : IF Active(m) THEN m \in seen[q].active
                                                ELSE m \in seen[q].inactive

VerifierInv ==
  /\ WorldOK /\ CacheOK
  /\ seen \in [Request -> [active : SUBSET Mark, inactive : SUBSET Mark,
                           old : SUBSET Mark]]
  /\ work \in [Request -> Job]
  /\ \A q \in Request : Sane(work[q], seen[q]) /\ Attentive(q)

-----------------------------------------------------------------------------
(* The world.                                                              *)

LEMMA HoldIsTime ==
  ASSUME NEW stages \in Seq(Stage), NEW s \in DOMAIN stages
  PROVE  s \in Nat /\ \A v \in 1 .. s : /\ v \in DOMAIN stages /\ stages[v] \in Stage
                                       /\ stages[v].hold \in Nat
<1>1. PICK n \in Nat : n = Len(stages) /\ DOMAIN stages = 1 .. n
  OBVIOUS
<1>2. \A v \in 1 .. n : stages[v] \in Stage
  BY <1>1, ElementOfSeq
<1>3. s \in Nat /\ \A v \in 1 .. s : v \in 1 .. n
  BY <1>1
<1> QED BY <1>1, <1>2, <1>3 DEF Stage

(* What was so n ticks ago or less was so m or less, if m is later.            *)
LEMMA LatelyLonger ==
  ASSUME NEW stages \in Seq(Stage), NEW s \in DOMAIN stages, NEW a \in Nat,
         NEW n \in Nat, NEW m \in Nat, n <= m, NEW u, LatelyAt(stages, s, a, u, n)
  PROVE  LatelyAt(stages, s, a, u, m)
<1>1. s \in Nat /\ \A v \in 1 .. s : stages[v].hold \in Nat
  BY HoldIsTime
<1>2. ASSUME NEW v \in u + 1 .. s
      PROVE  IF v = s THEN a <= m ELSE stages[v].hold <= m
  <2>1. v \in 1 .. s /\ stages[v].hold \in Nat
    BY <1>1 DEF LatelyAt
  <2>2. CASE v = s
    BY <2>2 DEF LatelyAt
  <2>3. CASE v # s
    BY <2>1, <2>3 DEF LatelyAt
  <2> QED BY <2>2, <2>3
<1> QED BY <1>2 DEF LatelyAt

LEMMA RecentLonger ==
  ASSUME NEW i \in Issuer, age[i] \in Nat, NEW n \in Nat, NEW m \in Nat, n <= m,
         fed.site[i].stages \in Seq(Stage), stage[i] \in DOMAIN fed.site[i].stages
  PROVE  /\ \A keys : Recent(i, keys, n) => Recent(i, keys, m)
         /\ \A k : Signing(i, k, n) => Signing(i, k, m)
<1>1. ASSUME NEW u, Lately(i, u, n)
      PROVE  Lately(i, u, m)
  BY <1>1, LatelyLonger DEF Lately
<1> QED BY <1>1 DEF Recent, Signing

(* The issuer rolls over. *)
LEMMA LatelyRolled ==
  ASSUME NEW stages \in Seq(Stage), NEW s \in DOMAIN stages, NEW a \in Nat,
         a >= stages[s].hold, NEW n \in Nat, NEW u, LatelyAt(stages, s, a, u, n)
  PROVE  LatelyAt(stages, s + 1, 0, u, n)
<1>1. s \in Nat /\ \A v \in 1 .. s : stages[v].hold \in Nat
  BY HoldIsTime
<1> QED BY <1>1 DEF LatelyAt

(* A tick passes. *)
LEMMA LatelyAged ==
  ASSUME NEW stages \in Seq(Stage), NEW s \in DOMAIN stages, NEW a \in Nat,
         NEW b \in Nat, b <= a + 1, NEW n \in Nat, NEW u, LatelyAt(stages, s, a, u, n)
  PROVE  LatelyAt(stages, s, b, u, n + 1)
<1>1. s \in Nat /\ \A v \in 1 .. s : stages[v].hold \in Nat
  BY HoldIsTime
<1> QED BY <1>1 DEF LatelyAt

LEMMA FederationOK ==
  ASSUME WorldOK
  PROVE  /\ fed.carried \in Seq(Entry)
         /\ \A i \in Issuer :
              /\ fed.site[i] \in Site /\ stage[i] \in Nat /\ age[i] \in Nat
              /\ fed.site[i].stages \in Seq(Stage)
              /\ stage[i] \in DOMAIN fed.site[i].stages
              /\ SiteStage(i) \in Stage /\ stage[i] \in 1 .. stage[i]
              /\ \A n \in Nat : /\ Recent(i, SiteStage(i).keys, n)
                                /\ Signing(i, SiteStage(i).signer, n)
<1>1. Federation(fed)
  BY FederationsAssumption DEF WorldOK
<1>2. fed.carried \in Seq(Entry) /\ fed.site \in [Issuer -> Site]
  BY <1>1 DEF Federation
<1>3. ASSUME NEW i \in Issuer
      PROVE  /\ fed.site[i] \in Site /\ stage[i] \in Nat /\ age[i] \in Nat
             /\ fed.site[i].stages \in Seq(Stage)
             /\ stage[i] \in DOMAIN fed.site[i].stages
             /\ SiteStage(i) \in Stage /\ stage[i] \in 1 .. stage[i]
             /\ \A n \in Nat : /\ Recent(i, SiteStage(i).keys, n)
                               /\ Signing(i, SiteStage(i).signer, n)
  <2>1. fed.site[i] \in Site /\ stage[i] \in DOMAIN fed.site[i].stages
    BY <1>2, <1>3 DEF WorldOK
  <2>2. fed.site[i].stages \in Seq(Stage)
    BY <2>1 DEF Site
  <2>3. PICK n \in Nat : n = Len(fed.site[i].stages)
    BY <2>2
  <2>4. DOMAIN fed.site[i].stages = 1 .. n
    BY <2>2, <2>3
  <2>5. stage[i] \in 1 .. n
    BY <2>1, <2>4
  <2>6. SiteStage(i) \in Stage
    BY <2>2, <2>3, <2>5, ElementOfSeq DEF SiteStage
  <2>7. age[i] \in Nat
    BY <1>3, BoundsAssumption DEF WorldOK, Horizon
  <2>8. stage[i] \in 1 .. stage[i] /\ \A v \in stage[i] + 1 .. stage[i] : FALSE
    BY <2>5
  <2>9. \A m \in Nat : Recent(i, SiteStage(i).keys, m) /\ Signing(i, SiteStage(i).signer, m)
    BY <2>8 DEF Recent, Signing, Lately, LatelyAt, SiteStage
  <2> QED BY <2>1, <2>2, <2>5, <2>6, <2>7, <2>8, <2>9
<1> QED BY <1>2, <1>3

LEMMA ServerConfigOK ==
  ASSUME WorldOK
  PROVE  ServerConfig \in Setting
<1>1. /\ DOMAIN fed.issuers \subseteq Type /\ fed \in Federations
      /\ \A t \in DOMAIN fed.issuers : fed.issuers[t] \subseteq Entity
  BY FederationsAssumption DEF WorldOK, Federation
<1>2. active \subseteq Type /\ TA \in Entity
  BY EntityAssumption DEF WorldOK
<1> DEFINE set(t)  == IF t \in DOMAIN fed.issuers THEN fed.issuers[t] ELSE {}
           open(t) == t \in DOMAIN fed.issuers /\ set(t) = {}
           D       == DOMAIN fed.issuers \cup active
           issuers == [t \in D |-> IF t \in active /\ ~open(t) THEN set(t) \cup {TA}
                                   ELSE set(t)]
<1>3. ServerConfig = [issuers |-> issuers, owners |-> fed.owners]
  BY DEF ServerConfig
<1>4. issuers \in [D -> SUBSET Entity] /\ D \in SUBSET Type
  BY <1>1, <1>2
<1> HIDE DEF issuers, D
<1>5. issuers \in UNION {[d -> SUBSET Entity] : d \in SUBSET Type}
  BY <1>4
<1>6. fed.owners \in {f.owners : f \in Federations}
  BY <1>1
<1> QED BY <1>3, <1>5, <1>6 DEF Setting

(* What becomes of a mark that is asked about, and what authority is. *)
LEMMA PlacedHasAuthority ==
  ASSUME fed.carried \in Seq(Entry), NEW r \in Job, Placed(r),
         Delegated(r.config, Current(r))
  PROVE  Current(r).sub = Subject /\ HasAuthority(r.config, Current(r))
<1>1. Current(r) = r.left[1].mark /\ ~Unusable(r.config) /\ Recognised(r.config, r.left[1])
  BY PlacedMark DEF Placed
<1>2. r.left[1].mark.type = r.left[1].type /\ r.left[1].mark.sub = Subject
  BY <1>1 DEF Recognised
<1> QED BY <1>1, <1>2 DEF Delegated, HasAuthority, Recognised, Unusable

(* An issuer has authority only for marks that are not delegated wrongly. *)
LEMMA AuthorityDelegates ==
  ASSUME NEW c \in Setting, ~Unusable(c), NEW m \in Mark, HasAuthority(c, m)
  PROVE  Delegated(c, m)
<1>1. PICK f \in Federations : c.owners = f.owners
  BY DEF Setting
<1>2. PICK D \in SUBSET Type : c.owners \in [D -> Entity]
  BY <1>1, FederationsAssumption DEF Federation, Unusable
<1>3. m.iss \in Entity /\ m.type \in Type
  BY MarkAssumption DEF MarkRecord
<1>4. m.type \in DOMAIN c.owners =>
        [by |-> c.owners[m.type], to |-> m.iss, type |-> m.type] \in Delegation
  BY <1>2, <1>3 DEF Delegation
<1> QED BY <1>4, NoneAssumption DEF HasAuthority, Delegated

(* Keys that lack a mark's are held against it, and keys that lack the     *)
(* signer against its issuer.                                              *)
LEMMA HeldAgainst ==
  ASSUME WorldOK, NEW i \in Issuer, NEW keys \in SUBSET Key, NEW n \in Nat,
         Recent(i, keys, TTL - 1 + n)
  PROVE  /\ \A k : k \notin keys => Outdated(i, k, n)
         /\ \A k : k \notin keys /\ Signing(i, k, n) => Distrusted(i, n)
<1>1. ASSUME NEW k, Signing(i, k, n)
      PROVE  k \in Key
  <2>1. PICK u \in 1 .. stage[i] : k = fed.site[i].stages[u].signer
    BY <1>1 DEF Signing
  <2>2. PICK stages, s : /\ stages = fed.site[i].stages /\ s = stage[i]
                         /\ stages \in Seq(Stage) /\ s \in DOMAIN stages
    BY FederationOK
  <2>3. stages[u] \in Stage
    BY <2>2, HoldIsTime
  <2> QED BY <2>1, <2>2, <2>3 DEF Stage
<1> QED BY <1>1 DEF Outdated, Distrusted

LEMMA ExcusedMore ==
  ASSUME NEW c, NEW n, NEW verified, NEW failed, NEW s, NEW e,
         Excused(c, n, verified, failed, s, e),
         NEW moreVerified, verified \subseteq moreVerified,
         NEW moreFailed, failed \subseteq moreFailed,
         NEW t, s.inactive \subseteq t.inactive
  PROVE  Excused(c, n, moreVerified, moreFailed, t, e)
  BY DEF Excused

(* An entry that is passed over is excused. *)
LEMMA UnworthyExcused ==
  ASSUME WorldOK, NEW r \in Job, RecentMemo(r), ~Unusable(r.config),
         NEW e \in Entry, ~Worthy(r, e), NEW s
  PROVE  ExcusedBy(r, s, e)
<1> SUFFICES ASSUME /\ e.mark # Invalid /\ e.mark \notin expired
                    /\ e.mark.sub = Subject /\ e.mark.type = e.type
                    /\ HasAuthority(r.config, e.mark) /\ e.mark.iss \notin r.failed
             PROVE  Unverified(e.mark, r.elapsed)
  BY DEF ExcusedBy, Excused
<1> DEFINE m == e.mark
<1>1. m \in Mark /\ m.iss \in Entity /\ r.config \in Setting
  BY MarkAssumption DEF Entry, MarkRecord, Job, Unusable
<1>2. Recognised(r.config, e)
  BY DEF Recognised, HasAuthority
<1>3. Delegated(r.config, m)
  BY <1>1, AuthorityDelegates
<1>4. /\ m.iss \in Issuer /\ r.memo[m.iss] # None
      /\ r.memo[m.iss] = Invalid \/ m.kid \notin r.memo[m.iss]
  BY <1>1, <1>2, <1>3 DEF Worthy, Rejected, Verifies
<1>5. r.memo[m.iss] # Invalid => r.memo[m.iss] \in SUBSET Key
  BY <1>4 DEF Job
<1>6. PICK n \in 0 .. BUDGET : n = r.elapsed
  BY DEF Job
<1>7. n \in Nat
  BY <1>6
<1>8. CASE r.memo[m.iss] = Invalid
  BY <1>4, <1>8 DEF RecentMemo, Unverified
<1>9. CASE r.memo[m.iss] # Invalid
  <2>1. Recent(m.iss, r.memo[m.iss], TTL - 1 + n)
    BY <1>4, <1>6, <1>9 DEF RecentMemo
  <2>2. Outdated(m.iss, m.kid, n)
    BY <1>4, <1>5, <1>7, <1>9, <2>1, HeldAgainst
  <2> QED BY <1>4, <1>6, <2>2 DEF Unverified
<1> QED BY <1>8, <1>9

-----------------------------------------------------------------------------
(* What the operators of a request leave it with.                          *)

(* A request that may look for the next mark.                              *)
Ready(r, s) ==
  /\ r \in Job /\ Listed(r.left) /\ (r.left # <<>> => ~Unusable(r.config))
  /\ \A m \in r.verified : Qualifies(r.config, s, m)
  /\ RecentMemo(r) /\ Accounted(r, s) /\ s.old \subseteq expired

LEMMA OnwardOK ==
  ASSUME WorldOK, NEW r, NEW s, Ready(r, s)
  PROVE  Outcome(r.config, Onward(r), s)
<1> DEFINE new == Onward(r)
<1>1. /\ r \in Job /\ RecentMemo(r) /\ s.old \subseteq expired
      /\ \A m \in r.verified : Qualifies(r.config, s, m)
  BY DEF Ready
<1>2. Moved(r, new)
  BY OnwardMoves DEF Ready
<1> HIDE DEF new
<1>3. new \in Job /\ new.verified = r.verified /\ new.failed = r.failed
  BY <1>2 DEF Moved
<1>4. \A k \in DOMAIN r.left : ~Worthy(r, r.left[k]) => ExcusedBy(r, s, r.left[k])
  <2>1. r.left \in Seq(Entry)
    BY <1>1 DEF Job
  <2>2. PICK n \in Nat : n = Len(r.left) /\ DOMAIN r.left = 1 .. n
    BY <2>1
  <2>3. ASSUME NEW k \in DOMAIN r.left
        PROVE  r.left[k] \in Entry /\ ~Unusable(r.config)
    <3>1. r.left[k] \in Entry
      BY <2>1, <2>2, ElementOfSeq
    <3>2. r.left # <<>>
      BY EmptySeq
    <3> QED BY <3>1, <3>2 DEF Ready
  <2> QED BY <1>1, <2>3, UnworthyExcused
<1>5. CASE /\ new.pc = "done" /\ \A i \in Issuer : new.memo[i] = None
           /\ \A k \in DOMAIN r.left : ~Worthy(r, r.left[k])
  <2>1. ~Live(new) /\ RecentMemo(new)
    BY <1>5 DEF Live, RecentMemo
  <2>2. Sane(new, s)
    BY <1>3, <1>5, <2>1 DEF Sane
  <2>3. \A m \in new.verified : Qualifies(r.config, s, m)
    BY <1>1, <1>3
  <2>4. \A e \in ToSet(Considered) : ExcusedBy(r, s, e)
    BY <1>4, <1>5 DEF Ready, Accounted
  <2>5. r.elapsed \in 0 .. BUDGET
    BY <1>1 DEF Job
  <2>6. \E n \in 0 .. BUDGET : \A e \in ToSet(Considered) :
          Excused(r.config, n, new.verified, new.failed, s, e)
    BY <1>3, <2>4, <2>5 DEF ExcusedBy
  <2> QED BY <2>2, <2>3, <2>6 DEF Outcome, new
<1>6. CASE /\ \A k \in DOMAIN r.left : Worthy(r, r.left[k]) =>
                \E j \in DOMAIN new.left : new.left[j] = r.left[k]
           /\ new.memo = r.memo /\ new.config = r.config /\ new.elapsed = r.elapsed
           /\ Placed(new) /\ ~Rejected(r, new.left[1].mark)
           /\ IF new.left[1].mark.iss = TA THEN new.pc = "alltime"
              ELSE /\ r.memo[new.left[1].mark.iss] = None => new.pc = "configuration"
                   /\ r.memo[new.left[1].mark.iss] # None => new.pc = "status"
  <2>1. Current(new) = new.left[1].mark
    BY <1>3, <1>6, FederationOK, PlacedMark
  <2> DEFINE mark == new.left[1].mark
  <2>2. new.pc = "status" =>
          /\ mark.iss # TA /\ Delegated(new.config, mark) /\ mark \notin s.old
          /\ new.memo[mark.iss] \notin {None, Invalid}
    BY <1>1, <1>6 DEF Rejected, Verifies
  <2>3. /\ new.pc \in {"alltime", "configuration", "status"}
        /\ new.pc = "alltime" <=> mark.iss = TA
    BY <1>6
  <2>4. RecentMemo(new)
    BY <1>1, <1>3, <1>6 DEF RecentMemo
  <2>5. Accounted(new, s)
    <3>1. \A e : ExcusedBy(r, s, e) => ExcusedBy(new, s, e)
      BY <1>3, <1>6 DEF ExcusedBy
    <3> QED BY <1>4, <1>6, <3>1 DEF Ready, Accounted
  <2>6. \A m \in new.verified : Qualifies(new.config, s, m)
    BY <1>1, <1>3, <1>6
  <2>7. Live(new)
    BY <2>3 DEF Live
  <2> HIDE DEF mark
  <2>8. Current(new) = mark /\ Placed(new)
    BY <1>6, <2>1 DEF mark
  <2>9. Sane(new, s)
    BY <1>3, <2>2, <2>3, <2>4, <2>6, <2>7, <2>8, <2>5 DEF Sane
  <2> QED BY <2>3, <2>9 DEF Outcome, new
<1> QED BY <1>2, <1>5, <1>6 DEF Moved

(* A request that is done with its mark, or has learned about its issuer.  *)
LEMMA ReadyAgain ==
  ASSUME WorldOK, NEW r, NEW s, Sane(r, s), Live(r), s.old \subseteq expired,
         NEW new \in Job, new.config = r.config, new.elapsed = r.elapsed,
         \/ new.left = r.left
         \/ new.left = Tail(r.left) /\ ExcusedBy(new, s, r.left[1]),
         r.verified \subseteq new.verified, r.failed \subseteq new.failed,
         \A m \in new.verified : Qualifies(r.config, s, m),
         RecentMemo(new)
  PROVE  Ready(new, s)
<1>1. r \in Job /\ Placed(r) /\ Accounted(r, s)
  BY DEF Sane
<1>2. /\ r.left \in Seq(Entry) /\ r.left # <<>> /\ Listed(r.left)
      /\ ~Unusable(r.config)
  BY <1>1, FederationOK, PlacedMark
<1>3. Listed(new.left)
  BY <1>2, ListedTail
<1>4. \A e : ExcusedBy(r, s, e) => ExcusedBy(new, s, e)
  BY ExcusedMore DEF ExcusedBy
<1>5. \A k \in DOMAIN r.left :
        \/ ExcusedBy(new, s, r.left[k])
        \/ \E j \in DOMAIN new.left : new.left[j] = r.left[k]
  <2>1. \A j \in DOMAIN r.left :
          r.left[j] = r.left[1] \/ \E k \in DOMAIN Tail(r.left) : Tail(r.left)[k] = r.left[j]
    BY <1>2, HeadOfEntries
  <2> QED BY <2>1
<1>6. Accounted(new, s)
  BY <1>1, <1>4, <1>5 DEF Accounted
<1> QED BY <1>2, <1>3, <1>6 DEF Ready

LEMMA DroppedOK ==
  ASSUME WorldOK, NEW r, NEW s, Sane(r, s), Live(r), s.old \subseteq expired
  PROVE  /\ ExcusedBy(r, s, r.left[1]) => Outcome(r.config, Dropped(r), s)
         /\ Outcome(r.config, Dropped(Blamed(r)), s)
<1>1. r \in Job /\ Placed(r) /\ RecentMemo(r)
      /\ \A m \in r.verified : Qualifies(r.config, s, m)
  BY DEF Sane
<1>2. /\ r.left \in Seq(Entry) /\ r.left # <<>> /\ Listed(r.left)
      /\ Current(r).iss \in Entity /\ Current(r) = r.left[1].mark
  BY <1>1, FederationOK, PlacedMark
<1>3. Tail(r.left) \in Seq(Entry)
  BY <1>2, ListedTail
<1> DEFINE failed == r.failed \cup {Current(r).iss}
           rest == Tail(r.left)
           one == [r EXCEPT !.left = rest]
           blamed == [r EXCEPT !.failed = failed]
           two == [blamed EXCEPT !.left = rest]
<1>4. failed \in SUBSET Entity /\ r.failed \subseteq failed /\ r.left[1].mark.iss \in failed
  BY <1>1, <1>2 DEF Job
<1>5. Blamed(r) = blamed
  BY DEF Blamed
<1> HIDE DEF failed, rest
<1>6. /\ one \in Job /\ one.config = r.config /\ one.left = rest
      /\ one.verified = r.verified /\ one.memo = r.memo /\ one.elapsed = r.elapsed
      /\ one.failed = r.failed
  BY <1>1, <1>3 DEF Job, rest
<1>7. /\ blamed \in Job /\ blamed.config = r.config /\ blamed.left = r.left
      /\ blamed.verified = r.verified /\ blamed.memo = r.memo
      /\ blamed.elapsed = r.elapsed /\ blamed.failed = failed
  BY <1>1, <1>4 DEF Job
<1> HIDE DEF blamed
<1>8. /\ two \in Job /\ two.config = r.config /\ two.left = rest
      /\ two.verified = r.verified /\ two.memo = r.memo /\ two.elapsed = r.elapsed
      /\ two.failed = failed
  BY <1>3, <1>7 DEF Job, rest
<1>9. Dropped(r) = Onward(one) /\ Dropped(Blamed(r)) = Onward(two)
  BY <1>5, <1>7 DEF Dropped, rest
<1> HIDE DEF one, two
<1>10. RecentMemo(one) /\ RecentMemo(two)
  BY <1>1, <1>4, <1>6, <1>8 DEF RecentMemo
<1>11. /\ ExcusedBy(r, s, r.left[1]) => ExcusedBy(one, s, r.left[1])
       /\ ExcusedBy(two, s, r.left[1])
  BY <1>4, <1>6, <1>8 DEF ExcusedBy, Excused
<1>12. /\ ExcusedBy(r, s, r.left[1]) => Ready(one, s)
       /\ Ready(two, s)
  BY <1>1, <1>4, <1>6, <1>8, <1>10, <1>11, ReadyAgain DEF rest
<1> QED BY <1>6, <1>8, <1>9, <1>12, OnwardOK

LEMMA AcceptedOK ==
  ASSUME WorldOK, NEW r, NEW s, Sane(r, s), Live(r), s.old \subseteq expired,
         Qualifies(r.config, s, Current(r))
  PROVE  Outcome(r.config, Accepted(r), s)
<1>1. r \in Job /\ Placed(r) /\ RecentMemo(r)
      /\ \A m \in r.verified : Qualifies(r.config, s, m)
  BY DEF Sane
<1>2. /\ r.left \in Seq(Entry) /\ r.left # <<>> /\ Listed(r.left)
      /\ Current(r) \in Mark /\ Current(r) = r.left[1].mark
  BY <1>1, FederationOK, PlacedMark
<1>3. Tail(r.left) \in Seq(Entry)
  BY <1>2, ListedTail
<1> DEFINE rest == Tail(r.left)
           verified == r.verified \cup {Current(r)}
           new == [r EXCEPT !.left = rest, !.verified = verified]
<1>4. verified \in SUBSET Mark
  BY <1>1, <1>2 DEF Job
<1>5. Accepted(r) = Onward(new)
  BY DEF Accepted
<1>6. /\ \A m \in verified : Qualifies(r.config, s, m)
      /\ r.verified \subseteq verified /\ r.left[1].mark \in verified
  BY <1>1, <1>2
<1> HIDE DEF rest, verified
<1>7. /\ new \in Job /\ new.config = r.config /\ new.left = rest
      /\ new.verified = verified /\ new.memo = r.memo /\ new.elapsed = r.elapsed
      /\ new.failed = r.failed
  BY <1>1, <1>3, <1>4 DEF Job, rest
<1> HIDE DEF new
<1>8. RecentMemo(new) /\ ExcusedBy(new, s, r.left[1])
  BY <1>1, <1>6, <1>7 DEF RecentMemo, ExcusedBy, Excused
<1>9. Ready(new, s)
  BY <1>6, <1>7, <1>8, ReadyAgain DEF rest
<1> QED BY <1>5, <1>7, <1>9, OnwardOK

(* What a request remembers of the issuer of its mark. *)
LEMMA Remembered ==
  ASSUME WorldOK, NEW r, NEW s, Sane(r, s), Live(r), s.old \subseteq expired,
         NEW i, i = Current(r).iss, i # TA,
         NEW keys \in (SUBSET Key) \cup {Invalid},
         keys = Invalid \/ Recent(i, keys, TTL - 1 + r.elapsed)
  PROVE  /\ i \in Issuer
         /\ (keys = Invalid => Distrusted(i, r.elapsed)) =>
              Outcome(r.config, Onward([r EXCEPT !.memo[i] = keys]), s)
         /\ Outcome(r.config, Onward(Blamed([r EXCEPT !.memo[i] = keys])), s)
<1>1. r \in Job /\ Placed(r) /\ RecentMemo(r)
      /\ \A m \in r.verified : Qualifies(r.config, s, m)
  BY DEF Sane
<1>2. i \in Issuer /\ i \in Entity
  BY <1>1, FederationOK, PlacedMark
<1> DEFINE memo == [r.memo EXCEPT ![i] = keys]
           one == [r EXCEPT !.memo = memo]
           failed == one.failed \cup {Current(one).iss}
           two == [one EXCEPT !.failed = failed]
<1>3. [r EXCEPT !.memo[i] = keys] = one
  BY <1>1 DEF Job
<1>4. r.memo \in [Issuer -> (SUBSET Key) \cup {None, Invalid}]
  BY <1>1 DEF Job
<1>5. /\ memo \in [Issuer -> (SUBSET Key) \cup {None, Invalid}]
      /\ \A j \in Issuer : memo[j] = IF j = i THEN keys ELSE r.memo[j]
  BY <1>2, <1>4
<1> HIDE DEF memo
<1>6. /\ one \in Job /\ one.config = r.config /\ one.left = r.left
      /\ one.verified = r.verified /\ one.memo = memo /\ one.elapsed = r.elapsed
      /\ one.failed = r.failed
  BY <1>1, <1>5 DEF Job
<1>7. Blamed(one) = two
  BY DEF Blamed
<1> HIDE DEF one
<1>8. failed \in SUBSET Entity /\ r.failed \subseteq failed /\ i \in failed
  BY <1>2, <1>6 DEF Job, Current
<1> HIDE DEF failed
<1>9. /\ two \in Job /\ two.config = r.config /\ two.left = r.left
      /\ two.verified = r.verified /\ two.memo = memo /\ two.elapsed = r.elapsed
      /\ two.failed = failed
  BY <1>6, <1>8 DEF Job
<1> HIDE DEF two
<1>10. \A j \in Issuer : j # i /\ memo[j] # None =>
         IF memo[j] = Invalid THEN j \in r.failed \/ Distrusted(j, r.elapsed)
         ELSE Recent(j, memo[j], TTL - 1 + r.elapsed)
  BY <1>1, <1>5 DEF RecentMemo
<1>11. /\ (keys = Invalid => Distrusted(i, r.elapsed)) => RecentMemo(one)
       /\ RecentMemo(two)
  BY <1>5, <1>6, <1>8, <1>9, <1>10 DEF RecentMemo
<1>12. /\ (keys = Invalid => Distrusted(i, r.elapsed)) => Ready(one, s)
       /\ Ready(two, s)
  BY <1>1, <1>6, <1>8, <1>9, <1>11, ReadyAgain
<1> QED BY <1>2, <1>3, <1>6, <1>7, <1>9, <1>12, OnwardOK

(* A request that stays with its mark. *)
LEMMA StaysOK ==
  ASSUME WorldOK, NEW r, NEW s, Sane(r, s), Live(r),
         NEW new \in Job, new.left = r.left, new.config = r.config,
         new.verified = r.verified, new.failed = r.failed, new.memo = r.memo,
         new.elapsed = r.elapsed, Live(new),
         new.pc \in {"alltime", "field"} <=> r.pc \in {"alltime", "field"},
         new.pc = "status" => r.pc = "status",
         new.pc = "field" =>
           /\ Delegated(r.config, Current(r))
           /\ Current(r) \in known \ s.old,
         new.pc \in {"signed", "uri", "setex"} =>
           Signing(Current(r).iss, new.signer, r.elapsed),
         new.pc = "setex" => Recent(Current(r).iss, new.fetched, 0)
  PROVE  Outcome(r.config, new, s)
<1>1. Current(new) = Current(r)
  BY DEF Current
<1>2. Placed(new)
  BY DEF Sane, Placed
<1>3. RecentMemo(new)
  BY DEF Sane, RecentMemo
<1>4. new.pc # "done"
  BY DEF Live
<1>5. Accounted(new, s)
  BY DEF Sane, Accounted, ExcusedBy
<1> QED BY <1>1, <1>2, <1>3, <1>4, <1>5 DEF Sane, Outcome

LEMMA QueryOK ==
  ASSUME WorldOK, NEW r, NEW s, Sane(r, s), Live(r), NEW pc \in {"signed", "uri"},
         r.pc \in {"configuration", "signed"},
         Signing(Current(r).iss, r.signer, r.elapsed)
  PROVE  Outcome(r.config, Query(r, pc), s)
<1>1. r \in Job /\ 0 \in 0 .. FETCH_MAX_RETRIES
  BY BoundsAssumption DEF Sane
<1> DEFINE new == Query(r, pc)
<1>2. /\ new \in Job /\ new.left = r.left /\ new.config = r.config
      /\ new.verified = r.verified /\ new.memo = r.memo /\ new.elapsed = r.elapsed
      /\ new.failed = r.failed /\ new.signer = r.signer /\ new.pc = pc
  BY <1>1 DEF Query, Job
<1> HIDE DEF new
<1>3. Live(new)
  BY <1>2 DEF Live
<1>4. Outcome(r.config, new, s)
  BY <1>2, <1>3, StaysOK
<1> QED BY <1>4 DEF new

LEMMA ResolvedOK ==
  ASSUME WorldOK, NEW r, NEW s, Sane(r, s), Live(r), s.old \subseteq expired,
         Current(r).iss # TA, NEW keys \in SUBSET Key,
         Recent(Current(r).iss, keys, TTL - 1 + r.elapsed),
         Signing(Current(r).iss, r.signer, r.elapsed)
  PROVE  Outcome(r.config, Resolved(r, keys), s)
<1>1. PICK i : i = Current(r).iss
  OBVIOUS
<1> DEFINE kept == IF r.signer \in keys /\ fed.site[i].endpoint THEN keys ELSE Invalid
<1>2. Resolved(r, keys) = Onward([r EXCEPT !.memo[i] = kept])
  BY <1>1 DEF Resolved
<1>3. /\ kept \in (SUBSET Key) \cup {Invalid}
      /\ kept = Invalid \/ Recent(i, kept, TTL - 1 + r.elapsed)
  BY <1>1
<1>4. r \in Job /\ Placed(r)
  BY DEF Sane
<1>5. i \in Issuer
  BY <1>1, <1>4, FederationOK, PlacedMark
<1>6. PICK n \in Nat : n = r.elapsed
  BY <1>4 DEF Job
<1>7. r.signer \notin keys => Distrusted(i, r.elapsed)
  BY <1>1, <1>5, <1>6, HeldAgainst
<1>8. kept = Invalid => Distrusted(i, r.elapsed)
  BY <1>7, NoneAssumption DEF Distrusted
<1> HIDE DEF kept
<1>9. Outcome(r.config, Onward([r EXCEPT !.memo[i] = kept]), s)
  BY <1>1, <1>3, <1>8, Remembered
<1> QED BY <1>2, <1>9

LEMMA UnresolvedOK ==
  ASSUME WorldOK, NEW r, NEW s, Sane(r, s), Live(r), s.old \subseteq expired,
         Current(r).iss # TA
  PROVE  Outcome(r.config, Unresolved(r), s)
<1>1. PICK i : i = Current(r).iss
  OBVIOUS
<1>2. Outcome(r.config, Onward(Blamed([r EXCEPT !.memo[i] = Invalid])), s)
  BY <1>1, Remembered
<1> QED BY <1>1, <1>2 DEF Unresolved

LEMMA FromUriOK ==
  ASSUME WorldOK, CacheOK, NEW r, NEW s, Sane(r, s), Live(r), s.old \subseteq expired,
         Current(r).iss # TA, r.pc \in {"configuration", "signed"},
         Signing(Current(r).iss, r.signer, r.elapsed)
  PROVE  Outcome(r.config, FromUri(r), s)
<1>1. PICK i : i = Current(r).iss
  OBVIOUS
<1>2. CASE "uri" \notin fed.site[i].offers
  <2>1. FromUri(r) = Unresolved(r)
    BY <1>1, <1>2 DEF FromUri
  <2> QED BY <2>1, UnresolvedOK
<1>3. CASE "uri" \in fed.site[i].offers /\ cache[i] # None
  <2>1. FromUri(r) = Resolved(r, cache[i].keys)
    BY <1>1, <1>3 DEF FromUri
  <2>2. i \in Issuer
    <3>1. r \in Job /\ Placed(r)
      BY DEF Sane
    <3> QED BY <1>1, <3>1, FederationOK, PlacedMark
  <2>3. cache[i] \in [keys : SUBSET Key, age : 0 .. TTL - 1]
    BY <1>3, <2>2 DEF CacheOK
  <2>4. PICK n \in 0 .. TTL - 1 : n = cache[i].age
    BY <2>3
  <2>5. Recent(i, cache[i].keys, n)
    BY <1>3, <2>2, <2>4 DEF CacheOK
  <2>6. PICK e \in 0 .. BUDGET : e = r.elapsed
    BY DEF Sane, Job
  <2>7. n \in Nat /\ TTL - 1 + e \in Nat /\ n <= TTL - 1 + e
    BY BoundsAssumption
  <2>8. /\ age[i] \in Nat /\ fed.site[i].stages \in Seq(Stage)
        /\ stage[i] \in DOMAIN fed.site[i].stages
    BY <2>2, FederationOK
  <2>9. Recent(i, cache[i].keys, TTL - 1 + r.elapsed)
    BY <2>2, <2>5, <2>6, <2>7, <2>8, RecentLonger
  <2>10. cache[i].keys \in SUBSET Key
    BY <2>3
  <2> QED BY <1>1, <2>1, <2>9, <2>10, ResolvedOK
<1>4. CASE "uri" \in fed.site[i].offers /\ cache[i] = None
  <2>1. FromUri(r) = Query(r, "uri")
    BY <1>1, <1>4 DEF FromUri
  <2> QED BY <2>1, QueryOK
<1> QED BY <1>2, <1>3, <1>4

(* Keys as they are now are recent for every request. *)
LEMMA PresentKeys ==
  ASSUME WorldOK, NEW r \in Job, NEW i \in Issuer
  PROVE  /\ SiteStage(i).keys \in SUBSET Key /\ SiteStage(i).signer \in Key
         /\ \A keys : Recent(i, keys, 0) => Recent(i, keys, TTL - 1 + r.elapsed)
         /\ Recent(i, SiteStage(i).keys, 0)
         /\ Signing(i, SiteStage(i).signer, r.elapsed)
<1>1. PICK n \in 0 .. BUDGET : n = r.elapsed
  BY DEF Job
<1>2. n \in Nat /\ 0 \in Nat /\ TTL - 1 + n \in Nat /\ 0 <= TTL - 1 + n
  BY BoundsAssumption
<1>3. /\ SiteStage(i) \in Stage /\ age[i] \in Nat /\ fed.site[i].stages \in Seq(Stage)
      /\ stage[i] \in DOMAIN fed.site[i].stages
      /\ Recent(i, SiteStage(i).keys, 0) /\ Signing(i, SiteStage(i).signer, n)
  BY <1>2, FederationOK
<1>4. \A keys : Recent(i, keys, 0) => Recent(i, keys, TTL - 1 + n)
  BY <1>2, <1>3, RecentLonger
<1> QED BY <1>1, <1>3, <1>4 DEF Stage

-----------------------------------------------------------------------------
(* The steps of a request.                                                 *)

(* What a request has seen before a step, and what may be the first.       *)
Past(q) == IF Running(q) THEN seen[q] ELSE [Nothing EXCEPT !.old = expired \cap Carried]

Steps(q) ==
  \E new : work' = [work EXCEPT ![q] = new] /\ Outcome(Used(q), new, Past(q))

LEMMA StepOf ==
  ASSUME NEW q \in Request, NEW r, NEW new, r = work[q], Live(r), Become(q, new),
         Outcome(r.config, new, seen[q])
  PROVE  Steps(q)
  BY DEF Steps, Become, Used, Past, Running, Live

(* What is known of a request that runs. *)
LEMMA AtWork ==
  ASSUME VerifierInv, NEW q \in Request, Live(work[q])
  PROVE  /\ WorldOK /\ CacheOK /\ Sane(work[q], seen[q]) /\ work[q] \in Job
         /\ Placed(work[q]) /\ seen[q].old \subseteq expired
         /\ Current(work[q]) \in Carried /\ Current(work[q]) \in Mark
         /\ Current(work[q]).iss \in Entity
         /\ work[q].pc \in {"alltime", "field"} <=> Current(work[q]).iss = TA
         /\ IF Active(Current(work[q])) THEN Current(work[q]) \in seen[q].active
            ELSE ExcusedBy(work[q], seen[q], work[q].left[1])
         /\ ~Delegated(work[q].config, Current(work[q])) \/ Current(work[q]) \in expired =>
              ExcusedBy(work[q], seen[q], work[q].left[1])
         /\ Unverified(Current(work[q]), work[q].elapsed) =>
              ExcusedBy(work[q], seen[q], work[q].left[1])
<1>1. /\ WorldOK /\ CacheOK /\ Sane(work[q], seen[q]) /\ work[q] \in Job
      /\ Attentive(q)
  BY DEF VerifierInv
<1>2. Placed(work[q]) /\ (work[q].pc \in {"alltime", "field"} <=> Current(work[q]).iss = TA)
  BY <1>1 DEF Sane
<1>3. /\ Current(work[q]) \in Carried /\ Current(work[q]) \in Mark
      /\ Current(work[q]).iss \in Entity /\ Current(work[q]) = work[q].left[1].mark
      /\ ~Unusable(work[q].config)
  BY <1>1, <1>2, FederationOK, PlacedMark
<1>4. Running(q)
  BY DEF Running, Live
<1>5. /\ seen[q].old \subseteq expired
      /\ IF Active(Current(work[q])) THEN Current(work[q]) \in seen[q].active
         ELSE Current(work[q]) \in seen[q].inactive
  BY <1>1, <1>3, <1>4 DEF Attentive
<1>6. ~Delegated(work[q].config, Current(work[q])) =>
        ~HasAuthority(work[q].config, Current(work[q]))
  <2>1. work[q].config \in Setting
    BY <1>1, <1>3 DEF Job, Unusable
  <2> QED BY <1>3, <2>1, AuthorityDelegates
<1>7. \/ Current(work[q]) \in seen[q].inactive \cup expired
      \/ ~HasAuthority(work[q].config, Current(work[q]))
      \/ Unverified(Current(work[q]), work[q].elapsed)
      => ExcusedBy(work[q], seen[q], work[q].left[1])
  BY <1>3 DEF ExcusedBy, Excused
<1> QED BY <1>1, <1>2, <1>3, <1>5, <1>6, <1>7

LEMMA BeginStep ==
  ASSUME VerifierInv, NEW q \in Request, Begin(q)
  PROVE  Steps(q)
<1> DEFINE left == IF Unusable(config) THEN <<>> ELSE Considered
           r == [Blank("idle") EXCEPT !.config = config, !.left = left]
<1>1. ~Running(q) /\ Become(q, Onward(r))
  BY DEF Begin
<1>2. WorldOK /\ config \in Setting \cup {None}
  BY DEF VerifierInv, WorldOK
<1>3. /\ left \in Seq(Entry) /\ Listed(left)
      /\ left # <<>> => ~Unusable(config)
  BY <1>2, FederationOK, ConsideredAreCarried, EmptySeq DEF Listed
<1> HIDE DEF left
<1>4. Blank("idle") \in Job /\ Blank("idle").verified = {}
      /\ \A i \in Issuer : Blank("idle").memo[i] = None
  BY BlankIsJob
<1>5. /\ r \in Job /\ r.config = config /\ r.left = left /\ r.verified = {}
      /\ r.memo = Blank("idle").memo
  BY <1>2, <1>3, <1>4 DEF Job
<1> HIDE DEF r
<1>6. RecentMemo(r)
  BY <1>4, <1>5 DEF RecentMemo
<1>7. Past(q).old \subseteq expired
  BY <1>1 DEF Past, Nothing
<1>8. Accounted(r, Past(q))
  <2>1. CASE Unusable(config)
    <3>1. \A m : ~HasAuthority(config, m)
      BY <2>1 DEF HasAuthority, Unusable
    <3> QED BY <1>5, <3>1 DEF Accounted, ExcusedBy, Excused
  <2>2. CASE ~Unusable(config)
    BY <1>5, <2>2 DEF Accounted, ToSet, left
  <2> QED BY <2>1, <2>2
<1>9. Ready(r, Past(q))
  BY <1>3, <1>5, <1>6, <1>7, <1>8 DEF Ready
<1>10. Outcome(config, Onward(r), Past(q))
  BY <1>2, <1>5, <1>9, OnwardOK
<1>11. Used(q) = config
  BY <1>1 DEF Used
<1> QED BY <1>1, <1>10, <1>11 DEF Steps, Become

LEMMA SismemberStep ==
  ASSUME VerifierInv, NEW q \in Request, Sismember(q)
  PROVE  Steps(q)
<1>1. PICK r : r = work[q]
  OBVIOUS
<1>2. r.pc = "alltime" /\ Live(r)
  BY <1>1 DEF Sismember, Live
<1>3. /\ WorldOK /\ Sane(r, seen[q]) /\ r \in Job /\ seen[q].old \subseteq expired
      /\ Current(r).iss = TA
  BY <1>1, <1>2, AtWork
<1>4. CASE /\ Become(q, Dropped(r))
           /\ ~(/\ Current(r) \in known /\ Verifies(Current(r), OwnKeys)
                /\ Delegated(r.config, Current(r)))
  <2>1. \/ ~Active(Current(r)) \/ Unverified(Current(r), r.elapsed)
        \/ ~Delegated(r.config, Current(r)) \/ Current(r) \in expired
    BY <1>3, <1>4 DEF Active, Unverified, Verifies
  <2>2. ExcusedBy(r, seen[q], r.left[1])
    BY <1>1, <1>2, <2>1, AtWork
  <2> QED BY <1>1, <1>2, <1>3, <1>4, <2>2, DroppedOK, StepOf
<1>5. CASE /\ Current(r) \in known /\ Verifies(Current(r), OwnKeys)
           /\ Delegated(r.config, Current(r))
           /\ Become(q, [r EXCEPT !.pc = "field"])
  <2>1. Current(r) \in known \ seen[q].old
    BY <1>3, <1>5 DEF Verifies
  <2> DEFINE new == [r EXCEPT !.pc = "field"]
  <2>2. /\ new \in Job /\ new.left = r.left /\ new.config = r.config
        /\ new.verified = r.verified /\ new.memo = r.memo /\ new.failed = r.failed
        /\ new.elapsed = r.elapsed /\ new.pc = "field"
    BY <1>3 DEF Job
  <2>3. Become(q, new)
    BY <1>5
  <2> HIDE DEF new
  <2>4. Live(new)
    BY <2>2 DEF Live
  <2>5. Outcome(r.config, new, seen[q])
    BY <1>2, <1>3, <1>5, <2>1, <2>2, <2>4, StaysOK
  <2> QED BY <1>1, <1>2, <2>3, <2>5, StepOf
<1> QED BY <1>1, <1>4, <1>5 DEF Sismember

LEMMA HgetStep ==
  ASSUME VerifierInv, NEW q \in Request, Hget(q)
  PROVE  Steps(q)
<1>1. PICK r : r = work[q]
  OBVIOUS
<1>2. r.pc = "field" /\ Live(r)
  BY <1>1 DEF Hget, Live
<1>3. /\ WorldOK /\ Sane(r, seen[q]) /\ r \in Job /\ Placed(r)
      /\ seen[q].old \subseteq expired
      /\ r.pc \in {"alltime", "field"} <=> Current(r).iss = TA
      /\ IF Active(Current(r)) THEN Current(r) \in seen[q].active
         ELSE ExcusedBy(r, seen[q], r.left[1])
  BY <1>1, <1>2, AtWork
<1>4. CASE entry[PairOf(Current(r))] # "live" /\ Become(q, Dropped(r))
  <2>1. ExcusedBy(r, seen[q], r.left[1])
    BY <1>2, <1>3, <1>4 DEF Active
  <2> QED BY <1>1, <1>2, <1>3, <1>4, <2>1, DroppedOK, StepOf
<1>5. CASE entry[PairOf(Current(r))] = "live" /\ Become(q, Accepted(r))
  <2>1. /\ Delegated(r.config, Current(r)) /\ Current(r) \notin seen[q].old
        /\ Current(r) \in known
    BY <1>2, <1>3 DEF Sane
  <2>2. Current(r) \in seen[q].active
    BY <1>2, <1>3, <1>5, <2>1 DEF Active
  <2>3. Qualifies(r.config, seen[q], Current(r))
    BY <1>3, <2>1, <2>2, FederationOK, PlacedHasAuthority DEF Qualifies
  <2> QED BY <1>1, <1>2, <1>3, <1>5, <2>3, AcceptedOK, StepOf
<1> QED BY <1>1, <1>4, <1>5 DEF Hget

LEMMA StatusStep ==
  ASSUME VerifierInv, NEW q \in Request, GotStatus(q)
  PROVE  Steps(q)
<1>1. PICK r : r = work[q]
  OBVIOUS
<1>2. r.pc = "status" /\ Live(r)
  BY <1>1 DEF GotStatus, Live
<1>3. /\ WorldOK /\ Sane(r, seen[q]) /\ r \in Job /\ Placed(r)
      /\ seen[q].old \subseteq expired
      /\ r.pc \in {"alltime", "field"} <=> Current(r).iss = TA
      /\ IF Active(Current(r)) THEN Current(r) \in seen[q].active
         ELSE ExcusedBy(r, seen[q], r.left[1])
  BY <1>1, <1>2, AtWork
<1>4. CASE Become(q, Dropped(Blamed(r)))
  BY <1>1, <1>2, <1>3, <1>4, DroppedOK, StepOf
<1>5. CASE /\ Become(q, Dropped(r))
           /\ ~(/\ SiteStage(Current(r).iss).signer \in r.memo[Current(r).iss]
                /\ Current(r) \notin withdrawn)
  <2>1. PICK i : i = Current(r).iss
    OBVIOUS
  <2>2. i \in Issuer /\ r.memo[i] \notin {None, Invalid} /\ RecentMemo(r)
    BY <1>1, <1>2, <1>3, <2>1, AtWork DEF Sane
  <2>3. /\ r.memo[i] \in SUBSET Key /\ r.elapsed \in Nat
        /\ Recent(i, r.memo[i], TTL - 1 + r.elapsed)
    BY <1>3, <2>2 DEF Job, RecentMemo
  <2>4. Signing(i, SiteStage(i).signer, r.elapsed)
    BY <1>3, <2>2, PresentKeys
  <2>5. SiteStage(i).signer \notin r.memo[i] => Distrusted(i, r.elapsed)
    BY <1>3, <2>2, <2>3, <2>4, HeldAgainst
  <2>6. ~Active(Current(r)) \/ Unverified(Current(r), r.elapsed)
    BY <1>2, <1>3, <1>5, <2>1, <2>5 DEF Active, Unverified
  <2>7. ExcusedBy(r, seen[q], r.left[1])
    BY <1>1, <1>2, <2>6, AtWork
  <2> QED BY <1>1, <1>2, <1>3, <1>5, <2>7, DroppedOK, StepOf
<1>6. CASE Current(r) \notin withdrawn /\ Become(q, Accepted(r))
  <2>1. Delegated(r.config, Current(r)) /\ Current(r) \notin seen[q].old
    BY <1>2, <1>3 DEF Sane
  <2>2. Current(r) \in seen[q].active
    BY <1>2, <1>3, <1>6 DEF Active
  <2>3. Qualifies(r.config, seen[q], Current(r))
    BY <1>3, <2>1, <2>2, FederationOK, PlacedHasAuthority DEF Qualifies
  <2> QED BY <1>1, <1>2, <1>3, <1>6, <2>3, AcceptedOK, StepOf
<1> QED BY <1>1, <1>4, <1>6, <1>5 DEF GotStatus

LEMMA ConfigurationStep ==
  ASSUME VerifierInv, NEW q \in Request, GotConfiguration(q)
  PROVE  Steps(q)
<1>1. PICK old : old = work[q]
  OBVIOUS
<1>2. PICK i : i = Current(old).iss
  OBVIOUS
<1>3. old.pc = "configuration" /\ Live(old)
  BY <1>1 DEF GotConfiguration, Live
<1>4. /\ WorldOK /\ CacheOK /\ Sane(old, seen[q]) /\ old \in Job /\ Placed(old)
      /\ seen[q].old \subseteq expired /\ i \in Issuer
  BY <1>1, <1>2, <1>3, AtWork
<1>5. /\ SiteStage(i).keys \in SUBSET Key /\ SiteStage(i).signer \in Key
      /\ Recent(i, SiteStage(i).keys, TTL - 1 + old.elapsed)
      /\ Signing(i, SiteStage(i).signer, old.elapsed)
  BY <1>4, PresentKeys
<1> DEFINE r == [old EXCEPT !.signer = SiteStage(i).signer]
<1>6. /\ r \in Job /\ r.left = old.left /\ r.config = old.config
      /\ r.verified = old.verified /\ r.memo = old.memo /\ r.failed = old.failed
      /\ r.elapsed = old.elapsed /\ r.pc = old.pc /\ r.signer = SiteStage(i).signer
  BY <1>4, <1>5 DEF Job
<1>7. \/ Become(q, Resolved(r, SiteStage(i).keys))
      \/ Become(q, Query(r, "signed"))
      \/ Become(q, FromUri(r))
  BY <1>1, <1>2 DEF GotConfiguration
<1> HIDE DEF r
<1>8. Live(r) /\ Current(r).iss = i
  BY <1>2, <1>3, <1>6 DEF Live, Current
<1>9. Outcome(old.config, r, seen[q])
  BY <1>3, <1>4, <1>6, <1>8, StaysOK
<1>10. Sane(r, seen[q])
  BY <1>9 DEF Outcome
<1>11. /\ Outcome(r.config, Resolved(r, SiteStage(i).keys), seen[q])
       /\ Outcome(r.config, FromUri(r), seen[q])
       /\ Outcome(r.config, Query(r, "signed"), seen[q])
  BY <1>3, <1>4, <1>5, <1>6, <1>8, <1>10, ResolvedOK, FromUriOK, QueryOK
<1> QED BY <1>1, <1>3, <1>6, <1>7, <1>11, StepOf

LEMMA SignedStep ==
  ASSUME VerifierInv, NEW q \in Request, GotSigned(q)
  PROVE  Steps(q)
<1>1. PICK r : r = work[q]
  OBVIOUS
<1>2. PICK i : i = Current(r).iss
  OBVIOUS
<1>3. /\ r.pc = "signed" /\ Live(r)
      /\ Become(q, Resolved(r, SiteStage(i).keys))
  BY <1>1, <1>2 DEF GotSigned, Live
<1>4. /\ WorldOK /\ Sane(r, seen[q]) /\ r \in Job /\ i \in Issuer
      /\ seen[q].old \subseteq expired /\ Signing(i, r.signer, r.elapsed)
  BY <1>1, <1>2, <1>3, AtWork DEF Sane
<1>5. /\ SiteStage(i).keys \in SUBSET Key
      /\ Recent(i, SiteStage(i).keys, TTL - 1 + r.elapsed)
  BY <1>4, PresentKeys
<1>6. Outcome(r.config, Resolved(r, SiteStage(i).keys), seen[q])
  BY <1>2, <1>3, <1>4, <1>5, ResolvedOK
<1> QED BY <1>1, <1>3, <1>6, StepOf

LEMMA KeysStep ==
  ASSUME VerifierInv, NEW q \in Request, GotKeys(q)
  PROVE  Steps(q)
<1>1. PICK r : r = work[q]
  OBVIOUS
<1>2. PICK i : i = Current(r).iss
  OBVIOUS
<1> DEFINE keys == SiteStage(i).keys
           new == [r EXCEPT !.pc = "setex", !.fetched = keys]
<1>3. r.pc = "uri" /\ Live(r) /\ Become(q, new)
  BY <1>1, <1>2 DEF GotKeys, Live
<1>4. /\ WorldOK /\ Sane(r, seen[q]) /\ r \in Job /\ i \in Issuer
      /\ Signing(i, r.signer, r.elapsed)
  BY <1>1, <1>2, <1>3, AtWork DEF Sane
<1>5. keys \in SUBSET Key /\ Recent(i, keys, 0)
  BY <1>4, PresentKeys
<1> HIDE DEF keys
<1>6. /\ new \in Job /\ new.left = r.left /\ new.config = r.config
      /\ new.verified = r.verified /\ new.memo = r.memo /\ new.failed = r.failed
      /\ new.elapsed = r.elapsed /\ new.pc = "setex" /\ new.fetched = keys
      /\ new.signer = r.signer
  BY <1>4, <1>5 DEF Job
<1> HIDE DEF new
<1>7. Live(new)
  BY <1>6 DEF Live
<1>8. Outcome(r.config, new, seen[q])
  BY <1>2, <1>3, <1>4, <1>5, <1>6, <1>7, StaysOK
<1> QED BY <1>1, <1>3, <1>8, StepOf

LEMMA SetExStep ==
  ASSUME VerifierInv, NEW q \in Request, SetEx(q)
  PROVE  /\ Steps(q)
         /\ \E i \in Issuer, keys \in SUBSET Key :
              /\ Recent(i, keys, 0)
              /\ cache' = [cache EXCEPT ![i] = [keys |-> keys, age |-> 0]]
<1>1. PICK r : r = work[q]
  OBVIOUS
<1>2. PICK i : i = Current(r).iss
  OBVIOUS
<1>3. /\ r.pc = "setex" /\ Live(r) /\ Become(q, Resolved(r, r.fetched))
      /\ cache' = [cache EXCEPT ![i] = [keys |-> r.fetched, age |-> 0]]
  BY <1>1, <1>2 DEF SetEx, Live
<1>4. /\ WorldOK /\ Sane(r, seen[q]) /\ r \in Job /\ i \in Issuer
      /\ seen[q].old \subseteq expired
  BY <1>1, <1>2, <1>3, AtWork
<1>5. /\ r.fetched \in SUBSET Key /\ Recent(i, r.fetched, 0)
      /\ Signing(i, r.signer, r.elapsed)
  BY <1>2, <1>3, <1>4 DEF Sane, Job
<1>6. Recent(i, r.fetched, TTL - 1 + r.elapsed)
  BY <1>4, <1>5, PresentKeys
<1>7. Outcome(r.config, Resolved(r, r.fetched), seen[q])
  BY <1>2, <1>3, <1>4, <1>5, <1>6, ResolvedOK
<1>8. Steps(q)
  BY <1>1, <1>3, <1>7, StepOf
<1> QED BY <1>3, <1>4, <1>5, <1>8

LEMMA RetryStep ==
  ASSUME VerifierInv, NEW q \in Request, Retry(q)
  PROVE  Steps(q)
<1>1. PICK r : r = work[q]
  OBVIOUS
<1> DEFINE new == [r EXCEPT !.tries = @ + 1, !.waited = FALSE]
<1>2. /\ r.pc \in {"configuration", "signed", "uri"} /\ Live(r)
      /\ r.tries < FETCH_MAX_RETRIES /\ Become(q, new)
  BY <1>1 DEF Retry, Fetching, Live
<1>3. /\ WorldOK /\ Sane(r, seen[q]) /\ r \in Job
  BY <1>1, <1>2, AtWork
<1>4. r.tries \in 0 .. FETCH_MAX_RETRIES /\ r.tries + 1 \in 0 .. FETCH_MAX_RETRIES
  BY <1>2, <1>3, BoundsAssumption DEF Job
<1>5. /\ new \in Job /\ new.left = r.left /\ new.config = r.config
      /\ new.verified = r.verified /\ new.memo = r.memo /\ new.failed = r.failed
      /\ new.elapsed = r.elapsed /\ new.pc = r.pc
      /\ new.signer = r.signer /\ new.fetched = r.fetched
  BY <1>3, <1>4 DEF Job
<1> HIDE DEF new
<1>6. Live(new)
  BY <1>2, <1>5 DEF Live
<1>7. r.pc \in {"signed", "uri", "setex"} => Signing(Current(r).iss, r.signer, r.elapsed)
  BY <1>2, <1>3 DEF Sane
<1>8. Outcome(r.config, new, seen[q])
  BY <1>2, <1>3, <1>5, <1>6, <1>7, StaysOK
<1> QED BY <1>1, <1>2, <1>8, StepOf

LEMMA GiveUpStep ==
  ASSUME VerifierInv, NEW q \in Request, GiveUp(q)
  PROVE  Steps(q)
<1>1. PICK r : r = work[q]
  OBVIOUS
<1>2. /\ r.pc \in {"configuration", "signed", "uri"} /\ Live(r)
      /\ \/ r.pc = "signed" /\ Become(q, FromUri(r))
         \/ Become(q, Unresolved(r))
  BY <1>1 DEF GiveUp, Fetching, Live
<1>3. /\ WorldOK /\ CacheOK /\ Sane(r, seen[q]) /\ seen[q].old \subseteq expired
      /\ Current(r).iss # TA
  BY <1>1, <1>2, AtWork
<1>4. CASE r.pc = "signed" /\ Become(q, FromUri(r))
  <2>1. Signing(Current(r).iss, r.signer, r.elapsed)
    BY <1>2, <1>3, <1>4 DEF Sane
  <2>2. Outcome(r.config, FromUri(r), seen[q])
    BY <1>2, <1>3, <1>4, <2>1, FromUriOK
  <2> QED BY <1>1, <1>2, <1>4, <2>2, StepOf
<1>5. CASE Become(q, Unresolved(r))
  <2>1. Outcome(r.config, Unresolved(r), seen[q])
    BY <1>2, <1>3, UnresolvedOK
  <2> QED BY <1>1, <1>2, <1>5, <2>1, StepOf
<1> QED BY <1>2, <1>4, <1>5

LEMMA PostFailsStep ==
  ASSUME VerifierInv, NEW q \in Request, PostFails(q)
  PROVE  Steps(q)
<1>1. PICK r : r = work[q]
  OBVIOUS
<1>2. Live(r) /\ Become(q, Dropped(Blamed(r)))
  BY <1>1 DEF PostFails, Live
<1>3. WorldOK /\ Sane(r, seen[q]) /\ seen[q].old \subseteq expired
  BY <1>1, <1>2, AtWork
<1> QED BY <1>1, <1>2, <1>3, DroppedOK, StepOf

LEMMA TimeOutStep ==
  ASSUME VerifierInv, NEW q \in Request, TimeOut(q)
  PROVE  Steps(q)
<1>1. PICK r : r = work[q]
  OBVIOUS
<1>2. Live(r) /\ Become(q, Blank("late"))
  BY <1>1 DEF TimeOut, Running, Live
<1> DEFINE new == Blank("late")
<1>3. new \in Job /\ new.pc = "late" /\ \A i \in Issuer : new.memo[i] = None
  BY BlankIsJob
<1> HIDE DEF new
<1>4. Outcome(r.config, new, seen[q])
  BY <1>3 DEF Outcome, Sane, Live, RecentMemo
<1> QED BY <1>1, <1>2, <1>4, StepOf DEF new

LEMMA ProceedStep ==
  ASSUME VerifierInv, NEW q \in Request, Begin(q) \/ Go(q)
  PROVE  /\ Steps(q)
         /\ \/ cache' = cache
            \/ \E i \in Issuer, keys \in SUBSET Key :
                 /\ Recent(i, keys, 0)
                 /\ cache' = [cache EXCEPT ![i] = [keys |-> keys, age |-> 0]]
<1>1. CASE Begin(q)
  BY <1>1, BeginStep DEF Begin
<1>2. CASE Sismember(q)
  BY <1>2, SismemberStep DEF Sismember
<1>3. CASE Hget(q)
  BY <1>3, HgetStep DEF Hget
<1>4. CASE GotConfiguration(q)
  BY <1>4, ConfigurationStep DEF GotConfiguration
<1>5. CASE GotSigned(q)
  BY <1>5, SignedStep DEF GotSigned
<1>6. CASE GotKeys(q)
  BY <1>6, KeysStep DEF GotKeys
<1>7. CASE SetEx(q)
  BY <1>7, SetExStep
<1>8. CASE GotStatus(q)
  BY <1>8, StatusStep DEF GotStatus
<1>9. CASE Retry(q)
  BY <1>9, RetryStep DEF Retry
<1>10. CASE GiveUp(q)
  BY <1>10, GiveUpStep DEF GiveUp
<1>11. CASE PostFails(q)
  BY <1>11, PostFailsStep DEF PostFails
<1>12. CASE TimeOut(q)
  BY <1>12, TimeOutStep DEF TimeOut
<1> QED BY <1>1, <1>2, <1>3, <1>4, <1>5, <1>6, <1>7, <1>8, <1>9, <1>10, <1>11,
           <1>12 DEF Go

-----------------------------------------------------------------------------
(* The world goes on, and the requests look at it.                         *)

LEMMA SeenMore ==
  ASSUME NEW r, NEW s, NEW t, Sane(r, s),
         Live(r) => /\ t.old = s.old /\ s.active \subseteq t.active
                    /\ s.inactive \subseteq t.inactive
  PROVE  Sane(r, t)
<1>1. CASE Live(r)
  <2>1. \A m : Qualifies(r.config, s, m) => Qualifies(r.config, t, m)
    BY <1>1 DEF Qualifies
  <2>2. \A e : ExcusedBy(r, s, e) => ExcusedBy(r, t, e)
    BY <1>1, ExcusedMore DEF ExcusedBy
  <2>3. Accounted(r, s) => Accounted(r, t)
    BY <2>2 DEF Accounted
  <2> QED BY <1>1, <2>1, <2>3 DEF Sane
<1>2. CASE ~Live(r)
  BY <1>2 DEF Sane, Live
<1> QED BY <1>1, <1>2

(* What was recent n ticks ago is so m ticks ago after the step. *)
Lasts(n, m) ==
  \A i \in Issuer : /\ \A keys : Recent(i, keys, n) => Recent(i, keys, m)'
                    /\ \A k : Signing(i, k, n) => Signing(i, k, m)'

(* So it is after any step in which no time passes. *)
Remain == \A n \in Nat : Lasts(n, n)

(* An excuse is good for the rest of the request. *)
LEMMA ExcusesLast ==
  ASSUME fed' = fed, fed.carried \in Seq(Entry), expired \subseteq expired',
         NEW n, NEW m, Lasts(n, m), Lasts(TTL - 1 + n, TTL - 1 + m)
  PROVE  /\ \A i \in Issuer : Distrusted(i, n) => Distrusted(i, m)'
         /\ ToSet(Considered)' = ToSet(Considered)
         /\ \A c, verified, failed, s : \A e \in ToSet(Considered) :
              Excused(c, n, verified, failed, s, e) => Excused(c, m, verified, failed, s, e)'
<1>1. ASSUME NEW i \in Issuer
      PROVE  /\ Distrusted(i, n) => Distrusted(i, m)'
             /\ \A k : Outdated(i, k, n) => Outdated(i, k, m)'
  BY DEF Distrusted, Outdated, Lasts
<1>2. Considered' = Considered
  BY DEF Considered
<1>3. ASSUME NEW e \in ToSet(Considered)
      PROVE  e.mark = Invalid \/ e.mark.iss \in Entity
  <2>1. PICK k \in DOMAIN Considered : e = Considered[k]
    BY DEF ToSet
  <2>2. PICK j \in DOMAIN fed.carried : e = fed.carried[j]
    BY <2>1, ConsideredAreCarried
  <2>3. e \in Entry
    BY <2>2, ElementOfSeq
  <2> QED BY <2>3, MarkAssumption DEF Entry, MarkRecord
<1>4. ASSUME NEW mark, mark.iss \in Entity, Unverified(mark, n)
      PROVE  Unverified(mark, m)'
  BY <1>1, <1>4 DEF Unverified
<1>5. ASSUME NEW c, NEW verified, NEW failed, NEW s, NEW e \in ToSet(Considered),
             Excused(c, n, verified, failed, s, e)
      PROVE  Excused(c, m, verified, failed, s, e)'
  BY <1>3, <1>4, <1>5 DEF Excused, HasAuthority
<1> QED BY <1>1, <1>2, <1>5 DEF ToSet

(* Of a request that goes on as before. *)
LEMMA AccountsLast ==
  ASSUME fed' = fed, fed.carried \in Seq(Entry), expired \subseteq expired',
         NEW r, NEW new, new.config = r.config, new.verified = r.verified,
         new.failed = r.failed, new.memo = r.memo, new.left = r.left,
         Lasts(r.elapsed, new.elapsed), Lasts(TTL - 1 + r.elapsed, TTL - 1 + new.elapsed)
  PROVE  /\ RecentMemo(r) => RecentMemo(new)'
         /\ \A s : Accounted(r, s) => Accounted(new, s)'
<1>1. /\ \A i \in Issuer : Distrusted(i, r.elapsed) => Distrusted(i, new.elapsed)'
      /\ ToSet(Considered)' = ToSet(Considered)
      /\ \A c, verified, failed, s : \A e \in ToSet(Considered) :
           Excused(c, r.elapsed, verified, failed, s, e)
             => Excused(c, new.elapsed, verified, failed, s, e)'
  BY ExcusesLast
<1>2. ASSUME RecentMemo(r), NEW i \in Issuer, new.memo[i] # None
      PROVE  IF new.memo[i] = Invalid
               THEN i \in new.failed \/ Distrusted(i, new.elapsed)'
               ELSE Recent(i, new.memo[i], TTL - 1 + new.elapsed)'
  BY <1>1, <1>2 DEF RecentMemo, Lasts
<1>3. ASSUME NEW s, Accounted(r, s)
      PROVE  Accounted(new, s)'
  <2>1. ASSUME NEW e \in ToSet(Considered)
        PROVE  Excused(r.config, new.elapsed, r.verified, r.failed, s, e)'
               \/ \E k \in DOMAIN r.left : r.left[k] = e
    BY <1>1, <1>3 DEF Accounted, ExcusedBy
  <2> QED BY <1>1, <2>1 DEF Accounted, ExcusedBy
<1> QED BY <1>2, <1>3 DEF RecentMemo

LEMMA SameListed ==
  ASSUME fed' = fed, NEW r
  PROVE  Placed(r)' <=> Placed(r)
  BY DEF Placed, Listed

LEMMA WorldTurns ==
  ASSUME NEW r, NEW s, Sane(r, s), fed.carried \in Seq(Entry), fed' = fed,
         known \subseteq known', expired \subseteq expired', Remain
  PROVE  Sane(r, s)'
<1>1. r \in Job /\ RecentMemo(r)
  BY DEF Sane
<1>2. PICK n \in 0 .. BUDGET : n = r.elapsed
  BY <1>1 DEF Job
<1>3. TTL - 1 + n \in Nat /\ n \in Nat /\ 0 \in Nat
  BY BoundsAssumption
<1>4. /\ RecentMemo(r)'
      /\ Accounted(r, s) => Accounted(r, s)'
  <2>1. Lasts(r.elapsed, r.elapsed) /\ Lasts(TTL - 1 + r.elapsed, TTL - 1 + r.elapsed)
    BY <1>2, <1>3 DEF Remain
  <2> QED BY <1>1, <2>1, AccountsLast
<1>5. CASE Live(r)
  <2>1. /\ Placed(r) /\ (r.pc \in {"alltime", "field"} <=> Current(r).iss = TA)
        /\ r.pc \in {"field", "status"} =>
             Delegated(r.config, Current(r)) /\ Current(r) \notin s.old
        /\ r.pc = "field" => Current(r) \in known
        /\ r.pc = "status" => r.memo[Current(r).iss] \notin {None, Invalid}
        /\ r.pc \in {"signed", "uri", "setex"} => Signing(Current(r).iss, r.signer, n)
        /\ r.pc = "setex" => Recent(Current(r).iss, r.fetched, 0)
        /\ \A m \in r.verified : Qualifies(r.config, s, m)
        /\ Accounted(r, s)
    BY <1>2, <1>5 DEF Sane
  <2>2. Placed(r)'
    BY <2>1, SameListed
  <2>3. /\ r.pc = "setex" => Recent(Current(r).iss, r.fetched, 0)'
        /\ r.pc \in {"signed", "uri", "setex"} => Signing(Current(r).iss, r.signer, n)'
    <3>1. Current(r).iss \in Entity
      BY <1>1, <2>1, PlacedMark
    <3>2. r.pc \in {"signed", "uri", "setex"} => Current(r).iss \in Issuer
      BY <2>1, <3>1
    <3> QED BY <1>3, <2>1, <3>2 DEF Remain, Lasts
  <2>4. (\A m \in r.verified : Qualifies(r.config, s, m))'
    BY <2>1 DEF Qualifies, HasAuthority
  <2>5. r.pc = "field" => Current(r) \in known'
    BY <2>1
  <2> QED BY <1>1, <1>2, <1>4, <1>5, <2>1, <2>2, <2>3, <2>4, <2>5
          DEF Sane, Live, Delegated, Current
<1>6. CASE ~Live(r)
  BY <1>1, <1>4, <1>6 DEF Sane, Live
<1> QED BY <1>5, <1>6

LEMMA Observed ==
  ASSUME Observe, fed' = fed,
         seen \in [Request -> [active : SUBSET Mark, inactive : SUBSET Mark,
                                        old : SUBSET Mark]]
  PROVE  /\ seen' \in [Request -> [active : SUBSET Mark, inactive : SUBSET Mark,
                                   old : SUBSET Mark]]
         /\ \A q \in Request : Running(q)' =>
              /\ seen'[q].old = Past(q).old
              /\ Past(q).active \subseteq seen'[q].active
              /\ Past(q).inactive \subseteq seen'[q].inactive
              /\ \A m \in Carried' : IF Active(m)' THEN m \in seen'[q].active
                                     ELSE m \in seen'[q].inactive
<1> DEFINE on   == {m \in Carried : Active(m)}
           type == [active : SUBSET Mark, inactive : SUBSET Mark, old : SUBSET Mark]
           next(q) == [Past(q) EXCEPT !.active = @ \cup on',
                                      !.inactive = @ \cup (Carried \ on')]
<1>1. fed' = fed => Carried' = Carried
  BY DEF Carried
<1>2. seen' = [q \in Request |-> IF ~Running(q)' THEN Nothing ELSE next(q)]
  BY DEF Observe, Past
<1>3. Carried \subseteq Mark /\ on' \subseteq Mark
  BY DEF Carried
<1>4. Nothing \in type
  BY DEF Nothing
<1>5. ASSUME NEW q \in Request
      PROVE  Past(q) \in type
  <2>1. expired \cap Carried \in SUBSET Mark
    BY <1>3
  <2>2. [Nothing EXCEPT !.old = expired \cap Carried] \in type
    BY <2>1 DEF Nothing
  <2> QED BY <2>2 DEF Past
<1>6. ASSUME NEW q \in Request
      PROVE  /\ next(q) \in type /\ next(q).old = Past(q).old
             /\ next(q).active = Past(q).active \cup on'
             /\ next(q).inactive = Past(q).inactive \cup (Carried \ on')
  <2>1. Past(q) \in type
    BY <1>5
  <2>2. PICK p : p = Past(q)
    OBVIOUS
  <2>3. PICK a : a = on'
    OBVIOUS
  <2> HIDE DEF on
  <2>4. next(q) = [p EXCEPT !.active = p.active \cup a,
                            !.inactive = p.inactive \cup (Carried \ a)]
    BY <2>1, <2>2, <2>3
  <2> HIDE DEF next
  <2>5. a \in SUBSET Mark
    BY <1>3, <2>3
  <2>6. PICK b : b = Carried \ a
    OBVIOUS
  <2>7. b \in SUBSET Mark
    BY <1>3, <2>6
  <2> DEFINE x == [p EXCEPT !.active = p.active \cup a,
                            !.inactive = p.inactive \cup b]
  <2>8. /\ x \in type /\ x.old = p.old /\ x.active = p.active \cup a
        /\ x.inactive = p.inactive \cup b
    BY <2>1, <2>2, <2>5, <2>7
  <2>9. next(q) = x
    BY <2>4, <2>6
  <2> HIDE DEF x, type
  <2> QED BY <2>2, <2>3, <2>6, <2>8, <2>9
<1>7. \A m \in Carried' : Active(m)' <=> m \in on'
  OBVIOUS
<1> HIDE DEF next, on
<1> QED BY <1>1, <1>2, <1>4, <1>6, <1>7

(* What is left to show of a step, once its requests are sane afterwards.  *)
LEMMA AllSeen ==
  ASSUME VerifierInv, Observe, fed' = fed, expired \subseteq expired',
         WorldOK', CacheOK', work' \in [Request -> Job],
         \A q \in Request : \E r, t : r = work'[q] /\ t = seen'[q] /\ Sane(r, t)'
  PROVE  VerifierInv'
<1>1. /\ seen' \in [Request -> [active : SUBSET Mark, inactive : SUBSET Mark,
                                old : SUBSET Mark]]
      /\ \A q \in Request : Running(q)' =>
           /\ seen'[q].old = Past(q).old
           /\ \A m \in Carried' : IF Active(m)' THEN m \in seen'[q].active
                                  ELSE m \in seen'[q].inactive
  BY Observed DEF VerifierInv
<1>2. \A q \in Request : Sane(work[q], seen[q])'
  OBVIOUS
<1>3. ASSUME NEW q \in Request
      PROVE  Past(q).old \subseteq expired
  BY DEF Past, Nothing, VerifierInv, Attentive
<1>4. \A q \in Request : Attentive(q)'
  BY <1>1, <1>3 DEF Attentive
<1> QED BY <1>1, <1>2, <1>4 DEF VerifierInv

(* A request that has not moved, and one that has, in a world that turns.  *)
LEMMA AllSane ==
  ASSUME VerifierInv, Observe, fed' = fed, known \subseteq known',
         expired \subseteq expired', Remain,
         NEW q \in Request, NEW new, new = work'[q], Sane(new, Past(q))
  PROVE  \E r, t : r = work'[q] /\ t = seen'[q] /\ Sane(r, t)'
<1>1. PICK t : t = seen'[q]
  OBVIOUS
<1>2. Running(q)' => /\ t.old = Past(q).old /\ Past(q).active \subseteq t.active
                     /\ Past(q).inactive \subseteq t.inactive
  BY <1>1, Observed DEF VerifierInv
<1>3. Live(new) => Running(q)'
  BY DEF Live, Running
<1>4. PICK s : s = Past(q)
  OBVIOUS
<1>5. Sane(new, t)
  BY <1>2, <1>3, <1>4, SeenMore
<1>6. fed.carried \in Seq(Entry)
  BY FederationOK DEF VerifierInv
<1>7. Sane(new, t)'
  BY <1>5, <1>6, WorldTurns
<1> QED BY <1>1, <1>7

LEMMA StillSane ==
  ASSUME VerifierInv, NEW q \in Request
  PROVE  Sane(work[q], Past(q))
<1>1. Sane(work[q], seen[q])
  BY DEF VerifierInv
<1>2. Live(work[q]) => Past(q) = seen[q]
  BY DEF Past, Running, Live
<1> QED BY <1>1, <1>2, SeenMore

LEMMA CacheRemains ==
  ASSUME CacheOK, Remain, cache' = cache
  PROVE  CacheOK'
<1>1. ASSUME NEW i \in Issuer, cache[i] # None
      PROVE  Recent(i, cache[i].keys, cache[i].age)'
  <2>1. cache[i] \in [keys : SUBSET Key, age : 0 .. TTL - 1]
    BY <1>1 DEF CacheOK
  <2>2. PICK n \in Nat : n = cache[i].age
    BY <2>1
  <2>3. PICK keys : keys = cache[i].keys
    OBVIOUS
  <2>4. Recent(i, keys, n)'
    BY <1>1, <2>2, <2>3 DEF CacheOK, Remain, Lasts
  <2> QED BY <2>2, <2>3, <2>4 DEF Recent
<1> QED BY <1>1 DEF CacheOK

LEMMA ProceedOK ==
  ASSUME VerifierInv, NEW q \in Request, Proceed(q)
  PROVE  VerifierInv'
<1>1. /\ Begin(q) \/ Go(q)
      /\ Observe /\ UNCHANGED world
  BY DEF Proceed
<1>2. /\ fed' = fed /\ active' = active /\ config' = config /\ entry' = entry
      /\ known' = known /\ stage' = stage /\ age' = age
      /\ withdrawn' = withdrawn /\ expired' = expired
  BY <1>1 DEF world
<1>3. WorldOK' /\ Remain
  BY <1>2 DEF VerifierInv, WorldOK, Registry!TypeOK, Remain, Lasts, Recent, Signing, Lately
<1>4. Steps(q) /\ \/ cache' = cache
                  \/ \E i \in Issuer, keys \in SUBSET Key :
                       /\ Recent(i, keys, 0)
                       /\ cache' = [cache EXCEPT ![i] = [keys |-> keys, age |-> 0]]
  BY <1>1, ProceedStep
<1>5. PICK new : work' = [work EXCEPT ![q] = new] /\ Outcome(Used(q), new, Past(q))
  BY <1>4 DEF Steps
<1>6. Sane(new, Past(q)) /\ new \in Job
  BY <1>5 DEF Outcome, Sane
<1>7. work \in [Request -> Job]
  BY DEF VerifierInv
<1>8. /\ work' \in [Request -> Job] /\ work'[q] = new
      /\ \A v \in Request : v # q => work'[v] = work[v]
  BY <1>5, <1>6, <1>7
<1>9. ASSUME NEW v \in Request
      PROVE  \E r, t : r = work'[v] /\ t = seen'[v] /\ Sane(r, t)'
  <2>1. CASE v = q
    BY <1>1, <1>2, <1>3, <1>6, <1>8, <2>1, AllSane
  <2>2. CASE v # q
    <3>1. PICK r : r = work'[v] /\ Sane(r, Past(v))
      BY <1>8, <2>2, StillSane
    <3> QED BY <1>1, <1>2, <1>3, <3>1, AllSane
  <2> QED BY <2>1, <2>2
<1>10. CacheOK'
  <2>1. CASE cache' = cache
    BY <1>3, <2>1, CacheRemains DEF VerifierInv
  <2>2. ASSUME NEW i \in Issuer, NEW keys \in SUBSET Key, Recent(i, keys, 0),
               cache' = [cache EXCEPT ![i] = [keys |-> keys, age |-> 0]]
        PROVE  CacheOK'
    <3> DEFINE copy == [keys |-> keys, age |-> 0]
    <3>1. copy \in [keys : SUBSET Key, age : 0 .. TTL - 1]
      BY BoundsAssumption
    <3>2. cache \in [Issuer -> [keys : SUBSET Key, age : 0 .. TTL - 1] \cup {None}]
          /\ \A j \in Issuer : cache[j] # None => Recent(j, cache[j].keys, cache[j].age)
      BY DEF VerifierInv, CacheOK
    <3>3. copy.keys = keys /\ copy.age = 0
      OBVIOUS
    <3> HIDE DEF copy
    <3>4. /\ cache' \in [Issuer -> [keys : SUBSET Key, age : 0 .. TTL - 1] \cup {None}]
          /\ \A j \in Issuer : cache'[j] = IF j = i THEN copy ELSE cache[j]
      BY <2>2, <3>1, <3>2 DEF copy
    <3>5. \A j \in Issuer : cache'[j] # None => Recent(j, cache'[j].keys, cache'[j].age)
      BY <2>2, <3>2, <3>3, <3>4
    <3>6. ASSUME NEW j \in Issuer, cache'[j] # None
          PROVE  Recent(j, cache[j].keys, cache[j].age)'
      BY <1>2, <3>5, <3>6 DEF Recent, Lately
    <3> QED BY <3>4, <3>6 DEF CacheOK
  <2> QED BY <1>4, <2>1, <2>2
<1> QED BY <1>1, <1>2, <1>3, <1>8, <1>9, <1>10, AllSeen

LEMMA EnvironmentOK ==
  ASSUME WorldOK, Environment
  PROVE  /\ WorldOK' /\ Remain /\ fed' = fed
         /\ known \subseteq known' /\ expired \subseteq expired'
<1> USE DEF WorldOK, Registry!TypeOK
<1>1. CASE Regenerate
  BY <1>1, ServerConfigOK DEF Regenerate, Remain, Lasts, Recent, Signing, Lately
<1>2. ASSUME NEW m \in Carried, SwitchType(m)
      PROVE  /\ WorldOK' /\ Remain /\ fed' = fed
             /\ known \subseteq known' /\ expired \subseteq expired'
  <2>1. m.type \in Type
    BY MarkAssumption DEF Carried, MarkRecord
  <2> QED BY <1>2, <2>1 DEF SwitchType, Remain, Lasts, Recent, Signing, Lately
<1>3. CASE Administer
  <2>1. PICK m \in Carried :
          /\ m.iss = TA
          /\ \/ Registry!Publish(PairOf(m))
             \/ Registry!Revoke(PairOf(m))
             \/ m \notin known /\ known' = known \cup {m} /\ Registry!Record
    BY <1>3 DEF Administer
  <2>2. /\ UNCHANGED <<fed, active, config, stage, age, withdrawn, expired>>
    BY <1>3 DEF Administer
  <2>3. m \in Mark
    BY DEF Carried
  <2>4. entry \in [Type \X {Subject} -> {None, "live", "revoked"}]
    OBVIOUS
  <2>5. /\ entry' \in [Type \X {Subject} -> {None, "live", "revoked"}]
        /\ known' = known \/ known' = known \cup {m}
    BY <2>1, <2>4 DEF Registry!Publish, Registry!Revoke, Registry!Record
  <2> QED BY <2>1, <2>2, <2>3, <2>5 DEF Remain, Lasts, Recent, Signing, Lately
<1>4. ASSUME NEW i \in Issuer, RollOver(i)
      PROVE  /\ WorldOK' /\ Remain /\ fed' = fed
             /\ known \subseteq known' /\ expired \subseteq expired'
  <2>1. /\ stage[i] < Len(fed.site[i].stages)
        /\ stage' = [stage EXCEPT ![i] = stage[i] + 1]
        /\ age' = [age EXCEPT ![i] = 0]
        /\ UNCHANGED <<fed, active, config, entry, known, withdrawn, expired>>
    BY <1>4 DEF RollOver
  <2>2. \A j \in Issuer : stage[j] \in Nat /\ age[j] \in Nat /\ fed.site[j] \in Site
    BY FederationOK
  <2>3. fed.site[i].stages \in Seq(Stage)
    BY <2>2 DEF Site
  <2>4. PICK n \in Nat : n = Len(fed.site[i].stages) /\ DOMAIN fed.site[i].stages = 1 .. n
    BY <2>3
  <2>5. stage[i] + 1 \in DOMAIN fed.site[i].stages
    BY <2>1, <2>2, <2>4
  <2>6. 0 \in 0 .. Horizon
    BY BoundsAssumption DEF Horizon
  <2>7. /\ stage' \in [Issuer -> Nat] /\ age' \in [Issuer -> 0 .. Horizon]
        /\ \A j \in Issuer : stage'[j] = (IF j = i THEN stage[i] + 1 ELSE stage[j])
                             /\ age'[j] = (IF j = i THEN 0 ELSE age[j])
    BY <2>1, <2>2, <2>6
  <2>8. WorldOK'
    BY <2>1, <2>5, <2>7
  <2>9. ASSUME NEW j \in Issuer, NEW u, NEW k \in Nat, Lately(j, u, k)
        PROVE  Lately(j, u, k)'
    <3>1. CASE j = i
      <4>1. age[i] \in Nat /\ age[i] >= fed.site[i].stages[stage[i]].hold
        BY <1>4, <2>2 DEF RollOver, SiteStage
      <4>2. LatelyAt(fed.site[i].stages, stage[i] + 1, 0, u, k)
        BY <2>3, <2>9, <3>1, <4>1, LatelyRolled DEF Lately
      <4> QED BY <2>1, <2>7, <3>1, <4>2 DEF Lately
    <3>2. CASE j # i
      BY <2>1, <2>7, <2>9, <3>2 DEF Lately
    <3> QED BY <3>1, <3>2
  <2>10. \A j \in Issuer : \A u : u \in 1 .. stage[j] => u \in 1 .. stage'[j]
    BY <2>2, <2>7
  <2> QED BY <2>1, <2>8, <2>9, <2>10 DEF Remain, Lasts, Recent, Signing
<1>5. ASSUME NEW m \in Carried, Withdraw(m) \/ Expire(m)
      PROVE  /\ WorldOK' /\ Remain /\ fed' = fed
             /\ known \subseteq known' /\ expired \subseteq expired'
  <2>1. m \in Mark
    BY DEF Carried
  <2> QED BY <1>5, <2>1 DEF Withdraw, Expire, Remain, Lasts, Recent, Signing, Lately
<1> HIDE DEF WorldOK
<1> QED BY <1>1, <1>2, <1>3, <1>4, <1>5 DEF Environment

LEMMA ChangeOK ==
  ASSUME VerifierInv, Change
  PROVE  VerifierInv'
<1>1. Environment /\ cache' = cache /\ work' = work /\ Observe
  BY DEF Change
<1>2. WorldOK /\ CacheOK /\ work \in [Request -> Job]
  BY DEF VerifierInv
<1>3. /\ WorldOK' /\ Remain /\ fed' = fed
      /\ known \subseteq known' /\ expired \subseteq expired'
  BY <1>1, <1>2, EnvironmentOK
<1>4. CacheOK'
  BY <1>1, <1>2, <1>3, CacheRemains
<1>5. ASSUME NEW q \in Request
      PROVE  \E r, t : r = work'[q] /\ t = seen'[q] /\ Sane(r, t)'
  <2>1. PICK r : r = work'[q] /\ Sane(r, Past(q))
    BY <1>1, StillSane
  <2> QED BY <1>1, <1>3, <2>1, AllSane
<1> QED BY <1>1, <1>2, <1>3, <1>4, <1>5, AllSeen

(* A tick passes; s is what the request has seen.                          *)
LEMMA TickSane ==
  ASSUME WorldOK, NEW r, NEW s, Sane(r, s), NEW new,
         fed' = fed, known' = known, expired' = expired,
         \A n \in Nat : Lasts(n, n + 1),
         IF Live(r) THEN /\ new = [r EXCEPT !.waited = TRUE, !.elapsed = @ + 1]
                         /\ r.elapsed < BUDGET /\ r.pc # "setex"
                    ELSE new = r
  PROVE  Sane(new, s)'
<1>1. r \in Job /\ RecentMemo(r)
  BY DEF Sane
<1>2. PICK e \in 0 .. BUDGET : e = r.elapsed
  BY <1>1 DEF Job
<1>3. e \in Nat /\ TTL - 1 + e \in Nat /\ TTL - 1 + (e + 1) = TTL - 1 + e + 1
  BY BoundsAssumption
<1>4. CASE Live(r)
  <2>1. e + 1 \in 0 .. BUDGET
    BY <1>2, <1>4, BoundsAssumption
  <2>2. new = [r EXCEPT !.waited = TRUE, !.elapsed = e + 1]
    BY <1>1, <1>2, <1>4
  <2>3. /\ new \in Job /\ new.left = r.left /\ new.config = r.config
        /\ new.verified = r.verified /\ new.memo = r.memo /\ new.failed = r.failed
        /\ new.elapsed = e + 1 /\ new.pc = r.pc /\ new.signer = r.signer
    BY <1>1, <2>1, <2>2 DEF Job
  <2>4. /\ RecentMemo(new)'
        /\ Accounted(new, s)'
    <3>1. Lasts(r.elapsed, new.elapsed) /\ Lasts(TTL - 1 + r.elapsed, TTL - 1 + new.elapsed)
      BY <1>2, <1>3, <2>3
    <3>2. Accounted(r, s)
      BY <1>4 DEF Sane
    <3> QED BY <1>1, <2>3, <3>1, <3>2, FederationOK, AccountsLast
  <2>5. Placed(r) /\ (r.pc \in {"alltime", "field"} <=> Current(r).iss = TA)
        /\ (r.pc \in {"field", "status"} =>
              Delegated(r.config, Current(r)) /\ Current(r) \notin s.old)
        /\ (r.pc = "field" => Current(r) \in known)
        /\ (r.pc = "status" => r.memo[Current(r).iss] \notin {None, Invalid})
        /\ (r.pc \in {"signed", "uri", "setex"} => Signing(Current(r).iss, r.signer, e))
        /\ \A m \in r.verified : Qualifies(r.config, s, m)
    BY <1>2, <1>4 DEF Sane
  <2>6. Placed(r)'
    BY <2>5, SameListed
  <2>7. Placed(new)'
    BY <2>3, <2>6 DEF Placed
  <2>8. Current(new) = Current(r)
    BY <2>3 DEF Current
  <2>9. (\A m \in new.verified : Qualifies(new.config, s, m))'
    BY <2>3, <2>5 DEF Qualifies, HasAuthority
  <2>10. r.pc # "setex"
    BY <1>4
  <2>11. r.pc \in {"signed", "uri", "setex"} => Signing(Current(r).iss, r.signer, e + 1)'
    <3>1. Current(r).iss \in Entity
      BY <1>1, <2>5, FederationOK, PlacedMark
    <3>2. r.pc \in {"signed", "uri", "setex"} => Current(r).iss \in Issuer
      BY <2>5, <3>1
    <3> QED BY <1>3, <2>5, <3>2 DEF Lasts
  <2> QED BY <1>4, <2>3, <2>4, <2>5, <2>7, <2>8, <2>9, <2>10, <2>11
          DEF Sane, Live, Delegated, Current
<1>5. CASE ~Live(r)
  <2>1. new = r /\ \A i \in Issuer : r.memo[i] = None
    BY <1>5 DEF Sane
  <2>2. RecentMemo(new)'
    BY <2>1 DEF RecentMemo
  <2> QED BY <1>1, <1>5, <2>1, <2>2 DEF Sane, Live
<1> QED BY <1>4, <1>5

LEMMA TickOK ==
  ASSUME VerifierInv, Tick
  PROVE  VerifierInv'
<1>1. /\ UNCHANGED <<fed, active, config, entry, known, stage, withdrawn, expired>>
      /\ age' = [i \in Issuer |-> IF age[i] = Horizon THEN Horizon ELSE age[i] + 1]
      /\ cache' = [i \in Issuer |-> Aged(cache[i])]
      /\ Observe
  BY DEF Tick
<1>2. WorldOK /\ CacheOK
  BY DEF VerifierInv
<1>3. Horizon \in Nat
  BY BoundsAssumption DEF Horizon
<1>4. age' \in [Issuer -> 0 .. Horizon] /\ \A i \in Issuer : age'[i] <= age[i] + 1
  <2>1. PICK h \in Nat : h = Horizon
    BY <1>3
  <2>2. age \in [Issuer -> 0 .. h]
    BY <1>2, <2>1 DEF WorldOK
  <2>3. age' = [i \in Issuer |-> IF age[i] = h THEN h ELSE age[i] + 1]
    BY <1>1, <2>1
  <2>4. ASSUME NEW i \in Issuer
        PROVE  age'[i] \in 0 .. h /\ age'[i] <= age[i] + 1
    BY <2>2, <2>3
  <2> QED BY <2>1, <2>3, <2>4
<1>5. WorldOK'
  BY <1>1, <1>2, <1>4 DEF WorldOK, Registry!TypeOK
<1>6. ASSUME NEW n \in Nat
      PROVE  Lasts(n, n + 1)
  <2>1. ASSUME NEW i \in Issuer, NEW u, Lately(i, u, n)
        PROVE  Lately(i, u, n + 1)'
    <3>1. /\ fed.site[i].stages \in Seq(Stage) /\ age[i] \in Nat
          /\ stage[i] \in DOMAIN fed.site[i].stages
      BY <1>2, FederationOK
    <3>2. PICK b \in Nat : b = age'[i] /\ b <= age[i] + 1
      BY <1>4
    <3>3. LatelyAt(fed.site[i].stages, stage[i], b, u, n + 1)
      BY <2>1, <3>1, <3>2, LatelyAged DEF Lately
    <3> QED BY <1>1, <3>2, <3>3 DEF Lately
  <2> QED BY <1>1, <2>1 DEF Lasts, Recent, Signing
<1>7. CacheOK'
  <2>1. ASSUME NEW i \in Issuer
        PROVE  /\ cache'[i] \in [keys : SUBSET Key, age : 0 .. TTL - 1] \cup {None}
               /\ cache'[i] # None => Recent(i, cache[i].keys, cache[i].age)'
    <3>1. CASE cache'[i] = None
      BY <3>1
    <3>2. CASE cache'[i] # None
      <4>1. /\ cache[i] # None /\ cache[i].age + 1 # TTL
            /\ cache'[i] = [cache[i] EXCEPT !.age = @ + 1]
        BY <1>1, <3>2 DEF Aged
      <4>2. /\ cache[i] \in [keys : SUBSET Key, age : 0 .. TTL - 1]
            /\ Recent(i, cache[i].keys, cache[i].age)
        BY <1>2, <4>1 DEF CacheOK
      <4>3. PICK n \in 0 .. TTL - 1 : n = cache[i].age
        BY <4>2
      <4>4. PICK keys \in SUBSET Key : keys = cache[i].keys
        BY <4>2
      <4>5. n + 1 \in 0 .. TTL - 1 /\ n \in Nat
        BY <4>1, <4>3, BoundsAssumption
      <4>6. /\ cache'[i] \in [keys : SUBSET Key, age : 0 .. TTL - 1]
            /\ cache'[i].keys = keys /\ cache'[i].age = n + 1
        BY <4>1, <4>2, <4>3, <4>4, <4>5
      <4>7. Recent(i, keys, n + 1)'
        BY <1>6, <4>2, <4>3, <4>4, <4>5 DEF Lasts
      <4> QED BY <4>6, <4>7 DEF Recent
    <3> QED BY <3>1, <3>2
  <2>2. cache' \in [Issuer -> [keys : SUBSET Key, age : 0 .. TTL - 1] \cup {None}]
    BY <1>1, <2>1
  <2> QED BY <2>1, <2>2 DEF CacheOK
<1> DEFINE aged(q) == [work[q] EXCEPT !.waited = TRUE, !.elapsed = @ + 1]
<1>8. /\ work' = [q \in Request |-> IF Running(q) THEN aged(q) ELSE work[q]]
      /\ \A q \in Request : Running(q) => Waiting(q) /\ work[q].elapsed < BUDGET
  BY DEF Tick
<1>9. ASSUME NEW q \in Request
      PROVE  /\ work'[q] \in Job
             /\ \E r, t : r = work'[q] /\ t = seen'[q] /\ Sane(r, t)'
  <2>1. PICK r : r = work[q]
    OBVIOUS
  <2>2. PICK t : t = seen'[q]
    OBVIOUS
  <2>3. PICK new : new = work'[q]
    OBVIOUS
  <2>4. IF Live(r) THEN /\ new = [r EXCEPT !.waited = TRUE, !.elapsed = @ + 1]
                        /\ r.elapsed < BUDGET /\ r.pc # "setex"
                   ELSE new = r
    BY <1>8, <2>1, <2>3 DEF Running, Live, Waiting, Fetching
  <2>5. r \in Job /\ Sane(r, Past(q))
    BY <2>1, StillSane DEF VerifierInv
  <2>6. Running(q)' => /\ t.old = Past(q).old /\ Past(q).active \subseteq t.active
                       /\ Past(q).inactive \subseteq t.inactive
    BY <1>1, <2>2, Observed DEF VerifierInv
  <2>7. Live(r) => Running(q)'
    <3>1. Live(r) => new.pc = r.pc
      BY <2>4, <2>5 DEF Job
    <3> QED BY <2>3, <3>1 DEF Live, Running
  <2>8. Sane(r, t)
    BY <2>5, <2>6, <2>7, SeenMore
  <2>9. Sane(new, t)'
    BY <1>1, <1>2, <1>6, <2>4, <2>8, TickSane
  <2>10. new \in Job
    BY <2>9 DEF Sane
  <2> QED BY <2>2, <2>3, <2>9, <2>10
<1>10. work' \in [Request -> Job]
  BY <1>8, <1>9
<1> QED BY <1>1, <1>5, <1>7, <1>9, <1>10, AllSeen

LEMMA VerifierInit == Init => VerifierInv
<1> SUFFICES ASSUME Init PROVE VerifierInv
  OBVIOUS
<1>1. fed \in Federations /\ Federation(fed)
  BY FederationsAssumption DEF Init
<1>2. \A i \in Issuer : 1 \in DOMAIN fed.site[i].stages
  <2>1. ASSUME NEW i \in Issuer
        PROVE  1 \in DOMAIN fed.site[i].stages
    <3>1. fed.site[i].stages \in Seq(Stage) /\ fed.site[i].stages # <<>>
      BY <1>1 DEF Federation, Site
    <3>2. PICK n \in Nat : n = Len(fed.site[i].stages)
      BY <3>1
    <3>3. n # 0
      BY <3>1, <3>2, EmptySeq
    <3> QED BY <3>1, <3>2, <3>3
  <2> QED BY <2>1
<1>3. Horizon \in Nat
  BY BoundsAssumption DEF Horizon
<1>4. WorldOK
  BY <1>1, <1>2, <1>3 DEF Init, WorldOK, Registry!Init, Registry!TypeOK
<1>5. CacheOK
  BY DEF Init, CacheOK
<1>6. Blank("idle") \in Job /\ Blank("idle").pc = "idle"
      /\ \A i \in Issuer : Blank("idle").memo[i] = None
  BY BlankIsJob
<1>7. work = [q \in Request |-> Blank("idle")] /\ seen = [q \in Request |-> Nothing]
  BY DEF Init
<1>8. \A q \in Request : Sane(work[q], seen[q]) /\ Attentive(q)
  BY <1>6, <1>7 DEF Sane, Live, RecentMemo, Attentive, Running
<1>9. seen \in [Request -> [active : SUBSET Mark, inactive : SUBSET Mark,
                            old : SUBSET Mark]]
  BY <1>7 DEF Nothing
<1> QED BY <1>4, <1>5, <1>6, <1>7, <1>8, <1>9 DEF VerifierInv

LEMMA VerifierStutters ==
  ASSUME VerifierInv, UNCHANGED vars
  PROVE  VerifierInv'
<1>1. /\ fed' = fed /\ active' = active /\ config' = config /\ entry' = entry
      /\ known' = known /\ stage' = stage /\ age' = age /\ withdrawn' = withdrawn
      /\ expired' = expired /\ cache' = cache /\ work' = work /\ seen' = seen
  BY DEF vars, world
<1>2. WorldOK' /\ Remain
  BY <1>1 DEF VerifierInv, WorldOK, Registry!TypeOK, Remain, Lasts, Recent, Signing, Lately
<1>3. CacheOK'
  BY <1>1, <1>2, CacheRemains DEF VerifierInv
<1>4. ASSUME NEW q \in Request
      PROVE  Sane(work[q], seen[q])' /\ Attentive(q)'
  <2>1. PICK r, t : r = work[q] /\ t = seen[q] /\ Sane(r, t)
    BY DEF VerifierInv
  <2>2. Sane(r, t)'
    BY <1>1, <1>2, <2>1, WorldTurns, FederationOK DEF VerifierInv
  <2>3. Attentive(q)'
    BY <1>1 DEF VerifierInv, Attentive, Running, Carried, Active
  <2> QED BY <1>1, <2>1, <2>2, <2>3
<1> QED BY <1>1, <1>2, <1>3, <1>4 DEF VerifierInv

LEMMA VerifierHolds == Spec => []VerifierInv
<1>1. VerifierInv /\ [Next]_vars => VerifierInv'
  BY ProceedOK, ChangeOK, TickOK, VerifierStutters DEF Next
<1> QED BY <1>1, VerifierInit, PTL DEF Spec

-----------------------------------------------------------------------------
(* The theorems.                                                           *)

(***************************************************************************)
(* Every variable has its type: the stage of an issuer is one it has, no   *)
(* request makes more attempts than FETCH_MAX_RETRIES allows or outlives   *)
(* its budget, and no copy of a key set is kept for TTL.                   *)
(***************************************************************************)
THEOREM TypeCorrect == Spec => []TypeOK
<1>1. VerifierInv => TypeOK
  <2> SUFFICES ASSUME VerifierInv PROVE TypeOK
    OBVIOUS
  <2>1. WorldOK /\ CacheOK /\ work \in [Request -> Job]
        /\ seen \in [Request -> [active : SUBSET Mark, inactive : SUBSET Mark,
                                 old : SUBSET Mark]]
    BY DEF VerifierInv
  <2>2. config = None \/ DOMAIN config.issuers \subseteq Type
    BY <2>1 DEF WorldOK, Setting
  <2>3. ASSUME NEW q \in Request
        PROVE  /\ work[q].pc \in PC /\ work[q].left \in Seq(Entry)
               /\ work[q].verified \subseteq Mark
               /\ work[q].memo \in [Issuer -> (SUBSET Key) \cup {None, Invalid}]
               /\ work[q].tries \in 0 .. FETCH_MAX_RETRIES
               /\ work[q].elapsed \in 0 .. BUDGET
    BY <2>1 DEF Job
  <2> QED BY <2>1, <2>2, <2>3 DEF TypeOK, WorldOK, CacheOK
<1> QED BY <1>1, VerifierHolds, PTL

(***************************************************************************)
(* No copy of an issuer's keys in the cache is of a stage that ended TTL   *)
(* ago or earlier, and no request uses keys that were older than that when *)
(* it began: get_jwks_from_uri_cached fills the cache only with keys it    *)
(* has just fetched, and what a request remembers grows old no faster than *)
(* its budget is used up.                                                  *)
(***************************************************************************)
THEOREM KeysStayRecent == Spec => []KeysAreRecent
<1>1. VerifierInv => KeysAreRecent
  <2> SUFFICES ASSUME VerifierInv PROVE KeysAreRecent
    OBVIOUS
  <2>1. ASSUME NEW i \in Issuer, cache[i] # None
        PROVE  Recent(i, cache[i].keys, TTL - 1)
    <3>1. /\ cache[i] \in [keys : SUBSET Key, age : 0 .. TTL - 1]
          /\ Recent(i, cache[i].keys, cache[i].age)
      BY <2>1 DEF VerifierInv, CacheOK
    <3>2. PICK n \in 0 .. TTL - 1 : n = cache[i].age
      BY <3>1
    <3>3. n \in Nat /\ TTL - 1 \in Nat /\ n <= TTL - 1
      BY BoundsAssumption
    <3>4. /\ age[i] \in Nat /\ fed.site[i].stages \in Seq(Stage)
          /\ stage[i] \in DOMAIN fed.site[i].stages
      BY FederationOK DEF VerifierInv
    <3> QED BY <3>1, <3>2, <3>3, <3>4, RecentLonger
  <2>2. \A q \in Request : RecentMemo(work[q])
    BY DEF VerifierInv, Sane
  <2>3. ASSUME NEW i \in Issuer, NEW keys, NEW n, Recent(i, keys, n)
        PROVE  \E s \in 1 .. stage[i] : /\ keys = fed.site[i].stages[s].keys
                                        /\ s = stage[i] \/ age[i] <= n
    <3>1. stage[i] \in Nat
      BY FederationOK DEF VerifierInv
    <3>2. PICK u \in 1 .. stage[i] : keys = fed.site[i].stages[u].keys /\ Lately(i, u, n)
      BY <2>3 DEF Recent
    <3>3. u = stage[i] \/ stage[i] \in u + 1 .. stage[i]
      BY <3>1
    <3> QED BY <3>2, <3>3 DEF Lately, LatelyAt
  <2> QED BY <2>1, <2>2, <2>3 DEF KeysAreRecent, RecentMemo
<1> QED BY <1>1, VerifierHolds, PTL

-----------------------------------------------------------------------------
(* No mark is left out without a reason.                                   *)

(* What has been published for long was so at every recent stage. *)
LEMMA PublishedSince ==
  ASSUME WorldOK, NEW i \in Issuer, NEW k, PublishedFor(i, k, TTL + BUDGET),
         NEW u, NEW n \in Nat, n < TTL + BUDGET, Lately(i, u, n)
  PROVE  \A w \in u .. stage[i] : k \in fed.site[i].stages[w].keys
<1>1. PICK stages, z, a :
        /\ stages = fed.site[i].stages /\ z = stage[i] /\ a = age[i]
        /\ stages \in Seq(Stage) /\ z \in DOMAIN stages /\ a \in Nat
  BY FederationOK
<1>2. z \in Nat /\ \A v \in 1 .. z : stages[v].hold \in Nat
  BY <1>1, HoldIsTime
<1>3. PICK s \in 1 .. z :
        /\ \A w \in s .. z : k \in stages[w].keys
        /\ s = 1 \/ (IF s = z THEN a ELSE stages[s].hold) >= TTL + BUDGET
  BY <1>1 DEF PublishedFor
<1>4. /\ u \in 1 .. z
      /\ \A v \in u + 1 .. z : IF v = z THEN a <= n ELSE stages[v].hold <= n
  BY <1>1 DEF Lately, LatelyAt
<1>5. PICK long \in Nat : long = TTL + BUDGET
  BY BoundsAssumption
<1>6. s <= u
  <2> SUFFICES ASSUME u < s PROVE FALSE
    BY <1>2, <1>3, <1>4
  <2>1. s \in u + 1 .. z /\ s # 1
    BY <1>2, <1>3, <1>4
  <2>2. (IF s = z THEN a ELSE stages[s].hold) <= n
    BY <1>4, <2>1
  <2> QED BY <1>1, <1>2, <1>3, <1>5, <2>1, <2>2
<1>7. \A w \in u .. z : w \in s .. z
  BY <1>2, <1>3, <1>4, <1>6
<1> QED BY <1>1, <1>3, <1>7

(* What is held against a mark or its issuer counts for as long as the     *)
(* request lasts: the mark cannot be verified with keys published for long *)
(* enough.                                                                 *)
LEMMA RightlyHeld ==
  ASSUME WorldOK, \A i \in Issuer : Prudent(fed.site[i].stages),
         NEW m \in Mark, NEW n \in 0 .. BUDGET, Unverified(m, n), Verifiable(m)
  PROVE  FALSE
<1>1. PICK i : i = m.iss
  OBVIOUS
<1>2. /\ i \in Issuer /\ fed.site[i].endpoint
      /\ PublishedFor(i, m.kid, TTL + BUDGET)
      /\ PublishedFor(i, SiteStage(i).signer, TTL + BUDGET)
      /\ Distrusted(i, n) \/ Outdated(i, m.kid, n)
  BY <1>1, MarkAssumption DEF Unverified, Verifiable, MarkRecord
<1>3. n \in Nat /\ TTL - 1 + n \in Nat /\ n < TTL + BUDGET /\ TTL - 1 + n < TTL + BUDGET
  BY BoundsAssumption
<1>4. PICK stages, z : /\ stages = fed.site[i].stages /\ z = stage[i]
                       /\ stages \in Seq(Stage) /\ z \in DOMAIN stages
  BY <1>2, FederationOK
<1>5. z \in Nat /\ \A v \in 1 .. z : v \in DOMAIN stages /\ stages[v].hold \in Nat
  BY <1>4, HoldIsTime
<1>6. CASE Outdated(i, m.kid, n)
  <2>1. PICK keys \in SUBSET Key : m.kid \notin keys /\ Recent(i, keys, TTL - 1 + n)
    BY <1>6 DEF Outdated
  <2>2. PICK u \in 1 .. z : keys = stages[u].keys /\ Lately(i, u, TTL - 1 + n)
    BY <1>4, <2>1 DEF Recent
  <2>3. m.kid \in stages[u].keys
    <3>1. u \in u .. z
      BY <1>5, <2>2
    <3> QED BY <1>2, <1>3, <1>4, <2>2, <3>1, PublishedSince
  <2> QED BY <2>1, <2>2, <2>3
<1>7. CASE Distrusted(i, n)
  <2>1. PICK keys \in SUBSET Key, k \in Key :
          k \notin keys /\ Signing(i, k, n) /\ Recent(i, keys, TTL - 1 + n)
    BY <1>2, <1>7 DEF Distrusted
  <2>2. PICK u \in 1 .. z : keys = stages[u].keys /\ Lately(i, u, TTL - 1 + n)
    BY <1>4, <2>1 DEF Recent
  <2>3. PICK d \in 1 .. z : k = stages[d].signer /\ Lately(i, d, n)
    BY <1>4, <2>1 DEF Signing
  <2>4. /\ \A w \in u .. z : stages[z].signer \in stages[w].keys
        /\ \A w \in d .. z : stages[z].signer \in stages[w].keys
    BY <1>2, <1>3, <1>4, <2>2, <2>3, PublishedSince DEF SiteStage
  <2>5. d < z
    <3>1. u \in u .. z
      BY <1>5, <2>2
    <3>2. d # z
      BY <2>1, <2>2, <2>3, <2>4, <3>1
    <3> QED BY <1>5, <2>3, <3>2
  <2>6. Announced(stages, d) /\ Retained(stages, d, z)
    <3>1. Prudent(stages) /\ d \in DOMAIN stages
      BY <1>2, <1>4, <1>5, <2>3
    <3> QED BY <1>4, <2>4, <2>5, <3>1 DEF Prudent
  <2>7. CASE u <= d
    <3>1. PICK s \in 1 .. d :
            /\ \A w \in s .. d : k \in stages[w].keys
            /\ s = 1 \/ stages[s].hold >= TTL + BUDGET
      BY <2>3, <2>6 DEF Announced
    <3>2. u < s
      <4>1. u \notin s .. d
        BY <2>1, <2>2, <3>1
      <4> QED BY <1>5, <2>2, <2>3, <2>7, <3>1, <4>1
    <3>3. s \in u + 1 .. z /\ s # z /\ s # 1
      BY <1>5, <2>2, <2>3, <2>5, <3>1, <3>2
    <3>4. stages[s].hold <= TTL - 1 + n
      BY <1>4, <2>2, <3>3 DEF Lately, LatelyAt
    <3> QED BY <1>3, <1>5, <3>1, <3>3, <3>4, BoundsAssumption
  <2>8. CASE d < u
    <3>1. u \in d + 1 .. z
      BY <1>5, <2>2, <2>3, <2>8
    <3>2. PICK v \in d + 1 .. u - 1 : stages[v].hold > BUDGET
      BY <2>1, <2>2, <2>3, <2>6, <3>1 DEF Retained
    <3>3. v \in d + 1 .. z /\ v # z /\ v \in 1 .. z
      BY <1>5, <2>2, <2>3, <3>2
    <3>4. stages[v].hold <= n
      BY <1>4, <2>3, <3>3 DEF Lately, LatelyAt
    <3> QED BY <1>5, <3>2, <3>3, <3>4, BoundsAssumption
  <2> QED BY <1>5, <2>2, <2>3, <2>7, <2>8
<1> QED BY <1>2, <1>6, <1>7

(* Only a step of its own ends a request. *)
LEMMA EndsItself ==
  ASSUME VerifierInv, [Next]_vars, NEW q \in Request, Ends(q, "done")
  PROVE  \E new : /\ new = work'[q] /\ new.pc = "done"
                  /\ Outcome(Used(q), new, Past(q))
<1>1. work'[q] # work[q] /\ work'[q].pc = "done"
  BY DEF Ends
<1>2. work \in [Request -> Job]
  BY DEF VerifierInv
<1>3. PICK v \in Request : Proceed(v)
  <2>1. ~UNCHANGED vars /\ ~Change
    BY <1>1 DEF vars, Change
  <2>2. ~Tick
    <3> SUFFICES ASSUME Tick PROVE FALSE
      OBVIOUS
    <3>1. work'[q] = IF Running(q)
                       THEN [work[q] EXCEPT !.waited = TRUE, !.elapsed = @ + 1]
                       ELSE work[q]
      BY DEF Tick
    <3>2. Running(q) => work'[q].pc = work[q].pc
      BY <1>2, <3>1 DEF Job
    <3> QED BY <1>1, <3>1, <3>2 DEF Running
  <2> QED BY <2>1, <2>2 DEF Next
<1>4. PICK new : work' = [work EXCEPT ![v] = new] /\ Outcome(Used(v), new, Past(v))
  BY <1>3, ProceedStep DEF Proceed, Steps
<1>5. v = q /\ work'[q] = new
  BY <1>1, <1>2, <1>4
<1> QED BY <1>1, <1>4, <1>5

(***************************************************************************)
(* Every mark /resolve passes on is the subject's, from an issuer with     *)
(* authority for its type, and has been active and not expired at some     *)
(* moment of the request, however long the marks before it take and        *)
(* whatever the admin, the issuers and other requests do meanwhile.        *)
(***************************************************************************)
THEOREM MarksQualify == Spec => AnswersQualify
<1>1. ASSUME VerifierInv, [Next]_vars, NEW q \in Request, Ends(q, "done"),
             NEW m \in work'[q].verified
      PROVE  /\ m.sub = Subject /\ HasAuthority(Used(q), m)
             /\ m \in seen[q].active \ seen[q].old
  <2>1. PICK new : /\ new = work'[q] /\ new.pc = "done"
                   /\ Outcome(Used(q), new, Past(q))
    BY <1>1, EndsItself
  <2>2. Qualifies(Used(q), Past(q), m)
    BY <1>1, <2>1 DEF Outcome
  <2>3. Past(q) = seen[q]
    BY <2>2 DEF Qualifies, Past, Nothing
  <2> QED BY <2>2, <2>3 DEF Qualifies
<1>2. VerifierInv /\ [Next]_vars =>
        \A q \in Request : Ends(q, "done") =>
          \A m \in work'[q].verified :
            /\ m.sub = Subject /\ HasAuthority(Used(q), m)
            /\ m \in seen[q].active \ seen[q].old
  BY <1>1
<1> QED BY <1>2, VerifierHolds, PTL DEF Spec, AnswersQualify

(***************************************************************************)
(* No mark of the subject is left out of the answer of /resolve but for a  *)
(* reason of its own.  It lacks authority, or was inactive or expired at   *)
(* some moment of the request, its issuer has failed to answer, or it      *)
(* cannot be verified with keys its issuer has published for as long as    *)
(* copies of earlier ones may be in use.  So neither the marks before it,  *)
(* nor what is remembered of other issuers, nor other requests that share  *)
(* the cache take part in it.  The issuers are to be Prudent: one that     *)
(* withdraws a key as soon as it signs with the next can lose its marks to *)
(* a configuration and a key set fetched either side of the change.        *)
(***************************************************************************)
THEOREM ReasonsOfTheirOwn ==
  ASSUME \A f \in Federations : \A i \in Issuer : Prudent(f.site[i].stages)
  PROVE  Spec => FailureIsContained
<1>1. ASSUME VerifierInv, [Next]_vars, NEW q \in Request, Ends(q, "done"),
             NEW e \in ToSet(Considered)
      PROVE  \/ e.mark = Invalid
             \/ e.mark \in work'[q].verified \cup seen[q].inactive \cup expired
             \/ e.mark.sub # Subject \/ e.mark.type # e.type
             \/ ~HasAuthority(Used(q), e.mark)
             \/ e.mark.iss \in work'[q].failed
             \/ ~Verifiable(e.mark)
  <2>1. PICK new : /\ new = work'[q] /\ new.pc = "done"
                   /\ Outcome(Used(q), new, Past(q))
    BY <1>1, EndsItself
  <2>2. PICK n \in 0 .. BUDGET :
          Excused(Used(q), n, new.verified, new.failed, Past(q), e)
    BY <1>1, <2>1 DEF Outcome
  <2>3. Past(q).inactive \subseteq seen[q].inactive
    BY DEF Past, Nothing
  <2>4. WorldOK /\ \A i \in Issuer : Prudent(fed.site[i].stages)
    BY <1>1 DEF VerifierInv, WorldOK
  <2>5. e.mark = Invalid \/ e.mark \in Mark
    <3>1. PICK k \in DOMAIN Considered : e = Considered[k]
      BY <1>1 DEF ToSet
    <3>2. PICK j \in DOMAIN fed.carried : e = fed.carried[j]
      BY <2>4, <3>1, FederationOK, ConsideredAreCarried
    <3>3. e \in Entry
      BY <2>4, <3>2, FederationOK, ElementOfSeq
    <3> QED BY <3>3 DEF Entry
  <2>6. CASE Unverified(e.mark, n) /\ e.mark \in Mark
    BY <2>4, <2>6, RightlyHeld
  <2> QED BY <2>1, <2>2, <2>3, <2>5, <2>6 DEF Excused
<1>2. VerifierInv /\ [Next]_vars =>
        \A q \in Request : Ends(q, "done") =>
          \A e \in ToSet(Considered) :
            LET m == e.mark
            IN  \/ m = Invalid
                \/ m \in work'[q].verified \cup seen[q].inactive \cup expired
                \/ m.sub # Subject \/ m.type # e.type
                \/ ~HasAuthority(Used(q), m)
                \/ m.iss \in work'[q].failed
                \/ ~Verifiable(m)
  BY <1>1
<1> QED BY <1>2, VerifierHolds, PTL DEF Spec, FailureIsContained
=============================================================================
