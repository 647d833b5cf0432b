---------------------------- MODULE ChainResolver ----------------------------
(***************************************************************************)
(* One request to /resolve: the search for a trust chain from the subject  *)
(* to a trust anchor.  resolve_entity_to_trustanchor goes up the authority *)
(* hints depth first; its recursion is an explicit stack, the innermost    *)
(* frame first.  Each attempt of each fetch is one action, for other       *)
(* servers answer it and the deadline of the request may pass meanwhile.   *)
(* Once there is a chain, its metadata policies are merged and applied.    *)
(***************************************************************************)
EXTENDS Naturals, Sequences, FiniteSets, SequencesExt

CONSTANTS
  Entity,              \* entity identifiers
  Subject,             \* sub
  TrustAnchors,        \* trust_anchors
  MAX_RESOLVE_DEPTH,
  FETCH_MAX_RETRIES,
  Key,                 \* signing keys
  Value,               \* values of a metadata parameter
  Federations,         \* what the entities may publish, see Federation
  None,                \* no value; an answer of 404
  Invalid,             \* a statement that is malformed
  MaxFailures          \* bound: attempts of a fetch that fail in all

(***************************************************************************)
(* What an entity publishes: its keys, the one its configuration is signed *)
(* with, whether it has a fetch endpoint, its authority hints, and its     *)
(* metadata, of which there is one parameter.                              *)
(*                                                                         *)
(* Subordinate statements are there for pairs of issuer and subject: the   *)
(* keys of the subject, the key it is signed with, its constraints, that   *)
(* is max_path_length, whether its subtrees and allowed_entity_types admit *)
(* the subject of the request, and whether its allowed_leaf_entity_types   *)
(* do; its metadata_policy (the values it permits) and the metadata it     *)
(* forces upon its subject.  One that has no usable keys or malformed      *)
(* constraints is Invalid.                                                 *)
(***************************************************************************)
Configuration ==
  [keys : SUBSET Key, signer : Key, endpoint : BOOLEAN, hints : Seq(Entity),
   metadata : Value \cup {None}]

Statement ==
  [keys : SUBSET Key, signer : Key,
   max : Nat \cup {None}, permits : BOOLEAN, leafPermits : BOOLEAN,
   policy : (SUBSET Value) \cup {None}, forced : Value \cup {None}]

(* All of this may change during the request: it has versions. *)
Federation ==
  [ec : [Entity -> Configuration \cup {None}],
   ss : [Entity \X Entity -> Statement \cup {None, Invalid}]]

ASSUME SubjectAssumption == Subject \in Entity /\ TrustAnchors \subseteq Entity
ASSUME FederationsAssumption == Federations \subseteq Seq(Federation) \ {<<>>}
ASSUME SentinelsAssumption ==
  /\ None \notin Nat \cup Configuration \cup Statement \cup Entity \cup {Invalid}
  /\ \A values \in SUBSET Value : values # Invalid
ASSUME BoundsAssumption ==
  /\ MAX_RESOLVE_DEPTH \in Nat /\ FETCH_MAX_RETRIES \in Nat
  /\ MaxFailures \in Nat

VARIABLES
  fed,       \* what the entities publish, version by version
  version,   \* the version of the moment
  pc,        \* what is being fetched, or "done"
  stack,     \* the frames of the search
  visited,
  attempt,   \* failed attempts of the fetch in progress
  late,      \* whether the deadline of the request has passed
  answer,    \* the verdict on the chain, None before there is one
  failures   \* bounded counter

vars == <<fed, version, pc, stack, visited, attempt, late, answer, failures>>

Published == fed[version]

(***************************************************************************)
(* A frame: the entity it is about, the hints still to be tried, and the   *)
(* authority whose turn it is; besides, the version of its configuration,  *)
(* of that of the authority, and of the statement, as they were fetched.   *)
(* The depth of a frame is the number of frames outside it.                *)
(***************************************************************************)
Frame(e) ==
  [at |-> e, own |-> 0, hints |-> <<>>, authority |-> None, theirs |-> 0, about |-> 0]
At == Head(stack).at
Authority == Head(stack).authority
Depth == Len(stack) - 1

(* The statement of iss about sub, of version v; iss = sub for a            *)
(* configuration.                                                          *)
Link(iss, sub, v) == [iss |-> iss, sub |-> sub, v |-> v]
Fetched(l) == IF l.iss = l.sub THEN fed[l.v].ec[l.iss] ELSE fed[l.v].ss[<<l.iss, l.sub>>]

NoChain     == [status |-> 400, chain |-> <<>>, metadata |-> None]
Unavailable == [status |-> 503, chain |-> <<>>, metadata |-> None]
Chain(c, v) == [status |-> 200, chain |-> c, metadata |-> v]

ASSUME VerdictsAssumption == None \notin {NoChain, Unavailable}

(* The chain is not sent; it is kept to state the properties. *)
PolicyError(c) == [status |-> 400, chain |-> c, metadata |-> Invalid]

Init ==
  /\ fed \in Federations /\ version = 1
  /\ pc = "subject"
  /\ stack = <<Frame(Subject)>>
  /\ visited = {}
  /\ attempt = 0
  /\ late = FALSE
  /\ answer = None
  /\ failures = 0

-----------------------------------------------------------------------------

Reply(a) ==
  /\ pc' = "done"
  /\ answer' = a
  /\ UNCHANGED <<stack, attempt>>

(* Variants named ...Bug are what a plausible mistake would make of the     *)
(* definition that follows them; each is used to show that a property      *)
(* notices it.  Here: the deadline is not looked at.                       *)
FetchUncheckedBug(what, frames) ==
  /\ pc' = what
  /\ stack' = frames
  /\ attempt' = 0
  /\ UNCHANGED answer

(* The next fetch, unless the deadline has passed. *)
Fetch(what, frames) ==
  IF late THEN Reply(Unavailable)
  ELSE /\ pc' = what
       /\ stack' = frames
       /\ attempt' = 0
       /\ UNCHANGED answer

(***************************************************************************)
(* On to the next hint not visited yet, in the innermost of the frames     *)
(* that has one left; those inside it return an empty chain.               *)
(***************************************************************************)
Continue(frames, seen) ==
  LET left(i)   == {k \in DOMAIN frames[i].hints : frames[i].hints[k] \notin seen}
      open      == {i \in DOMAIN frames : left(i) # {}}
      least(ns) == CHOOSE n \in ns : \A m \in ns : n <= m
      inner     == least(open)
      next      == least(left(inner))
      hints     == frames[inner].hints
  IN  IF open = {} THEN Reply(NoChain)
      ELSE Fetch("authority",
                 <<[frames[inner] EXCEPT
                      !.authority = hints[next],
                      !.hints = SubSeq(hints, next + 1, Len(hints)),
                      !.theirs = 0]>>
                   \o SubSeq(frames, inner + 1, Len(frames)))

(* self_verify_jwt. *)
Sound(ec) == ec.signer \in ec.keys

(* The entity is not noted as visited. *)
GotSubjectForgetsBug ==
  LET ec == Published.ec[At]
  IN  /\ pc = "subject" /\ ec # None
      /\ UNCHANGED visited
      /\ IF Sound(ec)
           THEN Continue([stack EXCEPT ![1].hints = ec.hints, ![1].own = version],
                         visited)
           ELSE Reply(NoChain)
      /\ UNCHANGED <<fed, version, late, failures>>

(* The configuration of the entity a frame is about.  One that does not    *)
(* verify with its own keys ends the whole search.                         *)
GotSubject ==
  LET ec == Published.ec[At]
  IN  /\ pc = "subject" /\ ec # None
      /\ visited' = visited \cup {At}
      /\ IF Sound(ec)
           THEN Continue([stack EXCEPT ![1].hints = ec.hints, ![1].own = version],
                         visited \cup {At})
           ELSE Reply(NoChain)
      /\ UNCHANGED <<fed, version, late, failures>>

(* An authority of no use ends the frame. *)
GotAuthorityReturnsBug ==
  LET ec == Published.ec[Authority]
  IN  /\ pc = "authority" /\ ec # None
      /\ IF Sound(ec) /\ ec.endpoint
           THEN Fetch("statement", [stack EXCEPT ![1].theirs = version])
           ELSE Continue(Tail(stack), visited)
      /\ UNCHANGED <<fed, version, visited, late, failures>>

(* An authority of no use makes the frame start over. *)
GotAuthorityAgainBug ==
  LET ec == Published.ec[Authority]
  IN  /\ pc = "authority" /\ ec # None
      /\ IF Sound(ec) /\ ec.endpoint
           THEN Fetch("statement", [stack EXCEPT ![1].theirs = version])
           ELSE Fetch("subject", stack)
      /\ UNCHANGED <<fed, version, visited, late, failures>>

(* The configuration of the authority; the next hint if it is of no use. *)
GotAuthority ==
  LET ec == Published.ec[Authority]
  IN  /\ pc = "authority" /\ ec # None
      /\ IF Sound(ec) /\ ec.endpoint
           THEN Fetch("statement", [stack EXCEPT ![1].theirs = version])
           ELSE Continue(stack, visited)
      /\ UNCHANGED <<fed, version, visited, late, failures>>

(* The keys in the statement are not compared with anything. *)
BindsLooselyBug(ss) ==
  ss.signer \in fed[Head(stack).theirs].ec[Authority].keys

(* The statement is signed with a key of the authority, and has the key    *)
(* with which the configuration of its subject is signed.                  *)
Binds(ss) ==
  /\ ss.signer \in fed[Head(stack).theirs].ec[Authority].keys
  /\ fed[Head(stack).own].ec[At].signer \in ss.keys

(* check_subject, for a statement with this many entities below it. *)
Admits(ss, below) ==
  /\ ss.max = None \/ below <= ss.max
  /\ ss.permits
  /\ below = 0 => ss.leafPermits

(* The chain from the subject up to a trust anchor whose statement about   *)
(* the innermost frame is at hand.                                         *)
FoundChain ==
  LET n == Len(stack)
      link(f, v) == Link(f.authority, f.at, v)
  IN  <<Link(Subject, Subject, stack[n].own)>>
        \o [i \in 1 .. n - 1 |-> link(stack[n + 1 - i], stack[n + 1 - i].about)]
        \o <<link(stack[1], version), Link(Authority, Authority, stack[1].theirs)>>

(* A statement without a policy resets what is above it. *)
MergeForgetsBug(merged, policy) ==
  IF policy = None THEN Value
  ELSE IF merged = Invalid \/ merged \cap policy = {} THEN Invalid
  ELSE merged \cap policy

(* merge_policies: a statement without a policy changes nothing. *)
Merge(merged, policy) ==
  IF merged = Invalid \/ policy = None THEN merged
  ELSE IF merged \cap policy = {} THEN Invalid
  ELSE merged \cap policy

(* The policies merged, those of the trust anchor first. *)
Merged(policies) ==
  LET merged[n \in 0 .. Len(policies)] ==
        IF n = 0 THEN Value ELSE Merge(merged[n - 1], policies[n])
  IN  merged[Len(policies)]

(***************************************************************************)
(* The policies of a chain, merged from the trust anchor down, are applied *)
(* to the metadata of the subject, after what its immediate superior       *)
(* forces upon it.                                                         *)
(***************************************************************************)
Resolve(c) ==
  LET policies == [i \in 1 .. Len(c) - 2 |-> Fetched(c[Len(c) - i]).policy]
      merged   == Merged(policies)
      forced   == Fetched(c[2]).forced
      own      == Fetched(c[1]).metadata
      value    == IF forced = None THEN own ELSE forced
  IN  IF merged = Invalid \/ own = None \/ value \notin merged
        THEN PolicyError(c) ELSE Chain(c, value)

(* The subject counted among the entities below itself. *)
GotStatementOffByOneBug ==
  LET ss == Published.ss[<<Authority, At>>]
  IN  /\ pc = "statement" /\ ss # None
      /\ IF ss = Invalid \/ ~Binds(ss) \/ ~Admits(ss, Len(stack)) THEN Continue(stack, visited)
         ELSE IF Authority \in TrustAnchors THEN Reply(Resolve(FoundChain))
         ELSE IF ~late /\ Len(stack) > MAX_RESOLVE_DEPTH THEN Reply(NoChain)
         ELSE Fetch("subject", <<Frame(Authority)>> \o [stack EXCEPT ![1].about = version])
      /\ UNCHANGED <<fed, version, visited, late, failures>>

(* The statement of the authority about the frame's entity. *)
GotStatement ==
  LET ss == Published.ss[<<Authority, At>>]
  IN  /\ pc = "statement" /\ ss # None
      /\ IF ss = Invalid \/ ~Binds(ss) \/ ~Admits(ss, Depth) THEN Continue(stack, visited)
         ELSE IF Authority \in TrustAnchors THEN Reply(Resolve(FoundChain))
         ELSE IF ~late /\ Len(stack) > MAX_RESOLVE_DEPTH THEN Reply(NoChain)
         ELSE Fetch("subject", <<Frame(Authority)>> \o [stack EXCEPT ![1].about = version])
      /\ UNCHANGED <<fed, version, visited, late, failures>>

Requested ==
  CASE pc = "subject"   -> Published.ec[At]
    [] pc = "authority" -> Published.ec[Authority]
    [] pc = "statement" -> Published.ss[<<Authority, At>>]

(* The client is asked to try again. *)
FailPermanentlyBusyBug ==
  /\ pc # "done"
  /\ IF Requested = None THEN UNCHANGED failures
     ELSE failures < MaxFailures /\ failures' = failures + 1
  /\ Reply(Unavailable)
  /\ UNCHANGED <<fed, version, visited, late>>

(* A permanent failure, of which 404 is one, ends the frame. *)
FailPermanently ==
  /\ pc # "done"
  /\ IF Requested = None THEN UNCHANGED failures
     ELSE failures < MaxFailures /\ failures' = failures + 1
  /\ Continue(Tail(stack), visited)
  /\ UNCHANGED <<fed, version, visited, late>>

(* One attempt too many. *)
FailForNowOnceMoreBug ==
  /\ pc # "done" /\ failures < MaxFailures
  /\ failures' = failures + 1
  /\ IF attempt <= FETCH_MAX_RETRIES
       THEN attempt' = attempt + 1 /\ UNCHANGED <<pc, stack, answer>>
       ELSE Reply(Unavailable)
  /\ UNCHANGED <<fed, version, visited, late>>

(* A transient one is retried; the last one ends the whole search. *)
FailForNow ==
  /\ pc # "done" /\ failures < MaxFailures
  /\ failures' = failures + 1
  /\ IF attempt < FETCH_MAX_RETRIES
       THEN attempt' = attempt + 1 /\ UNCHANGED <<pc, stack, answer>>
       ELSE Reply(Unavailable)
  /\ UNCHANGED <<fed, version, visited, late>>

(* The deadline is set once the subject's own configuration is there. *)
DeadlinePasses ==
  /\ visited # {} /\ pc # "done" /\ ~late
  /\ late' = TRUE
  /\ UNCHANGED <<fed, version, pc, stack, visited, attempt, answer, failures>>

(* The entities publish something else. *)
Change ==
  /\ pc # "done" /\ version < Len(fed)
  /\ version' = version + 1
  /\ UNCHANGED <<fed, pc, stack, visited, attempt, late, answer, failures>>

Done == pc = "done" /\ UNCHANGED vars

Search ==
  \/ GotSubject \/ GotAuthority \/ GotStatement
  \/ FailPermanently \/ FailForNow

Next == Search \/ DeadlinePasses \/ Change \/ Done

Spec == Init /\ [][Next]_vars

(* Every fetch is answered, or fails: it has a timeout.  Search is enabled  *)
(* until there is an answer, so this is WF_vars(Search).                   *)
FairSpec == Spec /\ ([]<>(pc = "done") \/ []<><<Search>>_vars)

-----------------------------------------------------------------------------
(* Properties                                                              *)

(* Type invariant. *)
TypeOK ==
  /\ pc \in {"subject", "authority", "statement", "done"}
  /\ version \in DOMAIN fed
  /\ stack \in Seq([at : Entity, own : 0 .. version, hints : Seq(Entity),
                   authority : Entity \cup {None}, theirs : 0 .. version,
                   about : 0 .. version])
  /\ stack # <<>>
  /\ visited \subseteq Entity
  /\ attempt \in 0 .. FETCH_MAX_RETRIES
  /\ late \in BOOLEAN
  /\ answer \in [status : {200, 400, 503}, chain : Seq([iss : Entity, sub : Entity, v : 1 .. version]),
                  metadata : Value \cup {None, Invalid}] \cup {None}
  /\ failures \in Nat

(* The frames form a path up from the subject that meets no entity twice,  *)
(* whatever loops the hints form, never through a trust anchor, and no     *)
(* longer than MAX_RESOLVE_DEPTH allows.                                   *)
StackIsPath ==
  /\ Last(stack).at = Subject
  /\ \A i, j \in DOMAIN stack : i # j => stack[i].at # stack[j].at
  /\ \A i \in DOMAIN stack \ {1} : stack[i].authority = stack[i - 1].at
  /\ \A i \in DOMAIN stack \ {Len(stack)} : stack[i].at \notin TrustAnchors
  /\ Depth <= MAX_RESOLVE_DEPTH

(* Whether a statement of a about e verifies, and admits the subject with  *)
(* n entities below e.                                                     *)
Vouches(f, a, e, n) ==
  LET ss == f.ss[<<a, e>>]
  IN  /\ f.ec[a] # None /\ Sound(f.ec[a]) /\ f.ec[a].endpoint
      /\ ss \notin {None, Invalid} /\ Admits(ss, n)
      /\ ss.signer \in f.ec[a].keys /\ f.ec[e].signer \in ss.keys

(* An answer of 200 carries a trust chain: the subject's configuration,    *)
(* statements each about the issuer of the one before, every one of which  *)
(* admits the subject from where it stands, and the configuration of one   *)
(* of the trust anchors asked for, fetched from the subject upwards.       *)
ChainIsSound ==
  answer # None /\ answer.status = 200 =>
    LET c == answer.chain
        n == Len(c)
    IN  /\ n > 2 /\ n <= MAX_RESOLVE_DEPTH + 3
        /\ c[1].iss = Subject /\ c[1].sub = Subject
        /\ c[n].iss = c[n].sub /\ c[n].iss \in TrustAnchors
        /\ \A i \in 2 .. n : c[i].sub = c[i - 1].iss
        /\ \A i \in 2 .. n - 1 : Admits(Fetched(c[i]), i - 2) /\ c[i].v >= c[i - 1].v
        /\ \A i, j \in 2 .. n - 1 : i # j => c[i].sub # c[j].sub

(* Every statement of the chain is signed with a key in the next one.      *)
KeysChain(c) ==
  \A i \in 1 .. Len(c) - 1 : Fetched(c[i]).signer \in Fetched(c[i + 1]).keys

(* Whoever receives a chain can verify it.                                 *)
ChainVerifies == answer # None /\ answer.status = 200 => KeysChain(answer.chain)

(* The keys an entity signs with: its configuration, its statements.       *)
Signing(v, e) ==
  LET f      == fed[v]
      issued == {x \in Entity : f.ss[<<e, x>>] \notin {None, Invalid}}
  IN  {ec.signer : ec \in {f.ec[e]} \ {None}}
        \cup {f.ss[<<e, x>>].signer : x \in issued}

(* Every entity signs with one key at a time, and no authority lists a key *)
(* a subordinate signs with without those it signed with before.           *)
OrderlyRollovers ==
  \A v \in DOMAIN fed, e \in Entity :
    /\ \A k, l \in Signing(v, e) : k = l
    /\ \A a \in Entity :
         LET ss == fed[v].ss[<<a, e>>]
         IN  ss \notin {None, Invalid} =>
               \A old, new \in 1 .. v :
                 old < new /\ Signing(new, e) \cap ss.keys # {}
                   => Signing(old, e) \subseteq ss.keys

(* As long as rollovers are orderly, a chain verifies, although its parts  *)
(* are fetched at different moments, an authority's configuration twice,   *)
(* and the authorities may list a new key late.                            *)
OrderlyChainVerifies == OrderlyRollovers => ChainVerifies

(* Once there is a chain, the verdict is what the specification of the     *)
(* policies asks for, whatever their number and order: metadata that every *)
(* policy of the chain permits, with what the subject's superior forces    *)
(* upon it and nothing that others do; or an error if there is no such.    *)
MetadataObeysEveryPolicy ==
  answer # None /\ answer.chain # <<>> =>
    LET above   == {Fetched(a) : a \in {l \in ToSet(answer.chain) : l.iss # l.sub}}
        permits(v) == \A st \in above : st.policy = None \/ v \in st.policy
        due     == {Fetched(answer.chain[1]).metadata} \ {None}
        forced  == {Fetched(answer.chain[2]).forced} \ {None}
        right   == IF due = {} \/ forced = {} THEN due ELSE forced
    IN  IF answer.status = 200
          THEN right = {answer.metadata} /\ permits(answer.metadata)
          ELSE \A v \in right : ~permits(v)

(* There is a trust chain, each hint of which is one that could be         *)
(* followed: the entities n statements up, from the subject.               *)
ChainExists ==
  LET f == fed[1]
      sound(e) == f.ec[e] # None /\ Sound(f.ec[e])
      up(e, n) == {a \in Entity : /\ sound(e) /\ Contains(f.ec[e].hints, a)
                                  /\ Vouches(f, a, e, n)}
      above[n \in 0 .. MAX_RESOLVE_DEPTH] ==
        IF n = 0 THEN {Subject}
        ELSE (UNION {up(e, n - 1) : e \in above[n - 1]}) \ (TrustAnchors \cup {Subject})
  IN  \E n \in 0 .. MAX_RESOLVE_DEPTH :
        \E e \in above[n] : up(e, n) \cap TrustAnchors # {}

(* Nothing changes, nothing the search may ask for is missing, and no path *)
(* is too long.                                                            *)
NothingMissing ==
  LET f == fed[1]
  IN  /\ Len(fed) = 1
      /\ \A e \in Entity : f.ec[e] # None
      /\ \A e, a \in Entity : Contains(f.ec[e].hints, a) => f.ss[<<a, e>>] # None
      /\ LET hinted == UNION {ToSet(f.ec[e].hints) : e \in Entity}
         IN  Cardinality(({Subject} \cup hinted) \ TrustAnchors) <= MAX_RESOLVE_DEPTH + 1

NoPathLengths ==
  \A p \in Entity \X Entity :
    fed[1].ss[p] \notin {None, Invalid} => fed[1].ss[p].max = None

(* With no path lengths among the constraints, a verdict of 400 is final:  *)
(* the one set of visited entities shared by all branches hides no chain.  *)
VerdictIsFinal ==
  answer = NoChain /\ failures = 0 /\ NothingMissing /\ NoPathLengths
    => ~ChainExists

(* With path lengths too: an authority whose constraints reject the        *)
(* subject makes the search try the others.                                *)
AlternativesAreTried ==
  answer = NoChain /\ failures = 0 /\ NothingMissing => ~ChainExists

(* 503 asks the client to try again: only when the deadline has passed, or *)
(* a fetch has failed in all its attempts.                                 *)
UnavailableIsTemporary ==
  answer = Unavailable => late \/ failures > FETCH_MAX_RETRIES

(* After the deadline the fetch in progress may finish its attempts, and   *)
(* no other is begun.                                                      *)
NoFetchAfterDeadline ==
  [][late /\ pc' # "done" => pc' = pc /\ stack' = stack /\ attempt' >= attempt]_vars

(* Every request is answered. *)
Answered == <>(answer # None)
=============================================================================
