------------------------- MODULE ChainResolverProofs -------------------------
(***************************************************************************)
(* Theorems about the search for a trust chain, for any federation, any    *)
(* limit of the depth and any number of failed fetches.                    *)
(*                                                                         *)
(* SearchInv is the inductive invariant.  Its heart is Path: the frames of *)
(* the stack are a path of entities of which all that was checked on the   *)
(* way still holds of the versions that were fetched then, however often   *)
(* the entities publish something else.  Between two fetches the innermost *)
(* frame lacks its configuration (Reaching), or has one.  All the actions  *)
(* do with the stack is one of four things, each of which keeps a path:    *)
(* drop frames and turn the outer one to another hint (PathSpliced), add   *)
(* one (Climbs), complete it (PathReached), note a fetch (PathNoted).      *)
(*                                                                         *)
(* The chain of a full path is linked (ChainLinked).  What a verdict on a  *)
(* linked chain promises speaks of that chain and of versions that are     *)
(* past, so it goes on holding.  The merge of the policies is a recursive  *)
(* function; that it is their intersection is proved by looking at the     *)
(* least prefix of which it would not be true (MergedIsIntersection).      *)
(*                                                                         *)
(* Thorough adds what makes a refusal final: whatever a visited entity     *)
(* leads to has been visited or is still to be tried (Pending).  When the  *)
(* hints run out, the visited entities lead to no others (Closed), and     *)
(* what leads to no others hides no chain (ClosedHidesNone).               *)
(***************************************************************************)
EXTENDS ChainResolver, SequenceTheorems, FiniteSetTheorems, WellFoundedInduction, TLAPS

(* Frames of a search at version v. *)
FrameOf(v) ==
  [at : Entity, own : 0 .. v, hints : Seq(Entity), authority : Entity \cup {None},
   theirs : 0 .. v, about : 0 .. v]

(* The statement of its authority about the entity of a frame, with n      *)
(* entities below, has been checked against its configuration.             *)
Linked(f, x, n) ==
  LET ss == f[x.about].ss[<<x.authority, x.at>>]
  IN  /\ x.own <= x.about
      /\ ss \notin {None, Invalid} /\ Admits(ss, n)
      /\ f[x.own].ec[x.at].signer \in ss.keys

(* A path of frames each of which has its configuration, in a federation f. *)
Path(f, s, seen) ==
  /\ s # <<>> => s[Len(s)].at = Subject
  /\ Len(s) <= MAX_RESOLVE_DEPTH + 1
  /\ \A i \in 1 .. Len(s) :
       s[i].at \in seen /\ s[i].own >= 1 /\ f[s[i].own].ec[s[i].at] # None
  /\ \A i, j \in 1 .. Len(s) : i # j => s[i].at # s[j].at
  /\ \A i \in 2 .. Len(s) :
       /\ s[i].authority = s[i - 1].at /\ s[i].about <= s[i - 1].own
       /\ Linked(f, s[i], Len(s) - i)
  /\ \A i \in 1 .. Len(s) - 1 : s[i].at \notin TrustAnchors

(* A path whose innermost frame still lacks its configuration.             *)
Reaching(f, s, seen) ==
  /\ s[1].at \notin seen /\ Path(f, Tail(s), seen)
  /\ Len(s) <= MAX_RESOLVE_DEPTH + 1
  /\ Len(s) = 1 => s[1].at = Subject
  /\ Len(s) > 1 => /\ s[1].at \notin TrustAnchors
                   /\ s[2].authority = s[1].at /\ Linked(f, s[2], Len(s) - 2)

LEMMA LeastExists ==
  ASSUME NEW S, S \subseteq Nat, S # {}
  PROVE  \E n \in S : \A m \in S : n <= m
<1>1. PICK n \in S : \A m \in S : ~(<<m, n>> \in OpToRel(<, Nat))
  BY NatLessThanWellFounded, WFMin
<1>2. \A m \in S : ~(m < n)
  BY <1>1 DEF OpToRel
<1> QED BY <1>2

(* What becomes of a stack when its inner frames are dropped and the frame *)
(* they return to changes.                                                 *)
LEMMA Spliced ==
  ASSUME NEW S, NEW s \in Seq(S), NEW x \in S, NEW i \in 1 .. Len(s),
         NEW t, t = <<x>> \o SubSeq(s, i + 1, Len(s))
  PROVE  /\ t \in Seq(S) /\ Len(t) = Len(s) - i + 1 /\ t[1] = x
         /\ \A j \in 2 .. Len(t) : t[j] = s[j + i - 1]
<1> DEFINE r == SubSeq(s, i + 1, Len(s))
<1>1. /\ r \in Seq(S) /\ Len(r) = Len(s) - i
      /\ \A j \in 1 .. Len(r) : r[j] = s[i + j]
  <2>1. Len(s) \in Nat /\ \A j \in i + 1 .. Len(s) : s[j] \in S
    BY LenProperties, ElementOfSeq
  <2>2. /\ r \in Seq(S) /\ Len(r) = IF i + 1 <= Len(s) THEN Len(s) - (i + 1) + 1 ELSE 0
        /\ \A j \in 1 .. Len(s) - (i + 1) + 1 : r[j] = s[i + 1 + j - 1]
    BY <2>1, SubSeqProperties
  <2> HIDE DEF r
  <2> QED BY <2>1, <2>2
<1>2. <<x>> \in Seq(S) /\ Len(<<x>>) = 1 /\ <<x>>[1] = x
  OBVIOUS
<1> HIDE DEF r
<1> DEFINE h == <<x>>
<1> HIDE DEF h
<1>3. /\ t \in Seq(S) /\ Len(t) = Len(h) + Len(r)
      /\ \A j \in 1 .. Len(h) + Len(r) :
           t[j] = IF j <= Len(h) THEN h[j] ELSE r[j - Len(h)]
  BY <1>1, <1>2, ConcatProperties DEF h, r
<1>4. Len(s) \in Nat /\ Len(h) = 1 /\ h[1] = x
  BY <1>2, LenProperties DEF h
<1>5. /\ t \in Seq(S) /\ Len(t) = Len(s) - i + 1 /\ t[1] = x
      /\ \A j \in 2 .. Len(t) : t[j] = s[j + i - 1]
  <2>1. t \in Seq(S) /\ Len(t) = Len(s) - i + 1 /\ t[1] = x
    BY <1>1, <1>3, <1>4
  <2>2. ASSUME NEW j \in 2 .. Len(t) PROVE t[j] = s[j + i - 1]
    <3>1. PICK k \in 1 .. Len(r) : k = j - 1 /\ t[j] = r[k]
      BY <1>1, <1>3, <1>4
    <3>2. r[k] = s[i + k]
      BY <1>1
    <3>3. i + k = j + i - 1
      BY <1>1, <1>4, <3>1
    <3> QED BY <3>1, <3>2, <3>3
  <2> QED BY <2>1, <2>2
<1> QED BY <1>5

LEMMA Pushed ==
  ASSUME NEW S, NEW s \in Seq(S), NEW x \in S, NEW t, t = <<x>> \o s
  PROVE  /\ t \in Seq(S) /\ Len(t) = Len(s) + 1 /\ t[1] = x
         /\ \A j \in 2 .. Len(t) : t[j] = s[j - 1]
<1>1. <<x>> \in Seq(S) /\ Len(<<x>>) = 1 /\ <<x>>[1] = x
  OBVIOUS
<1> DEFINE h == <<x>>
<1> HIDE DEF h
<1>2. /\ t \in Seq(S) /\ Len(t) = Len(h) + Len(s)
      /\ \A j \in 1 .. Len(h) + Len(s) :
           t[j] = IF j <= Len(h) THEN h[j] ELSE s[j - Len(h)]
  BY <1>1, ConcatProperties DEF h
<1>3. Len(s) \in Nat /\ Len(h) = 1 /\ h[1] = x
  BY <1>1, LenProperties DEF h
<1>4. /\ t \in Seq(S) /\ Len(t) = Len(s) + 1 /\ t[1] = x
      /\ \A j \in 2 .. Len(t) : t[j] = s[j - 1]
  BY <1>2, <1>3
<1> QED BY <1>4

LEMMA LongEnough ==
  ASSUME NEW S, NEW s \in Seq(S), s # <<>>
  PROVE  Len(s) \in Nat /\ Len(s) > 0 /\ (Len(s) = 1 \/ Len(s) > 1)
<1>1. PICK n \in Nat : n = Len(s) /\ n # 0
  BY LenProperties, EmptySeq
<1> QED BY <1>1

LEMMA FramesGrow ==
  ASSUME NEW v \in Nat, NEW w \in Nat, v <= w
  PROVE  Seq(FrameOf(v)) \subseteq Seq(FrameOf(w))
<1>1. 0 .. v \subseteq 0 .. w
  OBVIOUS
<1>2. FrameOf(v) \subseteq FrameOf(w)
  BY <1>1 DEF FrameOf
<1> QED BY <1>2, SeqMonotonic

(* What is above a frame of a path is a path; what the innermost of its    *)
(* frames has tried is of no consequence.                                  *)
LEMMA PathAbove ==
  ASSUME NEW f, NEW s, NEW t, NEW seen, Path(f, s, seen),
         Len(s) \in Nat, NEW d \in 0 .. Len(s), Len(t) = Len(s) - d,
         t # <<>> => Len(t) > 0,
         \A j \in 1 .. Len(t) : t[j].at = s[j + d].at /\ t[j].own = s[j + d].own,
         \A j \in 2 .. Len(t) : t[j] = s[j + d]
  PROVE  Path(f, t, seen)
<1>1. \A j \in 1 .. Len(t) : j + d \in 1 .. Len(s)
  OBVIOUS
<1>2. /\ Len(s) <= MAX_RESOLVE_DEPTH + 1 /\ MAX_RESOLVE_DEPTH \in Nat
      /\ s # <<>> => s[Len(s)].at = Subject
      /\ \A i \in 1 .. Len(s) - 1 : s[i].at \notin TrustAnchors
  BY BoundsAssumption DEF Path
<1>3. ASSUME t # <<>> PROVE t[Len(t)].at = Subject
  <2>1. /\ Len(t) \in 1 .. Len(t) /\ Len(t) + d = Len(s) /\ Len(s) # 0
    BY <1>3
  <2>2. s # <<>>
    BY <2>1
  <2>3. t[Len(t)].at = s[Len(t) + d].at
    BY <2>1
  <2> QED BY <1>2, <2>1, <2>2, <2>3
<1>4. Len(t) <= MAX_RESOLVE_DEPTH + 1
  BY <1>2
<1>5. ASSUME NEW j \in 1 .. Len(t)
      PROVE  t[j].at \in seen /\ t[j].own >= 1 /\ f[t[j].own].ec[t[j].at] # None
  BY <1>1 DEF Path
<1>6. ASSUME NEW j \in 1 .. Len(t), NEW k \in 1 .. Len(t), j # k
      PROVE  t[j].at # t[k].at
  <2>1. PICK a \in 1 .. Len(s), b \in 1 .. Len(s) :
          a = j + d /\ b = k + d /\ t[j].at = s[a].at /\ t[k].at = s[b].at
    BY <1>1
  <2>2. a # b
    BY <1>6, <2>1
  <2> QED BY <2>1, <2>2 DEF Path
<1>7. ASSUME NEW j \in 2 .. Len(t)
      PROVE  /\ t[j].authority = t[j - 1].at /\ t[j].about <= t[j - 1].own
             /\ Linked(f, t[j], Len(t) - j)
  <2>1. PICK a \in 2 .. Len(s) : a = j + d
    BY <1>1
  <2>2. t[j] = s[a]
    BY <2>1
  <2>3. PICK k \in 1 .. Len(t) : k = j - 1
    OBVIOUS
  <2>4. t[k].at = s[k + d].at /\ t[k].own = s[k + d].own
    OBVIOUS
  <2>5. k + d = a - 1 /\ Len(t) - j = Len(s) - a
    BY <2>1, <2>3
  <2>6. /\ s[a].authority = s[a - 1].at /\ s[a].about <= s[a - 1].own
        /\ Linked(f, s[a], Len(s) - a)
    BY DEF Path
  <2> QED BY <2>2, <2>3, <2>4, <2>5, <2>6
<1>8. ASSUME NEW j \in 1 .. Len(t) - 1 PROVE t[j].at \notin TrustAnchors
  <2>1. PICK a \in 1 .. Len(s) - 1 : a = j + d
    OBVIOUS
  <2> QED BY <1>2, <2>1
<1> QED BY <1>3, <1>4, <1>5, <1>6, <1>7, <1>8 DEF Path

LEMMA PathSpliced ==
  ASSUME NEW f, NEW v \in Nat, NEW s \in Seq(FrameOf(v)), NEW seen, Path(f, s, seen),
         NEW i \in 1 .. Len(s), NEW x \in FrameOf(v),
         x.at = s[i].at, x.own = s[i].own
  PROVE  Path(f, <<x>> \o SubSeq(s, i + 1, Len(s)), seen)
<1> DEFINE d == i - 1
<1>0. PICK t : t = <<x>> \o SubSeq(s, i + 1, Len(s))
  OBVIOUS
<1>1. /\ t \in Seq(FrameOf(v)) /\ Len(t) = Len(s) - i + 1 /\ t[1] = x
      /\ \A j \in 2 .. Len(t) : t[j] = s[j + i - 1]
  BY <1>0, Spliced
<1>2. Len(s) \in Nat
  BY LenProperties
<1>3. d \in 0 .. Len(s) /\ Len(t) = Len(s) - d /\ Len(t) > 0
  BY <1>1, <1>2
<1>4. \A j \in 2 .. Len(t) : t[j] = s[j + d]
  <2>1. ASSUME NEW j \in 2 .. Len(t) PROVE j + d = j + i - 1
    BY <1>2
  <2> HIDE DEF d
  <2> QED BY <1>1, <2>1
<1>5. t[1].at = s[1 + d].at /\ t[1].own = s[1 + d].own
  <2>1. 1 + d = i
    BY <1>2
  <2> HIDE DEF d
  <2> QED BY <1>1, <2>1
<1> HIDE DEF d
<1>6. \A j \in 1 .. Len(t) : t[j].at = s[j + d].at /\ t[j].own = s[j + d].own
  BY <1>3, <1>4, <1>5
<1>7. Path(f, t, seen)
  BY <1>2, <1>3, <1>4, <1>6, PathAbove
<1> QED BY <1>0, <1>7

LEMMA PathTail ==
  ASSUME NEW f, NEW v \in Nat, NEW s \in Seq(FrameOf(v)), NEW seen, Path(f, s, seen),
         s # <<>>
  PROVE  Tail(s) \in Seq(FrameOf(v)) /\ Path(f, Tail(s), seen)
<1> DEFINE t == Tail(s)
<1>1. /\ t \in Seq(FrameOf(v)) /\ Len(t) = Len(s) - 1
      /\ \A j \in 1 .. Len(t) : t[j] = s[j + 1]
  BY HeadTailProperties
<1>2. /\ Len(s) \in Nat /\ Len(t) \in Nat /\ (t # <<>> => Len(t) > 0)
      /\ 1 \in 0 .. Len(s)
  BY <1>1, LenProperties, EmptySeq
<1> HIDE DEF t
<1>3. /\ \A j \in 1 .. Len(t) : t[j].at = s[j + 1].at /\ t[j].own = s[j + 1].own
      /\ \A j \in 2 .. Len(t) : t[j] = s[j + 1]
  BY <1>1, <1>2
<1>4. Path(f, t, seen)
  <2>1. PICK d \in 0 .. Len(s) : d = 1
    BY <1>2
  <2>2. /\ \A j \in 1 .. Len(t) : t[j].at = s[j + d].at /\ t[j].own = s[j + d].own
        /\ \A j \in 2 .. Len(t) : t[j] = s[j + d]
        /\ Len(t) = Len(s) - d
    BY <1>1, <1>3, <2>1
  <2> QED BY <1>2, <2>2, PathAbove
<1> QED BY <1>1, <1>4 DEF t

(* The configuration a path lacks completes it.                            *)
LEMMA PathReached ==
  ASSUME NEW f, NEW v \in Nat, NEW s \in Seq(FrameOf(v)), NEW seen, s # <<>>,
         Reaching(f, s, seen), NEW x \in FrameOf(v), x.at = s[1].at, x.own = v,
         v >= 1, f[v].ec[x.at] # None
  PROVE  /\ [s EXCEPT ![1] = x] \in Seq(FrameOf(v))
         /\ Path(f, [s EXCEPT ![1] = x], seen \cup {x.at})
<1> DEFINE t == [s EXCEPT ![1] = x]
           r == Tail(s)
<1>1. Len(s) \in Nat /\ Len(s) > 0 /\ (Len(s) = 1 \/ Len(s) > 1)
  BY LongEnough
<1>2. /\ t \in Seq(FrameOf(v)) /\ Len(t) = Len(s)
      /\ t[1] = x /\ \A j \in 2 .. Len(s) : t[j] = s[j]
  <2>1. \A j \in 1 .. Len(s) : t[j] = IF j = 1 THEN x ELSE s[j]
    BY <1>1, ExceptSeq
  <2> HIDE DEF t
  <2>2. t \in Seq(FrameOf(v)) /\ Len(t) = Len(s)
    BY <1>1, ExceptSeq DEF t
  <2> QED BY <1>1, <2>1, <2>2
<1>3. Len(r) = Len(s) - 1 /\ \A j \in 1 .. Len(r) : r[j] = s[j + 1]
  BY HeadTailProperties
<1> HIDE DEF t, r
<1>4. /\ \A j \in 2 .. Len(s) : j - 1 \in 1 .. Len(r) /\ t[j] = r[j - 1]
      /\ \A j \in 2 .. Len(s) : s[j] = r[j - 1]
  BY <1>1, <1>2, <1>3
<1>5. Path(f, r, seen) /\ x.at \notin seen
  BY DEF Reaching, r
<1>6. t[Len(t)].at = Subject
  <2>1. CASE Len(s) = 1
    <3>1. s[1].at = Subject
      BY <2>1 DEF Reaching
    <3> QED BY <1>2, <2>1, <3>1
  <2>2. CASE Len(s) > 1
    <3>1. r # <<>> /\ Len(s) \in 2 .. Len(s)
      BY <1>1, <1>3, <2>2, EmptySeq
    <3>2. r[Len(r)].at = Subject
      BY <1>5, <3>1 DEF Path
    <3>3. t[Len(s)] = r[Len(s) - 1] /\ Len(s) - 1 = Len(r)
      BY <1>3, <1>4, <3>1
    <3> QED BY <1>2, <3>2, <3>3
  <2> QED BY <1>1, <2>1, <2>2
<1>7. Len(t) <= MAX_RESOLVE_DEPTH + 1
  BY <1>2 DEF Reaching
<1>8. ASSUME NEW j \in 1 .. Len(t)
      PROVE  t[j].at \in seen \cup {x.at} /\ t[j].own >= 1 /\ f[t[j].own].ec[t[j].at] # None
  <2>1. CASE j = 1
    BY <1>2, <2>1
  <2>2. CASE j \in 2 .. Len(s)
    BY <1>4, <1>5, <2>2 DEF Path
  <2> QED BY <1>1, <1>2, <2>1, <2>2
<1>9. ASSUME NEW j \in 1 .. Len(t), NEW k \in 1 .. Len(t), j # k
      PROVE  t[j].at # t[k].at
  <2>1. \A i \in 2 .. Len(s) : t[i].at \in seen
    BY <1>4, <1>5 DEF Path
  <2>2. CASE j = 1 \/ k = 1
    BY <1>1, <1>2, <1>5, <1>9, <2>1, <2>2
  <2>3. CASE j # 1 /\ k # 1
    <3>1. /\ j - 1 \in 1 .. Len(r) /\ k - 1 \in 1 .. Len(r) /\ j - 1 # k - 1
          /\ t[j] = r[j - 1] /\ t[k] = r[k - 1]
      BY <1>1, <1>2, <1>4, <1>9, <2>3
    <3> QED BY <1>5, <3>1 DEF Path
  <2> QED BY <2>2, <2>3
<1>10. ASSUME NEW j \in 2 .. Len(t)
       PROVE  /\ t[j].authority = t[j - 1].at /\ t[j].about <= t[j - 1].own
              /\ Linked(f, t[j], Len(t) - j)
  <2>1. CASE j = 2
    <3>1. s[2] \in FrameOf(v)
      BY <1>1, <1>2, <2>1, ElementOfSeq
    <3>2. s[2].about <= v
      BY <3>1 DEF FrameOf
    <3> QED BY <1>1, <1>2, <2>1, <3>2 DEF Reaching
  <2>2. CASE j \in 3 .. Len(t)
    <3>1. PICK a \in 2 .. Len(r) :
            /\ a = j - 1 /\ t[j] = r[a] /\ t[j - 1] = r[a - 1]
            /\ Len(t) - j = Len(r) - a
      BY <1>1, <1>2, <1>3, <1>4, <2>2
    <3> QED BY <1>5, <3>1 DEF Path
  <2> QED BY <1>1, <1>2, <2>1, <2>2
<1>11. ASSUME NEW j \in 1 .. Len(t) - 1 PROVE t[j].at \notin TrustAnchors
  <2>1. CASE j = 1
    BY <1>1, <1>2, <2>1 DEF Reaching
  <2>2. CASE j # 1
    <3>1. j - 1 \in 1 .. Len(r) - 1 /\ t[j] = r[j - 1]
      BY <1>1, <1>2, <1>3, <1>4, <2>2
    <3> QED BY <1>5, <3>1 DEF Path
  <2> QED BY <2>1, <2>2
<1> QED BY <1>2, <1>6, <1>7, <1>8, <1>9, <1>10, <1>11 DEF Path, t

(* A frame that turns to the authority a, with the hints h after it.       *)
Turned(y, a, h) == [y EXCEPT !.authority = a, !.hints = h, !.theirs = 0]

LEMMA FrameTurned ==
  ASSUME NEW v \in Nat, NEW y \in FrameOf(v), NEW a \in Entity, NEW h \in Seq(Entity)
  PROVE  /\ Turned(y, a, h) \in FrameOf(v)
         /\ Turned(y, a, h).at = y.at /\ Turned(y, a, h).own = y.own
         /\ Turned(y, a, h).authority = a /\ Turned(y, a, h).hints = h
<1>1. PICK z : z = [y EXCEPT !.authority = a, !.hints = h]
  OBVIOUS
<1>2. /\ z \in FrameOf(v) /\ z.at = y.at /\ z.own = y.own
      /\ z.authority = a /\ z.hints = h
  BY <1>1 DEF FrameOf
<1>3. PICK x : x = [z EXCEPT !.theirs = 0]
  OBVIOUS
<1>4. /\ x \in FrameOf(v) /\ x.at = z.at /\ x.own = z.own
      /\ x.authority = z.authority /\ x.hints = z.hints
  BY <1>2, <1>3 DEF FrameOf
<1>5. x = Turned(y, a, h)
  BY <1>1, <1>3 DEF Turned
<1> QED BY <1>2, <1>4, <1>5

(* A frame whose configuration was fetched, that of whose authority was,   *)
(* and whose statement was, at version n.                                  *)
Owning(y, h, n)  == [y EXCEPT !.hints = h, !.own = n]
Knowing(y, n)    == [y EXCEPT !.theirs = n]
Vouched(y, n)    == [y EXCEPT !.about = n]
WithInner(s, x)  == [s EXCEPT ![1] = x]

LEMMA FrameOwning ==
  ASSUME NEW v \in Nat, NEW y \in FrameOf(v), NEW h \in Seq(Entity), NEW n \in 0 .. v
  PROVE  /\ Owning(y, h, n) \in FrameOf(v)
         /\ Owning(y, h, n).at = y.at /\ Owning(y, h, n).own = n
<1>1. PICK z : z = [y EXCEPT !.hints = h]
  OBVIOUS
<1>2. z \in FrameOf(v) /\ z.at = y.at
  BY <1>1 DEF FrameOf
<1>3. PICK x : x = [z EXCEPT !.own = n]
  OBVIOUS
<1>4. x \in FrameOf(v) /\ x.at = z.at /\ x.own = n
  BY <1>2, <1>3 DEF FrameOf
<1>5. x = Owning(y, h, n)
  BY <1>1, <1>3 DEF Owning
<1> QED BY <1>2, <1>4, <1>5

LEMMA FrameKnowing ==
  ASSUME NEW v \in Nat, NEW y \in FrameOf(v), NEW n \in 0 .. v
  PROVE  /\ Knowing(y, n) \in FrameOf(v)
         /\ Knowing(y, n).at = y.at /\ Knowing(y, n).own = y.own
         /\ Knowing(y, n).authority = y.authority /\ Knowing(y, n).theirs = n
<1>1. PICK x : x = [y EXCEPT !.theirs = n]
  OBVIOUS
<1>2. /\ x \in FrameOf(v) /\ x.at = y.at /\ x.own = y.own
      /\ x.authority = y.authority /\ x.theirs = n
  BY <1>1 DEF FrameOf
<1> QED BY <1>1, <1>2 DEF Knowing

LEMMA FrameVouched ==
  ASSUME NEW v \in Nat, NEW y \in FrameOf(v), NEW n \in 0 .. v
  PROVE  /\ Vouched(y, n) \in FrameOf(v)
         /\ Vouched(y, n).at = y.at /\ Vouched(y, n).own = y.own
         /\ Vouched(y, n).authority = y.authority /\ Vouched(y, n).about = n
<1>1. PICK x : x = [y EXCEPT !.about = n]
  OBVIOUS
<1>2. /\ x \in FrameOf(v) /\ x.at = y.at /\ x.own = y.own
      /\ x.authority = y.authority /\ x.about = n
  BY <1>1 DEF FrameOf
<1> QED BY <1>1, <1>2 DEF Vouched

LEMMA FrameNew ==
  ASSUME NEW v \in Nat, NEW e \in Entity
  PROVE  Frame(e) \in FrameOf(v) /\ Frame(e).at = e
<1>1. <<>> \in Seq(Entity)
  BY EmptySeq
<1>2. 0 \in 0 .. v /\ None \in Entity \cup {None}
  OBVIOUS
<1> QED BY <1>1, <1>2, Zenon DEF Frame, FrameOf

LEMMA LeastIn ==
  ASSUME NEW S, S \subseteq Nat, S # {}
  PROVE  (CHOOSE n \in S : \A m \in S : n <= m) \in S
  BY LeastExists

-----------------------------------------------------------------------------
(* The stack is a path.                                                    *)

(* The frame i, turned into x, has a new authority, which is one of its     *)
(* hints; the hints passed over, those of the frames inside it among them, *)
(* have been visited.                                                      *)
Passes(frames, seen, i, x) ==
  /\ Contains(frames[i].hints, x.authority)
  /\ \A a \in Entity : Contains(x.hints, a) => Contains(frames[i].hints, a)
  /\ \A a \in Entity : Contains(frames[i].hints, a) =>
       a \in seen \/ a = x.authority \/ Contains(x.hints, a)
  /\ \A j \in 1 .. i - 1 : \A a \in Entity : Contains(frames[j].hints, a) => a \in seen

(* The search turns to an authority not visited yet, and drops the frames  *)
(* inside the one it is a hint of.                                         *)
Turns(v, frames, seen) ==
  /\ ~late /\ pc' = "authority" /\ attempt' = 0 /\ answer' = answer
  /\ \E i \in 1 .. Len(frames), x \in FrameOf(v) :
       /\ x.at = frames[i].at /\ x.own = frames[i].own
       /\ x.authority \in Entity \ seen
       /\ stack' = <<x>> \o SubSeq(frames, i + 1, Len(frames))
       /\ Passes(frames, seen, i, x)

(* It ends: there is no hint left that has not been visited, or it is late. *)
Ends(frames, seen) ==
  /\ pc' = "done" /\ UNCHANGED <<stack, attempt>>
  /\ \/ /\ answer' = NoChain
        /\ \A i \in 1 .. Len(frames) : \A a \in Entity :
             Contains(frames[i].hints, a) => a \in seen
     \/ late /\ answer' = Unavailable

LEMMA HintPassed ==
  ASSUME NEW h \in Seq(Entity), NEW n \in 1 .. Len(h)
  PROVE  LET later == SubSeq(h, n + 1, Len(h))
         IN  /\ later \in Seq(Entity)
             /\ Contains(h, h[n])
             /\ \A a \in Entity : Contains(later, a) => Contains(h, a)
             /\ \A a \in Entity : Contains(h, a) =>
                  \/ \E k \in 1 .. n - 1 : h[k] = a
                  \/ a = h[n] \/ Contains(later, a)
<1>1. PICK later : later = SubSeq(h, n + 1, Len(h))
  OBVIOUS
<1>2. Len(h) \in Nat /\ \A k \in n + 1 .. Len(h) : h[k] \in Entity
  BY LenProperties, ElementOfSeq
<1>3. /\ later \in Seq(Entity)
      /\ Len(later) = IF n + 1 <= Len(h) THEN Len(h) - (n + 1) + 1 ELSE 0
      /\ \A k \in 1 .. Len(h) - (n + 1) + 1 : later[k] = h[n + 1 + k - 1]
  <2>1. n + 1 \in Int /\ Len(h) \in Int
    BY <1>2
  <2> QED BY <1>1, <1>2, <2>1, SubSeqProperties
<1>4. Len(later) = Len(h) - n /\ \A k \in 1 .. Len(later) : later[k] = h[n + k]
  BY <1>2, <1>3
<1>5. ASSUME NEW a \in Entity, Contains(later, a) PROVE Contains(h, a)
  <2>1. PICK k \in 1 .. Len(later) : later[k] = a
    BY <1>5 DEF Contains
  <2>2. n + k \in 1 .. Len(h) /\ h[n + k] = a
    BY <1>2, <1>4, <2>1
  <2> QED BY <2>2 DEF Contains
<1>6. ASSUME NEW a \in Entity, Contains(h, a)
      PROVE  \/ \E k \in 1 .. n - 1 : h[k] = a
             \/ a = h[n] \/ Contains(later, a)
  <2>1. PICK k \in 1 .. Len(h) : h[k] = a
    BY <1>6 DEF Contains
  <2>2. CASE k > n
    <3>1. PICK m \in 1 .. Len(later) : m = k - n
      BY <1>2, <1>4, <2>2
    <3>2. later[m] = h[n + m] /\ n + m = k
      BY <1>4, <3>1
    <3>3. later[m] = a
      BY <2>1, <3>2
    <3> QED BY <3>3 DEF Contains
  <2>3. CASE k <= n
    <3>1. k = n \/ k \in 1 .. n - 1
      BY <2>3
    <3> QED BY <2>1, <3>1
  <2> QED BY <2>2, <2>3
<1> QED BY <1>1, <1>3, <1>5, <1>6 DEF Contains

LEMMA Continues ==
  ASSUME NEW v \in Nat, NEW frames \in Seq(FrameOf(v)), NEW seen, Continue(frames, seen)
  PROVE  Ends(frames, seen) \/ Turns(v, frames, seen)
<1> DEFINE left(i)   == {k \in DOMAIN frames[i].hints : frames[i].hints[k] \notin seen}
           open      == {i \in DOMAIN frames : left(i) # {}}
           least(ns) == CHOOSE n \in ns : \A m \in ns : n <= m
           inner     == least(open)
           next      == least(left(inner))
           hints     == frames[inner].hints
           x         == [frames[inner] EXCEPT
                           !.authority = hints[next],
                           !.hints = SubSeq(hints, next + 1, Len(hints)),
                           !.theirs = 0]
           rest      == SubSeq(frames, inner + 1, Len(frames))
<1>1. IF open = {} THEN Reply(NoChain) ELSE Fetch("authority", <<x>> \o rest)
  BY DEF Continue
<1>0. DOMAIN frames = 1 .. Len(frames) /\ Len(frames) \in Nat
  BY LenProperties
(* A frame that is not open has no hint left that has not been visited.    *)
<1>6. ASSUME NEW i \in 1 .. Len(frames), i \notin open,
             NEW a \in Entity, Contains(frames[i].hints, a)
      PROVE  a \in seen
  <2>1. PICK k \in 1 .. Len(frames[i].hints) : frames[i].hints[k] = a
    BY <1>6 DEF Contains
  <2>2. frames[i] \in FrameOf(v)
    BY ElementOfSeq
  <2>3. frames[i].hints \in Seq(Entity)
    BY <2>2 DEF FrameOf
  <2>4. k \in DOMAIN frames[i].hints
    BY <2>3, LenProperties
  <2> QED BY <1>0, <1>6, <2>1, <2>4
<1>2. CASE late /\ Reply(Unavailable)
  BY <1>2 DEF Reply, Ends
<1>7. CASE open = {} /\ Reply(NoChain)
  <2>1. \A i \in 1 .. Len(frames) : \A a \in Entity :
          Contains(frames[i].hints, a) => a \in seen
    BY <1>6, <1>7
  <2> QED BY <1>7, <2>1 DEF Reply, Ends
<1>3. ASSUME open # {}, ~late, Fetch("authority", <<x>> \o rest)
      PROVE  \E i \in 1 .. Len(frames), y \in FrameOf(v) :
               /\ y.at = frames[i].at /\ y.own = frames[i].own
               /\ y.authority \in Entity \ seen
               /\ stack' = <<y>> \o SubSeq(frames, i + 1, Len(frames))
               /\ Passes(frames, seen, i, y)
  <2>1. DOMAIN frames = 1 .. Len(frames) /\ Len(frames) \in Nat
    BY <1>0
  <2>2. open \subseteq Nat
    BY <2>1
  <2>3. inner \in open
    BY <1>3, <2>2, LeastIn
  <2>4. inner \in 1 .. Len(frames) /\ left(inner) # {}
    BY <2>1, <2>3
  <2>15. \A j \in 1 .. inner - 1 : j \notin open
    <3>1. PICK n \in open : \A m \in open : n <= m
      BY <1>3, <2>2, LeastExists
    <3>2. \A m \in open : inner <= m
      <4> HIDE DEF open
      <4> QED BY <3>1
    <3>3. ASSUME NEW j \in 1 .. inner - 1 PROVE ~(inner <= j)
      BY <2>1, <2>4
    <3> HIDE DEF open, inner
    <3> QED BY <3>2, <3>3
  <2> HIDE DEF inner
  <2>5. frames[inner] \in FrameOf(v)
    BY <2>4, ElementOfSeq
  <2>6. hints \in Seq(Entity)
    BY <2>5 DEF FrameOf
  <2>7. DOMAIN hints = 1 .. Len(hints) /\ Len(hints) \in Nat
    BY <2>6, LenProperties
  <2>8. left(inner) \subseteq Nat
    BY <2>7
  <2>9. next \in left(inner)
    BY <2>4, <2>8, LeastIn
  <2>10. next \in 1 .. Len(hints) /\ hints[next] \notin seen
    BY <2>7, <2>9
  <2>16. \A k \in 1 .. next - 1 : hints[k] \in seen
    <3> DEFINE rests == left(inner)
    <3>1. PICK n \in rests : \A m \in rests : n <= m
      BY <2>4, <2>8, LeastExists
    <3>2. next = least(rests)
      OBVIOUS
    <3>3. \A m \in rests : next <= m
      <4> HIDE DEF rests, next
      <4> QED BY <3>1, <3>2
    <3>4. ASSUME NEW k \in 1 .. next - 1 PROVE k \in DOMAIN hints /\ ~(next <= k)
      <4> HIDE DEF next
      <4> QED BY <2>7, <2>10
    <3>5. ASSUME NEW k \in 1 .. next - 1, hints[k] \notin seen PROVE FALSE
      <4>1. k \in rests
        BY <3>4, <3>5
      <4> HIDE DEF rests, next
      <4> QED BY <3>3, <3>4, <4>1
    <3> QED BY <3>5
  <2> HIDE DEF next, left
  <2>11. hints[next] \in Entity \ seen
    BY <2>6, <2>10, ElementOfSeq
  <2>17. PICK later : later = SubSeq(hints, next + 1, Len(hints))
    OBVIOUS
  <2>12. /\ later \in Seq(Entity) /\ Contains(hints, hints[next])
         /\ \A a \in Entity : Contains(later, a) => Contains(hints, a)
         /\ \A a \in Entity : Contains(hints, a) =>
              \/ \E k \in 1 .. next - 1 : hints[k] = a
              \/ a = hints[next] \/ Contains(later, a)
    <3> HIDE DEF hints
    <3> QED BY <2>6, <2>10, <2>17, HintPassed
  <2>13. /\ x \in FrameOf(v) /\ x.at = frames[inner].at /\ x.own = frames[inner].own
         /\ x.authority = hints[next] /\ x.hints = later
    <3> DEFINE first == hints[next]
    <3>1. later \in Seq(Entity) /\ first \in Entity
      BY <2>11, <2>12
    <3>2. x = Turned(frames[inner], first, later)
      BY <2>17 DEF Turned
    <3> HIDE DEF x, first, hints, rest, open
    <3>3. /\ x \in FrameOf(v) /\ x.at = frames[inner].at /\ x.own = frames[inner].own
          /\ x.authority = first /\ x.hints = later
      BY <2>5, <3>1, <3>2, FrameTurned
    <3> QED BY <3>3 DEF first
  <2> HIDE DEF x
  <2>14. stack' = <<x>> \o SubSeq(frames, inner + 1, Len(frames))
    BY <1>3 DEF Fetch
  <2>18. Passes(frames, seen, inner, x)
    <3>1. \A j \in 1 .. inner - 1 : \A a \in Entity : Contains(frames[j].hints, a) => a \in seen
      <4>1. \A j \in 1 .. inner - 1 : j \in 1 .. Len(frames)
        BY <2>1, <2>4
      <4> HIDE DEF open
      <4> QED BY <1>6, <2>15, <4>1
    <3>2. \A a \in Entity : Contains(hints, a) =>
            a \in seen \/ a = hints[next] \/ Contains(later, a)
      BY <2>12, <2>16
    <3> QED BY <2>12, <2>13, <3>1, <3>2 DEF Passes
  <2> QED BY <2>4, <2>11, <2>13, <2>14, <2>18
<1>4. CASE open # {} /\ ~late /\ Fetch("authority", <<x>> \o rest)
  <2>1. pc' = "authority" /\ attempt' = 0 /\ answer' = answer
    BY <1>4 DEF Fetch
  <2> HIDE DEF open
  <2> QED BY <1>3, <1>4, <2>1 DEF Turns
<1>5. CASE open # {} /\ late /\ Fetch("authority", <<x>> \o rest)
  BY <1>2, <1>5 DEF Fetch
<1> HIDE DEF open
<1> QED BY <1>1, <1>2, <1>4, <1>5, <1>7

(***************************************************************************)
(* The stack between two fetches: a path, the innermost frame of which     *)
(* still lacks its configuration, or has turned to an authority that has   *)
(* not been visited.                                                       *)
(***************************************************************************)
StackInv ==
  /\ pc = "subject" => Reaching(fed, stack, visited)
  /\ pc \in {"authority", "statement"} =>
       Path(fed, stack, visited) /\ stack[1].authority \in Entity \ visited
  /\ pc = "statement" =>
       stack[1].theirs >= 1 /\ fed[stack[1].theirs].ec[stack[1].authority] # None

(* There is no verdict before the end, and the parties' publications are   *)
(* what they were at the start.                                            *)
SearchInv ==
  /\ TypeOK /\ fed \in Seq(Federation) /\ StackInv /\ StackIsPath
  /\ pc # "done" => answer = None

LEMMA Typed ==
  ASSUME TypeOK, fed \in Seq(Federation)
  PROVE  /\ version \in Nat /\ version >= 1 /\ version \in 1 .. Len(fed)
         /\ Len(fed) \in Nat
         /\ stack \in Seq(FrameOf(version)) /\ stack # <<>>
         /\ Len(stack) \in Nat /\ Len(stack) >= 1
         /\ stack[1] \in FrameOf(version)
         /\ Head(stack) = stack[1] /\ At = stack[1].at /\ Authority = stack[1].authority
         /\ At \in Entity /\ Published \in Federation
<1>1. version \in 1 .. Len(fed) /\ Len(fed) \in Nat
  BY LenProperties DEF TypeOK
<1>2. stack \in Seq(FrameOf(version)) /\ stack # <<>>
  BY DEF TypeOK, FrameOf
<1>3. Len(stack) \in Nat /\ Len(stack) > 0
  BY <1>2, LongEnough
<1>4. stack[1] \in FrameOf(version)
  <2>1. 1 \in 1 .. Len(stack)
    BY <1>3
  <2> QED BY <1>2, <2>1, ElementOfSeq
<1>5. Head(stack) = stack[1]
  BY <1>2
<1>6. stack[1].at \in Entity
  BY <1>4 DEF FrameOf
<1>7. fed[version] \in Federation
  BY <1>1, ElementOfSeq
<1> QED BY <1>1, <1>2, <1>3, <1>4, <1>5, <1>6, <1>7 DEF At, Authority, Published

(* What StackIsPath says of a path that is complete, or lacks one          *)
(* configuration.                                                          *)
Route(s) ==
  /\ s[Len(s)].at = Subject
  /\ \A i, j \in 1 .. Len(s) : i # j => s[i].at # s[j].at
  /\ \A i \in 2 .. Len(s) : s[i].authority = s[i - 1].at
  /\ \A i \in 1 .. Len(s) - 1 : s[i].at \notin TrustAnchors
  /\ Len(s) <= MAX_RESOLVE_DEPTH + 1

LEMMA RouteIsPath ==
  ASSUME stack \in Seq(FrameOf(version)), Len(stack) \in Nat, Route(stack)
  PROVE  StackIsPath
<1>1. DOMAIN stack = 1 .. Len(stack)
  BY LenProperties
<1>2. DOMAIN stack \ {1} = 2 .. Len(stack) /\ DOMAIN stack \ {Len(stack)} = 1 .. Len(stack) - 1
  BY <1>1
<1>3. Depth <= MAX_RESOLVE_DEPTH
  BY BoundsAssumption DEF Depth, Route
<1> QED BY <1>1, <1>2, <1>3 DEF StackIsPath, Route, Last

LEMMA PathIsRoute ==
  ASSUME NEW f, NEW s, NEW seen, Path(f, s, seen), s # <<>>
  PROVE  Route(s)
  BY DEF Path, Route

LEMMA ReachingIsRoute ==
  ASSUME NEW f, NEW v \in Nat, NEW s \in Seq(FrameOf(v)), NEW seen, s # <<>>,
         Reaching(f, s, seen)
  PROVE  Route(s)
<1> DEFINE r == Tail(s)
<1>1. Len(s) \in Nat /\ Len(s) > 0 /\ (Len(s) = 1 \/ Len(s) > 1)
  BY LongEnough
<1>2. /\ r \in Seq(FrameOf(v)) /\ Len(r) = Len(s) - 1
      /\ \A j \in 1 .. Len(r) : r[j] = s[j + 1]
  BY HeadTailProperties
<1> HIDE DEF r
<1>3. \A j \in 2 .. Len(s) : j - 1 \in 1 .. Len(r) /\ s[j] = r[j - 1]
  BY <1>1, <1>2
<1>4. Path(f, r, seen) /\ s[1].at \notin seen /\ Len(s) <= MAX_RESOLVE_DEPTH + 1
  BY DEF Reaching, r
<1>5. s[Len(s)].at = Subject
  <2>1. CASE Len(s) = 1
    <3>1. s[1].at = Subject
      BY <2>1 DEF Reaching
    <3> QED BY <2>1, <3>1
  <2>2. CASE Len(s) > 1
    <3>1. r # <<>> /\ Len(s) \in 2 .. Len(s)
      BY <1>1, <1>2, <2>2, EmptySeq
    <3>2. r[Len(r)].at = Subject
      BY <1>4, <3>1 DEF Path
    <3>3. s[Len(s)] = r[Len(s) - 1] /\ Len(s) - 1 = Len(r)
      BY <1>2, <1>3, <3>1
    <3> QED BY <3>2, <3>3
  <2> QED BY <1>1, <2>1, <2>2
<1>6. ASSUME NEW j \in 1 .. Len(s), NEW k \in 1 .. Len(s), j # k
      PROVE  s[j].at # s[k].at
  <2>1. \A i \in 2 .. Len(s) : s[i].at \in seen
    BY <1>3, <1>4 DEF Path
  <2>2. CASE j = 1 \/ k = 1
    BY <1>1, <1>4, <1>6, <2>1, <2>2
  <2>3. CASE j # 1 /\ k # 1
    <3>1. /\ j - 1 \in 1 .. Len(r) /\ k - 1 \in 1 .. Len(r) /\ j - 1 # k - 1
          /\ s[j] = r[j - 1] /\ s[k] = r[k - 1]
      BY <1>1, <1>3, <1>6, <2>3
    <3> QED BY <1>4, <3>1 DEF Path
  <2> QED BY <2>2, <2>3
<1>7. ASSUME NEW j \in 2 .. Len(s) PROVE s[j].authority = s[j - 1].at
  <2>1. CASE j = 2
    <3>1. s[2].authority = s[1].at
      BY <1>1, <2>1 DEF Reaching
    <3> QED BY <2>1, <3>1
  <2>2. CASE j \in 3 .. Len(s)
    <3>1. PICK a \in 2 .. Len(r) : a = j - 1 /\ s[j] = r[a] /\ s[j - 1] = r[a - 1]
      BY <1>1, <1>2, <1>3, <2>2
    <3> QED BY <1>4, <3>1 DEF Path
  <2> QED BY <1>1, <2>1, <2>2
<1>8. ASSUME NEW j \in 1 .. Len(s) - 1 PROVE s[j].at \notin TrustAnchors
  <2>1. CASE j = 1
    <3>1. s[1].at \notin TrustAnchors
      BY <1>1, <2>1 DEF Reaching
    <3> QED BY <2>1, <3>1
  <2>2. CASE j # 1
    <3>1. j - 1 \in 1 .. Len(r) - 1 /\ s[j] = r[j - 1]
      BY <1>1, <1>2, <1>3, <2>2
    <3> QED BY <1>4, <3>1 DEF Path
  <2> QED BY <2>1, <2>2
<1> QED BY <1>4, <1>5, <1>6, <1>7, <1>8 DEF Route

Verdict(n) ==
  [status : {200, 400, 503}, chain : Seq([iss : Entity, sub : Entity, v : 1 .. n]),
   metadata : Value \cup {None, Invalid}]

LEMMA NoChainIsVerdict ==
  ASSUME NEW n \in Nat
  PROVE  NoChain \in Verdict(n) /\ Unavailable \in Verdict(n)
<1>1. <<>> \in Seq([iss : Entity, sub : Entity, v : 1 .. n])
  BY EmptySeq
<1> QED BY <1>1 DEF NoChain, Unavailable, Verdict

(* The search ends: nothing moves but the verdict.                         *)
LEMMA Replied ==
  ASSUME SearchInv, NEW a \in Verdict(version), pc' = "done", answer' = a,
         UNCHANGED <<fed, version, stack, attempt, late>>,
         visited' \in SUBSET Entity, failures' \in Nat
  PROVE  SearchInv'
<1>1. TypeOK'
  BY DEF SearchInv, TypeOK, Verdict
<1>2. StackIsPath'
  BY DEF SearchInv, StackIsPath, Depth
<1>3. StackInv'
  BY DEF StackInv
<1> QED BY <1>1, <1>2, <1>3 DEF SearchInv

(* The search goes on with a stack fit for the next fetch.                 *)
LEMMA GoesOn ==
  ASSUME SearchInv, pc # "done", NEW s \in Seq(FrameOf(version)), s # <<>>, stack' = s,
         attempt' = 0, UNCHANGED <<fed, version, late, answer>>,
         visited' \in SUBSET Entity, failures' \in Nat,
         \/ pc' = "subject" /\ Reaching(fed, s, visited')
         \/ /\ pc' \in {"authority", "statement"} /\ Path(fed, s, visited')
            /\ s[1].authority \in Entity \ visited'
            /\ pc' = "statement" =>
                 s[1].theirs >= 1 /\ fed[s[1].theirs].ec[s[1].authority] # None
  PROVE  SearchInv'
<1>1. TypeOK'
  <2>1. /\ pc' \in {"subject", "authority", "statement", "done"}
        /\ version' \in DOMAIN fed' /\ visited' \subseteq Entity /\ late' \in BOOLEAN
        /\ answer' = None /\ failures' \in Nat /\ stack' # <<>>
    BY DEF SearchInv, TypeOK
  <2>2. attempt' \in 0 .. FETCH_MAX_RETRIES
    BY BoundsAssumption
  <2>3. stack' \in Seq(FrameOf(version))
    OBVIOUS
  <2>4. stack' \in Seq([at : Entity, own : 0 .. version', hints : Seq(Entity),
                       authority : Entity \cup {None}, theirs : 0 .. version',
                       about : 0 .. version'])
    BY <2>3 DEF FrameOf
  <2> QED BY <2>1, <2>2, <2>4 DEF TypeOK
<1>2. StackInv'
  BY DEF StackInv
<1>3. Route(s)
  BY PathIsRoute, ReachingIsRoute, Typed DEF SearchInv
<1>4. Len(s) \in Nat
  BY LenProperties
<1>5. StackIsPath'
  <2>1. DOMAIN s = 1 .. Len(s)
    BY LenProperties
  <2>2. DOMAIN s \ {1} = 2 .. Len(s) /\ DOMAIN s \ {Len(s)} = 1 .. Len(s) - 1
    BY <1>4, <2>1
  <2>3. Depth' <= MAX_RESOLVE_DEPTH
    BY <1>3, <1>4, BoundsAssumption DEF Depth, Route
  <2> QED BY <1>3, <2>1, <2>2, <2>3 DEF StackIsPath, Route, Last
<1> QED BY <1>1, <1>2, <1>5 DEF SearchInv

LEMMA Continued ==
  ASSUME SearchInv, pc # "done", NEW frames \in Seq(FrameOf(version)),
         NEW seen \in SUBSET Entity, Path(fed, frames, seen), Continue(frames, seen),
         visited' = seen, UNCHANGED <<fed, version, late>>, failures' \in Nat
  PROVE  SearchInv'
<1>1. version \in Nat
  BY Typed DEF SearchInv
<1>2. CASE Ends(frames, seen)
  BY <1>1, <1>2, NoChainIsVerdict, Replied DEF Ends
<1>3. ASSUME NEW i \in 1 .. Len(frames), NEW x \in FrameOf(version),
             x.at = frames[i].at, x.own = frames[i].own, x.authority \in Entity \ seen,
             stack' = <<x>> \o SubSeq(frames, i + 1, Len(frames)),
             pc' = "authority", attempt' = 0, answer' = answer
      PROVE  SearchInv'
  <2>1. PICK s : s = <<x>> \o SubSeq(frames, i + 1, Len(frames))
    OBVIOUS
  <2>2. s \in Seq(FrameOf(version)) /\ Len(s) = Len(frames) - i + 1 /\ s[1] = x
    BY <2>1, Spliced
  <2>3. Path(fed, s, seen)
    BY <1>1, <1>3, <2>1, PathSpliced
  <2>4. s # <<>>
    <3>1. Len(frames) \in Nat
      BY LenProperties
    <3>2. Len(s) # 0
      BY <2>2, <3>1
    <3> QED BY <3>2
  <2>5. stack' = s /\ s[1].authority \in Entity \ seen
    BY <1>3, <2>1, <2>2
  <2> QED BY <1>3, <2>2, <2>3, <2>4, <2>5, GoesOn
<1>4. CASE Turns(version, frames, seen)
  BY <1>3, <1>4 DEF Turns
<1> QED BY <1>1, <1>2, <1>4, Continues

LEMMA SubjectStep == SearchInv /\ GotSubject => SearchInv'
<1> SUFFICES ASSUME SearchInv, GotSubject PROVE SearchInv'
  OBVIOUS
<1>1. /\ version \in Nat /\ version >= 1 /\ Published \in Federation
      /\ stack \in Seq(FrameOf(version)) /\ stack # <<>>
      /\ stack[1] \in FrameOf(version) /\ At = stack[1].at /\ At \in Entity
      /\ Len(stack) \in Nat /\ Len(stack) >= 1
  BY Typed DEF SearchInv
<1>2. Reaching(fed, stack, visited) /\ pc # "done" /\ visited \in SUBSET Entity
  BY DEF GotSubject, SearchInv, StackInv, TypeOK
<1>3. UNCHANGED <<fed, version, late>> /\ failures' \in Nat
  BY DEF GotSubject, SearchInv, TypeOK
<1>4. PICK seen \in SUBSET Entity : seen = visited \cup {At} /\ visited' = seen
  BY <1>1, <1>2 DEF GotSubject
<1>5. PICK ec \in Configuration : ec = Published.ec[At]
  BY <1>1 DEF GotSubject, Federation
<1>6. CASE ~Sound(ec)
  <2>1. Reply(NoChain)
    BY <1>5, <1>6 DEF GotSubject
  <2> QED BY <1>1, <1>3, <1>4, <2>1, NoChainIsVerdict, Replied DEF Reply
<1>7. CASE Sound(ec)
  <2>1. PICK frames : frames = [stack EXCEPT ![1].hints = ec.hints, ![1].own = version]
    OBVIOUS
  <2>2. Continue(frames, seen)
    BY <1>4, <1>5, <1>7, <2>1 DEF GotSubject
  <2>3. PICK x : x = Owning(stack[1], ec.hints, version)
    OBVIOUS
  <2>4. x \in FrameOf(version) /\ x.at = At /\ x.own = version
    <3>1. ec.hints \in Seq(Entity) /\ version \in 0 .. version
      BY <1>1 DEF Configuration
    <3> QED BY <1>1, <2>3, <3>1, FrameOwning
  <2>5. frames = [stack EXCEPT ![1] = x]
    <3>1. DOMAIN stack = 1 .. Len(stack) /\ 1 \in DOMAIN stack
      BY <1>1, LenProperties
    <3> QED BY <2>1, <2>3, <3>1 DEF Owning
  <2>6. fed[version].ec[x.at] # None
    BY <1>5, <2>4 DEF Published, GotSubject
  <2>7. frames \in Seq(FrameOf(version)) /\ Path(fed, frames, visited \cup {x.at})
    BY <1>1, <1>2, <2>4, <2>5, <2>6, PathReached
  <2>8. Path(fed, frames, seen)
    BY <1>4, <2>4, <2>7
  <2> QED BY <1>2, <1>3, <1>4, <2>2, <2>7, <2>8, Continued
<1> QED BY <1>6, <1>7

(* Noting what has been fetched of its authority leaves a frame its path.  *)
LEMMA PathNoted ==
  ASSUME NEW f, NEW v \in Nat, NEW s \in Seq(FrameOf(v)), NEW seen, s # <<>>,
         Path(f, s, seen), NEW x \in FrameOf(v), x.at = s[1].at, x.own = s[1].own
  PROVE  /\ WithInner(s, x) \in Seq(FrameOf(v))
         /\ Len(WithInner(s, x)) = Len(s) /\ WithInner(s, x) # <<>>
         /\ WithInner(s, x)[1] = x
         /\ Path(f, WithInner(s, x), seen)
<1>0. PICK t : t = WithInner(s, x)
  OBVIOUS
<1>1. Len(s) \in Nat /\ Len(s) > 0
  BY LongEnough
<1>2. /\ t \in Seq(FrameOf(v)) /\ Len(t) = Len(s)
      /\ \A j \in 1 .. Len(s) : t[j] = IF j = 1 THEN x ELSE s[j]
  BY <1>0, <1>1, ExceptSeq DEF WithInner
<1>3. t[1] = x /\ \A j \in 2 .. Len(t) : t[j] = s[j]
  BY <1>1, <1>2
<1>4. PICK d \in 0 .. Len(s) : d = 0
  BY <1>1
<1>5. /\ Len(t) = Len(s) - d
      /\ \A j \in 1 .. Len(t) : t[j].at = s[j + d].at /\ t[j].own = s[j + d].own
      /\ \A j \in 2 .. Len(t) : t[j] = s[j + d]
  BY <1>1, <1>2, <1>4
<1>6. Path(f, t, seen)
  BY <1>1, <1>2, <1>5, PathAbove
<1>7. t # <<>>
  BY <1>1, <1>2
<1> QED BY <1>0, <1>2, <1>3, <1>6, <1>7

LEMMA AuthorityStep == SearchInv /\ GotAuthority => SearchInv'
<1> SUFFICES ASSUME SearchInv, GotAuthority PROVE SearchInv'
  OBVIOUS
<1>1. /\ version \in Nat /\ version >= 1 /\ Published \in Federation
      /\ stack \in Seq(FrameOf(version)) /\ stack # <<>>
      /\ stack[1] \in FrameOf(version) /\ Authority = stack[1].authority
      /\ Len(stack) \in Nat /\ Len(stack) >= 1
  BY Typed DEF SearchInv
<1>2. /\ Path(fed, stack, visited) /\ pc # "done" /\ visited \in SUBSET Entity
      /\ Authority \in Entity \ visited
  BY <1>1 DEF GotAuthority, SearchInv, StackInv, TypeOK
<1>3. UNCHANGED <<fed, version, late, visited>> /\ failures' \in Nat
  BY DEF GotAuthority, SearchInv, TypeOK
<1>4. CASE Continue(stack, visited)
  BY <1>1, <1>2, <1>3, <1>4, Continued
<1>5. CASE Fetch("statement", [stack EXCEPT ![1].theirs = version])
  <2>1. CASE late
    BY <1>1, <1>2, <1>3, <1>5, <2>1, NoChainIsVerdict, Replied DEF Fetch, Reply
  <2>2. CASE ~late
    <3>1. PICK x : x = Knowing(stack[1], version)
      OBVIOUS
    <3>2. /\ x \in FrameOf(version) /\ x.at = stack[1].at /\ x.own = stack[1].own
          /\ x.authority = Authority /\ x.theirs = version
      <4>1. version \in 0 .. version
        BY <1>1
      <4> QED BY <1>1, <3>1, <4>1, FrameKnowing
    <3>3. PICK t : t = WithInner(stack, x)
      OBVIOUS
    <3>4. [stack EXCEPT ![1].theirs = version] = t
      BY <3>1, <3>3 DEF WithInner, Knowing
    <3>5. t \in Seq(FrameOf(version)) /\ t[1] = x /\ t # <<>> /\ Path(fed, t, visited)
      <4>1. version \in Nat /\ stack \in Seq(FrameOf(version)) /\ stack # <<>>
        BY <1>1
      <4>2. Path(fed, stack, visited)
        BY <1>2
      <4>3. x \in FrameOf(version) /\ x.at = stack[1].at /\ x.own = stack[1].own
        BY <3>2
      <4>4. /\ WithInner(stack, x) \in Seq(FrameOf(version))
            /\ Len(WithInner(stack, x)) = Len(stack) /\ WithInner(stack, x) # <<>>
            /\ WithInner(stack, x)[1] = x
            /\ Path(fed, WithInner(stack, x), visited)
        BY <4>1, <4>2, <4>3, PathNoted
      <4> QED BY <3>3, <4>4
    <3>6. fed[version].ec[Authority] # None
      BY DEF GotAuthority, Published
    <3>7. pc' = "statement" /\ stack' = t /\ attempt' = 0 /\ answer' = answer
      BY <1>5, <2>2, <3>4 DEF Fetch
    <3> QED BY <1>1, <1>2, <1>3, <3>2, <3>5, <3>6, <3>7, GoesOn
  <2> QED BY <2>1, <2>2
<1> QED BY <1>4, <1>5 DEF GotAuthority

LEMMA FailureStep == SearchInv /\ (FailPermanently \/ FailForNow) => SearchInv'
<1> SUFFICES ASSUME SearchInv, FailPermanently \/ FailForNow PROVE SearchInv'
  OBVIOUS
<1>1. /\ version \in Nat /\ stack \in Seq(FrameOf(version)) /\ stack # <<>>
      /\ Len(stack) \in Nat
  BY Typed DEF SearchInv
<1>2. pc # "done" /\ UNCHANGED <<fed, version, late, visited>> /\ visited \in SUBSET Entity
  BY DEF FailPermanently, FailForNow, SearchInv, TypeOK
<1>3. failures' \in Nat
  BY DEF FailPermanently, FailForNow, SearchInv, TypeOK
<1>4. CASE FailPermanently
  <2>1. PICK t : t = Tail(stack)
    OBVIOUS
  <2>2. t \in Seq(FrameOf(version)) /\ Path(fed, t, visited)
    <3>1. CASE pc = "subject"
      BY <1>1, <2>1, <3>1, HeadTailProperties DEF SearchInv, StackInv, Reaching
    <3>2. CASE pc # "subject"
      <4>1. Path(fed, stack, visited)
        BY <1>2, <3>2 DEF SearchInv, StackInv, TypeOK
      <4> QED BY <1>1, <2>1, <4>1, PathTail
    <3> QED BY <3>1, <3>2
  <2>3. Continue(t, visited)
    BY <1>4, <2>1 DEF FailPermanently
  <2> QED BY <1>2, <1>3, <2>2, <2>3, Continued
<1>5. CASE FailForNow /\ attempt < FETCH_MAX_RETRIES
  <2>1. UNCHANGED <<pc, stack, answer>> /\ attempt' = attempt + 1
    BY <1>5 DEF FailForNow
  <2>2. TypeOK'
    BY <1>2, <1>3, <1>5, <2>1, BoundsAssumption DEF SearchInv, TypeOK
  <2>3. StackInv' /\ StackIsPath'
    BY <1>2, <2>1 DEF SearchInv, StackInv, StackIsPath, Depth
  <2> QED BY <1>2, <2>1, <2>2, <2>3 DEF SearchInv
<1>6. CASE FailForNow /\ ~(attempt < FETCH_MAX_RETRIES)
  BY <1>1, <1>2, <1>3, <1>6, NoChainIsVerdict, Replied DEF FailForNow, Reply
<1> QED BY <1>4, <1>5, <1>6

(* What surrounds the search leaves the stack alone.                       *)
LEMMA SurroundingsStep ==
  SearchInv /\ (DeadlinePasses \/ Change \/ Done \/ UNCHANGED vars) => SearchInv'
<1> SUFFICES ASSUME SearchInv, DeadlinePasses \/ Change \/ Done \/ UNCHANGED vars
             PROVE  SearchInv'
  OBVIOUS
<1>1. UNCHANGED <<fed, pc, stack, visited, attempt, answer, failures>>
  BY DEF DeadlinePasses, Change, Done, vars
<1>2. StackInv' /\ StackIsPath' /\ (pc' # "done" => answer' = None) /\ fed' \in Seq(Federation)
  BY <1>1 DEF SearchInv, StackInv, StackIsPath, Depth
<1>3. late' \in BOOLEAN
  BY DEF DeadlinePasses, Change, Done, vars, SearchInv, TypeOK
<1>4. CASE version' = version
  BY <1>1, <1>2, <1>3, <1>4 DEF SearchInv, TypeOK
<1>5. CASE Change
  <2>1. /\ version \in 1 .. Len(fed) /\ Len(fed) \in Nat /\ version \in Nat
        /\ DOMAIN fed = 1 .. Len(fed)
    BY Typed, LenProperties DEF SearchInv
  <2>2. version' \in DOMAIN fed'
    BY <1>1, <1>5, <2>1 DEF Change
  <2>3. stack \in Seq(FrameOf(version + 1))
    BY <2>1, Typed, FramesGrow DEF SearchInv
  <2>4. stack' \in Seq([at : Entity, own : 0 .. version', hints : Seq(Entity),
                       authority : Entity \cup {None}, theirs : 0 .. version',
                       about : 0 .. version'])
    BY <1>1, <1>5, <2>3 DEF FrameOf, Change
  <2>5. answer' = None
    BY <1>1, <1>5 DEF Change, SearchInv
  <2>6. TypeOK'
    BY <1>1, <1>3, <2>2, <2>4, <2>5 DEF SearchInv, TypeOK
  <2> QED BY <1>2, <2>6 DEF SearchInv
<1> QED BY <1>4, <1>5 DEF DeadlinePasses, Done, vars

-----------------------------------------------------------------------------
(* The chain that is found.                                                *)

LinkOf(n) == [iss : Entity, sub : Entity, v : 1 .. n]

LEMMA LinkFields ==
  ASSUME NEW n \in Nat, NEW a \in Entity, NEW b \in Entity, NEW v \in 1 .. n
  PROVE  /\ Link(a, b, v) \in LinkOf(n)
         /\ Link(a, b, v).iss = a /\ Link(a, b, v).sub = b /\ Link(a, b, v).v = v
  BY DEF Link, LinkOf

(* Every frame of a path but the innermost has been told of by its         *)
(* authority, which is the frame inside it.                                *)
LEMMA FramesTold ==
  ASSUME SearchInv, pc = "statement"
  PROVE  /\ \A k \in 1 .. Len(stack) : stack[k] \in FrameOf(version) /\ stack[k].own \in 1 .. version
         /\ \A k \in 2 .. Len(stack) :
              stack[k].authority \in Entity /\ stack[k].about \in 1 .. version
         /\ Authority \in Entity \ visited /\ Authority = stack[1].authority
         /\ stack[1].theirs \in 1 .. version
<1>1. /\ version \in Nat /\ stack \in Seq(FrameOf(version)) /\ Len(stack) \in Nat
      /\ Len(stack) >= 1 /\ Authority = stack[1].authority
      /\ stack[1] \in FrameOf(version)
  BY Typed DEF SearchInv
<1>2. Path(fed, stack, visited) /\ Authority \in Entity \ visited /\ stack[1].theirs >= 1
  BY <1>1 DEF SearchInv, StackInv
<1>3. ASSUME NEW k \in 1 .. Len(stack)
      PROVE  /\ stack[k] \in FrameOf(version) /\ stack[k].own \in 1 .. version
             /\ stack[k].at \in Entity /\ stack[k].about \in 0 .. version
  <2>1. stack[k] \in FrameOf(version)
    BY <1>1, ElementOfSeq
  <2>2. stack[k].own >= 1
    BY <1>2 DEF Path
  <2>3. stack[k].own \in 0 .. version /\ stack[k].at \in Entity /\ stack[k].about \in 0 .. version
    BY <2>1 DEF FrameOf
  <2> QED BY <1>1, <2>1, <2>2, <2>3
<1>4. ASSUME NEW k \in 2 .. Len(stack)
      PROVE  stack[k].authority \in Entity /\ stack[k].about \in 1 .. version
  <2>1. stack[k].authority = stack[k - 1].at /\ Linked(fed, stack[k], Len(stack) - k)
    BY <1>2 DEF Path
  <2>2. k \in 1 .. Len(stack) /\ k - 1 \in 1 .. Len(stack)
    BY <1>1
  <2>3. stack[k].own <= stack[k].about
    BY <2>1 DEF Linked
  <2>4. stack[k - 1].at \in Entity
    BY <1>3, <2>2
  <2>5. stack[k].own \in 1 .. version /\ stack[k].about \in 0 .. version
    BY <1>3, <2>2
  <2> QED BY <1>1, <2>1, <2>3, <2>4, <2>5
<1>5. stack[1].theirs \in 1 .. version
  <2>1. stack[1].theirs \in 0 .. version
    BY <1>1 DEF FrameOf
  <2> QED BY <1>1, <1>2, <2>1
<1> QED BY <1>1, <1>2, <1>3, <1>4, <1>5

LEMMA ChainShape ==
  ASSUME SearchInv, pc = "statement"
  PROVE  /\ FoundChain \in Seq(LinkOf(version)) /\ Len(FoundChain) = Len(stack) + 2
         /\ FoundChain[1] = Link(Subject, Subject, stack[Len(stack)].own)
         /\ \A i \in 2 .. Len(stack) :
              LET x == stack[Len(stack) + 2 - i]
              IN  FoundChain[i] = Link(x.authority, x.at, x.about)
         /\ FoundChain[Len(stack) + 1] = Link(Authority, At, version)
         /\ FoundChain[Len(stack) + 2] = Link(Authority, Authority, stack[1].theirs)
<1>1. /\ version \in Nat /\ version >= 1 /\ stack \in Seq(FrameOf(version))
      /\ Len(stack) \in Nat /\ Len(stack) >= 1 /\ At = stack[1].at /\ At \in Entity
  BY Typed DEF SearchInv
<1> DEFINE n      == Len(stack)
           S      == LinkOf(version)
           head   == <<Link(Subject, Subject, stack[n].own)>>
           told(x) == Link(x.authority, x.at, x.about)
           middle == [i \in 1 .. n - 1 |-> told(stack[n + 1 - i])]
           end    == <<Link(stack[1].authority, stack[1].at, version),
                       Link(Authority, Authority, stack[1].theirs)>>
<1>3. FoundChain = head \o middle \o end
  BY DEF FoundChain
<1>2. n \in Nat /\ n >= 1 /\ n = Len(stack)
  BY <1>1
<1> HIDE DEF n
<1>4. Link(Subject, Subject, stack[n].own) \in S
  <2>1. stack[n].own \in 1 .. version
    BY <1>2, FramesTold
  <2> QED BY <1>1, <2>1, LinkFields, SubjectAssumption
<1>5. head \in Seq(S) /\ Len(head) = 1 /\ head[1] = Link(Subject, Subject, stack[n].own)
  <2> DEFINE l == Link(Subject, Subject, stack[n].own)
  <2> HIDE DEF l
  <2>1. l \in S
    BY <1>4 DEF l
  <2> HIDE DEF S
  <2>2. <<l>> \in Seq(S) /\ Len(<<l>>) = 1 /\ <<l>>[1] = l
    BY <2>1
  <2> QED BY <2>2 DEF l
<1>6. /\ middle \in Seq(S) /\ Len(middle) = n - 1
      /\ \A i \in 1 .. n - 1 : middle[i] = told(stack[n + 1 - i])
  <2>1. ASSUME NEW i \in 1 .. n - 1 PROVE told(stack[n + 1 - i]) \in S
    <3>1. PICK k \in 2 .. n : k = n + 1 - i
      BY <1>2
    <3>2. /\ stack[k].authority \in Entity /\ stack[k].at \in Entity
          /\ stack[k].about \in 1 .. version
      BY <1>2, FramesTold DEF FrameOf
    <3>3. told(stack[k]) \in S
      BY <1>1, <3>2, LinkFields
    <3> QED BY <3>1, <3>3
  <2> HIDE DEF S, told
  <2>2. middle \in [1 .. n - 1 -> S]
    BY <2>1
  <2>3. n - 1 \in Nat
    BY <1>2
  <2> QED BY <2>2, <2>3
<1>7. end \in Seq(S) /\ Len(end) = 2 /\ end[1] = Link(Authority, At, version)
      /\ end[2] = Link(Authority, Authority, stack[1].theirs)
  <2> DEFINE a == Link(stack[1].authority, stack[1].at, version)
             b == Link(Authority, Authority, stack[1].theirs)
  <2>1. a \in S /\ b \in S
    <3>1. Authority \in Entity /\ stack[1].theirs \in 1 .. version /\ version \in 1 .. version
      BY <1>1, FramesTold
    <3>2. stack[1].authority = Authority
      BY FramesTold
    <3> QED BY <1>1, <3>1, <3>2, LinkFields
  <2> HIDE DEF S, a, b
  <2>2. <<a, b>> \in Seq(S) /\ Len(<<a, b>>) = 2 /\ <<a, b>>[1] = a /\ <<a, b>>[2] = b
    BY <2>1
  <2> QED BY <1>1, <2>2, FramesTold DEF a, b
<1> HIDE DEF S, head, middle, end, told
<1> DEFINE low == head \o middle
<1>8. /\ low \in Seq(S) /\ Len(low) = n
      /\ \A i \in 1 .. n : low[i] = IF i <= 1 THEN head[i] ELSE middle[i - 1]
  <2>1. /\ low \in Seq(S) /\ Len(low) = Len(head) + Len(middle)
        /\ \A i \in 1 .. Len(head) + Len(middle) :
             low[i] = IF i <= Len(head) THEN head[i] ELSE middle[i - Len(head)]
    BY <1>5, <1>6, ConcatProperties
  <2> HIDE DEF low
  <2> QED BY <1>2, <1>5, <1>6, <2>1
<1> HIDE DEF low
<1>9. PICK c : c = low \o end
  OBVIOUS
<1>10. /\ c \in Seq(S) /\ Len(c) = n + 2
       /\ \A i \in 1 .. n + 2 : c[i] = IF i <= n THEN low[i] ELSE end[i - n]
  <2>1. /\ c \in Seq(S) /\ Len(c) = Len(low) + Len(end)
        /\ \A i \in 1 .. Len(low) + Len(end) :
             c[i] = IF i <= Len(low) THEN low[i] ELSE end[i - Len(low)]
    BY <1>7, <1>8, <1>9, ConcatProperties
  <2> QED BY <1>2, <1>7, <1>8, <2>1
<1>11. c = FoundChain
  BY <1>3, <1>9 DEF low
<1>12. c[1] = head[1]
  BY <1>2, <1>8, <1>10
<1>13. ASSUME NEW i \in 2 .. n PROVE c[i] = told(stack[n + 2 - i])
  <2>1. c[i] = middle[i - 1]
    BY <1>2, <1>8, <1>10
  <2>2. PICK k \in 1 .. n - 1 : k = i - 1 /\ n + 1 - k = n + 2 - i
    BY <1>2
  <2>3. middle[k] = told(stack[n + 1 - k])
    BY <1>6
  <2> QED BY <2>1, <2>2, <2>3
<1>14. c[n + 1] = end[1] /\ c[n + 2] = end[2]
  <2>1. PICK i \in 1 .. n + 2, j \in 1 .. n + 2 :
          i = n + 1 /\ j = n + 2 /\ ~(i <= n) /\ ~(j <= n) /\ i - n = 1 /\ j - n = 2
    BY <1>2
  <2>2. c[i] = end[i - n] /\ c[j] = end[j - n]
    BY <1>10, <2>1
  <2> QED BY <2>1, <2>2
<1> QED BY <1>2, <1>5, <1>7, <1>10, <1>11, <1>12, <1>13, <1>14 DEF S, told

(* A chain from the subject to a trust anchor, every part of which was     *)
(* fetched after the one before, and the configuration of the subject of   *)
(* every statement in between.                                             *)
LinkedChain(c) ==
  /\ c \in Seq(LinkOf(version)) /\ Len(c) > 2 /\ Len(c) <= MAX_RESOLVE_DEPTH + 3
  /\ c[1].iss = Subject /\ c[1].sub = Subject /\ fed[c[1].v].ec[Subject] # None
  /\ c[Len(c)].iss = c[Len(c)].sub /\ c[Len(c)].iss \in TrustAnchors
  /\ fed[c[Len(c)].v].ec[c[Len(c)].iss] # None
  /\ \A i \in 2 .. Len(c) : c[i].sub = c[i - 1].iss
  /\ \A i \in 2 .. Len(c) - 1 :
       LET ss == fed[c[i].v].ss[<<c[i].iss, c[i].sub>>]
       IN  /\ c[i].iss # c[i].sub
           /\ ss \notin {None, Invalid} /\ Admits(ss, i - 2)
           /\ \E n \in c[i - 1].v .. c[i].v :
                fed[n].ec[c[i].sub] # None /\ fed[n].ec[c[i].sub].signer \in ss.keys
  /\ \A i, j \in 2 .. Len(c) - 1 : i # j => c[i].sub # c[j].sub
  /\ fed[c[Len(c) - 1].v].ss[<<c[Len(c) - 1].iss, c[Len(c) - 1].sub>>].signer
       \in fed[c[Len(c)].v].ec[c[Len(c)].iss].keys

(* When the statement about a frame was fetched, if now is when that about *)
(* the innermost one is.                                                   *)
Told(k) == IF k = 1 THEN version ELSE stack[k].about

LEMMA FramesVouched ==
  ASSUME SearchInv, pc = "statement", Published.ss[<<Authority, At>>] \notin {None, Invalid},
         Binds(Published.ss[<<Authority, At>>]), Admits(Published.ss[<<Authority, At>>], Depth)
  PROVE  \A k \in 1 .. Len(stack) :
           LET ss == fed[Told(k)].ss[<<stack[k].authority, stack[k].at>>]
           IN  /\ stack[k].at \in Entity /\ stack[k].authority \in Entity
               /\ stack[k].own \in 1 .. version /\ Told(k) \in 1 .. version
               /\ stack[k].own <= Told(k)
               /\ stack[k].authority # stack[k].at
               /\ ss \notin {None, Invalid} /\ Admits(ss, Len(stack) - k)
               /\ fed[stack[k].own].ec[stack[k].at] # None
               /\ fed[stack[k].own].ec[stack[k].at].signer \in ss.keys
               /\ k > 1 => /\ stack[k].authority = stack[k - 1].at
                           /\ Told(k) <= stack[k - 1].own
<1>1. /\ version \in Nat /\ version >= 1 /\ stack \in Seq(FrameOf(version))
      /\ Len(stack) \in Nat /\ Len(stack) >= 1 /\ At = stack[1].at
      /\ Head(stack) = stack[1] /\ Authority = stack[1].authority
  BY Typed DEF SearchInv
<1>2. Path(fed, stack, visited) /\ Authority \in Entity \ visited
  BY <1>1 DEF SearchInv, StackInv
<1>3. ASSUME NEW k \in 1 .. Len(stack)
      PROVE  /\ stack[k].at \in Entity /\ stack[k].own \in 1 .. version
             /\ fed[stack[k].own].ec[stack[k].at] # None /\ stack[k].at \in visited
  BY <1>2, FramesTold DEF FrameOf, Path
<1>4. ASSUME NEW k \in 2 .. Len(stack)
      PROVE  /\ Told(k) = stack[k].about /\ Told(k) \in 1 .. version
             /\ stack[k].authority = stack[k - 1].at /\ Told(k) <= stack[k - 1].own
             /\ stack[k].authority \in Entity /\ stack[k].authority # stack[k].at
             /\ Linked(fed, stack[k], Len(stack) - k)
  <2>1. Told(k) = stack[k].about
    BY DEF Told
  <2>2. stack[k].authority \in Entity /\ stack[k].about \in 1 .. version
    BY FramesTold
  <2>3. /\ stack[k].authority = stack[k - 1].at /\ stack[k].about <= stack[k - 1].own
        /\ Linked(fed, stack[k], Len(stack) - k)
    BY <1>2 DEF Path
  <2>4. stack[k - 1].at # stack[k].at
    <3>1. PICK j \in 1 .. Len(stack) : j = k - 1 /\ j # k /\ k \in 1 .. Len(stack)
      BY <1>1
    <3> QED BY <1>2, <3>1 DEF Path
  <2> QED BY <2>1, <2>2, <2>3, <2>4
<1>5. ASSUME NEW k \in 2 .. Len(stack)
      PROVE  LET ss == fed[Told(k)].ss[<<stack[k].authority, stack[k].at>>]
             IN  /\ stack[k].own <= Told(k)
                 /\ ss \notin {None, Invalid} /\ Admits(ss, Len(stack) - k)
                 /\ fed[stack[k].own].ec[stack[k].at].signer \in ss.keys
  BY <1>4 DEF Linked
<1>6. LET ss == fed[version].ss[<<stack[1].authority, stack[1].at>>]
      IN  /\ ss \notin {None, Invalid} /\ Admits(ss, Len(stack) - 1)
          /\ fed[stack[1].own].ec[stack[1].at].signer \in ss.keys
  BY <1>1 DEF Published, Binds, Depth
<1>7. ASSUME NEW k \in 1 .. Len(stack), k = 1
      PROVE  /\ Told(k) = version /\ version \in 1 .. version /\ stack[1].own <= version
             /\ stack[1].authority \in Entity /\ stack[1].authority # stack[1].at
  <2>1. Told(k) = version
    BY <1>7 DEF Told
  <2>2. stack[1].own \in 1 .. version /\ stack[1].at \in visited
    BY <1>3, <1>7
  <2> QED BY <1>1, <1>2, <2>1, <2>2
<1>8. \A k \in 1 .. Len(stack) : k = 1 \/ k \in 2 .. Len(stack)
  BY <1>1
<1> HIDE DEF Told, Admits
<1>9. ASSUME NEW k \in 1 .. Len(stack)
      PROVE  LET ss == fed[Told(k)].ss[<<stack[k].authority, stack[k].at>>]
             IN  /\ stack[k].authority \in Entity /\ Told(k) \in 1 .. version
                 /\ stack[k].own <= Told(k)
                 /\ stack[k].authority # stack[k].at
                 /\ ss \notin {None, Invalid} /\ Admits(ss, Len(stack) - k)
                 /\ fed[stack[k].own].ec[stack[k].at].signer \in ss.keys
                 /\ k > 1 => /\ stack[k].authority = stack[k - 1].at
                             /\ Told(k) <= stack[k - 1].own
  <2>1. CASE k = 1
    BY <1>6, <1>7, <2>1
  <2>2. CASE k \in 2 .. Len(stack)
    BY <1>4, <1>5, <2>2
  <2> QED BY <1>8, <2>1, <2>2
<1> QED BY <1>3, <1>9

LEMMA ChainLinked ==
  ASSUME SearchInv, pc = "statement", Published.ss[<<Authority, At>>] \notin {None, Invalid},
         Binds(Published.ss[<<Authority, At>>]), Admits(Published.ss[<<Authority, At>>], Depth),
         Authority \in TrustAnchors
  PROVE  LinkedChain(FoundChain)
<1> DEFINE n == Len(stack)
           ss(k) == fed[Told(k)].ss[<<stack[k].authority, stack[k].at>>]
<1>1. /\ version \in Nat /\ n \in Nat /\ n >= 1 /\ At = stack[1].at
      /\ Head(stack) = stack[1] /\ Authority = stack[1].authority /\ At \in Entity
  BY Typed DEF SearchInv
<1>2. Path(fed, stack, visited) /\ stack[1].theirs \in 1 .. version
      /\ fed[stack[1].theirs].ec[Authority] # None /\ Authority \in Entity
  BY <1>1, FramesTold DEF SearchInv, StackInv
<1>3. \A k \in 1 .. n :
        /\ stack[k].at \in Entity /\ stack[k].authority \in Entity
        /\ stack[k].own \in 1 .. version /\ Told(k) \in 1 .. version
        /\ stack[k].own <= Told(k) /\ stack[k].authority # stack[k].at
        /\ ss(k) \notin {None, Invalid} /\ Admits(ss(k), n - k)
        /\ fed[stack[k].own].ec[stack[k].at] # None
        /\ fed[stack[k].own].ec[stack[k].at].signer \in ss(k).keys
        /\ k > 1 => stack[k].authority = stack[k - 1].at /\ Told(k) <= stack[k - 1].own
  BY FramesVouched
<1>4. PICK c : c = FoundChain
  OBVIOUS
<1>5. /\ c \in Seq(LinkOf(version)) /\ Len(c) = n + 2
      /\ c[1] = Link(Subject, Subject, stack[n].own)
      /\ \A i \in 2 .. n : c[i] = Link(stack[n + 2 - i].authority, stack[n + 2 - i].at,
                                      stack[n + 2 - i].about)
      /\ c[n + 1] = Link(Authority, At, version)
      /\ c[n + 2] = Link(Authority, Authority, stack[1].theirs)
  BY <1>4, ChainShape
<1>6. c[1].iss = Subject /\ c[1].sub = Subject /\ c[1].v = stack[n].own
  <2>1. stack[n].own \in 1 .. version
    <3>1. n \in 1 .. n
      BY <1>1
    <3> HIDE DEF n, ss
    <3> QED BY <1>3, <3>1
  <2> QED BY <1>1, <1>5, <2>1, LinkFields, SubjectAssumption
<1>7. /\ c[n + 2].iss = Authority /\ c[n + 2].sub = Authority
      /\ c[n + 2].v = stack[1].theirs
  BY <1>1, <1>2, <1>5, LinkFields
<1>8. ASSUME NEW i \in 2 .. n + 1, NEW k \in 1 .. n, k = n + 2 - i
      PROVE  c[i].iss = stack[k].authority /\ c[i].sub = stack[k].at /\ c[i].v = Told(k)
  <2>1. c[i] = Link(stack[k].authority, stack[k].at, Told(k))
    <3>1. CASE k = 1
      <4>1. i = n + 1
        BY <1>1, <1>8, <3>1
      <4> QED BY <1>1, <1>5, <3>1, <4>1 DEF Told
    <3>2. CASE k # 1
      <4>1. i \in 2 .. n
        BY <1>1, <1>8, <3>2
      <4> QED BY <1>5, <1>8, <3>2, <4>1 DEF Told
    <3> QED BY <3>1, <3>2
  <2>2. /\ stack[k].authority \in Entity /\ stack[k].at \in Entity
        /\ Told(k) \in 1 .. version
    <3> HIDE DEF n, ss
    <3> QED BY <1>3
  <2> QED BY <1>1, <2>1, <2>2, LinkFields
<1> HIDE DEF n, ss
<1>9. \A i \in 2 .. n + 1 : n + 2 - i \in 1 .. n
  BY <1>1
<1>10. n + 2 > 2 /\ n + 2 <= MAX_RESOLVE_DEPTH + 3
  <2>1. n <= MAX_RESOLVE_DEPTH + 1
    BY <1>2 DEF Path, n
  <2> QED BY <1>1, <2>1, BoundsAssumption
<1>11. stack[n].at = Subject /\ fed[c[1].v].ec[Subject] # None
  <2>1. stack # <<>> /\ stack[n].at = Subject
    BY <1>2, Typed DEF Path, n, SearchInv
  <2> QED BY <1>1, <1>3, <1>6, <2>1
<1>12. ASSUME NEW i \in 2 .. n + 2 PROVE c[i].sub = c[i - 1].iss
  <2>1. CASE i = 2
    <3>1. PICK k \in 1 .. n, j \in 2 .. n + 1 : k = n /\ j = 2 /\ k = n + 2 - j
      BY <1>1
    <3> QED BY <1>6, <1>8, <1>11, <2>1, <3>1
  <2>2. CASE i \in 3 .. n + 1
    <3>1. PICK k \in 1 .. n, h \in 2 .. n, j \in 2 .. n + 1 :
            k = n + 2 - i /\ h = k + 1 /\ j = i - 1 /\ h = n + 2 - j
      BY <1>1, <2>2
    <3>2. h \in 1 .. n /\ h > 1 /\ h - 1 = k /\ i \in 2 .. n + 1
      BY <1>1, <2>2, <3>1
    <3>3. c[i].sub = stack[k].at /\ c[j].iss = stack[h].authority
      BY <1>8, <3>1, <3>2
    <3> QED BY <1>3, <3>1, <3>2, <3>3
  <2>3. CASE i = n + 2
    <3>1. PICK k \in 1 .. n, j \in 2 .. n + 1 : k = 1 /\ j = n + 1 /\ j = i - 1 /\ k = n + 2 - j
      BY <1>1, <2>3
    <3> QED BY <1>1, <1>7, <1>8, <2>3, <3>1
  <2> QED BY <1>1, <2>1, <2>2, <2>3
<1>13. ASSUME NEW i \in 2 .. n + 1
       PROVE  LET st == fed[c[i].v].ss[<<c[i].iss, c[i].sub>>]
              IN  /\ c[i].iss # c[i].sub
                  /\ st \notin {None, Invalid} /\ Admits(st, i - 2)
                  /\ \E m \in c[i - 1].v .. c[i].v :
                       fed[m].ec[c[i].sub] # None /\ fed[m].ec[c[i].sub].signer \in st.keys
  <2>1. PICK k \in 1 .. n : k = n + 2 - i /\ n - k = i - 2
    BY <1>1
  <2>2. c[i].iss = stack[k].authority /\ c[i].sub = stack[k].at /\ c[i].v = Told(k)
    BY <1>8, <2>1
  <2>3. c[i - 1].v <= stack[k].own /\ c[i - 1].v \in Nat
    <3>1. CASE i = 2
      <4>1. k = n
        BY <1>1, <2>1, <3>1
      <4> QED BY <1>1, <1>3, <1>6, <3>1, <4>1
    <3>2. CASE i # 2
      <4>1. PICK h \in 1 .. n, j \in 2 .. n + 1 :
              h = k + 1 /\ h > 1 /\ h - 1 = k /\ j = i - 1 /\ h = n + 2 - j
        BY <1>1, <2>1, <3>2
      <4>2. c[j].v = Told(h) /\ Told(h) <= stack[k].own /\ Told(h) \in 1 .. version
        BY <1>3, <1>8, <4>1
      <4> QED BY <1>1, <4>1, <4>2
    <3> QED BY <3>1, <3>2
  <2>4. stack[k].own \in c[i - 1].v .. c[i].v
    <3>1. stack[k].own \in 1 .. version /\ Told(k) \in 1 .. version /\ stack[k].own <= Told(k)
      BY <1>3
    <3> QED BY <1>1, <2>2, <2>3, <3>1
  <2>5. /\ stack[k].authority # stack[k].at
        /\ ss(k) \notin {None, Invalid} /\ Admits(ss(k), i - 2)
        /\ fed[stack[k].own].ec[stack[k].at] # None
        /\ fed[stack[k].own].ec[stack[k].at].signer \in ss(k).keys
    BY <1>3, <2>1
  <2>6. ss(k) = fed[c[i].v].ss[<<c[i].iss, c[i].sub>>]
    BY <2>2 DEF ss
  <2> HIDE DEF Admits
  <2> QED BY <2>2, <2>4, <2>5, <2>6
<1>14. ASSUME NEW i \in 2 .. n + 1, NEW j \in 2 .. n + 1, i # j
       PROVE  c[i].sub # c[j].sub
  <2>1. PICK k \in 1 .. n, h \in 1 .. n : k = n + 2 - i /\ h = n + 2 - j /\ k # h
    BY <1>1, <1>14
  <2>2. stack[k].at # stack[h].at
    BY <1>2, <2>1 DEF Path, n
  <2> QED BY <1>8, <2>1, <2>2
<1>15. fed[c[n + 1].v].ss[<<c[n + 1].iss, c[n + 1].sub>>].signer
         \in fed[c[n + 2].v].ec[c[n + 2].iss].keys
  <2>1. PICK i \in 2 .. n + 1 : i = n + 1 /\ 1 \in 1 .. n /\ 1 = n + 2 - i
    BY <1>1
  <2>2. c[n + 1].iss = Authority /\ c[n + 1].sub = At /\ c[n + 1].v = version
    BY <1>1, <1>8, <2>1 DEF Told
  <2> QED BY <1>1, <1>7, <2>2 DEF Published, Binds
<1>16. \A m : m = n + 2 => m - 1 = n + 1
  BY <1>1
<1> HIDE DEF Admits
<1>17. /\ Len(c) = n + 2 /\ Len(c) - 1 = n + 1 /\ Len(c) > 2 /\ Len(c) <= MAX_RESOLVE_DEPTH + 3
       /\ c \in Seq(LinkOf(version))
  <2>1. Len(c) = n + 2 /\ c \in Seq(LinkOf(version))
    BY <1>5
  <2>2. Len(c) - 1 = n + 1
    BY <1>16, <2>1, Zenon
  <2>3. Len(c) > 2
    BY <1>10, <2>1, Zenon
  <2>4. Len(c) <= MAX_RESOLVE_DEPTH + 3
    BY <1>10, <2>1, Zenon
  <2> QED BY <2>1, <2>2, <2>3, <2>4
<1>18. /\ c[Len(c)].iss = c[Len(c)].sub /\ c[Len(c)].iss \in TrustAnchors
       /\ fed[c[Len(c)].v].ec[c[Len(c)].iss] # None
  BY <1>2, <1>7, <1>17
<1>19. LinkedChain(c)
  BY <1>6, <1>11, <1>12, <1>13, <1>14, <1>15, <1>17, <1>18 DEF LinkedChain
<1> QED BY <1>4, <1>19

-----------------------------------------------------------------------------
(* The policies of a chain.                                                *)

(* The library's induction takes an operator as its parameter; here the    *)
(* least counterexample does the work.  First, the recursion that merges   *)
(* the policies defines a function.                                        *)
LEMMA MergeDefined ==
  ASSUME NEW policies, NEW k \in Nat
  PROVE  \E g : g = [n \in 0 .. k |->
                       IF n = 0 THEN Value ELSE Merge(g[n - 1], policies[n])]
<1> DEFINE Is(g, m) == g = [n \in 0 .. m |->
                              IF n = 0 THEN Value ELSE Merge(g[n - 1], policies[n])]
           bad      == {m \in Nat : ~\E g : Is(g, m)}
<1>1. CASE bad = {}
  BY <1>1
<1>2. CASE bad # {}
  <2>1. PICK m \in bad : \A i \in bad : m <= i
    <3>1. bad \subseteq Nat
      OBVIOUS
    <3> HIDE DEF bad
    <3> QED BY <1>2, <3>1, LeastExists
  <2>2. m \in Nat /\ ~\E g : Is(g, m)
    OBVIOUS
  <2>3. CASE m = 0
    <3>1. PICK g : g = [n \in 0 .. 0 |-> Value]
      OBVIOUS
    <3>2. g = [n \in 0 .. 0 |->
                 IF n = 0 THEN Value ELSE Merge(g[n - 1], policies[n])]
      <4>1. \A n \in 0 .. 0 : n = 0
        OBVIOUS
      <4> HIDE DEF Merge
      <4> QED BY <3>1, <4>1
    <3> QED BY <2>2, <2>3, <3>2
  <2>4. CASE m # 0
    <3>1. m - 1 \in Nat /\ ~(m <= m - 1)
      BY <2>2, <2>4
    <3>2. m - 1 \notin bad
      <4> HIDE DEF bad
      <4> QED BY <2>1, <3>1
    <3>3. PICK g : Is(g, m - 1)
      BY <3>1, <3>2
    <3>4. PICK h : h = [n \in 0 .. m |->
                          IF n = 0 THEN Value ELSE Merge(g[n - 1], policies[n])]
      OBVIOUS
    <3>5. \A n \in 0 .. m - 1 : h[n] = g[n]
      <4> HIDE DEF Merge
      <4>1. ASSUME NEW n \in 0 .. m - 1
            PROVE  g[n] = IF n = 0 THEN Value ELSE Merge(g[n - 1], policies[n])
        BY <3>3
      <4>2. ASSUME NEW n \in 0 .. m - 1
            PROVE  h[n] = IF n = 0 THEN Value ELSE Merge(g[n - 1], policies[n])
        BY <2>2, <3>4
      <4> QED BY <4>1, <4>2
    <3>6. \A n \in 0 .. m : n # 0 => n - 1 \in 0 .. m - 1
      BY <2>2
    <3>7. ASSUME NEW n \in 0 .. m
          PROVE  h[n] = IF n = 0 THEN Value ELSE Merge(h[n - 1], policies[n])
      <4> HIDE DEF Merge
      <4> QED BY <3>4, <3>5, <3>6
    <3>8. Is(h, m)
      <4> HIDE DEF Merge
      <4> QED BY <3>4, <3>7
    <3> QED BY <2>2, <3>8
  <2> QED BY <2>3, <2>4
<1> QED BY <1>1, <1>2

(* What is left once all policies are merged: the values they all permit,  *)
(* or an error, and that only if there is no such value.                   *)
Permitted(policies, k) ==
  {x \in Value : \A i \in 1 .. k : policies[i] = None \/ x \in policies[i]}

LEMMA MergedIsIntersection ==
  ASSUME NEW policies, Len(policies) \in Nat
  PROVE  \/ Merged(policies) = Permitted(policies, Len(policies))
         \/ Merged(policies) = Invalid /\ Permitted(policies, Len(policies)) = {}
<1> DEFINE k == Len(policies)
           m == CHOOSE g : g = [n \in 0 .. k |->
                                  IF n = 0 THEN Value ELSE Merge(g[n - 1], policies[n])]
           Right(n) == \/ m[n] = Permitted(policies, n)
                       \/ m[n] = Invalid /\ Permitted(policies, n) = {}
           bad == {n \in 0 .. k : ~Right(n)}
<1>1. Merged(policies) = m[k]
  BY DEF Merged
<1>2. \E g : g = [n \in 0 .. k |->
                    IF n = 0 THEN Value ELSE Merge(g[n - 1], policies[n])]
  BY MergeDefined
<1>3. m = [n \in 0 .. k |-> IF n = 0 THEN Value ELSE Merge(m[n - 1], policies[n])]
  <2> HIDE DEF Merge
  <2> QED BY <1>2
<1>4. k \in Nat
  OBVIOUS
<1> HIDE DEF m, k
<1>5. \A n \in 0 .. k : m[n] = IF n = 0 THEN Value ELSE Merge(m[n - 1], policies[n])
  <2> HIDE DEF Merge
  <2> QED BY <1>3
<1>6. ASSUME NEW n \in 1 .. k, Right(n - 1) PROVE Right(n)
  <2>1. m[n] = Merge(m[n - 1], policies[n])
    BY <1>5
  <2>2. Permitted(policies, n) =
          {x \in Permitted(policies, n - 1) : policies[n] = None \/ x \in policies[n]}
    <3>1. \A i : i \in 1 .. n <=> i \in 1 .. n - 1 \/ i = n
      BY <1>4
    <3> QED BY <3>1 DEF Permitted
  <2>3. Permitted(policies, n - 1) # Invalid
    <3>1. Permitted(policies, n - 1) \in SUBSET Value
      BY DEF Permitted
    <3> QED BY <3>1, SentinelsAssumption
  <2> QED BY <1>6, <2>1, <2>2, <2>3 DEF Merge
<1>7. Right(0)
  <2>1. m[0] = Value
    <3>1. 0 \in 0 .. k
      BY <1>4
    <3> QED BY <1>5, <3>1
  <2>2. Permitted(policies, 0) = Value
    BY DEF Permitted
  <2> QED BY <2>1, <2>2
<1>8. bad = {}
  <2> SUFFICES ASSUME bad # {} PROVE FALSE
    OBVIOUS
  <2>1. bad \subseteq Nat
    BY <1>4
  <2>2. PICK n \in bad : \A i \in bad : n <= i
    <3> HIDE DEF bad
    <3> QED BY <2>1, LeastExists
  <2>3. n \in 0 .. k /\ ~Right(n)
    OBVIOUS
  <2>4. n # 0
    BY <1>7, <2>3
  <2>5. n \in 1 .. k /\ n - 1 \in 0 .. k /\ ~(n <= n - 1)
    BY <1>4, <2>3, <2>4
  <2>6. n - 1 \notin bad
    <3> HIDE DEF bad
    <3> QED BY <2>2, <2>5
  <2>7. Right(n - 1)
    BY <2>5, <2>6
  <2> HIDE DEF Right
  <2> QED BY <1>6, <2>3, <2>5, <2>7
<1>9. Right(k)
  <2>1. k \in 0 .. k
    BY <1>4
  <2> QED BY <1>8, <2>1
<1> QED BY <1>1, <1>9 DEF k

-----------------------------------------------------------------------------
(* The verdict.                                                            *)

(* What the links of a chain stand for.                                    *)
LEMMA LinksFetched ==
  ASSUME SearchInv, NEW c, LinkedChain(c)
  PROVE  /\ Len(c) \in Nat /\ DOMAIN c = 1 .. Len(c)
         /\ \A i \in 1 .. Len(c) : c[i] \in LinkOf(version) /\ c[i].v \in 1 .. Len(fed)
         /\ Fetched(c[1]) = fed[c[1].v].ec[Subject] /\ Fetched(c[1]) \in Configuration
         /\ \A i \in 2 .. Len(c) - 1 :
              /\ Fetched(c[i]) = fed[c[i].v].ss[<<c[i].iss, c[i].sub>>]
              /\ Fetched(c[i]) \in Statement
         /\ Fetched(c[Len(c)]) = fed[c[Len(c)].v].ec[c[Len(c)].iss]
         /\ Fetched(c[Len(c)]) \in Configuration
<1>1. /\ fed \in Seq(Federation) /\ version \in 1 .. Len(fed) /\ Len(fed) \in Nat
  BY Typed DEF SearchInv
<1>2. c \in Seq(LinkOf(version)) /\ Len(c) > 2
  BY DEF LinkedChain
<1>3. Len(c) \in Nat /\ DOMAIN c = 1 .. Len(c)
  BY <1>2, LenProperties
<1>4. ASSUME NEW i \in 1 .. Len(c)
      PROVE  /\ c[i] \in LinkOf(version) /\ c[i].iss \in Entity /\ c[i].sub \in Entity
             /\ c[i].v \in 1 .. Len(fed) /\ fed[c[i].v] \in Federation
  <2>1. c[i] \in LinkOf(version)
    BY <1>2, ElementOfSeq
  <2>2. c[i].iss \in Entity /\ c[i].sub \in Entity /\ c[i].v \in 1 .. version
    BY <2>1 DEF LinkOf
  <2>3. c[i].v \in 1 .. Len(fed)
    BY <1>1, <2>2
  <2> QED BY <1>1, <2>1, <2>2, <2>3, ElementOfSeq
<1>5a. PICK n \in Nat : n = Len(c) /\ n > 2
  BY <1>2, <1>3
<1>5. n = Len(c) /\ 1 \in 1 .. n /\ n \in 1 .. n
  BY <1>5a
<1>6. Fetched(c[1]) = fed[c[1].v].ec[Subject] /\ Fetched(c[1]) \in Configuration
  <2>1. c[1].iss = Subject /\ c[1].sub = Subject /\ fed[c[1].v].ec[Subject] # None
    BY DEF LinkedChain
  <2>2. fed[c[1].v] \in Federation
    BY <1>4, <1>5
  <2> QED BY <2>1, <2>2, SubjectAssumption DEF Fetched, Federation
<1>7. ASSUME NEW i \in 2 .. Len(c) - 1
      PROVE  /\ Fetched(c[i]) = fed[c[i].v].ss[<<c[i].iss, c[i].sub>>]
             /\ Fetched(c[i]) \in Statement
  <2>1. /\ c[i].iss # c[i].sub
        /\ fed[c[i].v].ss[<<c[i].iss, c[i].sub>>] \notin {None, Invalid}
    BY DEF LinkedChain
  <2>2. i \in 1 .. Len(c)
    BY <1>3
  <2>3. fed[c[i].v] \in Federation /\ c[i].iss \in Entity /\ c[i].sub \in Entity
    BY <1>4, <2>2
  <2> QED BY <2>1, <2>3 DEF Fetched, Federation
<1>8. /\ Fetched(c[n]) = fed[c[n].v].ec[c[n].iss] /\ Fetched(c[n]) \in Configuration
  <2>1. c[n].iss = c[n].sub /\ fed[c[n].v].ec[c[n].iss] # None
    BY <1>5 DEF LinkedChain
  <2>2. fed[c[n].v] \in Federation /\ c[n].iss \in Entity
    BY <1>4, <1>5
  <2> QED BY <2>1, <2>2 DEF Fetched, Federation
<1> QED BY <1>3, <1>4, <1>5, <1>6, <1>7, <1>8

(***************************************************************************)
(* What the properties ask of a verdict a, with what the entities publish, *)
(* f, as a parameter: as neither changes after the verdict, nor does this. *)
(***************************************************************************)
FetchedIn(f, l) == IF l.iss = l.sub THEN f[l.v].ec[l.iss] ELSE f[l.v].ss[<<l.iss, l.sub>>]

SoundVerdict(f, a) ==
  a.status = 200 =>
    LET c == a.chain
        n == Len(c)
    IN  /\ n > 2 /\ n <= MAX_RESOLVE_DEPTH + 3
        /\ c[1].iss = Subject /\ c[1].sub = Subject
        /\ c[n].iss = c[n].sub /\ c[n].iss \in TrustAnchors
        /\ \A i \in 2 .. n : c[i].sub = c[i - 1].iss
        /\ \A i \in 2 .. n - 1 : Admits(FetchedIn(f, c[i]), i - 2) /\ c[i].v >= c[i - 1].v
        /\ \A i, j \in 2 .. n - 1 : i # j => c[i].sub # c[j].sub

ObedientVerdict(f, a) ==
  a.chain # <<>> =>
    LET above   == {FetchedIn(f, l) : l \in {l \in ToSet(a.chain) : l.iss # l.sub}}
        permits(v) == \A st \in above : st.policy = None \/ v \in st.policy
        due     == {FetchedIn(f, a.chain[1]).metadata} \ {None}
        forced  == {FetchedIn(f, a.chain[2]).forced} \ {None}
        right   == IF due = {} \/ forced = {} THEN due ELSE forced
    IN  IF a.status = 200
          THEN right = {a.metadata} /\ permits(a.metadata)
          ELSE \A v \in right : ~permits(v)

SigningIn(f, v, e) ==
  LET issued == {x \in Entity : f[v].ss[<<e, x>>] \notin {None, Invalid}}
  IN  {ec.signer : ec \in {f[v].ec[e]} \ {None}}
        \cup {f[v].ss[<<e, x>>].signer : x \in issued}

OrderlyIn(f) ==
  \A v \in DOMAIN f, e \in Entity :
    /\ \A k, l \in SigningIn(f, v, e) : k = l
    /\ \A a \in Entity :
         LET ss == f[v].ss[<<a, e>>]
         IN  ss \notin {None, Invalid} =>
               \A old, new \in 1 .. v :
                 old < new /\ SigningIn(f, new, e) \cap ss.keys # {}
                   => SigningIn(f, old, e) \subseteq ss.keys

KeysChainIn(f, c) ==
  \A i \in 1 .. Len(c) - 1 : FetchedIn(f, c[i]).signer \in FetchedIn(f, c[i + 1]).keys

GoodVerdict(f, a) ==
  /\ SoundVerdict(f, a) /\ ObedientVerdict(f, a)
  /\ OrderlyIn(f) /\ a.status = 200 => KeysChainIn(f, a.chain)

LEMMA SameFetched == \A l : FetchedIn(fed, l) = Fetched(l)
  BY DEF FetchedIn, Fetched

(* The verdict on a chain is about that chain; it obeys its policies.      *)
LEMMA ResolvedObeys ==
  ASSUME SearchInv, NEW c, LinkedChain(c)
  PROVE  /\ Resolve(c) \in Verdict(version) /\ Resolve(c).chain = c
         /\ ObedientVerdict(fed, Resolve(c))
<1> DEFINE policies == [i \in 1 .. Len(c) - 2 |-> Fetched(c[Len(c) - i]).policy]
           merged   == Merged(policies)
           forced   == Fetched(c[2]).forced
           own      == Fetched(c[1]).metadata
           value    == IF forced = None THEN own ELSE forced
           above    == {Fetched(l) : l \in {l \in ToSet(c) : l.iss # l.sub}}
           permits(v) == \A st \in above : st.policy = None \/ v \in st.policy
           right    == IF {own} \ {None} = {} \/ {forced} \ {None} = {}
                         THEN {own} \ {None} ELSE {forced} \ {None}
<1>1. Resolve(c) = IF merged = Invalid \/ own = None \/ value \notin merged
                     THEN PolicyError(c) ELSE Chain(c, value)
  BY DEF Resolve
<1>2. PICK n \in Nat : n = Len(c) /\ n > 2
  BY LinksFetched DEF LinkedChain
<1>3. \A i \in 2 .. n - 1 : Fetched(c[i]) \in Statement /\ c[i].iss # c[i].sub
  BY <1>2, LinksFetched DEF LinkedChain
<1>4. c[1].iss = c[1].sub /\ c[n].iss = c[n].sub /\ DOMAIN c = 1 .. n
  BY <1>2, LinksFetched DEF LinkedChain
<1>5. own \in Value \cup {None} /\ forced \in Value \cup {None}
  <2>1. Fetched(c[1]) \in Configuration /\ Fetched(c[2]) \in Statement
    BY <1>2, <1>3, LinksFetched
  <2> QED BY <2>1 DEF Configuration, Statement
<1>6. above = {Fetched(c[i]) : i \in 2 .. n - 1}
  <2>1. {l \in ToSet(c) : l.iss # l.sub} = {c[i] : i \in 2 .. n - 1}
    <3>1. ToSet(c) = {c[i] : i \in 1 .. n}
      BY <1>4 DEF ToSet
    <3>2. \A i \in 1 .. n : i = 1 \/ i = n \/ i \in 2 .. n - 1
      BY <1>2
    <3>3. \A i \in 2 .. n - 1 : i \in 1 .. n
      BY <1>2
    <3> QED BY <1>3, <1>4, <3>1, <3>2, <3>3
  <2> QED BY <2>1
<1>7. Len(policies) = n - 2 /\ n - 2 \in Nat
      /\ \A i \in 1 .. n - 2 : policies[i] = Fetched(c[n - i]).policy
  <2>1. n - 2 \in Nat
    BY <1>2
  <2>2. policies = [i \in 1 .. n - 2 |-> Fetched(c[n - i]).policy]
    BY <1>2
  <2> HIDE DEF policies
  <2>3. DOMAIN policies = 1 .. n - 2
    BY <2>2
  <2>4. Len(policies) = n - 2
    BY <2>1, <2>2
  <2> QED BY <2>1, <2>2, <2>4
<1>8. ASSUME NEW v \in Value PROVE permits(v) <=> v \in Permitted(policies, n - 2)
  <2>1. permits(v) <=> \A i \in 2 .. n - 1 :
                          Fetched(c[i]).policy = None \/ v \in Fetched(c[i]).policy
    BY <1>6
  <2>2. v \in Permitted(policies, n - 2) <=>
          \A i \in 1 .. n - 2 :
             Fetched(c[n - i]).policy = None \/ v \in Fetched(c[n - i]).policy
    <3> HIDE DEF policies
    <3> QED BY <1>7 DEF Permitted
  <2>3. \A i \in 2 .. n - 1 : n - i \in 1 .. n - 2 /\ n - (n - i) = i
    BY <1>2
  <2>4. \A i \in 1 .. n - 2 : n - i \in 2 .. n - 1
    BY <1>2
  <2> HIDE DEF permits
  <2> QED BY <2>1, <2>2, <2>3, <2>4
<1>9. \/ merged = Permitted(policies, n - 2)
      \/ merged = Invalid /\ Permitted(policies, n - 2) = {}
  <2> HIDE DEF policies
  <2> QED BY <1>7, MergedIsIntersection
<1>10. Permitted(policies, n - 2) \in SUBSET Value /\ Permitted(policies, n - 2) # Invalid
  <2>1. Permitted(policies, n - 2) \in SUBSET Value
    BY DEF Permitted
  <2> QED BY <2>1, SentinelsAssumption
<1>11. c \in Seq([iss : Entity, sub : Entity, v : 1 .. version]) /\ c # <<>>
  <2>1. c \in Seq(LinkOf(version))
    BY DEF LinkedChain
  <2>2. c # <<>>
    BY <1>2, <2>1, EmptySeq
  <2> QED BY <2>1, <2>2 DEF LinkOf
<1>12. own # None => right = {value} /\ value \in Value
  BY <1>5
<1>13. own = None => right = {}
  OBVIOUS
<1>16. /\ above = {FetchedIn(fed, l) : l \in {l \in ToSet(c) : l.iss # l.sub}}
       /\ own = FetchedIn(fed, c[1]).metadata /\ forced = FetchedIn(fed, c[2]).forced
  BY SameFetched
<1>17. ASSUME NEW a, a.chain = c
       PROVE  ObedientVerdict(fed, a) <=>
                IF a.status = 200 THEN right = {a.metadata} /\ permits(a.metadata)
                ELSE \A v \in right : ~permits(v)
  <2> HIDE DEF own, forced, above
  <2> QED BY <1>11, <1>16, <1>17 DEF ObedientVerdict
<1> HIDE DEF merged, own, forced, value, above, policies, right, permits
<1>14. CASE merged = Invalid \/ own = None \/ value \notin merged
  <2>1. Resolve(c) = PolicyError(c)
    BY <1>1, <1>14
  <2>2. \A v \in right : ~permits(v)
    <3>1. CASE own = None
      BY <1>13, <3>1
    <3>2. CASE own # None
      <4>1. value \notin Permitted(policies, n - 2)
        <5>1. CASE merged = Permitted(policies, n - 2)
          BY <1>10, <1>14, <3>2, <5>1
        <5>2. CASE Permitted(policies, n - 2) = {}
          BY <5>2
        <5> QED BY <1>9, <5>1, <5>2
      <4> HIDE DEF right
      <4> QED BY <1>8, <1>12, <3>2, <4>1
    <3> QED BY <3>1, <3>2
  <2>3. PolicyError(c).status = 400 /\ PolicyError(c).chain = c
        /\ PolicyError(c) \in Verdict(version)
    BY <1>11 DEF PolicyError, Verdict
  <2> QED BY <1>17, <2>1, <2>2, <2>3
<1>15. CASE ~(merged = Invalid \/ own = None \/ value \notin merged)
  <2>1. Resolve(c) = Chain(c, value)
    BY <1>1, <1>15
  <2>2. right = {value} /\ value \in Value /\ permits(value)
    <3>1. value \in Permitted(policies, n - 2)
      BY <1>9, <1>15
    <3> HIDE DEF right
    <3> QED BY <1>8, <1>12, <1>15, <3>1
  <2>3. /\ Chain(c, value).status = 200 /\ Chain(c, value).chain = c
        /\ Chain(c, value).metadata = value
        /\ Chain(c, value) \in Verdict(version)
    BY <1>11, <2>2 DEF Chain, Verdict
  <2> QED BY <1>17, <2>1, <2>2, <2>3
<1> QED BY <1>14, <1>15


-----------------------------------------------------------------------------
(* The search, with its verdict.                                           *)

(* The statement about the innermost frame admits the subject.             *)
Vouching(ss) ==
  /\ pc = "statement" /\ ss = Published.ss[<<Authority, At>>]
  /\ ss \notin {None, Invalid} /\ Binds(ss) /\ Admits(ss, Depth)

LEMMA Climbs ==
  ASSUME SearchInv, NEW ss, Vouching(ss), Authority \notin TrustAnchors,
         ~(Len(stack) > MAX_RESOLVE_DEPTH)
  PROVE  \E s \in Seq(FrameOf(version)) :
           /\ s = <<Frame(Authority)>> \o [stack EXCEPT ![1].about = version]
           /\ s # <<>> /\ Reaching(fed, s, visited)
<1>1. /\ version \in Nat /\ version >= 1 /\ Published \in Federation
      /\ stack \in Seq(FrameOf(version)) /\ stack # <<>>
      /\ stack[1] \in FrameOf(version) /\ Authority = stack[1].authority
      /\ At = stack[1].at /\ Head(stack) = stack[1]
      /\ Len(stack) \in Nat /\ Len(stack) >= 1
  BY Typed DEF SearchInv
<1>2. /\ pc = "statement" /\ ss = Published.ss[<<Authority, At>>]
      /\ ss \notin {None, Invalid} /\ Binds(ss) /\ Admits(ss, Depth)
  BY DEF Vouching
<1>3. Path(fed, stack, visited) /\ Authority \in Entity \ visited
  BY <1>1, <1>2 DEF SearchInv, StackInv
<1>4. PICK x : x = Vouched(stack[1], version)
  OBVIOUS
<1>5. /\ x \in FrameOf(version) /\ x.at = stack[1].at /\ x.own = stack[1].own
      /\ x.authority = Authority /\ x.about = version
  <2>1. version \in 0 .. version
    BY <1>1
  <2> QED BY <1>1, <1>4, <2>1, FrameVouched
<1>6. PICK t : t = WithInner(stack, x)
  OBVIOUS
<1>7. [stack EXCEPT ![1].about = version] = t
  BY <1>4, <1>6 DEF WithInner, Vouched
<1>8. /\ t \in Seq(FrameOf(version)) /\ Len(t) = Len(stack) /\ t[1] = x
      /\ Path(fed, t, visited)
  <2>1. version \in Nat /\ stack \in Seq(FrameOf(version)) /\ stack # <<>>
    BY <1>1
  <2>2. Path(fed, stack, visited)
    BY <1>3
  <2>3. x \in FrameOf(version) /\ x.at = stack[1].at /\ x.own = stack[1].own
    BY <1>5
  <2>4. /\ WithInner(stack, x) \in Seq(FrameOf(version))
        /\ Len(WithInner(stack, x)) = Len(stack) /\ WithInner(stack, x) # <<>>
        /\ WithInner(stack, x)[1] = x
        /\ Path(fed, WithInner(stack, x), visited)
    BY <2>1, <2>2, <2>3, PathNoted
  <2> QED BY <1>6, <2>4
<1>9. PICK y \in FrameOf(version) : y = Frame(Authority) /\ y.at = Authority
  BY <1>1, <1>3, FrameNew
<1>10. PICK s : s = <<y>> \o t
  OBVIOUS
<1>11. /\ s \in Seq(FrameOf(version)) /\ Len(s) = Len(stack) + 1 /\ s[1] = y
       /\ Tail(s) = t /\ s # <<>> /\ s[2] = x
  BY <1>1, <1>8, <1>10, Pushed
<1>12. Linked(fed, x, Len(stack) - 1)
  <2>1. stack[1].own <= version
    BY <1>1 DEF FrameOf
  <2>2. fed[x.about].ss[<<x.authority, x.at>>] = ss
    BY <1>1, <1>2, <1>5 DEF Published
  <2>3. fed[stack[1].own].ec[At].signer \in ss.keys
    BY <1>1, <1>2 DEF Binds
  <2> HIDE DEF Admits
  <2> QED BY <1>1, <1>2, <1>5, <2>1, <2>2, <2>3 DEF Linked, Depth
<1>13. Len(s) <= MAX_RESOLVE_DEPTH + 1 /\ Len(s) > 1 /\ Len(s) # 1
       /\ Len(s) - 2 = Len(stack) - 1
  BY <1>1, <1>11, BoundsAssumption
<1>14. Reaching(fed, s, visited)
  BY <1>3, <1>5, <1>8, <1>9, <1>11, <1>12, <1>13 DEF Reaching
<1> QED BY <1>7, <1>9, <1>10, <1>11, <1>14

LEMMA StatementStep == SearchInv /\ GotStatement => SearchInv'
<1> SUFFICES ASSUME SearchInv, GotStatement PROVE SearchInv'
  OBVIOUS
<1>1. /\ version \in Nat /\ stack \in Seq(FrameOf(version)) /\ Len(stack) \in Nat
  BY Typed DEF SearchInv
<1>2. /\ pc = "statement" /\ pc # "done" /\ visited \in SUBSET Entity
      /\ Path(fed, stack, visited)
  BY DEF GotStatement, SearchInv, StackInv, TypeOK
<1>3. UNCHANGED <<fed, version, late, visited>> /\ failures' \in Nat
  BY DEF GotStatement, SearchInv, TypeOK
<1>4. PICK ss : ss = Published.ss[<<Authority, At>>] /\ ss # None
  BY DEF GotStatement
<1>5. CASE Continue(stack, visited)
  BY <1>1, <1>2, <1>3, <1>5, Continued
<1>6. CASE Reply(NoChain)
  BY <1>1, <1>2, <1>3, <1>6, NoChainIsVerdict, Replied DEF Reply
<1>7. CASE Vouching(ss) /\ Authority \in TrustAnchors /\ Reply(Resolve(FoundChain))
  <2>1. LinkedChain(FoundChain)
    BY <1>7, ChainLinked DEF Vouching
  <2>2. PICK a \in Verdict(version) : a = Resolve(FoundChain)
    BY <2>1, ResolvedObeys
  <2>3. pc' = "done" /\ answer' = a /\ UNCHANGED <<stack, attempt>>
    BY <1>7, <2>2 DEF Reply
  <2> QED BY <1>2, <1>3, <2>3, Replied
<1>8. CASE /\ Vouching(ss) /\ Authority \notin TrustAnchors
           /\ ~(~late /\ Len(stack) > MAX_RESOLVE_DEPTH)
           /\ Fetch("subject", <<Frame(Authority)>> \o [stack EXCEPT ![1].about = version])
  <2>1. CASE late
    BY <1>1, <1>2, <1>3, <1>8, <2>1, NoChainIsVerdict, Replied DEF Fetch, Reply
  <2>2. CASE ~late
    <3>1. PICK s \in Seq(FrameOf(version)) :
            /\ s = <<Frame(Authority)>> \o [stack EXCEPT ![1].about = version]
            /\ s # <<>> /\ Reaching(fed, s, visited)
      BY <1>8, <2>2, Climbs
    <3>2. pc' = "subject" /\ stack' = s /\ attempt' = 0 /\ answer' = answer
      BY <1>8, <2>2, <3>1 DEF Fetch
    <3> QED BY <1>2, <1>3, <3>1, <3>2, GoesOn
  <2> QED BY <2>1, <2>2
<1>9. \/ Continue(stack, visited) \/ Reply(NoChain)
      \/ Vouching(ss) /\ Authority \in TrustAnchors /\ Reply(Resolve(FoundChain))
      \/ /\ Vouching(ss) /\ Authority \notin TrustAnchors
         /\ ~(~late /\ Len(stack) > MAX_RESOLVE_DEPTH)
         /\ Fetch("subject", <<Frame(Authority)>> \o [stack EXCEPT ![1].about = version])
  BY <1>4 DEF GotStatement, Vouching
<1> QED BY <1>5, <1>6, <1>7, <1>8, <1>9

LEMMA SearchStarts == Init => SearchInv
<1> SUFFICES ASSUME Init PROVE SearchInv
  OBVIOUS
<1>1. fed \in Seq(Federation) /\ fed # <<>> /\ version = 1 /\ pc = "subject"
      /\ visited = {} /\ attempt = 0 /\ late = FALSE /\ answer = None /\ failures = 0
  BY FederationsAssumption DEF Init
<1>2. Len(fed) \in Nat /\ Len(fed) > 0 /\ DOMAIN fed = 1 .. Len(fed)
  BY <1>1, LongEnough, LenProperties
<1>3. PICK y \in FrameOf(1) : y = Frame(Subject) /\ y.at = Subject
  BY SubjectAssumption, FrameNew
<1>4. PICK s \in Seq(FrameOf(1)) : /\ s = <<y>> /\ Len(s) = 1 /\ s[1] = y
                                  /\ Tail(s) = <<>> /\ s # <<>>
  <2> DEFINE s == <<y>>
  <2>1. s \in Seq(FrameOf(1)) /\ Len(s) = 1 /\ s[1] = y /\ s # <<>>
    OBVIOUS
  <2> HIDE DEF s
  <2>2. Tail(s) \in Seq(FrameOf(1)) /\ Len(Tail(s)) = 0
    BY <2>1, HeadTailProperties
  <2>3. Tail(s) = <<>>
    BY <2>2, EmptySeq
  <2> QED BY <2>1, <2>3 DEF s
<1>5. stack = s
  BY <1>3, <1>4 DEF Init
<1>6. Path(fed, <<>>, {})
  BY BoundsAssumption DEF Path
<1>7. Reaching(fed, s, {})
  <2>1. y.at \notin {} /\ 1 <= MAX_RESOLVE_DEPTH + 1
    BY BoundsAssumption
  <2> QED BY <1>3, <1>4, <1>6, <2>1 DEF Reaching
<1>8. StackInv
  BY <1>1, <1>5, <1>7 DEF StackInv
<1>9. TypeOK
  <2>1. version \in DOMAIN fed /\ attempt \in 0 .. FETCH_MAX_RETRIES
    BY <1>1, <1>2, BoundsAssumption
  <2>2. stack \in Seq([at : Entity, own : 0 .. version, hints : Seq(Entity),
                      authority : Entity \cup {None}, theirs : 0 .. version,
                      about : 0 .. version])
    BY <1>1, <1>4, <1>5 DEF FrameOf
  <2> QED BY <1>1, <1>4, <1>5, <2>1, <2>2 DEF TypeOK
<1>10. StackIsPath
  <2>1. Last(stack).at = Subject
    BY <1>3, <1>4, <1>5 DEF Last
  <2>2. DOMAIN stack = {1} /\ Len(stack) = 1
    BY <1>4, <1>5
  <2>3. Depth <= MAX_RESOLVE_DEPTH
    BY <2>2, BoundsAssumption DEF Depth
  <2> QED BY <2>1, <2>2, <2>3 DEF StackIsPath
<1> QED BY <1>1, <1>8, <1>9, <1>10 DEF SearchInv

LEMMA SearchHolds == Spec => []SearchInv
<1>1. SearchInv /\ [Next]_vars => SearchInv'
  BY SubjectStep, AuthorityStep, StatementStep, FailureStep, SurroundingsStep
     DEF Next, Search
<1> QED BY SearchStarts, <1>1, PTL DEF Spec

(* Every frame, verdict and counter stays what it is declared to be.       *)
THEOREM TypeCorrect == Spec => []TypeOK
<1>1. SearchInv => TypeOK
  BY DEF SearchInv
<1> QED BY SearchHolds, <1>1, PTL

(* Whatever loops the authority hints form, and whatever is republished    *)
(* meanwhile, the search goes up a path that meets no entity twice, passes *)
(* no trust anchor and is never longer than MAX_RESOLVE_DEPTH allows.      *)
THEOREM SearchFollowsPath == Spec => []StackIsPath
<1>1. SearchInv => StackIsPath
  BY DEF SearchInv
<1> QED BY SearchHolds, <1>1, PTL


-----------------------------------------------------------------------------
(* The verdict holds.                                                      *)

LEMMA ContinueReplies ==
  ASSUME NEW frames, NEW seen, Continue(frames, seen)
  PROVE  answer' \in {answer, NoChain, Unavailable}
<1>1. ASSUME NEW what, NEW s, Fetch(what, s)
      PROVE  answer' \in {answer, NoChain, Unavailable}
  BY <1>1 DEF Fetch, Reply
<1>2. ASSUME Reply(NoChain)
      PROVE  answer' \in {answer, NoChain, Unavailable}
  BY <1>2 DEF Reply
<1>3. Reply(NoChain) \/ \E what, s : Fetch(what, s)
  <2> HIDE DEF Fetch, Reply
  <2> QED BY DEF Continue
<1> QED BY <1>1, <1>2, <1>3

(* A verdict other than the two refusals is on a chain that is linked.     *)
LEMMA VerdictCases ==
  ASSUME SearchInv, [Next]_vars
  PROVE  /\ fed' = fed
         /\ \/ answer' \in {answer, NoChain, Unavailable}
            \/ \E c : LinkedChain(c) /\ answer' = Resolve(c)
<1>1. ASSUME NEW ss, Vouching(ss), Authority \in TrustAnchors, Reply(Resolve(FoundChain))
      PROVE  \E c : LinkedChain(c) /\ answer' = Resolve(c)
  <2>1. LinkedChain(FoundChain)
    BY <1>1, ChainLinked DEF Vouching
  <2> QED BY <1>1, <2>1 DEF Reply
<1>2. ASSUME NEW what, NEW s, Fetch(what, s)
      PROVE  answer' \in {answer, NoChain, Unavailable}
  BY <1>2 DEF Fetch, Reply
<1>3. ASSUME Reply(NoChain) \/ Reply(Unavailable)
      PROVE  answer' \in {answer, NoChain, Unavailable}
  BY <1>3 DEF Reply
<1>4. CASE GotSubject
  BY <1>3, <1>4, ContinueReplies DEF GotSubject
<1>5. CASE GotAuthority
  BY <1>2, <1>5, ContinueReplies DEF GotAuthority
<1>6. CASE GotStatement
  BY <1>1, <1>2, <1>3, <1>6, ContinueReplies DEF GotStatement, Vouching
<1>7. CASE FailPermanently
  BY <1>7, ContinueReplies DEF FailPermanently
<1>8. CASE FailForNow
  BY <1>3, <1>8 DEF FailForNow
<1>9. CASE DeadlinePasses \/ Change \/ Done \/ UNCHANGED vars
  BY <1>9 DEF DeadlinePasses, Change, Done, vars
<1> QED BY <1>4, <1>5, <1>6, <1>7, <1>8, <1>9 DEF Next, Search

LEMMA ResolvedSound ==
  ASSUME SearchInv, NEW c, LinkedChain(c)
  PROVE  SoundVerdict(fed, Resolve(c))
<1>1. Resolve(c).chain = c
  BY ResolvedObeys
<1>2. PICK n \in Nat : n = Len(c)
  BY LinksFetched
<1>3. /\ n > 2 /\ n <= MAX_RESOLVE_DEPTH + 3
      /\ c[1].iss = Subject /\ c[1].sub = Subject
      /\ c[n].iss = c[n].sub /\ c[n].iss \in TrustAnchors
      /\ \A i \in 2 .. n : c[i].sub = c[i - 1].iss
      /\ \A i, j \in 2 .. n - 1 : i # j => c[i].sub # c[j].sub
  <2> HIDE DEF Admits
  <2> QED BY <1>2 DEF LinkedChain
<1>4. ASSUME NEW i \in 2 .. n - 1 PROVE Admits(Fetched(c[i]), i - 2) /\ c[i].v >= c[i - 1].v
  <2> HIDE DEF Admits
  <2>1. Fetched(c[i]) = fed[c[i].v].ss[<<c[i].iss, c[i].sub>>]
    BY <1>2, LinksFetched
  <2>2. Admits(fed[c[i].v].ss[<<c[i].iss, c[i].sub>>], i - 2)
        /\ \E m : m \in c[i - 1].v .. c[i].v
    BY <1>2 DEF LinkedChain
  <2>3. i \in 1 .. n /\ i - 1 \in 1 .. n
    OBVIOUS
  <2>4. c[i].v \in 1 .. Len(fed) /\ c[i - 1].v \in 1 .. Len(fed)
    BY <1>2, <2>3, LinksFetched
  <2>5. c[i].v >= c[i - 1].v
    BY <2>2, <2>4
  <2> QED BY <2>1, <2>2, <2>5
<1> HIDE DEF Admits
<1> QED BY <1>1, <1>2, <1>3, <1>4, SameFetched DEF SoundVerdict

(* With orderly rollovers, the keys an authority listed for an entity were *)
(* good for what the entity signed before.                                 *)
LEMMA OrderlyKeys ==
  ASSUME SearchInv, OrderlyRollovers, NEW e \in Entity, NEW a \in Entity,
         NEW old \in 1 .. Len(fed), NEW v \in 1 .. Len(fed), NEW n \in old .. v,
         fed[v].ss[<<a, e>>] \notin {None, Invalid},
         fed[n].ec[e] # None, fed[n].ec[e].signer \in fed[v].ss[<<a, e>>].keys
  PROVE  Signing(old, e) \subseteq fed[v].ss[<<a, e>>].keys
<1> DEFINE ss == fed[v].ss[<<a, e>>]
<1>1. DOMAIN fed = 1 .. Len(fed) /\ Len(fed) \in Nat
  BY LenProperties DEF SearchInv
<1>2. fed[n].ec[e].signer \in Signing(n, e)
  BY DEF Signing
<1>3. n \in 1 .. v /\ old \in 1 .. v /\ n \in 1 .. Len(fed) /\ (old = n \/ old < n)
  BY <1>1
<1>4. CASE old = n
  <2>1. \A k, l \in Signing(n, e) : k = l
    BY <1>1, <1>3 DEF OrderlyRollovers
  <2>2. \A k \in Signing(n, e) : k \in ss.keys
    BY <1>2, <2>1
  <2> QED BY <1>4, <2>2
<1>5. CASE old < n
  <2>1. Signing(n, e) \cap ss.keys # {}
    BY <1>2
  <2> HIDE DEF Signing
  <2> QED BY <1>1, <1>3, <1>5, <2>1 DEF OrderlyRollovers
<1> QED BY <1>3, <1>4, <1>5

LEMMA ResolvedVerifies ==
  ASSUME SearchInv, OrderlyRollovers, NEW c, LinkedChain(c)
  PROVE  KeysChain(c)
<1> SUFFICES ASSUME NEW i \in 1 .. Len(c) - 1
             PROVE  Fetched(c[i]).signer \in Fetched(c[i + 1]).keys
  BY DEF KeysChain
<1>1. PICK n \in Nat : n = Len(c) /\ n > 2
  BY LinksFetched DEF LinkedChain
<1>2. \A k \in 1 .. n : /\ c[k].iss \in Entity /\ c[k].sub \in Entity
                        /\ c[k].v \in 1 .. Len(fed)
  BY <1>1, LinksFetched DEF LinkOf
<1>3. i \in 1 .. n - 1 /\ i + 1 \in 2 .. n /\ i \in 1 .. n /\ i + 1 \in 1 .. n
  BY <1>1
<1>4. CASE i = n - 1
  <2>1. i + 1 = n /\ i \in 2 .. n - 1
    BY <1>1, <1>4
  <2>2. Fetched(c[i]) = fed[c[i].v].ss[<<c[i].iss, c[i].sub>>]
        /\ Fetched(c[n]) = fed[c[n].v].ec[c[n].iss]
    BY <1>1, <2>1, LinksFetched
  <2>3. fed[c[i].v].ss[<<c[i].iss, c[i].sub>>].signer \in fed[c[n].v].ec[c[n].iss].keys
    BY <1>1, <1>4 DEF LinkedChain
  <2> QED BY <2>1, <2>2, <2>3
<1>5. CASE i # n - 1
  <2>1. PICK j \in 2 .. n - 1 : j = i + 1 /\ j - 1 = i /\ j \in 1 .. n /\ j \in 2 .. n
    BY <1>1, <1>3, <1>5
  <2> DEFINE e  == c[j].sub
             ss == fed[c[j].v].ss[<<c[j].iss, e>>]
  <2>2. Fetched(c[j]) = ss /\ ss \notin {None, Invalid} /\ e = c[i].iss
    BY <1>1, <2>1, LinksFetched DEF LinkedChain
  <2>3. PICK m \in c[i].v .. c[j].v : fed[m].ec[e] # None /\ fed[m].ec[e].signer \in ss.keys
    BY <1>1, <2>1 DEF LinkedChain
  <2>4. e \in Entity /\ c[j].iss \in Entity /\ c[i].v \in 1 .. Len(fed) /\ c[j].v \in 1 .. Len(fed)
    BY <1>2, <1>3, <2>1
  <2>5. Signing(c[i].v, e) \subseteq ss.keys
    <3> HIDE DEF e
    <3> QED BY <2>2, <2>3, <2>4, OrderlyKeys
  <2>6. Fetched(c[i]).signer \in Signing(c[i].v, e)
    <3>1. CASE i = 1
      <4>1. /\ Fetched(c[1]) = fed[c[1].v].ec[Subject] /\ c[1].iss = Subject
            /\ fed[c[1].v].ec[Subject] # None
        BY LinksFetched DEF LinkedChain
      <4> QED BY <2>2, <3>1, <4>1 DEF Signing
    <3>2. CASE i # 1
      <4>1. i \in 2 .. n - 1
        BY <1>3, <3>2
      <4>2. /\ Fetched(c[i]) = fed[c[i].v].ss[<<c[i].iss, c[i].sub>>]
            /\ fed[c[i].v].ss[<<c[i].iss, c[i].sub>>] \notin {None, Invalid}
        BY <1>1, <4>1, LinksFetched DEF LinkedChain
      <4>3. c[i].sub \in Entity
        BY <1>2, <1>3
      <4> QED BY <2>2, <4>2, <4>3 DEF Signing
    <3> QED BY <3>1, <3>2
  <2> QED BY <2>1, <2>2, <2>5, <2>6
<1> QED BY <1>4, <1>5


(* Orderly or not, what is published says the same of a chain either way.  *)
LEMMA OrderlyRestated ==
  /\ OrderlyIn(fed) <=> OrderlyRollovers
  /\ \A c : KeysChainIn(fed, c) <=> KeysChain(c)
<1>1. \A v, e : SigningIn(fed, v, e) = Signing(v, e)
  BY DEF SigningIn, Signing
<1>2. OrderlyIn(fed) <=> OrderlyRollovers
  BY <1>1 DEF OrderlyIn, OrderlyRollovers
<1>3. \A c : KeysChainIn(fed, c) <=> KeysChain(c)
  BY DEF KeysChainIn, KeysChain, FetchedIn, Fetched
<1> QED BY <1>2, <1>3

LEMMA RefusalIsGood ==
  ASSUME NEW f PROVE GoodVerdict(f, NoChain) /\ GoodVerdict(f, Unavailable)
<1>1. /\ NoChain.status # 200 /\ NoChain.chain = <<>>
      /\ Unavailable.status # 200 /\ Unavailable.chain = <<>>
  BY DEF NoChain, Unavailable
<1> HIDE DEF NoChain, Unavailable
<1> QED BY <1>1 DEF GoodVerdict, SoundVerdict, ObedientVerdict

(* The verdict there is, if any, is on a linked chain, or refuses.         *)
VerdictInv == answer # None => GoodVerdict(fed, answer)

LEMMA VerdictStep == SearchInv /\ VerdictInv /\ [Next]_vars => VerdictInv'
<1> SUFFICES ASSUME SearchInv, VerdictInv, [Next]_vars PROVE VerdictInv'
  OBVIOUS
<1>1. fed' = fed
  BY VerdictCases
<1>2. CASE answer' = answer
  BY <1>1, <1>2 DEF VerdictInv
<1>3. CASE answer' \in {NoChain, Unavailable}
  <2>1. GoodVerdict(fed, answer')
    BY <1>3, RefusalIsGood
  <2> QED BY <1>1, <2>1 DEF VerdictInv
<1>4. ASSUME NEW c, LinkedChain(c), answer' = Resolve(c) PROVE VerdictInv'
  <2>1. PICK a : a = Resolve(c)
    OBVIOUS
  <2>2. /\ a.chain = c /\ SoundVerdict(fed, a) /\ ObedientVerdict(fed, a)
    BY <1>4, <2>1, ResolvedObeys, ResolvedSound
  <2>3. OrderlyIn(fed) => KeysChainIn(fed, c)
    BY <1>4, OrderlyRestated, ResolvedVerifies
  <2>4. GoodVerdict(fed, a)
    BY <2>2, <2>3 DEF GoodVerdict
  <2> QED BY <1>1, <1>4, <2>1, <2>4 DEF VerdictInv
<1> QED BY <1>2, <1>3, <1>4, VerdictCases

LEMMA VerdictHolds == Spec => []VerdictInv
<1>1. Init => VerdictInv
  BY DEF Init, VerdictInv
<1> QED BY SearchHolds, VerdictStep, <1>1, PTL DEF Spec

(* However much is republished and whatever fails during the search, an    *)
(* answer of 200 carries a trust chain: from the subject, over statements  *)
(* each of which is about the issuer of the one before, was fetched after  *)
(* it and admits the subject from where it stands, with no entity twice,   *)
(* to one of the trust anchors asked for, and no longer than allowed.      *)
THEOREM VerdictIsSound == Spec => []ChainIsSound
<1>1. VerdictInv => ChainIsSound
  BY DEF VerdictInv, GoodVerdict, SoundVerdict, ChainIsSound, FetchedIn, Fetched
<1> QED BY VerdictHolds, <1>1, PTL

(* Where every entity signs with one key at a time and no authority drops  *)
(* the old key of a subordinate before it stops signing with it, whoever   *)
(* receives the chain can verify it link by link, although its parts are   *)
(* of different moments.                                                   *)
THEOREM ReceiverCanVerify == Spec => []OrderlyChainVerifies
<1>1. VerdictInv => OrderlyChainVerifies
  BY OrderlyRestated DEF VerdictInv, GoodVerdict, OrderlyChainVerifies, ChainVerifies
<1> QED BY VerdictHolds, <1>1, PTL

(* The policies, merged one after the other from the trust anchor down,    *)
(* come to what their conjunction says: the metadata sent is permitted by  *)
(* every one of them, and there is an error only if nothing is.            *)
THEOREM PoliciesObeyed == Spec => []MetadataObeysEveryPolicy
<1>1. VerdictInv => MetadataObeysEveryPolicy
  BY DEF VerdictInv, GoodVerdict, ObedientVerdict, MetadataObeysEveryPolicy, FetchedIn, Fetched
<1> QED BY VerdictHolds, <1>1, PTL

-----------------------------------------------------------------------------
(* The counters and the deadline.                                          *)

(* No attempt is counted as failed that has not failed; there is no        *)
(* verdict before the end, and no refusal for the time being without a     *)
(* reason.                                                                 *)
AttemptsFailed ==
  /\ attempt \in 0 .. FETCH_MAX_RETRIES /\ failures \in Nat
  /\ pc # "done" => attempt <= failures
  /\ UnavailableIsTemporary

LEMMA ContinueCounts ==
  ASSUME NEW frames, NEW seen, Continue(frames, seen)
  PROVE  \/ pc' = "done" /\ attempt' = attempt /\ answer' = NoChain
         \/ pc' = "done" /\ attempt' = attempt /\ late /\ answer' = Unavailable
         \/ ~late /\ pc' = "authority" /\ attempt' = 0 /\ answer' = answer
<1>1. Reply(NoChain) \/ \E s : Fetch("authority", s)
  <2> HIDE DEF Fetch, Reply
  <2> QED BY DEF Continue
<1> QED BY <1>1 DEF Fetch, Reply

LEMMA AttemptsStep ==
  ASSUME AttemptsFailed, [Next]_vars PROVE AttemptsFailed'
<1>1. NoChain # Unavailable
  BY DEF NoChain, Unavailable
<1>2. 0 \in 0 .. FETCH_MAX_RETRIES
  BY BoundsAssumption
<1> USE DEF AttemptsFailed, UnavailableIsTemporary
<1>3. ASSUME NEW frames, NEW seen, Continue(frames, seen), late' = late,
             failures' = failures \/ failures' = failures + 1
      PROVE  AttemptsFailed'
  BY <1>1, <1>2, <1>3, ContinueCounts, BoundsAssumption
<1>4. ASSUME NEW what, NEW s, Fetch(what, s), late' = late, failures' = failures
      PROVE  AttemptsFailed'
  BY <1>2, <1>4 DEF Fetch, Reply
<1>5. ASSUME NEW a, Reply(a), a # Unavailable, late' = late, failures' = failures
      PROVE  AttemptsFailed'
  BY <1>5 DEF Reply
<1>6. CASE GotSubject
  BY <1>1, <1>3, <1>5, <1>6 DEF GotSubject
<1>7. CASE GotAuthority
  BY <1>3, <1>4, <1>7 DEF GotAuthority
<1>8. CASE GotStatement
  <2>1. Resolve(FoundChain) # Unavailable
    BY DEF Resolve, PolicyError, Chain, Unavailable
  <2> QED BY <1>1, <1>3, <1>4, <1>5, <1>8, <2>1 DEF GotStatement
<1>9. CASE FailPermanently
  BY <1>3, <1>9 DEF FailPermanently
<1>10. CASE FailForNow
  BY <1>10, BoundsAssumption DEF FailForNow, Reply
<1>11. CASE DeadlinePasses \/ Change \/ Done \/ UNCHANGED vars
  BY <1>11 DEF DeadlinePasses, Change, Done, vars
<1> QED BY <1>6, <1>7, <1>8, <1>9, <1>10, <1>11 DEF Next, Search

(* The client is asked to try again only when the deadline has passed, or  *)
(* a fetch has failed as often as it may.                                  *)
THEOREM RetryIsWarranted == Spec => []UnavailableIsTemporary
<1>1. Init => AttemptsFailed
  BY BoundsAssumption, VerdictsAssumption
     DEF Init, AttemptsFailed, UnavailableIsTemporary
<1>2. AttemptsFailed => UnavailableIsTemporary
  BY DEF AttemptsFailed
<1> QED BY AttemptsStep, <1>1, <1>2, PTL DEF Spec

(* Once the deadline of the request has passed, no fetch is begun: the one *)
(* in progress may finish its attempts.                                    *)
THEOREM DeadlineStopsFetches == Spec => NoFetchAfterDeadline
<1> DEFINE Quiet == late /\ pc' # "done" => pc' = pc /\ stack' = stack /\ attempt' >= attempt
<1>1. ASSUME AttemptsFailed, [Next]_vars PROVE [Quiet]_vars
  <2>1. ASSUME NEW frames, NEW seen, Continue(frames, seen) PROVE Quiet
    BY <2>1, ContinueCounts
  <2>2. ASSUME NEW what, NEW s, Fetch(what, s) PROVE Quiet
    BY <2>2 DEF Fetch, Reply
  <2>3. ASSUME NEW a, Reply(a) PROVE Quiet
    BY <2>3 DEF Reply
  <2>4. attempt \in Nat
    BY <1>1, BoundsAssumption DEF AttemptsFailed
  <2>5. CASE FailForNow
    <3>1. ASSUME UNCHANGED <<pc, stack>>, attempt' = attempt + 1 PROVE Quiet
      BY <2>4, <3>1
    <3> HIDE DEF Quiet
    <3> QED BY <2>3, <2>5, <3>1 DEF FailForNow
  <2>6. CASE DeadlinePasses \/ Change \/ Done
    BY <2>4, <2>6 DEF DeadlinePasses, Change, Done, vars
  <2> HIDE DEF Quiet
  <2>7. CASE GotSubject
    BY <2>1, <2>3, <2>7 DEF GotSubject
  <2>8. CASE GotAuthority
    BY <2>1, <2>2, <2>8 DEF GotAuthority
  <2>9. CASE GotStatement
    BY <2>1, <2>2, <2>3, <2>9 DEF GotStatement
  <2>10. CASE FailPermanently
    BY <2>1, <2>10 DEF FailPermanently
  <2> QED BY <1>1, <2>5, <2>6, <2>7, <2>8, <2>9, <2>10 DEF Next, Search
<1>2. Init => AttemptsFailed
  BY BoundsAssumption, VerdictsAssumption
     DEF Init, AttemptsFailed, UnavailableIsTemporary
<1> QED BY <1>1, <1>2, AttemptsStep, PTL DEF Spec, NoFetchAfterDeadline
-----------------------------------------------------------------------------
(* No chain is hidden.                                                     *)

(* From e a search can go on to a: a is a hint of e and vouches for it.    *)
Leads(f, e, a) ==
  /\ Sound(f.ec[e]) /\ Contains(f.ec[e].hints, a)
  /\ Vouches(f, a, e, IF e = Subject THEN 0 ELSE 1)

(* Entities the subject is one of, no trust anchor is, and from which a    *)
(* search can go on to no others.                                          *)
Closed(f, S) ==
  /\ Subject \in S /\ S \subseteq Entity \ TrustAnchors
  /\ \A e \in S, a \in Entity : Leads(f, e, a) => a \in S

(* Whatever a visited entity leads to has been visited, or is still to be  *)
(* tried: a hint left in its frame or, if that is the innermost, the       *)
(* authority whose turn it is.                                             *)
Spent(f, e, seen) == \A a \in Entity : Leads(f, e, a) => a \in seen
ToTry(f, e, seen, left, turn) ==
  \A a \in Entity : Leads(f, e, a) => a \in seen \/ Contains(left, a) \/ a = turn

Pending(f, s, seen, turn) ==
  \A e \in seen :
    \/ Spent(f, e, seen)
    \/ \E i \in 1 .. Len(s) :
         s[i].at = e /\ ToTry(f, e, seen, s[i].hints, IF i = 1 THEN turn ELSE None)

(* The frames have only what the entities they are about hint.             *)
Hinted(f, s) ==
  \A i \in 1 .. Len(s) :
    /\ s[i].authority # None => Contains(f.ec[s[i].at].hints, s[i].authority)
    /\ \A a \in Entity : Contains(s[i].hints, a) => Contains(f.ec[s[i].at].hints, a)

(* The entities a search may meet on its way.                              *)
Heads(f) ==
  {e \in Entity \ TrustAnchors :
     e = Subject \/ \E d \in Entity : Contains(f.ec[d].hints, e)}

(* What NothingMissing and NoPathLengths come to.                          *)
Undisturbed(f) ==
  /\ Len(f) = 1
  /\ \A e \in Entity : f[1].ec[e] # None
  /\ \A e, a \in Entity :
       /\ Contains(f[1].ec[e].hints, a) => f[1].ss[<<a, e>>] # None
       /\ f[1].ss[<<a, e>>] \notin {None, Invalid} => f[1].ss[<<a, e>>].max = None
  /\ Cardinality(Heads(f[1])) <= MAX_RESOLVE_DEPTH + 1

LEMMA UndisturbedSearch ==
  ASSUME fed \in Seq(Federation), NothingMissing, NoPathLengths
  PROVE  Undisturbed(fed)
<1> DEFINE f == fed[1]
           hinted == UNION {ToSet(f.ec[e].hints) : e \in Entity}
<1>1. /\ Len(fed) = 1 /\ \A e \in Entity : f.ec[e] # None
      /\ \A e, a \in Entity : Contains(f.ec[e].hints, a) => f.ss[<<a, e>>] # None
      /\ Cardinality(({Subject} \cup hinted) \ TrustAnchors) <= MAX_RESOLVE_DEPTH + 1
  BY DEF NothingMissing
<1>2. f \in Federation
  <2>1. 1 \in 1 .. Len(fed)
    BY <1>1
  <2> QED BY <2>1, ElementOfSeq
<1>3. ASSUME NEW e \in Entity
      PROVE  /\ f.ec[e].hints \in Seq(Entity)
             /\ \A a : a \in ToSet(f.ec[e].hints) <=> Contains(f.ec[e].hints, a)
             /\ ToSet(f.ec[e].hints) \subseteq Entity
  <2>1. PICK h \in Seq(Entity) : h = f.ec[e].hints
    <3>1. f.ec[e] \in Configuration
      BY <1>1, <1>2 DEF Federation
    <3> QED BY <3>1 DEF Configuration
  <2>2. DOMAIN h = 1 .. Len(h) /\ \A i \in 1 .. Len(h) : h[i] \in Entity
    BY LenProperties, ElementOfSeq
  <2>3. \A a : a \in ToSet(h) <=> Contains(h, a)
    BY <2>2 DEF ToSet, Contains
  <2>4. ToSet(h) \subseteq Entity
    BY <2>2 DEF ToSet
  <2> QED BY <2>1, <2>3, <2>4
<1> HIDE DEF f
<1>4. ({Subject} \cup hinted) \ TrustAnchors = Heads(f)
  <2>1. hinted \subseteq Entity
    BY <1>3
  <2>2. \A a : a \in hinted <=> \E e \in Entity : Contains(f.ec[e].hints, a)
    <3>1. \A a : a \in hinted <=> \E e \in Entity : a \in ToSet(f.ec[e].hints)
      OBVIOUS
    <3> HIDE DEF hinted
    <3> QED BY <1>3, <3>1
  <2> HIDE DEF hinted
  <2> QED BY <2>1, <2>2, SubjectAssumption DEF Heads
<1>5. ASSUME NEW a \in Entity, NEW e \in Entity, f.ss[<<a, e>>] \notin {None, Invalid}
      PROVE  f.ss[<<a, e>>].max = None
  BY <1>5 DEF NoPathLengths, f
<1> QED BY <1>1, <1>4, <1>5 DEF Undisturbed, f

(* The entities that can be followed from e as ChainExists has it.         *)
Up(f, e, n) ==
  {a \in Entity : /\ f.ec[e] # None /\ Sound(f.ec[e])
                  /\ Contains(f.ec[e].hints, a) /\ Vouches(f, a, e, n)}
Higher(f, below, n) == (UNION {Up(f, e, n) : e \in below}) \ (TrustAnchors \cup {Subject})

IsAbove(f, k, g) ==
  g = [n \in 0 .. k |-> IF n = 0 THEN {Subject} ELSE Higher(f, g[n - 1], n - 1)]

(* The recursion that goes up the hints defines a function.                *)
LEMMA AboveDefined ==
  ASSUME NEW f, NEW k \in Nat
  PROVE  \E g : IsAbove(f, k, g)
<1> DEFINE Is(g, m) == g = [n \in 0 .. m |->
                              IF n = 0 THEN {Subject} ELSE Higher(f, g[n - 1], n - 1)]
           bad      == {m \in Nat : ~\E g : Is(g, m)}
<1>0. \A g, m : IsAbove(f, m, g) <=> Is(g, m)
  BY DEF IsAbove
<1>1. CASE bad = {}
  BY <1>0, <1>1
<1>2. CASE bad # {}
  <2>1. PICK m \in bad : \A i \in bad : m <= i
    <3>1. bad \subseteq Nat
      OBVIOUS
    <3> HIDE DEF bad
    <3> QED BY <1>2, <3>1, LeastExists
  <2>2. m \in Nat /\ ~\E g : Is(g, m)
    OBVIOUS
  <2>3. CASE m = 0
    <3>1. PICK g : g = [n \in 0 .. 0 |-> {Subject}]
      OBVIOUS
    <3>2. g = [n \in 0 .. 0 |->
                 IF n = 0 THEN {Subject} ELSE Higher(f, g[n - 1], n - 1)]
      <4>1. \A n \in 0 .. 0 : n = 0
        OBVIOUS
      <4> QED BY <3>1, <4>1
    <3> QED BY <2>2, <2>3, <3>2
  <2>4. CASE m # 0
    <3>1. m - 1 \in Nat /\ ~(m <= m - 1)
      BY <2>2, <2>4
    <3>2. m - 1 \notin bad
      <4> HIDE DEF bad
      <4> QED BY <2>1, <3>1
    <3>3. PICK g : Is(g, m - 1)
      BY <3>1, <3>2
    <3>4. PICK h : h = [n \in 0 .. m |->
                          IF n = 0 THEN {Subject} ELSE Higher(f, g[n - 1], n - 1)]
      OBVIOUS
    <3>5. \A n \in 0 .. m - 1 : h[n] = g[n]
      <4>1. ASSUME NEW n \in 0 .. m - 1
            PROVE  g[n] = IF n = 0 THEN {Subject} ELSE Higher(f, g[n - 1], n - 1)
        BY <3>3
      <4>2. ASSUME NEW n \in 0 .. m - 1
            PROVE  h[n] = IF n = 0 THEN {Subject} ELSE Higher(f, g[n - 1], n - 1)
        BY <2>2, <3>4
      <4> QED BY <4>1, <4>2
    <3>6. \A n \in 0 .. m : n # 0 => n - 1 \in 0 .. m - 1
      BY <2>2
    <3>7. ASSUME NEW n \in 0 .. m
          PROVE  h[n] = IF n = 0 THEN {Subject} ELSE Higher(f, h[n - 1], n - 1)
      BY <3>4, <3>5, <3>6
    <3>8. Is(h, m)
      BY <3>4, <3>7
    <3> QED BY <2>2, <3>8
  <2> QED BY <2>3, <2>4
<1> QED BY <1>1, <1>2

(* Whatever may be followed is what a search can go on to: with no path    *)
(* lengths it makes no difference how many entities are below, but for     *)
(* there being any.                                                        *)
LEMMA UpLeads ==
  ASSUME Undisturbed(fed), NEW e \in Entity, NEW n \in Nat, (n = 0) <=> (e = Subject),
         NEW a \in Up(fed[1], e, n)
  PROVE  a \in Entity /\ Leads(fed[1], e, a)
<1> DEFINE f  == fed[1]
           ss == f.ss[<<a, e>>]
           m  == IF e = Subject THEN 0 ELSE 1
<1>1. /\ a \in Entity /\ Sound(f.ec[e]) /\ Contains(f.ec[e].hints, a)
      /\ Vouches(f, a, e, n)
  BY DEF Up
<1>2. ss \notin {None, Invalid} /\ Admits(ss, n)
  BY <1>1 DEF Vouches
<1>3. ss.max = None
  BY <1>1, <1>2 DEF Undisturbed
<1>4. Admits(ss, m)
  <2>1. (m = 0) <=> (n = 0)
    OBVIOUS
  <2> HIDE DEF m, ss
  <2> QED BY <1>2, <1>3, <2>1 DEF Admits
<1>5. Vouches(f, a, e, m)
  <2> HIDE DEF m
  <2> QED BY <1>1, <1>4 DEF Vouches
<1> QED BY <1>1, <1>5 DEF Leads

LEMMA ClosedHidesNone ==
  ASSUME Undisturbed(fed), NEW S, Closed(fed[1], S)
  PROVE  ~ChainExists
<1> DEFINE f == fed[1]
           k == MAX_RESOLVE_DEPTH
           m == CHOOSE g : g = [n \in 0 .. k |->
                                  IF n = 0 THEN {Subject} ELSE Higher(f, g[n - 1], n - 1)]
           Right(n) == m[n] \subseteq S /\ \A e \in m[n] : (n = 0) <=> (e = Subject)
           bad == {n \in 0 .. k : ~Right(n)}
<1>1. ChainExists <=> \E n \in 0 .. k : \E e \in m[n] : Up(f, e, n) \cap TrustAnchors # {}
  BY DEF ChainExists, Higher, Up
<1>2. m = [n \in 0 .. k |-> IF n = 0 THEN {Subject} ELSE Higher(f, m[n - 1], n - 1)]
  <2>1. \E g : g = [n \in 0 .. k |->
                      IF n = 0 THEN {Subject} ELSE Higher(f, g[n - 1], n - 1)]
    <3>1. k \in Nat
      BY BoundsAssumption
    <3> HIDE DEF k, f
    <3>2. PICK g : IsAbove(f, k, g)
      BY <3>1, AboveDefined
    <3> QED BY <3>2 DEF IsAbove
  <2> QED BY <2>1
<1>3. k \in Nat
  BY BoundsAssumption
<1> HIDE DEF m, k
<1>4. \A n \in 0 .. k : m[n] = IF n = 0 THEN {Subject} ELSE Higher(f, m[n - 1], n - 1)
  BY <1>2
<1>5. ASSUME NEW n \in 0 .. k, Right(n), NEW e \in m[n], NEW a \in Up(f, e, n)
      PROVE  a \in S
  <2>1. e \in S /\ e \in Entity /\ n \in Nat /\ ((n = 0) <=> (e = Subject))
    BY <1>5 DEF Closed
  <2>2. a \in Entity /\ Leads(f, e, a)
    BY <2>1, UpLeads
  <2> QED BY <2>1, <2>2 DEF Closed
<1>6. ASSUME NEW n \in 1 .. k, Right(n - 1) PROVE Right(n)
  <2>1. n \in 0 .. k /\ n - 1 \in 0 .. k /\ n # 0
    BY <1>3
  <2>2. m[n] = Higher(f, m[n - 1], n - 1)
    BY <1>4, <2>1
  <2>3. ASSUME NEW a \in m[n] PROVE a \in S /\ a # Subject
    <3>1. a # Subject /\ \E e \in m[n - 1] : a \in Up(f, e, n - 1)
      BY <2>2, <2>3 DEF Higher
    <3> HIDE DEF f
    <3> QED BY <1>5, <1>6, <2>1, <3>1
  <2> QED BY <2>1, <2>3
<1>7. Right(0)
  <2>1. 0 \in 0 .. k
    BY <1>3
  <2>2. m[0] = {Subject}
    BY <1>4, <2>1
  <2> QED BY <2>2 DEF Closed
<1>8. bad = {}
  <2> SUFFICES ASSUME bad # {} PROVE FALSE
    OBVIOUS
  <2>1. bad \subseteq Nat
    BY <1>3
  <2>2. PICK n \in bad : \A i \in bad : n <= i
    <3> HIDE DEF bad
    <3> QED BY <2>1, LeastExists
  <2>3. n \in 0 .. k /\ ~Right(n)
    OBVIOUS
  <2>4. n # 0
    BY <1>7, <2>3
  <2>5. n \in 1 .. k /\ n - 1 \in 0 .. k /\ ~(n <= n - 1)
    BY <1>3, <2>3, <2>4
  <2>6. n - 1 \notin bad
    <3> HIDE DEF bad
    <3> QED BY <2>2, <2>5
  <2>7. Right(n - 1)
    BY <2>5, <2>6
  <2> HIDE DEF Right
  <2> QED BY <1>6, <2>3, <2>5, <2>7
<1>9. ASSUME NEW n \in 0 .. k, NEW e \in m[n] PROVE Up(f, e, n) \cap TrustAnchors = {}
  <2>1. Right(n)
    BY <1>8
  <2>2. \A a \in Up(f, e, n) : a \in S
    <3> HIDE DEF Right, f
    <3> QED BY <1>5, <1>9, <2>1
  <2> QED BY <2>2 DEF Closed
<1> QED BY <1>1, <1>9

(* As long as nothing has failed: what has been visited or is in progress  *)
(* hides no authority, and a verdict that there is no chain is right.      *)
Thorough ==
  LET f == fed[1]
  IN  /\ visited \cap TrustAnchors = {}
      /\ pc = "subject" =>
           /\ stack[1].authority = None
           /\ Len(stack) > 1 => Sound(f.ec[stack[1].at])
           /\ Pending(f, Tail(stack), visited, stack[1].at)
           /\ Hinted(f, Tail(stack))
      /\ pc \in {"authority", "statement"} =>
           /\ Pending(f, stack, visited, stack[1].authority)
           /\ Hinted(f, stack)
      /\ pc = "statement" =>
           Sound(f.ec[stack[1].authority]) /\ f.ec[stack[1].authority].endpoint
      /\ answer = NoChain => \E S : Closed(f, S)

(* Only the entities, the hints and the authorities of the frames matter.  *)
LEMMA SameFrames ==
  ASSUME NEW f, NEW s, NEW t, NEW seen, NEW turn, Len(s) \in Nat, Len(t) = Len(s),
         \A i \in 1 .. Len(s) : /\ t[i].at = s[i].at /\ t[i].hints = s[i].hints
                                /\ t[i].authority = s[i].authority
  PROVE  /\ Pending(f, s, seen, turn) => Pending(f, t, seen, turn)
         /\ Hinted(f, s) => Hinted(f, t)
<1>1. ASSUME Pending(f, s, seen, turn) PROVE Pending(f, t, seen, turn)
  BY <1>1 DEF Pending
<1>2. ASSUME Hinted(f, s) PROVE Hinted(f, t)
  BY <1>2 DEF Hinted
<1> QED BY <1>1, <1>2

(* An authority that is not to be followed need not be tried.              *)
LEMMA TurnPassed ==
  ASSUME NEW f, NEW s, NEW seen, NEW turn, Pending(f, s, seen, turn),
         Len(s) \in Nat, ~Leads(f, s[1].at, turn)
  PROVE  Pending(f, s, seen, None)
<1>1. ASSUME NEW e \in seen, NEW i \in 1 .. Len(s), s[i].at = e,
             ToTry(f, e, seen, s[i].hints, IF i = 1 THEN turn ELSE None)
      PROVE  ToTry(f, e, seen, s[i].hints, IF i = 1 THEN None ELSE None)
  <2>1. CASE i = 1
    BY <1>1, <2>1 DEF ToTry
  <2>2. CASE i # 1
    BY <1>1, <2>2
  <2> QED BY <2>1, <2>2
<1> QED BY <1>1 DEF Pending

LEMMA HereTyped ==
  ASSUME SearchInv, Undisturbed(fed)
  PROVE  /\ version = 1 /\ fed[1] = Published /\ fed[1] \in Federation
         /\ \A e \in Entity : fed[1].ec[e] \in Configuration
<1>1. /\ version = 1 /\ Published \in Federation
  BY Typed DEF SearchInv, Undisturbed
<1>2. fed[1] = Published
  BY <1>1 DEF Published
<1>3. \A e \in Entity : fed[1].ec[e] \in Configuration
  <2>1. \A e \in Entity : fed[1].ec[e] \in Configuration \cup {None} /\ fed[1].ec[e] # None
    BY <1>1, <1>2 DEF Federation, Undisturbed
  <2> QED BY <2>1
<1> QED BY <1>1, <1>2, <1>3

(* Going on to the next hint hides nothing, and where there is none left   *)
(* the visited entities lead to no others.                                 *)
LEMMA ContinuesThoroughly ==
  ASSUME SearchInv, Undisturbed(fed), NEW frames \in Seq(FrameOf(version)),
         NEW seen \in SUBSET Entity, seen \cap TrustAnchors = {},
         Path(fed, frames, seen), frames # <<>>,
         Pending(fed[1], frames, seen, None), Hinted(fed[1], frames),
         Continue(frames, seen), visited' = seen, UNCHANGED fed, answer = None
  PROVE  Thorough'
<1> DEFINE f == fed[1]
<1>0. /\ version \in Nat /\ Len(frames) \in Nat /\ Len(frames) > 0 /\ fed' = fed
      /\ \A i \in 1 .. Len(frames) : frames[i] \in FrameOf(version)
  BY Typed, LongEnough, ElementOfSeq DEF SearchInv
<1>1. None \notin {NoChain, Unavailable} /\ NoChain # Unavailable /\ None \notin Entity
  BY VerdictsAssumption, SentinelsAssumption DEF NoChain, Unavailable
<1>2. CASE Ends(frames, seen)
  <2>1. ASSUME answer' = NoChain PROVE Closed(f, seen)
    <3>1. \A i \in 1 .. Len(frames) : \A a \in Entity : Contains(frames[i].hints, a) => a \in seen
      BY <1>1, <1>2, <2>1 DEF Ends
    <3>2. Subject \in seen
      <4>1. Len(frames) \in 1 .. Len(frames)
        BY <1>0
      <4> QED BY <4>1 DEF Path
    <3>3. ASSUME NEW e \in seen PROVE Spent(f, e, seen)
      <4>1. ASSUME NEW i \in 1 .. Len(frames), NEW turn,
                   ToTry(f, e, seen, frames[i].hints, turn), turn = None
            PROVE  Spent(f, e, seen)
        BY <1>1, <3>1, <4>1 DEF ToTry, Spent
      <4>2. \/ Spent(f, e, seen)
            \/ \E i \in 1 .. Len(frames) :
                 ToTry(f, e, seen, frames[i].hints, IF i = 1 THEN None ELSE None)
        BY DEF Pending
      <4> QED BY <4>1, <4>2
    <3> QED BY <3>2, <3>3 DEF Closed, Spent
  <2>2. pc' = "done"
    BY <1>2 DEF Ends
  <2> QED BY <1>0, <2>1, <2>2 DEF Thorough
<1>3. ASSUME NEW i \in 1 .. Len(frames), NEW x \in FrameOf(version),
             x.at = frames[i].at, x.authority \in Entity \ seen,
             stack' = <<x>> \o SubSeq(frames, i + 1, Len(frames)),
             Passes(frames, seen, i, x),
             pc' = "authority", answer' = answer
      PROVE  Thorough'
  <2>1. PICK t : t = <<x>> \o SubSeq(frames, i + 1, Len(frames))
    OBVIOUS
  <2>2. /\ Len(t) = Len(frames) - i + 1 /\ t[1] = x
        /\ \A j \in 2 .. Len(t) : t[j] = frames[j + i - 1]
    BY <2>1, Spliced
  <2>3. Hinted(f, t)
    <3>1. ASSUME NEW j \in 1 .. Len(t)
          PROVE  /\ t[j].authority # None => Contains(f.ec[t[j].at].hints, t[j].authority)
                 /\ \A a \in Entity : Contains(t[j].hints, a) => Contains(f.ec[t[j].at].hints, a)
      <4>1. CASE j = 1
        BY <1>3, <2>2, <4>1 DEF Hinted, Passes
      <4>2. CASE j # 1
        <5>1. PICK k \in 1 .. Len(frames) : k = j + i - 1 /\ t[j] = frames[k]
          BY <1>0, <2>2, <4>2
        <5> QED BY <5>1 DEF Hinted
      <4> QED BY <4>1, <4>2
    <3> QED BY <3>1 DEF Hinted
  <2>4. Pending(f, t, seen, x.authority)
    <3>1. ASSUME NEW e \in seen, NEW j \in 1 .. Len(frames), frames[j].at = e,
                 NEW turn, ToTry(f, e, seen, frames[j].hints, turn), turn = None
          PROVE  \/ Spent(f, e, seen)
                 \/ \E k \in 1 .. Len(t) :
                      /\ t[k].at = e
                      /\ ToTry(f, e, seen, t[k].hints, IF k = 1 THEN x.authority ELSE None)
      <4>1. CASE j < i
        <5>1. j \in 1 .. i - 1
          BY <1>0, <4>1
        <5>2. \A a \in Entity : Contains(frames[j].hints, a) => a \in seen
          BY <1>3, <5>1 DEF Passes
        <5> QED BY <1>1, <3>1, <5>2 DEF ToTry, Spent
      <4>2. CASE j = i
        <5>1. \A a \in Entity : Contains(frames[i].hints, a) =>
                a \in seen \/ a = x.authority \/ Contains(x.hints, a)
          BY <1>3 DEF Passes
        <5>2. ToTry(f, e, seen, x.hints, x.authority)
          BY <1>1, <3>1, <4>2, <5>1 DEF ToTry
        <5>3. 1 \in 1 .. Len(t) /\ t[1].at = e /\ t[1].hints = x.hints
          BY <1>0, <1>3, <2>2, <3>1, <4>2
        <5> QED BY <5>2, <5>3
      <4>3. CASE j > i
        <5>1. PICK k \in 2 .. Len(t) : k = j - i + 1 /\ j = k + i - 1
          BY <1>0, <2>2, <4>3
        <5>2. t[k] = frames[j] /\ k \in 1 .. Len(t) /\ k # 1
          BY <2>2, <5>1
        <5> QED BY <3>1, <5>2
      <4> QED BY <1>0, <4>1, <4>2, <4>3
    <3>2. ASSUME NEW e \in seen, NEW j \in 1 .. Len(frames), frames[j].at = e,
                 ToTry(f, e, seen, frames[j].hints, IF j = 1 THEN None ELSE None)
          PROVE  \/ Spent(f, e, seen)
                 \/ \E k \in 1 .. Len(t) :
                      /\ t[k].at = e
                      /\ ToTry(f, e, seen, t[k].hints, IF k = 1 THEN x.authority ELSE None)
      BY <3>1, <3>2
    <3> QED BY <3>2 DEF Pending
  <2>5. stack' = t /\ stack'[1].authority = x.authority /\ answer' # NoChain
    BY <1>1, <1>3, <2>1, <2>2
  <2> QED BY <1>0, <1>3, <2>2, <2>3, <2>4, <2>5 DEF Thorough
<1>4. CASE Turns(version, frames, seen)
  BY <1>3, <1>4 DEF Turns
<1> QED BY <1>0, <1>2, <1>4, Continues

LEMMA SubjectThorough ==
  ASSUME SearchInv, Undisturbed(fed), Thorough, Subject \notin TrustAnchors, GotSubject
  PROVE  Thorough'
<1> DEFINE f == fed[1]
<1>1. /\ version \in Nat /\ version = 1 /\ f = Published /\ Len(stack) \in Nat
      /\ stack \in Seq(FrameOf(version)) /\ stack # <<>> /\ Len(stack) >= 1
      /\ stack[1] \in FrameOf(version) /\ At = stack[1].at /\ At \in Entity
      /\ f.ec[At] \in Configuration /\ version >= 1
      /\ Len(stack) = 1 \/ Len(stack) > 1
  BY Typed, HereTyped, LongEnough DEF SearchInv
<1>2. /\ Reaching(fed, stack, visited) /\ visited \in SUBSET Entity
      /\ answer = None /\ fed' = fed
  BY DEF GotSubject, SearchInv, StackInv, TypeOK
<1>3. /\ visited \cap TrustAnchors = {} /\ stack[1].authority = None
      /\ Len(stack) > 1 => Sound(f.ec[At])
      /\ Pending(f, Tail(stack), visited, At) /\ Hinted(f, Tail(stack))
  BY <1>1 DEF Thorough, GotSubject
<1>4. PICK seen \in SUBSET Entity : seen = visited \cup {At} /\ visited' = seen
  BY <1>1, <1>2 DEF GotSubject
<1>5. At \notin TrustAnchors /\ (Len(stack) = 1 => At = Subject)
  <2>1. CASE Len(stack) = 1
    <3>1. At = Subject
      BY <1>1, <1>2, <2>1 DEF Reaching
    <3> QED BY <3>1
  <2>2. CASE Len(stack) > 1
    <3>1. At \notin TrustAnchors
      BY <1>1, <1>2, <2>2 DEF Reaching
    <3>2. Len(stack) # 1
      BY <2>2
    <3> QED BY <3>1, <3>2
  <2> QED BY <1>1, <2>1, <2>2
<1>6. PICK ec \in Configuration : ec = f.ec[At] /\ ec = Published.ec[At]
  BY <1>1
<1>7. CASE ~Sound(ec)
  <2>1. Reply(NoChain)
    BY <1>6, <1>7 DEF GotSubject
  <2>2. At = Subject
    <3>1. ~(Len(stack) > 1)
      BY <1>3, <1>6, <1>7
    <3> QED BY <1>1, <1>5, <3>1
  <2>3. Closed(f, {Subject})
    BY <1>6, <1>7, <2>2, SubjectAssumption DEF Closed, Leads
  <2>4. seen \cap TrustAnchors = {}
    BY <1>3, <1>4, <1>5
  <2> QED BY <1>2, <1>4, <2>1, <2>3, <2>4 DEF Thorough, Reply
<1>8. CASE Sound(ec)
  <2>1. PICK frames : frames = [stack EXCEPT ![1].hints = ec.hints, ![1].own = version]
    OBVIOUS
  <2>2. Continue(frames, seen)
    BY <1>4, <1>6, <1>8, <2>1 DEF GotSubject
  <2>3. PICK x : x = Owning(stack[1], ec.hints, version)
    OBVIOUS
  <2>4. /\ x \in FrameOf(version) /\ x.at = At /\ x.own = version
        /\ x.hints = ec.hints /\ x.authority = None
    <3>1. ec.hints \in Seq(Entity) /\ version \in 0 .. version
      BY <1>1 DEF Configuration
    <3>2. x.hints = ec.hints /\ x.authority = stack[1].authority
      BY <1>1, <2>3 DEF Owning, FrameOf
    <3> QED BY <1>1, <1>3, <2>3, <3>1, <3>2, FrameOwning
  <2>5. frames = [stack EXCEPT ![1] = x]
    <3>1. DOMAIN stack = 1 .. Len(stack) /\ 1 \in DOMAIN stack
      BY <1>1, LenProperties
    <3> QED BY <2>1, <2>3, <3>1 DEF Owning
  <2>6. fed[version].ec[x.at] # None
    BY <1>1, <2>4, SentinelsAssumption
  <2>7. frames \in Seq(FrameOf(version)) /\ Path(fed, frames, visited \cup {x.at})
    BY <1>1, <1>2, <2>4, <2>5, <2>6, PathReached
  <2>8. Path(fed, frames, seen)
    BY <1>4, <2>4, <2>7
  <2> DEFINE r == Tail(stack)
  <2>9. /\ Len(r) = Len(stack) - 1 /\ \A j \in 1 .. Len(r) : r[j] = stack[j + 1]
    BY <1>1, HeadTailProperties
  <2>10. /\ Len(frames) = Len(stack)
         /\ \A j \in 1 .. Len(stack) : frames[j] = IF j = 1 THEN x ELSE stack[j]
    BY <1>1, <2>4, <2>5, ExceptSeq
  <2>11. /\ Len(frames) = Len(r) + 1 /\ frames[1] = x /\ Len(r) \in Nat
         /\ \A j \in 1 .. Len(r) : frames[j + 1] = r[j] /\ j + 1 \in 2 .. Len(frames)
    BY <1>1, <2>9, <2>10
  <2>12. Pending(f, r, visited, At) /\ Hinted(f, r)
    BY <1>3
  <2> HIDE DEF r
  <2>13. Hinted(f, frames)
    <3>1. ASSUME NEW j \in 1 .. Len(frames)
          PROVE  /\ frames[j].authority # None
                      => Contains(f.ec[frames[j].at].hints, frames[j].authority)
                 /\ \A a \in Entity : Contains(frames[j].hints, a)
                      => Contains(f.ec[frames[j].at].hints, a)
      <4>1. CASE j = 1
        BY <1>6, <2>4, <2>11, <4>1
      <4>2. CASE j # 1
        <5>1. PICK k \in 1 .. Len(r) : j = k + 1 /\ frames[j] = r[k]
          BY <2>11, <4>2
        <5> QED BY <2>12, <5>1 DEF Hinted
      <4> QED BY <4>1, <4>2
    <3> QED BY <3>1 DEF Hinted
  <2>14. Pending(f, frames, seen, None)
    <3>1. ASSUME NEW e \in seen, NEW turn, turn = None
          PROVE  \/ Spent(f, e, seen)
                 \/ \E i \in 1 .. Len(frames) :
                      frames[i].at = e /\ ToTry(f, e, seen, frames[i].hints, turn)
      <4>1. CASE e = At
        <5>1. ToTry(f, e, seen, x.hints, turn)
          BY <1>6, <2>4, <4>1 DEF ToTry, Leads
        <5>2. 1 \in 1 .. Len(frames)
          BY <2>11
        <5> QED BY <2>4, <2>11, <4>1, <5>1, <5>2
      <4>2. CASE e \in visited
        <5>1. CASE Spent(f, e, visited)
          BY <1>4, <5>1 DEF Spent
        <5>2. ASSUME NEW i \in 1 .. Len(r), r[i].at = e, NEW a0, a0 \in {At, None},
                     ToTry(f, e, visited, r[i].hints, a0)
              PROVE  \E j \in 1 .. Len(frames) :
                       frames[j].at = e /\ ToTry(f, e, seen, frames[j].hints, turn)
          <6>1. i + 1 \in 1 .. Len(frames) /\ frames[i + 1] = r[i]
            BY <2>11
          <6>2. ToTry(f, e, seen, r[i].hints, turn)
            BY <1>4, <5>2, SentinelsAssumption DEF ToTry
          <6> QED BY <5>2, <6>1, <6>2
        <5>3. \/ Spent(f, e, visited)
              \/ \E i \in 1 .. Len(r) :
                   /\ r[i].at = e
                   /\ ToTry(f, e, visited, r[i].hints, IF i = 1 THEN At ELSE None)
          BY <2>12, <4>2 DEF Pending
        <5>4. \A i : (IF i = 1 THEN At ELSE None) \in {At, None}
          OBVIOUS
        <5> QED BY <5>1, <5>2, <5>3, <5>4
      <4> QED BY <1>4, <4>1, <4>2
    <3>2. \A i : (IF i = 1 THEN None ELSE None) = None
      OBVIOUS
    <3> QED BY <3>1, <3>2 DEF Pending
  <2>15. seen \cap TrustAnchors = {} /\ frames # <<>>
    BY <1>1, <1>3, <1>4, <1>5, <2>10
  <2> QED BY <1>2, <1>4, <2>2, <2>7, <2>8, <2>13, <2>14, <2>15, ContinuesThoroughly
<1> QED BY <1>7, <1>8

LEMMA AuthorityThorough ==
  ASSUME SearchInv, Undisturbed(fed), Thorough, GotAuthority
  PROVE  Thorough'
<1> DEFINE f == fed[1]
           a == stack[1].authority
<1>1. /\ version \in Nat /\ version = 1 /\ f = Published /\ Len(stack) \in Nat
      /\ stack \in Seq(FrameOf(version)) /\ stack # <<>> /\ Len(stack) >= 1
      /\ stack[1] \in FrameOf(version) /\ Authority = a
  BY Typed, HereTyped DEF SearchInv
<1>2. /\ Path(fed, stack, visited) /\ visited \in SUBSET Entity
      /\ answer = None /\ UNCHANGED <<fed, visited>>
  BY DEF GotAuthority, SearchInv, StackInv, TypeOK
<1>3. /\ visited \cap TrustAnchors = {}
      /\ Pending(f, stack, visited, a) /\ Hinted(f, stack)
  BY DEF Thorough, GotAuthority
<1>4. None \notin {NoChain, Unavailable} /\ NoChain # Unavailable
  BY VerdictsAssumption DEF NoChain, Unavailable
<1> HIDE DEF f
<1>5. CASE ~(Sound(f.ec[a]) /\ f.ec[a].endpoint)
  <2>1. Continue(stack, visited)
    BY <1>1, <1>5 DEF GotAuthority
  <2>2. ~Leads(f, stack[1].at, a)
    BY <1>5 DEF Leads, Vouches
  <2>3. Pending(f, stack, visited, None)
    BY <1>1, <1>3, <2>2, TurnPassed
  <2> QED BY <1>1, <1>2, <1>3, <2>1, <2>3, ContinuesThoroughly DEF f
<1>6. CASE Sound(f.ec[a]) /\ f.ec[a].endpoint
  <2>1. Fetch("statement", [stack EXCEPT ![1].theirs = version])
    BY <1>1, <1>6 DEF GotAuthority
  <2>2. CASE late
    <3>1. pc' = "done" /\ answer' = Unavailable
      BY <2>1, <2>2 DEF Fetch, Reply
    <3> QED BY <1>2, <1>3, <1>4, <3>1 DEF Thorough
  <2>3. CASE ~late
    <3>1. PICK x : x = Knowing(stack[1], version)
      OBVIOUS
    <3>2. /\ x \in FrameOf(version) /\ x.at = stack[1].at
          /\ x.authority = a /\ x.hints = stack[1].hints
      <4>1. x.hints = stack[1].hints
        BY <1>1, <3>1 DEF Knowing, FrameOf
      <4>2. version \in 0 .. version
        BY <1>1
      <4> QED BY <1>1, <3>1, <4>1, <4>2, FrameKnowing
    <3>3. PICK t : t = [stack EXCEPT ![1] = x]
      OBVIOUS
    <3>4. [stack EXCEPT ![1].theirs = version] = t
      BY <1>1, <3>1, <3>3 DEF Knowing
    <3>5. /\ Len(t) = Len(stack)
          /\ \A j \in 1 .. Len(stack) : t[j] = IF j = 1 THEN x ELSE stack[j]
      BY <1>1, <3>2, <3>3, ExceptSeq
    <3>6. \A j \in 1 .. Len(stack) : /\ t[j].at = stack[j].at /\ t[j].hints = stack[j].hints
                                     /\ t[j].authority = stack[j].authority
      BY <3>2, <3>5
    <3>7. Pending(f, t, visited, a) /\ Hinted(f, t)
      BY <1>1, <1>3, <3>5, <3>6, SameFrames
    <3>8. t[1].authority = a
      BY <1>1, <3>6
    <3>9. pc' = "statement" /\ stack' = t /\ answer' = None
      BY <1>2, <2>1, <2>3, <3>4 DEF Fetch
    <3> HIDE DEF a
    <3>10. /\ fed' = fed /\ visited' = visited /\ stack'[1].authority = a /\ answer' # NoChain
      BY <1>2, <1>4, <3>8, <3>9
    <3> QED BY <1>3, <1>6, <3>7, <3>9, <3>10 DEF Thorough, f
  <2> QED BY <2>2, <2>3
<1> QED BY <1>5, <1>6

(* The frames are about as many entities as there are to meet, at most,    *)
(* and the authority is one more: no path of them is cut off.              *)
LEMMA NeverTooDeep ==
  ASSUME SearchInv, Undisturbed(fed), IsFiniteSet(Entity),
         Path(fed, stack, visited), visited \cap TrustAnchors = {},
         Hinted(fed[1], stack), Authority \in Entity \ visited,
         Authority \notin TrustAnchors
  PROVE  ~(Len(stack) > MAX_RESOLVE_DEPTH)
<1> DEFINE f == fed[1]
           n == Len(stack)
           H == Heads(f)
           met == [i \in 1 .. n + 1 |-> IF i <= n THEN stack[i].at ELSE Authority]
<1>1. /\ n \in Nat /\ n >= 1 /\ Authority = stack[1].authority
      /\ stack \in Seq(FrameOf(version)) /\ None \notin Entity
  BY Typed, SentinelsAssumption DEF SearchInv
<1>2. IsFiniteSet(H) /\ Cardinality(H) \in Nat /\ Cardinality(H) <= MAX_RESOLVE_DEPTH + 1
  <2>1. H \in SUBSET Entity
    BY DEF Heads
  <2> HIDE DEF H
  <2>2. IsFiniteSet(H)
    BY <2>1, FS_Subset
  <2>3. Cardinality(H) \in Nat
    BY <2>2, FS_CardinalityType
  <2> QED BY <2>2, <2>3 DEF Undisturbed, H
<1>3. ASSUME NEW i \in 1 .. n
      PROVE  /\ stack[i].at \in visited /\ stack[i].at \in Entity /\ stack[i].at \notin TrustAnchors
             /\ stack[i].authority # None =>
                  Contains(f.ec[stack[i].at].hints, stack[i].authority)
  <2>1. stack[i] \in FrameOf(version)
    BY <1>1, ElementOfSeq
  <2>2. stack[i].at \in Entity
    BY <2>1 DEF FrameOf
  <2>3. stack[i].at \in visited
    BY DEF Path
  <2> QED BY <2>2, <2>3 DEF Hinted
<1>4. ASSUME NEW i \in 1 .. n PROVE stack[i].at \in H
  <2>1. CASE i = n
    <3>1. stack[n].at = Subject
      BY <1>1, EmptySeq DEF Path
    <3> QED BY <1>3, <2>1, <3>1 DEF Heads
  <2>2. CASE i # n
    <3>1. PICK j \in 2 .. n : j = i + 1 /\ j - 1 = i /\ j \in 1 .. n
      BY <1>1, <2>2
    <3>2. stack[j].authority = stack[i].at
      BY <3>1 DEF Path
    <3>3. Contains(f.ec[stack[j].at].hints, stack[i].at) /\ stack[j].at \in Entity
      BY <1>1, <1>3, <3>1, <3>2
    <3> QED BY <1>3, <3>3 DEF Heads
  <2> QED BY <2>1, <2>2
<1>5. Authority \in H
  <2>1. 1 \in 1 .. n
    BY <1>1
  <2>2. Contains(f.ec[stack[1].at].hints, Authority) /\ stack[1].at \in Entity
    BY <1>1, <1>3, <2>1
  <2> QED BY <2>2 DEF Heads
<1> SUFFICES ASSUME n > MAX_RESOLVE_DEPTH PROVE FALSE
  OBVIOUS
<1>6. /\ \A i \in 1 .. n : met[i] = stack[i].at
      /\ met[n + 1] = Authority
  BY <1>1
<1>7. met \in [1 .. n + 1 -> H]
  BY <1>1, <1>4, <1>5
<1> HIDE DEF H, met, n, f
<1>8. IsFiniteSet(1 .. n + 1) /\ Cardinality(1 .. n + 1) = n + 1
  <2>1. 1 \in Int /\ n + 1 \in Int /\ ~(1 > n + 1) /\ (n + 1) - 1 + 1 = n + 1
    BY <1>1
  <2> QED BY <2>1, FS_Interval
<1>9. Cardinality(H) < Cardinality(1 .. n + 1)
  BY <1>1, <1>2, <1>8, BoundsAssumption
<1>10. PICK i \in 1 .. n + 1, j \in 1 .. n + 1 : i # j /\ met[i] = met[j]
  <2> DEFINE D == 1 .. n + 1
  <2>1. IsFiniteSet(D) /\ Cardinality(H) < Cardinality(D) /\ met \in [D -> H]
    BY <1>7, <1>8, <1>9
  <2> HIDE DEF D
  <2>2. \E x, y \in D : x # y /\ met[x] = met[y]
    BY <1>2, <2>1, FS_PigeonHole
  <2> QED BY <2>2 DEF D
<1>11. CASE i \in 1 .. n /\ j \in 1 .. n
  BY <1>6, <1>10, <1>11 DEF Path, n
<1>12. CASE i = n + 1 \/ j = n + 1
  <2>1. \A k \in 1 .. n : met[k] \in visited
    BY <1>3, <1>6
  <2>2. \A k \in 1 .. n + 1 : k = n + 1 \/ k \in 1 .. n
    BY <1>1
  <2> QED BY <1>6, <1>10, <1>12, <2>1, <2>2
<1> QED BY <1>1, <1>11, <1>12

LEMMA StatementThorough ==
  ASSUME SearchInv, Undisturbed(fed), Thorough, IsFiniteSet(Entity), GotStatement
  PROVE  Thorough'
<1> DEFINE f  == fed[1]
           a  == stack[1].authority
           e  == stack[1].at
           ss == f.ss[<<a, e>>]
<1>1. /\ version \in Nat /\ version = 1 /\ f = Published /\ Len(stack) \in Nat
      /\ stack \in Seq(FrameOf(version)) /\ stack # <<>> /\ Len(stack) >= 1
      /\ stack[1] \in FrameOf(version) /\ Authority = a /\ At = e /\ e \in Entity
      /\ Head(stack) = stack[1]
  BY Typed, HereTyped DEF SearchInv
<1>2. /\ Path(fed, stack, visited) /\ visited \in SUBSET Entity /\ a \in Entity \ visited
      /\ answer = None /\ UNCHANGED <<fed, visited>> /\ stack[1].theirs >= 1
  BY DEF GotStatement, SearchInv, StackInv, TypeOK
<1>3. /\ visited \cap TrustAnchors = {}
      /\ Pending(f, stack, visited, a) /\ Hinted(f, stack)
      /\ Sound(f.ec[a]) /\ f.ec[a].endpoint
  BY DEF Thorough, GotStatement
<1>4. /\ None \notin {NoChain, Unavailable} /\ NoChain # Unavailable
      /\ \A c : Resolve(c) # NoChain
  <2>1. Invalid # None
    BY SentinelsAssumption
  <2>2. NoChain.status = 400 /\ NoChain.metadata = None /\ NoChain # Unavailable
    BY DEF NoChain, Unavailable
  <2>3. ASSUME NEW c, NEW v PROVE PolicyError(c) # NoChain /\ Chain(c, v) # NoChain
    <3>1. PolicyError(c).metadata = Invalid /\ Chain(c, v).status = 200
      BY DEF PolicyError, Chain
    <3> QED BY <2>1, <2>2, <3>1
  <2>4. \A c : Resolve(c) = PolicyError(c) \/ \E v : Resolve(c) = Chain(c, v)
    BY DEF Resolve
  <2> QED BY <2>2, <2>3, <2>4, VerdictsAssumption
<1>5. stack[1].own = 1 /\ stack[1].theirs = 1
  <2>1. 1 \in 1 .. Len(stack)
    BY <1>1
  <2>2. stack[1].own >= 1
    BY <1>2, <2>1 DEF Path
  <2> QED BY <1>1, <1>2, <2>2 DEF FrameOf
<1>6. (Depth = 0) <=> (e = Subject)
  <2>1. stack[Len(stack)].at = Subject /\ 1 \in 1 .. Len(stack) /\ Len(stack) \in 1 .. Len(stack)
    BY <1>1, <1>2 DEF Path
  <2>2. CASE Len(stack) = 1
    BY <2>1, <2>2 DEF Depth
  <2>3. CASE Len(stack) # 1
    <3>1. e # Subject
      BY <1>2, <2>1, <2>3 DEF Path
    <3> QED BY <1>1, <2>3, <3>1 DEF Depth
  <2> QED BY <2>2, <2>3
<1> HIDE DEF f, ss
<1>7. CASE Continue(stack, visited) /\ (ss = Invalid \/ ~Binds(ss) \/ ~Admits(ss, Depth))
  <2>1. ASSUME Leads(f, e, a) PROVE FALSE
    <3> DEFINE n == IF e = Subject THEN 0 ELSE 1
    <3>1. Vouches(f, a, e, n)
      BY <2>1 DEF Leads
    <3>2. /\ ss \notin {None, Invalid} /\ Admits(ss, n)
          /\ ss.signer \in f.ec[a].keys /\ f.ec[e].signer \in ss.keys
      <4> HIDE DEF n
      <4> QED BY <3>1 DEF Vouches, ss
    <3>3. Binds(ss)
      BY <1>1, <1>5, <3>2 DEF Binds, f
    <3>4. ss.max = None
      BY <1>1, <1>2, <3>2 DEF Undisturbed, ss, f
    <3>5. (n = 0) <=> (Depth = 0)
      BY <1>6
    <3>6. Admits(ss, Depth)
      <4> HIDE DEF n
      <4> QED BY <3>2, <3>4, <3>5 DEF Admits
    <3> QED BY <1>7, <3>2, <3>3, <3>6
  <2>2. Pending(f, stack, visited, None)
    BY <1>1, <1>3, <2>1, TurnPassed
  <2> QED BY <1>1, <1>2, <1>3, <1>7, <2>2, ContinuesThoroughly DEF f
<1>8. CASE Reply(Resolve(FoundChain))
  <2>1. pc' = "done" /\ answer' # NoChain
    <3> HIDE DEF Resolve
    <3> QED BY <1>4, <1>8 DEF Reply
  <2> QED BY <1>2, <1>3, <2>1 DEF Thorough
<1>9. CASE a \notin TrustAnchors /\ Len(stack) > MAX_RESOLVE_DEPTH
  BY <1>1, <1>2, <1>3, <1>9, NeverTooDeep DEF f
<1>10. CASE Fetch("subject", <<Frame(Authority)>> \o [stack EXCEPT ![1].about = version])
  <2>1. CASE late
    <3>1. pc' = "done" /\ answer' = Unavailable
      BY <1>10, <2>1 DEF Fetch, Reply
    <3> QED BY <1>2, <1>3, <1>4, <3>1 DEF Thorough
  <2>2. CASE ~late
    <3>1. PICK x : x = Vouched(stack[1], version)
      OBVIOUS
    <3>2. x \in FrameOf(version) /\ x.at = e /\ x.authority = a /\ x.hints = stack[1].hints
      <4>1. x.hints = stack[1].hints
        BY <1>1, <3>1 DEF Vouched, FrameOf
      <4>2. version \in 0 .. version
        BY <1>1
      <4> QED BY <1>1, <3>1, <4>1, <4>2, FrameVouched
    <3>3. PICK t : t = [stack EXCEPT ![1] = x]
      OBVIOUS
    <3>4. [stack EXCEPT ![1].about = version] = t
      BY <1>1, <3>1, <3>3 DEF Vouched
    <3>5. /\ t \in Seq(FrameOf(version)) /\ Len(t) = Len(stack)
          /\ \A j \in 1 .. Len(stack) : t[j] = IF j = 1 THEN x ELSE stack[j]
      BY <1>1, <3>2, <3>3, ExceptSeq
    <3>6. \A j \in 1 .. Len(stack) : /\ t[j].at = stack[j].at /\ t[j].hints = stack[j].hints
                                     /\ t[j].authority = stack[j].authority
      BY <3>2, <3>5
    <3>7. Pending(f, t, visited, a) /\ Hinted(f, t)
      BY <1>1, <1>3, <3>5, <3>6, SameFrames
    <3>8. PICK y \in FrameOf(version) : y = Frame(a) /\ y.at = a /\ y.authority = None
      <4>1. Frame(a).authority = None
        BY DEF Frame
      <4> QED BY <1>1, <1>2, <4>1, FrameNew
    <3>9. PICK s : s = <<y>> \o t
      OBVIOUS
    <3>10. s[1] = y /\ Tail(s) = t
      BY <3>5, <3>8, <3>9, Pushed
    <3>11. pc' = "subject" /\ stack' = s /\ answer' = None
      BY <1>1, <1>2, <1>10, <2>2, <3>4, <3>8, <3>9 DEF Fetch
    <3> HIDE DEF a
    <3>12. /\ fed' = fed /\ visited' = visited /\ stack'[1].at = a
           /\ stack'[1].authority = None /\ Tail(stack') = t /\ answer' # NoChain
      BY <1>2, <1>4, <3>8, <3>10, <3>11
    <3> QED BY <1>3, <3>7, <3>11, <3>12 DEF Thorough, f
  <2> QED BY <2>1, <2>2
<1>11. \/ Continue(stack, visited) /\ (ss = Invalid \/ ~Binds(ss) \/ ~Admits(ss, Depth))
       \/ Reply(Resolve(FoundChain))
       \/ a \notin TrustAnchors /\ Len(stack) > MAX_RESOLVE_DEPTH
       \/ Fetch("subject", <<Frame(Authority)>> \o [stack EXCEPT ![1].about = version])
  BY <1>1 DEF GotStatement, ss
<1> QED BY <1>7, <1>8, <1>9, <1>10, <1>11

LEMMA FailuresThorough ==
  ASSUME SearchInv, Undisturbed(fed), Thorough, FailPermanently \/ FailForNow,
         failures' = 0
  PROVE  FALSE
<1> DEFINE f == fed[1]
<1>1. /\ f = Published /\ stack[1].authority = Authority /\ At = stack[1].at
      /\ At \in Entity /\ Len(stack) \in Nat /\ Len(stack) >= 1
  BY Typed, HereTyped DEF SearchInv
<1>2. failures \in Nat /\ failures' # failures + 1
  BY DEF SearchInv, TypeOK
<1>3. FailPermanently /\ pc # "done" /\ Requested = None
  BY <1>2 DEF FailPermanently, FailForNow
<1>4. CASE pc = "subject"
  <2>1. Requested = f.ec[At]
    BY <1>1, <1>4 DEF Requested
  <2> QED BY <1>1, <1>3, <2>1 DEF Undisturbed
<1>5. CASE pc = "authority"
  <2>1. Requested = f.ec[Authority]
    BY <1>1, <1>5 DEF Requested
  <2>2. Authority \in Entity
    BY <1>1, <1>5 DEF SearchInv, StackInv
  <2> QED BY <1>3, <2>1, <2>2 DEF Undisturbed
<1>6. CASE pc = "statement"
  <2>1. Requested = f.ss[<<Authority, At>>]
    BY <1>1, <1>6 DEF Requested
  <2>2. Authority \in Entity /\ Authority # None
    BY <1>1, <1>6, SentinelsAssumption DEF SearchInv, StackInv
  <2>3. Contains(f.ec[At].hints, Authority)
    <3>1. 1 \in 1 .. Len(stack) /\ Hinted(f, stack)
      BY <1>1, <1>6 DEF Thorough
    <3> QED BY <1>1, <2>2, <3>1 DEF Hinted
  <2> QED BY <1>1, <1>3, <2>1, <2>2, <2>3 DEF Undisturbed
<1> QED BY <1>3, <1>4, <1>5, <1>6 DEF SearchInv, TypeOK

LEMMA SurroundingsThorough ==
  ASSUME Thorough, DeadlinePasses \/ Change \/ Done \/ UNCHANGED vars
  PROVE  Thorough'
<1>1. UNCHANGED <<fed, pc, stack, visited, answer>>
  BY DEF DeadlinePasses, Change, Done, vars
<1> QED BY <1>1 DEF Thorough

ThoroughInv == failures = 0 /\ Undisturbed(fed) => Thorough

LEMMA ThoroughStep ==
  ASSUME IsFiniteSet(Entity), Subject \notin TrustAnchors,
         SearchInv, ThoroughInv, [Next]_vars
  PROVE  ThoroughInv'
<1> SUFFICES ASSUME failures' = 0, Undisturbed(fed') PROVE Thorough'
  BY DEF ThoroughInv
<1>1. fed' = fed /\ failures \in Nat /\ failures' \in {failures, failures + 1}
  BY DEF SearchInv, TypeOK, Next, Search, GotSubject, GotAuthority, GotStatement,
         FailPermanently, FailForNow, DeadlinePasses, Change, Done, vars
<1>2. Undisturbed(fed) /\ Thorough
  BY <1>1 DEF ThoroughInv
<1> QED BY <1>2, SubjectThorough, AuthorityThorough, StatementThorough, FailuresThorough,
           SurroundingsThorough DEF Next, Search

LEMMA ThoroughStarts == Init => ThoroughInv
<1> SUFFICES ASSUME Init PROVE Thorough
  BY DEF ThoroughInv
<1>1. /\ pc = "subject" /\ visited = {} /\ answer = None
      /\ stack = <<Frame(Subject)>>
  BY DEF Init
<1>2. Frame(Subject).authority = None /\ Frame(Subject).at = Subject
  BY DEF Frame
<1>3. PICK y : y = Frame(Subject)
  OBVIOUS
<1>4. stack = <<y>> /\ Len(<<y>>) = 1 /\ <<y>>[1] = y /\ <<y>> \in Seq({y}) /\ <<y>> # <<>>
  BY <1>1, <1>3
<1>5. Len(Tail(stack)) = 0
  BY <1>4, HeadTailProperties
<1>6. answer # NoChain
  BY <1>1, VerdictsAssumption
<1>7. Hinted(fed[1], Tail(stack))
  BY <1>5 DEF Hinted
<1>8. Pending(fed[1], Tail(stack), visited, stack[1].at)
  BY <1>1 DEF Pending
<1>9. stack[1].authority = None /\ ~(Len(stack) > 1)
  BY <1>2, <1>3, <1>4
<1> QED BY <1>1, <1>6, <1>7, <1>8, <1>9 DEF Thorough

(* With no path lengths among the constraints, and where nothing the       *)
(* search may ask for is missing, is changed or fails, the answer that     *)
(* there is no chain is right: that all branches of the search share one   *)
(* set of visited entities, and that a frame that has run out of hints is  *)
(* not entered again, hides none.  The subject is no trust anchor: for one *)
(* that is, a chain that comes back to it is not looked for.               *)
THEOREM RefusalIsFinal ==
  ASSUME IsFiniteSet(Entity), Subject \notin TrustAnchors
  PROVE  Spec => []VerdictIsFinal
<1>1. SearchInv /\ ThoroughInv => VerdictIsFinal
  <2> SUFFICES ASSUME SearchInv, ThoroughInv, answer = NoChain, failures = 0,
                      NothingMissing, NoPathLengths
               PROVE  ~ChainExists
    BY DEF VerdictIsFinal
  <2>1. Undisturbed(fed)
    BY UndisturbedSearch DEF SearchInv
  <2>2. PICK S : Closed(fed[1], S)
    BY <2>1 DEF ThoroughInv, Thorough
  <2> QED BY <2>1, <2>2, ClosedHidesNone
<1>2. SearchInv /\ ThoroughInv /\ [Next]_vars => ThoroughInv'
  BY ThoroughStep
<1> QED BY SearchHolds, ThoroughStarts, <1>1, <1>2, PTL DEF Spec
=============================================================================
