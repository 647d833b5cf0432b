----------------------- MODULE CollectionContentProofs -----------------------
(***************************************************************************)
(* What a walk publishes, for every federation, depth bound and set of     *)
(* walkers: PublishedComplete.                                             *)
(*                                                                         *)
(* The argument follows one walk that has been alone in a federation that  *)
(* has stayed as it was.  What it is at and what is on its stack is listed *)
(* at the depth of its stack, so all it collects is within the bound       *)
(* (OnTrack, Truthful).  Every entity with a level on the stack has been   *)
(* visited before, and none is visited twice, so the stack is lower than   *)
(* the number of entities listed, and the bound cuts nothing off where     *)
(* those are few (Short).  Then all that a visited entity lists is visited *)
(* or still on the stack (Thorough), and at the end the stack is empty.    *)
(***************************************************************************)
EXTENDS CollectionProofs, FiniteSetTheorems

USE DEF At, counters

-----------------------------------------------------------------------------
(* What is within a distance of the anchor.                                *)

(* e is what the walk may come to at depth n.                              *)
Due(f, e, n) ==
  IF n = 0 THEN e = Root ELSE \E p \in Within(f, n - 1) : Lists(f, p, e)

(* The subordinates still to be visited are those of an entity one level   *)
(* up.                                                                     *)
Levels(f, stack) ==
  \A i \in DOMAIN stack : \A e \in Range(stack[i]) : Due(f, e, Len(stack) - i + 1)

Pending(stack) == UNION {Range(stack[i]) : i \in DOMAIN stack}

LEMMA WithinGrows ==
  ASSUME NEW f, NEW n \in Nat, NEW m \in Nat, n <= m
  PROVE  Within(f, n) \subseteq Within(f, m) /\ Within(f, n) \subseteq Published(f)
<1>1. 0 .. n \subseteq 0 .. m
  OBVIOUS
<1> QED BY <1>1 DEF Within

LEMMA WithinNext ==
  ASSUME NEW f, NEW n \in Nat, NEW e \in Published(f), Due(f, e, n)
  PROVE  e \in Within(f, n)
<1>1. CASE n = 0
  <2>1. e = Root
    BY <1>1 DEF Due
  <2> DEFINE chain == [i \in 0 .. 0 |-> Root]
  <2>2. chain \in [0 .. 0 -> Published(f)] /\ chain[0] = Root
    BY <2>1
  <2>3. \A i \in 1 .. 0 : Lists(f, chain[i - 1], chain[i])
    OBVIOUS
  <2> HIDE DEF chain
  <2> QED BY <1>1, <2>1, <2>2, <2>3 DEF Within
<1>2. CASE n # 0
  <2>1. PICK p \in Within(f, n - 1) : Lists(f, p, e)
    BY <1>2 DEF Due
  <2>2. PICK k \in 0 .. n - 1 : \E chain \in [0 .. k -> Published(f)] :
          /\ chain[0] = Root /\ chain[k] = p
          /\ \A i \in 1 .. k : Lists(f, chain[i - 1], chain[i])
    BY <2>1 DEF Within
  <2>3. PICK chain \in [0 .. k -> Published(f)] :
          /\ chain[0] = Root /\ chain[k] = p
          /\ \A i \in 1 .. k : Lists(f, chain[i - 1], chain[i])
    BY <2>2
  <2> DEFINE longer == [i \in 0 .. k + 1 |-> IF i = k + 1 THEN e ELSE chain[i]]
  <2>4. longer \in [0 .. k + 1 -> Published(f)]
    BY <2>3
  <2>5. longer[0] = Root /\ longer[k + 1] = e /\ k + 1 \in 0 .. n
    BY <1>2, <2>3
  <2>6. ASSUME NEW i \in 1 .. k + 1
        PROVE  Lists(f, longer[i - 1], longer[i])
    <3>1. CASE i = k + 1
      <4>1. i - 1 = k /\ longer[i] = e /\ longer[k] = chain[k]
        BY <3>1
      <4> QED BY <2>1, <2>3, <4>1
    <3>2. CASE i # k + 1
      <4>1. i \in 1 .. k /\ i - 1 \in 0 .. k /\ i - 1 # k + 1
        BY <3>2
      <4>2. longer[i] = chain[i] /\ longer[i - 1] = chain[i - 1]
        BY <3>2, <4>1
      <4> QED BY <2>3, <4>1, <4>2
    <3> QED BY <3>1, <3>2
  <2> HIDE DEF longer
  <2> QED BY <2>4, <2>5, <2>6 DEF Within
<1> QED BY <1>1, <1>2

(* A set with the anchor and all that its members list has all there is.   *)
LEMMA WithinClosed ==
  ASSUME NEW f, NEW n \in Nat, NEW S, Root \in S,
         \A p \in S \cap Published(f) : \A e \in Entity : Lists(f, p, e) => e \in S
  PROVE  Within(f, n) \subseteq S
<1> SUFFICES ASSUME NEW k \in 0 .. n, NEW chain \in [0 .. k -> Published(f)],
                    chain[0] = Root, chain[k] \notin S,
                    \A i \in 1 .. k : Lists(f, chain[i - 1], chain[i])
             PROVE  FALSE
  BY DEF Within
<1> DEFINE out == {i \in 0 .. k : chain[i] \notin S}
<1>1. out \subseteq Nat /\ k \in out
  OBVIOUS
<1>2. PICK i \in out : \A j \in out : i <= j
  BY <1>1, LeastBelow
<1>3. i \in 0 .. k /\ chain[i] \notin S /\ i # 0
  BY <1>2
<1>4. i \in 1 .. k /\ i - 1 \in 0 .. k /\ ~(i <= i - 1)
  BY <1>3
<1>5. i - 1 \notin out
  BY <1>2, <1>4
<1>6. chain[i - 1] \in S /\ chain[i - 1] \in Published(f) /\ chain[i] \in Published(f)
  BY <1>4, <1>5
<1>7. chain[i] \in Entity
  BY <1>6 DEF Published
<1>8. Lists(f, chain[i - 1], chain[i])
  BY <1>4
<1> QED BY <1>3, <1>6, <1>7, <1>8

LEMMA DueListed ==
  ASSUME NEW f \in Federation, NEW e, NEW n \in Nat, Due(f, e, n)
  PROVE  e \in Listed(f)
<1>1. CASE n = 0
  BY <1>1 DEF Due, Listed
<1>2. CASE n # 0
  <2>1. PICK p \in Within(f, n - 1) : Lists(f, p, e)
    BY <1>2 DEF Due
  <2>2. p \in Entity /\ f[p] # None
    BY <2>1 DEF Within, Published
  <2> QED BY <2>1, <2>2 DEF Lists, Listed
<1> QED BY <1>1, <1>2

LEMMA ListedFinite ==
  ASSUME NEW f \in Federation
  PROVE  Listed(f) \subseteq Entity /\ IsFiniteSet(Listed(f))
<1>1. Listed(f) \subseteq Entity
  <2>1. ASSUME NEW e \in Entity, f[e] # None
        PROVE  Range(f[e].list) \subseteq Entity
    <3>1. f[e].list \in Seq(Entity)
      BY <2>1 DEF Federation, Configuration
    <3> QED BY <3>1, RangeOfSeq DEF Range
  <2> QED BY <2>1, EntityAssumption DEF Listed
<1> QED BY <1>1, EntityAssumption, FS_Subset

-----------------------------------------------------------------------------
(* The invariant.                                                          *)

(* Where a walk is, in a federation that has stayed as it was.             *)
OnTrack(job, f) ==
  /\ job.visited \subseteq Listed(f)
  /\ Levels(f, job.stack)
  /\ job.pc = "enter" =>
       Due(f, job.at, Len(job.stack)) /\ Len(job.stack) <= Cardinality(job.visited)
  /\ job.pc \in {"record", "types", "list"} =>
       /\ job.at \in Within(f, Len(job.stack)) /\ job.config = f[job.at]
       /\ job.at \in job.visited /\ Len(job.stack) < Cardinality(job.visited)

(* The entity whose list is yet to be asked for, if it is to be.           *)
Asking(job) == IF job.pc \in {"record", "types", "list"} THEN {job.at} ELSE {}
Entering(job) == IF job.pc = "enter" THEN {job.at} ELSE {}
Recording(job) == IF job.pc = "record" THEN {job.at} ELSE {}

(* Nothing that is listed is lost, where no path can be too long.          *)
Thorough(job, f) ==
  /\ Root \in job.visited \cup Entering(job)
  /\ \A p \in (job.visited \cap Published(f)) \ Asking(job) : \A e \in Entity :
       Lists(f, p, e) => e \in job.visited \cup Pending(job.stack) \cup Entering(job)
  /\ job.pc = "swap" => job.stack = <<>>

(* What has been collected: the hash, while it is moved from staging.      *)
Collected(job, st, lv) ==
  IF job.pc = "swap" THEN Merged(st, lv, job.command).entities ELSE st.entities

Truthful(f, records) ==
  \A r \in records : /\ r.id \in Within(f, MAX_COLLECTION_DEPTH)
                     /\ r.types = DetectedTypes(f[r.id].metadata)

Whole(job, f, records) ==
  \A e \in job.visited \cap Published(f) :
    e \in Recording(job) \/ \E r \in records : r.id = e

Short(f) == Cardinality(Listed(f)) <= MAX_COLLECTION_DEPTH + 1

Faithful(job, f, records) ==
  /\ OnTrack(job, f) /\ Truthful(f, records)
  /\ Short(f) => Thorough(job, f) /\ Whole(job, f, records)

ContentInv ==
  \A w \in Walker :
    walk[w].pc # "idle" /\ walk[w].alone /\ walk[w].steady =>
      Faithful(walk[w], fed, Collected(walk[w], staging, live))

-----------------------------------------------------------------------------
(* The search for the next subordinate.                                    *)

(* Onward goes to the next of some level, or to the swap; all it passes    *)
(* over has been visited.                                                  *)
Passed(job, new) ==
  /\ new \in WalkRecord /\ new.visited = job.visited
  /\ new.alone = job.alone /\ new.steady = job.steady
  /\ \/ /\ new.pc = "swap" /\ new.command = 1 /\ new.stack = <<>>
        /\ \A i \in DOMAIN job.stack : Range(job.stack[i]) \subseteq job.visited
     \/ /\ new.pc = "enter"
        /\ \E i \in DOMAIN job.stack :
             /\ new.at \in Range(job.stack[i])
             /\ Len(new.stack) = Len(job.stack) - i + 1
             /\ Range(new.stack[1]) \subseteq Range(job.stack[i])
             /\ \A j \in 2 .. Len(new.stack) : new.stack[j] = job.stack[i + j - 1]
             /\ \A j \in 1 .. i - 1 : Range(job.stack[j]) \subseteq job.visited
             /\ Range(job.stack[i]) \subseteq job.visited \cup {new.at} \cup Range(new.stack[1])

(* What is left of a sequence when its first k are passed over.            *)
LEMMA RestElements ==
  ASSUME NEW S, NEW s \in Seq(S), NEW k \in Nat, NEW m \in Nat, DOMAIN s = 1 .. k + m,
         NEW rest, rest = SubSeq(s, k + 1, k + m)
  PROVE  /\ rest \in Seq(S) /\ DOMAIN rest = 1 .. m /\ Len(rest) = m
         /\ \A j \in 1 .. m : rest[j] = s[k + j]
<1>1. /\ k + 1 \in Int /\ k + m \in Int
      /\ \A j \in k + 1 .. k + m : s[j] \in S
  <2>1. ASSUME NEW j \in k + 1 .. k + m
        PROVE  s[j] \in S
    <3>1. j \in DOMAIN s
      OBVIOUS
    <3>2. DOMAIN s = 1 .. Len(s)
      BY LenProperties
    <3>3. j \in 1 .. Len(s)
      BY <3>1, <3>2
    <3> QED BY <3>3, ElementOfSeq
  <2> QED BY <2>1
<1>2. PICK low \in Int : low = k + 1
  BY <1>1
<1>3. PICK high \in Int : high = k + m
  BY <1>1
<1>4. /\ rest \in Seq(S)
      /\ Len(rest) = IF low <= high THEN high - low + 1 ELSE 0
      /\ \A j \in 1 .. Len(rest) : rest[j] = s[low + j - 1]
  BY <1>1, <1>2, <1>3, SubSeqProperties
<1>5. (IF low <= high THEN high - low + 1 ELSE 0) = m
  BY <1>2, <1>3
<1>6. Len(rest) = m
  BY <1>4, <1>5
<1>7. DOMAIN rest = 1 .. m
  BY <1>4, <1>6, LenProperties
<1>8. \A j \in 1 .. m : low + j - 1 = k + j
  BY <1>2
<1> QED BY <1>4, <1>6, <1>7, <1>8

(* A level of which the next not visited is taken.                         *)
LEMMA LevelPassed ==
  ASSUME NEW S, NEW s \in Seq(S), NEW visited, NEW k \in DOMAIN s,
         \A m \in DOMAIN s : s[m] \notin visited => k <= m
  PROVE  LET rest == SubSeq(s, k + 1, Len(s))
         IN  /\ rest \in Seq(S) /\ Range(rest) \subseteq Range(s) /\ s[k] \in Range(s)
             /\ Range(s) \subseteq visited \cup {s[k]} \cup Range(rest)
<1>1. DOMAIN s = 1 .. Len(s) /\ Len(s) \in Nat
  BY LenProperties
<1>2. PICK n \in Nat : n = Len(s)
  BY <1>1
<1>3. k \in 1 .. n /\ DOMAIN s = 1 .. n
  BY <1>1, <1>2
<1>4. PICK i \in Nat : i = k /\ i \in 1 .. n
  BY <1>3
<1>5. PICK m \in Nat : n = i + m
  BY <1>4, n - i \in Nat, n = i + (n - i)
<1>6. PICK rest : rest = SubSeq(s, k + 1, Len(s))
  OBVIOUS
<1>7. /\ rest \in Seq(S) /\ DOMAIN rest = 1 .. m
      /\ \A j \in 1 .. m : rest[j] = s[i + j]
  <2>1. rest = SubSeq(s, i + 1, i + m) /\ DOMAIN s = 1 .. i + m
    BY <1>2, <1>3, <1>4, <1>5, <1>6
  <2> QED BY <2>1, RestElements
<1>8. DOMAIN s = 1 .. i + m /\ \A j \in 1 .. m : i + j \in DOMAIN s
  BY <1>3, <1>5
<1>9. Range(rest) \subseteq Range(s)
  BY <1>7, <1>8 DEF Range
<1>10. ASSUME NEW j \in DOMAIN s
       PROVE  s[j] \in visited \cup {s[k]} \cup Range(rest)
  <2>1. j \in 1 .. i + m
    BY <1>8
  <2>2. CASE j = i
    BY <1>4, <2>2
  <2>3. CASE j # i /\ i <= j
    <3>1. PICK l \in 1 .. m : j = i + l
      BY <2>1, <2>3, j - i \in 1 .. m, j = i + (j - i)
    <3> QED BY <1>7, <3>1 DEF Range
  <2>4. CASE ~(i <= j)
    BY <1>4, <2>4
  <2> QED BY <2>2, <2>3, <2>4
<1>11. s[k] \in Range(s)
  BY DEF Range
<1>12. Range(s) \subseteq visited \cup {s[k]} \cup Range(rest)
  BY <1>10 DEF Range
<1> QED BY <1>6, <1>7, <1>9, <1>11, <1>12

LEMMA OnwardPasses ==
  ASSUME NEW job \in WalkRecord
  PROVE  Passed(job, Onward(job))
<1> DEFINE left(i)   == {k \in DOMAIN job.stack[i] : job.stack[i][k] \notin job.visited}
           open      == {i \in DOMAIN job.stack : left(i) # {}}
           least(ns) == CHOOSE n \in ns : \A m \in ns : n <= m
           inner     == least(open)
           next      == least(left(inner))
           subs      == job.stack[inner]
           later     == SubSeq(subs, next + 1, Len(subs))
           outer     == SubSeq(job.stack, inner + 1, Len(job.stack))
<1>1. PICK new : new = Onward(job)
  OBVIOUS
<1>2. /\ new \in WalkRecord /\ new.visited = job.visited
      /\ new.alone = job.alone /\ new.steady = job.steady
  BY <1>1, OnwardMoves DEF Moved
<1>3. \A i \in DOMAIN job.stack : i \notin open => Range(job.stack[i]) \subseteq job.visited
  BY DEF Range
<1>4. CASE open = {}
  <2>1. new = [job EXCEPT !.pc = "swap", !.stack = <<>>, !.command = 1]
    BY <1>1, <1>4 DEF Onward
  <2>2. PICK none : none = <<>>
    OBVIOUS
  <2>3. new = [job EXCEPT !.pc = "swap", !.stack = none, !.command = 1]
    BY <2>1, <2>2
  <2> HIDE DEF open
  <2>4. new.pc = "swap" /\ new.command = 1 /\ new.stack = none
    BY <2>3 DEF WalkRecord
  <2> QED BY <1>1, <1>2, <1>3, <1>4, <2>2, <2>4 DEF Passed
<1>5. CASE open # {}
  <2>1. job.stack \in Seq(Seq(Entity))
    BY DEF WalkRecord
  <2>2. PICK d \in Nat : d = Len(job.stack) /\ DOMAIN job.stack = 1 .. d
    BY <2>1, LenProperties
  <2>3. open \subseteq Nat
    BY <2>2
  <2>4. inner \in open /\ \A m \in open : inner <= m
    BY <1>5, <2>3, LeastIn
  <2>5. inner \in 1 .. d /\ left(inner) # {}
    BY <2>2, <2>4
  <2>6. \A j \in 1 .. inner - 1 : j \in DOMAIN job.stack /\ j \notin open
    <3>1. PICK b : b = inner
      OBVIOUS
    <3> HIDE DEF open, inner
    <3> QED BY <2>2, <2>4, <2>5, <3>1
  <2>7. \A j \in 1 .. inner - 1 : Range(job.stack[j]) \subseteq job.visited
    BY <1>3, <2>6
  <2> HIDE DEF inner
  <2>8. subs \in Seq(Entity)
    BY <2>1, <2>2, <2>5, ElementOfSeq
  <2>9. DOMAIN subs = 1 .. Len(subs) /\ Len(subs) \in Nat
    BY <2>8, LenProperties
  <2>10. left(inner) \subseteq Nat
    BY <2>9
  <2>11. next \in left(inner) /\ \A m \in left(inner) : next <= m
    BY <2>5, <2>10, LeastIn
  <2>12. next \in DOMAIN subs /\ next \in Nat
    BY <2>10, <2>11
  <2>13. \A k \in DOMAIN subs : subs[k] \notin job.visited => next <= k
    BY <2>11
  <2> DEFINE first == subs[next]
             stack == <<later>> \o outer
  <2>14. new = [job EXCEPT !.pc = "enter", !.at = first, !.stack = stack]
    BY <1>1, <1>5 DEF Onward, inner
  <2> HIDE DEF next, open, subs
  <2>15. /\ later \in Seq(Entity) /\ Range(later) \subseteq Range(subs)
         /\ first \in Range(subs)
         /\ Range(subs) \subseteq job.visited \cup {first} \cup Range(later)
    BY <2>8, <2>12, <2>13, LevelPassed
  <2>16. PICK m \in Nat : d = inner + m
    BY <2>5, d - inner \in Nat, d = inner + (d - inner)
  <2>17. /\ outer \in Seq(Seq(Entity)) /\ Len(outer) = m
         /\ \A j \in 1 .. m : outer[j] = job.stack[inner + j]
    <3>1. outer = SubSeq(job.stack, inner + 1, inner + m)
      BY <2>2, <2>16
    <3>2. DOMAIN job.stack = 1 .. inner + m /\ inner \in Nat
      BY <2>2, <2>5, <2>16
    <3> HIDE DEF outer
    <3> QED BY <2>1, <3>1, <3>2, RestElements
  <2> HIDE DEF later, outer
  <2>18. <<later>> \in Seq(Seq(Entity)) /\ Len(<<later>>) = 1 /\ <<later>>[1] = later
    BY <2>15
  <2>19. /\ Len(stack) = 1 + m
         /\ \A j \in 1 .. 1 + m : stack[j] = IF j <= 1 THEN <<later>>[j] ELSE outer[j - 1]
    BY <2>17, <2>18, ConcatProperties
  <2>20. stack[1] = later
    <3>1. 1 \in 1 .. 1 + m
      OBVIOUS
    <3> QED BY <2>18, <2>19, <3>1
  <2>21. \A j \in 2 .. 1 + m : stack[j] = job.stack[inner + j - 1]
    <3>1. ASSUME NEW j \in 2 .. 1 + m
          PROVE  stack[j] = job.stack[inner + j - 1]
      <4>1. PICK i \in 1 .. m : i = j - 1 /\ j = i + 1 /\ inner + i = inner + j - 1
        BY <2>5
      <4>2. stack[j] = outer[i]
        BY <2>19, <4>1
      <4> QED BY <2>17, <4>1, <4>2
    <3> QED BY <3>1
  <2> HIDE DEF stack, first
  <2>22. new.pc = "enter" /\ new.at = first /\ new.stack = stack
    BY <2>14 DEF WalkRecord
  <2>23. Len(new.stack) = Len(job.stack) - inner + 1
    BY <2>2, <2>5, <2>16, <2>19, <2>22
  <2>24. \A j \in 2 .. Len(new.stack) : new.stack[j] = job.stack[inner + j - 1]
    BY <2>19, <2>21, <2>22
  <2>25. /\ inner \in DOMAIN job.stack /\ subs = job.stack[inner]
         /\ new.stack[1] = later
    BY <2>2, <2>5, <2>20, <2>22 DEF subs
  <2>26. /\ inner \in DOMAIN job.stack
         /\ new.at \in Range(job.stack[inner])
         /\ Range(new.stack[1]) \subseteq Range(job.stack[inner])
         /\ Range(job.stack[inner]) \subseteq
              job.visited \cup {new.at} \cup Range(new.stack[1])
    BY <2>15, <2>22, <2>25
  <2> QED BY <1>1, <1>2, <2>7, <2>22, <2>23, <2>24, <2>26 DEF Passed
<1> QED BY <1>4, <1>5

LEMMA MovedOnTrack ==
  ASSUME NEW f \in Federation, NEW job \in WalkRecord, job.visited \subseteq Listed(f),
         Levels(f, job.stack), Len(job.stack) <= Cardinality(job.visited),
         Cardinality(job.visited) \in Nat, NEW new, Passed(job, new)
  PROVE  OnTrack(new, f)
<1>1. /\ new \in WalkRecord /\ new.visited = job.visited
      /\ job.stack \in Seq(Seq(Entity)) /\ new.stack \in Seq(Seq(Entity))
  BY DEF Passed, WalkRecord
<1>2. CASE new.pc = "swap" /\ new.stack = <<>>
  <2>1. Levels(f, new.stack)
    BY <1>2 DEF Levels
  <2> QED BY <1>1, <1>2, <2>1 DEF OnTrack
<1>3. CASE new.pc = "enter"
  <2>1. PICK i \in DOMAIN job.stack :
          /\ new.at \in Range(job.stack[i])
          /\ Len(new.stack) = Len(job.stack) - i + 1
          /\ Range(new.stack[1]) \subseteq Range(job.stack[i])
          /\ \A j \in 2 .. Len(new.stack) : new.stack[j] = job.stack[i + j - 1]
    BY <1>3 DEF Passed
  <2>2. PICK n \in Nat : n = Len(job.stack) /\ DOMAIN job.stack = 1 .. n
    BY <1>1, LenProperties
  <2>3. PICK l \in Nat : l = Len(new.stack) /\ DOMAIN new.stack = 1 .. l
    BY <1>1, LenProperties
  <2>4. PICK b \in 1 .. n : b = i
    BY <2>2
  <2>5. l = n - b + 1
    BY <2>1, <2>2, <2>3, <2>4
  <2>6. \A j \in 1 .. n : \A e \in Range(job.stack[j]) : Due(f, e, n - j + 1)
    BY <2>2 DEF Levels
  <2>7. Due(f, new.at, l)
    BY <2>1, <2>4, <2>5, <2>6
  <2>8. ASSUME NEW j \in 1 .. l, NEW e \in Range(new.stack[j])
        PROVE  Due(f, e, l - j + 1)
    <3>1. CASE j = 1
      <4>1. e \in Range(job.stack[b])
        BY <2>1, <2>4, <2>8, <3>1
      <4>2. l - j + 1 = n - b + 1
        BY <2>5, <3>1
      <4>3. Due(f, e, n - b + 1)
        BY <2>6, <4>1
      <4> QED BY <4>2, <4>3
    <3>2. CASE j # 1
      <4>1. PICK k \in 1 .. n : k = b + j - 1
        BY <2>5, <3>2, b + j - 1 \in 1 .. n
      <4>2. new.stack[j] = job.stack[k]
        BY <2>1, <2>3, <2>4, <3>2, <4>1, j \in 2 .. l
      <4>3. l - j + 1 = n - k + 1
        BY <2>5, <4>1
      <4>4. Due(f, e, n - k + 1)
        BY <2>6, <2>8, <4>2
      <4> QED BY <4>3, <4>4
    <3> QED BY <3>1, <3>2
  <2>9. Levels(f, new.stack)
    BY <2>3, <2>8 DEF Levels
  <2>10. l <= Cardinality(new.visited)
    <3>1. PICK c \in Nat : c = Cardinality(job.visited) /\ n <= c
      BY <2>2
    <3>2. l <= c
      BY <2>5, <3>1
    <3> QED BY <1>1, <3>1, <3>2
  <2> QED BY <1>1, <1>3, <2>3, <2>7, <2>9, <2>10 DEF OnTrack
<1> QED BY <1>2, <1>3 DEF Passed

LEMMA MovedThorough ==
  ASSUME NEW f, NEW job \in WalkRecord, NEW new, Passed(job, new),
         Root \in job.visited,
         \A p \in job.visited \cap Published(f) : \A e \in Entity :
           Lists(f, p, e) => e \in job.visited \cup Pending(job.stack)
  PROVE  Thorough(new, f)
<1>1. /\ new.visited = job.visited
      /\ job.stack \in Seq(Seq(Entity)) /\ new.stack \in Seq(Seq(Entity))
  BY DEF Passed, WalkRecord
<1>2. Pending(job.stack) \subseteq job.visited \cup Pending(new.stack) \cup Entering(new)
  <2>1. CASE new.pc = "swap" /\ \A i \in DOMAIN job.stack : Range(job.stack[i]) \subseteq job.visited
    BY <2>1 DEF Pending
  <2>2. CASE new.pc = "enter"
    <3>1. PICK i \in DOMAIN job.stack :
            /\ Len(new.stack) = Len(job.stack) - i + 1
            /\ \A j \in 2 .. Len(new.stack) : new.stack[j] = job.stack[i + j - 1]
            /\ \A j \in 1 .. i - 1 : Range(job.stack[j]) \subseteq job.visited
            /\ Range(job.stack[i]) \subseteq job.visited \cup {new.at} \cup Range(new.stack[1])
      BY <2>2 DEF Passed
    <3>2. PICK n \in Nat : n = Len(job.stack) /\ DOMAIN job.stack = 1 .. n
      BY <1>1, LenProperties
    <3>3. PICK l \in Nat : l = Len(new.stack) /\ DOMAIN new.stack = 1 .. l
      BY <1>1, LenProperties
    <3>4. PICK b \in 1 .. n : b = i
      BY <3>2
    <3>5. l = n - b + 1
      BY <3>1, <3>2, <3>3, <3>4
    <3>6. ASSUME NEW j \in 1 .. n, NEW e \in Range(job.stack[j])
          PROVE  e \in job.visited \cup Pending(new.stack) \cup {new.at}
      <4>1. CASE j < b
        <5>1. j \in 1 .. b - 1
          BY <4>1
        <5> QED BY <3>1, <3>4, <3>6, <5>1
      <4>2. CASE j = b
        <5>1. 1 \in DOMAIN new.stack
          BY <3>3, <3>5
        <5>2. Range(new.stack[1]) \subseteq Pending(new.stack)
          BY <5>1 DEF Pending
        <5> QED BY <3>1, <3>4, <3>6, <4>2, <5>2
      <4>3. CASE b < j
        <5>1. PICK k \in 2 .. l : j = b + k - 1
          BY <3>5, <4>3, j - b + 1 \in 2 .. l, j = b + (j - b + 1) - 1
        <5>2. new.stack[k] = job.stack[j] /\ k \in DOMAIN new.stack
          BY <3>1, <3>3, <3>4, <5>1
        <5> QED BY <3>6, <5>2 DEF Pending
      <4> QED BY <4>1, <4>2, <4>3
    <3> QED BY <2>2, <3>2, <3>6 DEF Pending, Entering
  <2> QED BY <2>1, <2>2 DEF Passed
<1>3. Asking(new) = {} /\ (new.pc = "swap" => new.stack = <<>>)
  BY DEF Passed, Asking
<1> QED BY <1>1, <1>2, <1>3 DEF Thorough

-----------------------------------------------------------------------------
(* The steps of a walk.                                                    *)

LEMMA OwnStep ==
  ASSUME CollectionInv, NEW w \in Walker, walk[w].pc # "idle", NEW new,
         walk' = [walk EXCEPT ![w] = new],
         new.alone = walk[w].alone \/ new.pc = "idle",
         new.pc # "idle" /\ walk[w].alone /\ new.steady =>
           Faithful(new, fed', Collected(new, staging', live'))
  PROVE  ContentInv'
<1>1. walk'[w] = new /\ \A v \in Walker \ {w} : walk'[v] = walk[v]
  BY DEF CollectionInv, TypesOK
<1>2. ASSUME NEW v \in Walker, walk'[v].pc # "idle", walk'[v].alone, walk'[v].steady
      PROVE  Faithful(walk'[v], fed', Collected(walk'[v], staging', live'))
  <2>1. v = w
    BY <1>1, <1>2, OnlyOne
  <2> QED BY <1>1, <1>2, <2>1
<1> QED BY <1>2 DEF ContentInv

(* What is known of a walk that has been alone in a steady federation.     *)
LEMMA FaithKnown ==
  ASSUME CollectionInv, ContentInv, NEW w \in Walker, NEW job, job = walk[w]
  PROVE  /\ JobOK(job) /\ job \in WalkRecord /\ fed \in Federation
         /\ StoreOK(staging) /\ StoreOK(live)
         /\ job.pc # "idle" /\ job.alone => Staged(job, staging, live)
         /\ job.pc # "idle" /\ job.alone /\ job.steady =>
              /\ Faithful(job, fed, Collected(job, staging, live))
              /\ job.visited \subseteq Listed(fed) /\ IsFiniteSet(job.visited)
              /\ Cardinality(job.visited) \in Nat
<1>1. /\ JobOK(job) /\ job \in WalkRecord /\ fed \in Federation
      /\ StoreOK(staging) /\ StoreOK(live)
      /\ job.pc # "idle" /\ job.alone => Staged(job, staging, live)
  BY WalkKnown
<1>2. ASSUME job.pc # "idle", job.alone, job.steady
      PROVE  /\ Faithful(job, fed, Collected(job, staging, live))
             /\ job.visited \subseteq Listed(fed) /\ IsFiniteSet(job.visited)
             /\ Cardinality(job.visited) \in Nat
  <2>1. Faithful(job, fed, Collected(job, staging, live))
    BY <1>2 DEF ContentInv
  <2>2. job.visited \subseteq Listed(fed)
    BY <2>1 DEF Faithful, OnTrack
  <2>3. IsFiniteSet(job.visited)
    BY <1>1, <2>2, ListedFinite, FS_Subset
  <2> QED BY <2>1, <2>2, <2>3, FS_CardinalityType
<1> QED BY <1>1, <1>2

(* Outside the swap, and when it begins, the hash is all in staging.       *)
LEMMA CollectedStaging ==
  ASSUME NEW job, NEW st, NEW lv, job.pc = "swap" => job.command \in {1, 2}
  PROVE  Collected(job, st, lv) = st.entities
<1>1. ASSUME job.pc = "swap"
      PROVE  Merged(st, lv, job.command).entities = st.entities
  <2>1. Done(job.command) = {}
    BY <1>1, NothingDone
  <2> QED BY <2>1, KeysDiffer DEF Merged
<1> QED BY <1>1 DEF Collected

LEMMA EnterContent ==
  ASSUME CollectionInv, ContentInv, NEW w \in Walker, Enter(w)
  PROVE  ContentInv'
<1>1. PICK job : job = walk[w]
  OBVIOUS
<1>2. PICK f : f = fed
  OBVIOUS
<1>3. PICK records : records = staging.entities
  OBVIOUS
<1> DEFINE e == job.at
           visit == [job EXCEPT !.visited = @ \cup {e}, !.config = f[e]]
           record == [visit EXCEPT !.pc = "record"]
<1>4. /\ job.pc = "enter" /\ job \in WalkRecord /\ f \in Federation /\ e \in Entity
      /\ fed' = f /\ staging' = staging /\ live' = live
  <2>1. JobOK(job) /\ job \in WalkRecord /\ f \in Federation
    BY <1>1, <1>2, FaithKnown
  <2>2. job.pc = "enter" /\ fed' = f /\ staging' = staging /\ live' = live
    BY <1>1, <1>2 DEF Enter
  <2>3. e \in Entity
    BY <2>1, <2>2 DEF JobOK
  <2> QED BY <2>1, <2>2, <2>3
<1>5. f[e] \in Configuration \cup {None}
  BY <1>4 DEF Federation
<1>6. /\ visit \in WalkRecord /\ visit.visited = job.visited \cup {e}
      /\ visit.config = f[e] /\ visit.at = e /\ visit.alone = job.alone
      /\ visit.steady = job.steady /\ visit.stack = job.stack
  BY <1>4, <1>5 DEF WalkRecord
<1>7. /\ record \in WalkRecord /\ record.visited = job.visited \cup {e}
      /\ record.config = f[e] /\ record.at = e /\ record.alone = job.alone
      /\ record.steady = job.steady /\ record.stack = job.stack
      /\ record.pc = "record"
  BY <1>4, <1>5 DEF WalkRecord
<1>8. PICK new :
        /\ walk' = [walk EXCEPT ![w] = new]
        /\ \/ Len(job.stack) > MAX_COLLECTION_DEPTH /\ Passed(job, new)
           \/ e \notin Published(f) /\ Passed(visit, new)
           \/ e \in Published(f) /\ new = record
  <2>1. \/ /\ Len(job.stack) > MAX_COLLECTION_DEPTH
           /\ walk' = [walk EXCEPT ![w] = Onward(job)]
        \/ e \notin Published(f) /\ walk' = [walk EXCEPT ![w] = Onward(visit)]
        \/ e \in Published(f) /\ walk' = [walk EXCEPT ![w] = record]
    BY <1>1, <1>2, <1>4 DEF Enter, Proceed, Published
  <2>2. Passed(job, Onward(job)) /\ Passed(visit, Onward(visit))
    BY <1>4, <1>6, OnwardPasses
  <2> HIDE DEF visit, record
  <2> QED BY <2>1, <2>2
<1> HIDE DEF visit, record
<1>9. new.alone = job.alone /\ new.steady = job.steady
  BY <1>6, <1>7, <1>8 DEF Passed
<1>10. Collected(new, staging, live) = records /\ Collected(job, staging, live) = records
  <2>1. new.pc = "swap" => new.command = 1
    BY <1>7, <1>8 DEF Passed
  <2> QED BY <1>3, <1>4, <2>1, CollectedStaging
<1>11. ASSUME job.alone, job.steady
       PROVE  Faithful(new, f, records)
  <2>1. /\ Faithful(job, f, records) /\ job.visited \subseteq Listed(f)
        /\ Cardinality(job.visited) \in Nat /\ IsFiniteSet(job.visited)
        /\ e \notin job.visited
    BY <1>1, <1>2, <1>4, <1>10, <1>11, FaithKnown DEF Staged
  <2>2. /\ Levels(f, job.stack) /\ Due(f, e, Len(job.stack))
        /\ Len(job.stack) <= Cardinality(job.visited) /\ Truthful(f, records)
    BY <1>4, <2>1 DEF Faithful, OnTrack
  <2>3. Asking(job) = {} /\ Entering(job) = {e} /\ Recording(job) = {}
    BY <1>4 DEF Asking, Entering, Recording
  <2>4. PICK n \in Nat : n = Len(job.stack)
    BY <1>4, LenProperties DEF WalkRecord
  <2>5. PICK c \in Nat : c = Cardinality(job.visited) /\ n <= c
    BY <2>1, <2>2, <2>4
  <2>6. e \in Listed(f)
    BY <1>4, <2>2, <2>4, DueListed
  <2>7. /\ Cardinality(visit.visited) = c + 1 /\ visit.visited \subseteq Listed(f)
        /\ IsFiniteSet(visit.visited)
    BY <1>6, <2>1, <2>5, <2>6, FS_AddElement
  <2>8. Short(f) => n <= MAX_COLLECTION_DEPTH
    <3>1. /\ Cardinality(visit.visited) <= Cardinality(Listed(f))
          /\ Cardinality(Listed(f)) \in Nat
      BY <1>4, <2>7, ListedFinite, FS_Subset, FS_CardinalityType
    <3>2. PICK a \in Nat : a = Cardinality(Listed(f))
      BY <3>1
    <3>3. c + 1 <= a
      BY <2>7, <3>1, <3>2
    <3>4. Short(f) => a <= MAX_COLLECTION_DEPTH + 1
      BY <3>2 DEF Short
    <3> QED BY <2>5, <3>3, <3>4, BoundsAssumption
  <2>9. CASE Len(job.stack) > MAX_COLLECTION_DEPTH /\ Passed(job, new)
    <3>1. OnTrack(new, f)
      BY <1>4, <2>1, <2>2, <2>9, MovedOnTrack
    <3>2. ~Short(f)
      BY <2>4, <2>8, <2>9, BoundsAssumption
    <3> QED BY <2>2, <3>1, <3>2 DEF Faithful
  <2>10. CASE e \notin Published(f) /\ Passed(visit, new)
    <3>1. Len(visit.stack) <= Cardinality(visit.visited) /\ Cardinality(visit.visited) \in Nat
      BY <1>6, <2>4, <2>5, <2>7
    <3>2. OnTrack(new, f)
      BY <1>4, <1>6, <2>2, <2>7, <2>10, <3>1, MovedOnTrack
    <3>3. ASSUME Short(f)
          PROVE  Thorough(new, f) /\ Whole(new, f, records)
      <4>1. Thorough(job, f) /\ Whole(job, f, records)
        BY <2>1, <3>3 DEF Faithful
      <4>2. Root \in visit.visited
        BY <1>6, <2>3, <4>1 DEF Thorough
      <4>3. \A p \in visit.visited \cap Published(f) : \A d \in Entity :
              Lists(f, p, d) => d \in visit.visited \cup Pending(visit.stack)
        BY <1>6, <2>3, <2>10, <4>1 DEF Thorough
      <4>4. Thorough(new, f)
        BY <1>6, <2>10, <4>2, <4>3, MovedThorough
      <4>5. new.visited \cap Published(f) = job.visited \cap Published(f)
        BY <1>6, <2>10 DEF Passed
      <4>6. Whole(new, f, records)
        BY <2>3, <4>1, <4>5 DEF Whole
      <4> QED BY <4>4, <4>6
    <3> QED BY <2>2, <3>2, <3>3 DEF Faithful
  <2>11. CASE e \in Published(f) /\ new = record
    <3>1. e \in Within(f, Len(job.stack))
      BY <2>2, <2>4, <2>11, WithinNext
    <3>2. Len(job.stack) < Cardinality(job.visited \cup {e})
      BY <1>6, <2>4, <2>5, <2>7
    <3>3. OnTrack(new, f)
      BY <1>6, <1>7, <2>2, <2>7, <2>11, <3>1, <3>2 DEF OnTrack
    <3>4. Asking(new) = {e} /\ Entering(new) = {} /\ Recording(new) = {e}
      BY <1>7, <2>11 DEF Asking, Entering, Recording
    <3>5. ASSUME Short(f)
          PROVE  Thorough(new, f) /\ Whole(new, f, records)
      <4>1. Thorough(job, f) /\ Whole(job, f, records)
        BY <2>1, <3>5 DEF Faithful
      <4>2. Thorough(new, f)
        BY <1>7, <2>3, <2>11, <3>4, <4>1 DEF Thorough
      <4>3. Whole(new, f, records)
        BY <1>7, <2>3, <2>11, <3>4, <4>1 DEF Whole
      <4> QED BY <4>2, <4>3
    <3> QED BY <2>2, <3>3, <3>5 DEF Faithful
  <2> QED BY <1>8, <2>9, <2>10, <2>11
<1>12. walk[w].alone /\ new.steady => Faithful(new, fed', Collected(new, staging', live'))
  <2>1. Collected(new, staging', live') = records
    BY <1>4, <1>10
  <2> QED BY <1>1, <1>4, <1>9, <1>11, <2>1
<1> QED BY <1>1, <1>4, <1>8, <1>9, <1>12, OwnStep

(* The levels are as they were, and so is what is collected: one more      *)
(* type or the order is written.                                           *)
LEMMA SameContent ==
  ASSUME CollectionInv, ContentInv, NEW w \in Walker, NEW new \in WalkRecord,
         walk' = [walk EXCEPT ![w] = new], fed' = fed, live' = live,
         walk[w].pc = "types", new.pc \in {"types", "list"},
         new.at = walk[w].at, new.config = walk[w].config,
         new.visited = walk[w].visited, new.stack = walk[w].stack,
         new.alone = walk[w].alone, new.steady = walk[w].steady,
         staging'.entities = staging.entities
  PROVE  ContentInv'
<1>1. PICK job : job = walk[w]
  OBVIOUS
<1>2. PICK f : f = fed
  OBVIOUS
<1>3. PICK records : records = staging.entities
  OBVIOUS
<1>4. Collected(job, staging, live) = records
  BY <1>1, <1>3, CollectedStaging
<1>5. Collected(new, staging', live') = records
  BY <1>3, CollectedStaging
<1>6. ASSUME job.alone, job.steady
      PROVE  Faithful(new, f, records)
  <2>1. Faithful(job, f, records)
    BY <1>1, <1>2, <1>4, <1>6, FaithKnown
  <2>2. Asking(new) = Asking(job) /\ Entering(new) = Entering(job)
        /\ Recording(new) = Recording(job)
    BY <1>1 DEF Asking, Entering, Recording
  <2>3. OnTrack(new, f)
    BY <1>1, <2>1 DEF Faithful, OnTrack
  <2>4. Thorough(job, f) => Thorough(new, f)
    BY <1>1, <2>2 DEF Thorough
  <2>5. Whole(job, f, records) => Whole(new, f, records)
    BY <1>1, <2>2 DEF Whole
  <2> QED BY <2>1, <2>3, <2>4, <2>5 DEF Faithful
<1>7. walk[w].alone /\ new.steady => Faithful(new, fed', Collected(new, staging', live'))
  BY <1>1, <1>2, <1>5, <1>6
<1> QED BY <1>7, OwnStep

LEMMA SaddContent ==
  ASSUME CollectionInv, ContentInv, NEW w \in Walker, SaddType(w)
  PROVE  ContentInv'
<1>1. PICK job : job = walk[w]
  OBVIOUS
<1>2. PICK t \in job.types :
        /\ job.pc = "types"
        /\ staging' = [staging EXCEPT ![t] = @ \cup {job.at}]
        /\ walk' = [walk EXCEPT ![w].types = @ \ {t}]
        /\ UNCHANGED <<fed, live, updated, caches, reader, clean, counters>>
  BY <1>1 DEF SaddType
<1>3. /\ job \in WalkRecord /\ StoreOK(staging) /\ t \in EntityType
      /\ walk \in [Walker -> WalkRecord]
  BY <1>1, <1>2, WalkKnown DEF WalkRecord
<1> DEFINE rest == job.types \ {t}
           new == [job EXCEPT !.types = rest]
<1>4. walk' = [walk EXCEPT ![w] = new]
  BY <1>1, <1>2, <1>3 DEF WalkRecord
<1>5. staging'.entities = staging.entities
  BY <1>2, <1>3, KeysDiffer
<1>6. rest \in SUBSET EntityType
  BY <1>3 DEF WalkRecord
<1> HIDE DEF rest
<1>7. /\ new \in WalkRecord /\ new.pc = "types" /\ new.at = job.at
      /\ new.config = job.config /\ new.visited = job.visited
      /\ new.stack = job.stack /\ new.alone = job.alone /\ new.steady = job.steady
  BY <1>2, <1>3, <1>6 DEF WalkRecord
<1> HIDE DEF new
<1> QED BY <1>1, <1>2, <1>4, <1>5, <1>7, SameContent

LEMMA ZaddContent ==
  ASSUME CollectionInv, ContentInv, NEW w \in Walker, ZaddSorted(w)
  PROVE  ContentInv'
<1>1. PICK job : job = walk[w]
  OBVIOUS
<1>2. /\ job.pc = "types"
      /\ staging' = [staging EXCEPT !.all_sorted = @ \cup {job.at}]
      /\ walk' = [walk EXCEPT ![w].pc = "list"]
      /\ UNCHANGED <<fed, live, updated, caches, reader, clean, counters>>
  BY <1>1 DEF ZaddSorted
<1>3. job \in WalkRecord /\ StoreOK(staging) /\ walk \in [Walker -> WalkRecord]
  BY <1>1, WalkKnown
<1> DEFINE new == [job EXCEPT !.pc = "list"]
<1>4. walk' = [walk EXCEPT ![w] = new]
  BY <1>1, <1>2, <1>3 DEF WalkRecord
<1>5. staging'.entities = staging.entities
  BY <1>2, <1>3, KeysDiffer
<1>6. /\ new \in WalkRecord /\ new.pc = "list" /\ new.at = job.at
      /\ new.config = job.config /\ new.visited = job.visited
      /\ new.stack = job.stack /\ new.alone = job.alone /\ new.steady = job.steady
  BY <1>3 DEF WalkRecord
<1> HIDE DEF new
<1> QED BY <1>1, <1>2, <1>4, <1>5, <1>6, SameContent

LEMMA HsetContent ==
  ASSUME CollectionInv, ContentInv, NEW w \in Walker, HsetEntity(w)
  PROVE  ContentInv'
<1>1. PICK job : job = walk[w]
  OBVIOUS
<1>2. PICK f : f = fed
  OBVIOUS
<1>3. PICK records : records = staging.entities
  OBVIOUS
<1>4. /\ JobOK(job) /\ job \in WalkRecord /\ job.pc = "record" /\ f \in Federation
      /\ StoreOK(staging) /\ walk \in [Walker -> WalkRecord]
      /\ fed' = f /\ live' = live
  <2>1. JobOK(job) /\ job \in WalkRecord /\ f \in Federation /\ StoreOK(staging)
    BY <1>1, <1>2, FaithKnown
  <2>2. job.pc = "record" /\ fed' = f /\ live' = live
    BY <1>1, <1>2 DEF HsetEntity
  <2> QED BY <2>1, <2>2, WalkKnown
<1> DEFINE e == job.at
           T == DetectedTypes(job.config.metadata)
           record == [id |-> e, types |-> T]
           new == [job EXCEPT !.pc = "types", !.types = T]
<1>5. T \in SUBSET EntityType /\ Len(job.stack) <= MAX_COLLECTION_DEPTH
  BY <1>4, KeysStored DEF JobOK, DetectedTypes
<1>6. walk' = [walk EXCEPT ![w] = new]
  <2> HIDE DEF T
  <2>1. walk' = [walk EXCEPT ![w].pc = "types", ![w].types = T]
    BY <1>1 DEF HsetEntity, T
  <2> QED BY <1>1, <1>4, <2>1 DEF WalkRecord
<1>7. staging'.entities = {r \in records : r.id # e} \cup {record}
  <2>1. staging' = [staging EXCEPT !.entities = {r \in records : r.id # e} \cup {record}]
    BY <1>1, <1>3 DEF HsetEntity
  <2>2. "entities" \in DOMAIN staging
    BY <1>4, KeysStored, KeysDiffer DEF StoreOK
  <2> HIDE DEF record
  <2> QED BY <2>1, <2>2
<1>8. record.id = e /\ record.types = T
  OBVIOUS
<1> HIDE DEF T, record
<1>9. /\ new \in WalkRecord /\ new.pc = "types" /\ new.at = e
      /\ new.config = job.config /\ new.visited = job.visited
      /\ new.stack = job.stack /\ new.alone = job.alone /\ new.steady = job.steady
  BY <1>4, <1>5 DEF WalkRecord
<1> HIDE DEF new
<1>10. PICK later : later = {r \in records : r.id # e} \cup {record}
  OBVIOUS
<1>11. /\ Collected(job, staging, live) = records
       /\ Collected(new, staging', live') = later
  BY <1>3, <1>4, <1>7, <1>9, <1>10, CollectedStaging
<1>12. ASSUME job.alone, job.steady
       PROVE  Faithful(new, f, later)
  <2>1. Faithful(job, f, records)
    BY <1>1, <1>2, <1>4, <1>11, <1>12, FaithKnown
  <2>2. /\ Asking(new) = Asking(job) /\ Entering(new) = Entering(job)
        /\ Recording(job) = {e} /\ Recording(new) = {}
    BY <1>4, <1>9 DEF Asking, Entering, Recording
  <2>3. OnTrack(new, f)
    BY <1>4, <1>9, <2>1 DEF Faithful, OnTrack
  <2>4. e \in Within(f, Len(job.stack)) /\ job.config = f[e]
    BY <1>4, <2>1 DEF Faithful, OnTrack
  <2>5. e \in Within(f, MAX_COLLECTION_DEPTH)
    <3>1. PICK n \in Nat : n = Len(job.stack)
      BY <1>4, LenProperties DEF WalkRecord
    <3>2. n <= MAX_COLLECTION_DEPTH /\ e \in Within(f, n)
      BY <1>5, <2>4, <3>1
    <3> QED BY <3>2, WithinGrows, BoundsAssumption
  <2>6. T = DetectedTypes(f[e].metadata)
    BY <2>4 DEF T
  <2>7. Truthful(f, later)
    <3>1. Truthful(f, records)
      BY <2>1 DEF Faithful
    <3> QED BY <1>8, <1>10, <2>5, <2>6, <3>1 DEF Truthful
  <2>8. Thorough(job, f) => Thorough(new, f)
    BY <1>4, <1>9, <2>2 DEF Thorough
  <2>9. Whole(job, f, records) => Whole(new, f, later)
    BY <1>8, <1>9, <1>10, <2>2 DEF Whole
  <2> QED BY <2>1, <2>3, <2>7, <2>8, <2>9 DEF Faithful
<1>13. walk[w].alone /\ new.steady => Faithful(new, fed', Collected(new, staging', live'))
  BY <1>1, <1>4, <1>9, <1>11, <1>12
<1> QED BY <1>1, <1>4, <1>6, <1>9, <1>13, OwnStep

(* One level more: what the entity lists.                                  *)
Deeper(f, s, subs, stack, n) ==
  /\ DOMAIN s = 1 .. n /\ DOMAIN stack = 1 .. n + 1
  /\ stack[1] = subs /\ \A i \in 1 .. n : stack[i + 1] = s[i]
  /\ \A i \in 1 .. n : \A e \in Range(s[i]) : Due(f, e, n - i + 1)
  /\ \A e \in Range(subs) : Due(f, e, n + 1)

LEMMA DeeperLevels ==
  ASSUME NEW f, NEW s, NEW subs, NEW stack, NEW n \in Nat, Deeper(f, s, subs, stack, n)
  PROVE  /\ \A i \in 1 .. n + 1 : \A e \in Range(stack[i]) : Due(f, e, n + 1 - i + 1)
         /\ Pending(stack) = Pending(s) \cup Range(subs)
<1> USE DEF Deeper
<1>1. ASSUME NEW i \in 1 .. n + 1, NEW e \in Range(stack[i])
      PROVE  Due(f, e, n + 1 - i + 1)
  <2>1. CASE i = 1
    <3>1. n + 1 - i + 1 = n + 1
      BY <2>1
    <3>2. e \in Range(subs)
      BY <1>1, <2>1
    <3> QED BY <3>1, <3>2
  <2>2. CASE i # 1
    <3>1. PICK j \in 1 .. n : i = j + 1
      BY <2>2, i - 1 \in 1 .. n, i = (i - 1) + 1
    <3>2. n + 1 - i + 1 = n - j + 1
      BY <3>1
    <3>3. e \in Range(s[j])
      BY <1>1, <3>1
    <3>4. Due(f, e, n - j + 1)
      BY <3>3
    <3> QED BY <3>2, <3>4
  <2> QED BY <2>1, <2>2
<1>2. Pending(stack) = Pending(s) \cup Range(subs)
  <2>1. ASSUME NEW i \in 1 .. n + 1
        PROVE  Range(stack[i]) \subseteq Pending(s) \cup Range(subs)
    <3>1. CASE i = 1
      BY <3>1
    <3>2. CASE i # 1
      <4>1. PICK j \in 1 .. n : i = j + 1
        BY <3>2, i - 1 \in 1 .. n, i = (i - 1) + 1
      <4>2. stack[i] = s[j] /\ j \in DOMAIN s
        BY <4>1
      <4> QED BY <4>2 DEF Pending
    <3> QED BY <3>1, <3>2
  <2>2. Range(subs) \subseteq Pending(stack)
    <3>1. 1 \in DOMAIN stack
      OBVIOUS
    <3> QED BY <3>1 DEF Pending
  <2>3. ASSUME NEW j \in 1 .. n
        PROVE  Range(s[j]) \subseteq Pending(stack)
    <3>1. j + 1 \in DOMAIN stack /\ stack[j + 1] = s[j]
      OBVIOUS
    <3> QED BY <3>1 DEF Pending
  <2> QED BY <2>1, <2>2, <2>3 DEF Pending
<1> QED BY <1>1, <1>2

LEMMA DeeperStack ==
  ASSUME NEW f, NEW s \in Seq(Seq(Entity)), NEW subs \in Seq(Entity), Levels(f, s),
         \A e \in Range(subs) : Due(f, e, Len(s) + 1)
  PROVE  LET stack == <<subs>> \o s
         IN  /\ stack \in Seq(Seq(Entity)) /\ Len(stack) = Len(s) + 1 /\ Levels(f, stack)
             /\ Pending(stack) = Pending(s) \cup Range(subs)
<1>1. PICK one \in Seq(Seq(Entity)) : one = <<subs>> /\ Len(one) = 1 /\ one[1] = subs
  <2>1. <<subs>> \in Seq(Seq(Entity)) /\ Len(<<subs>>) = 1 /\ <<subs>>[1] = subs
    OBVIOUS
  <2> QED BY <2>1
<1>2. PICK stack : stack = <<subs>> \o s
  OBVIOUS
<1>3. PICK n \in Nat : Len(s) = n /\ DOMAIN s = 1 .. n
  BY LenProperties
<1>4. stack = one \o s
  BY <1>1, <1>2
<1>5. /\ stack \in Seq(Seq(Entity)) /\ Len(stack) = 1 + Len(s)
      /\ \A i \in 1 .. 1 + Len(s) : stack[i] = IF i <= 1 THEN one[i] ELSE s[i - 1]
  BY <1>1, <1>4, ConcatProperties
<1>6. Len(stack) = n + 1 /\ DOMAIN stack = 1 .. n + 1
  <2>1. DOMAIN stack = 1 .. Len(stack)
    BY <1>5, LenProperties
  <2> QED BY <1>3, <1>5, <2>1
<1>7. stack[1] = subs /\ \A i \in 1 .. n : stack[i + 1] = s[i]
  <2>1. \A i \in 1 .. 1 + n : stack[i] = IF i <= 1 THEN one[i] ELSE s[i - 1]
    BY <1>3, <1>5
  <2>2. stack[1] = one[1]
    BY <2>1
  <2>3. ASSUME NEW i \in 1 .. n
        PROVE  stack[i + 1] = s[i]
    <3>1. i + 1 \in 1 .. 1 + n /\ ~(i + 1 <= 1) /\ i + 1 - 1 = i
      OBVIOUS
    <3> QED BY <2>1, <3>1
  <2> QED BY <1>1, <2>2, <2>3
<1>8. /\ \A i \in 1 .. n : \A e \in Range(s[i]) : Due(f, e, n - i + 1)
      /\ \A e \in Range(subs) : Due(f, e, n + 1)
  BY <1>3 DEF Levels
<1>9. /\ \A i \in 1 .. n + 1 : \A e \in Range(stack[i]) : Due(f, e, n + 1 - i + 1)
      /\ Pending(stack) = Pending(s) \cup Range(subs)
  <2>1. Deeper(f, s, subs, stack, n)
    BY <1>3, <1>6, <1>7, <1>8 DEF Deeper
  <2> QED BY <2>1, DeeperLevels
<1>10. Levels(f, stack)
  BY <1>6, <1>9 DEF Levels
<1> QED BY <1>2, <1>3, <1>5, <1>6, <1>9, <1>10

LEMMA ListContent ==
  ASSUME CollectionInv, ContentInv, NEW w \in Walker, FetchList(w)
  PROVE  ContentInv'
<1>1. PICK job : job = walk[w]
  OBVIOUS
<1>2. PICK f : f = fed
  OBVIOUS
<1>3. PICK records : records = staging.entities
  OBVIOUS
<1> DEFINE e == job.at
           subs == IF "federation_entity" \in job.config.metadata /\ f[e] # None
                     THEN f[e].list ELSE <<>>
<1>4. /\ JobOK(job) /\ job \in WalkRecord /\ f \in Federation /\ e \in Entity
  BY <1>1, <1>2, FaithKnown DEF FetchList, JobOK
<1>5. /\ job.pc = "list" /\ fed' = f /\ staging' = staging /\ live' = live
      /\ walk' = [walk EXCEPT ![w] = Onward([job EXCEPT !.stack = <<subs>> \o @])]
  BY <1>1, <1>2 DEF FetchList, Proceed
<1>6. subs \in Seq(Entity)
  <2>1. f[e] \in Configuration \cup {None}
    BY <1>4 DEF Federation
  <2>2. <<>> \in Seq(Entity)
    BY EmptySeq
  <2> QED BY <2>1, <2>2 DEF Configuration
<1>7. \A d \in Range(subs) :
        "federation_entity" \in job.config.metadata /\ f[e] # None /\ d \in Range(f[e].list)
  BY DEF Range
<1>8. "federation_entity" \in job.config.metadata /\ f[e] # None => subs = f[e].list
  OBVIOUS
<1> HIDE DEF subs
<1> DEFINE stack == <<subs>> \o job.stack
           deeper == [job EXCEPT !.stack = stack]
<1>9. stack \in Seq(Seq(Entity))
  <2>1. <<subs>> \in Seq(Seq(Entity)) /\ job.stack \in Seq(Seq(Entity))
    BY <1>4, <1>6 DEF WalkRecord
  <2> QED BY <2>1, ConcatProperties
<1>10. walk' = [walk EXCEPT ![w] = Onward(deeper)]
  BY <1>4, <1>5 DEF WalkRecord
<1>11. stack = <<subs>> \o job.stack
  OBVIOUS
<1> HIDE DEF stack
<1>12. /\ deeper \in WalkRecord /\ deeper.visited = job.visited
       /\ deeper.alone = job.alone /\ deeper.steady = job.steady
       /\ deeper.stack = stack
  BY <1>4, <1>9 DEF WalkRecord
<1> HIDE DEF deeper
<1>13. PICK new : new = Onward(deeper)
  OBVIOUS
<1>14. Passed(deeper, new)
  BY <1>12, <1>13, OnwardPasses
<1>15. new.alone = job.alone /\ new.steady = job.steady /\ new.visited = job.visited
  BY <1>12, <1>14 DEF Passed
<1>16. Collected(new, staging, live) = records /\ Collected(job, staging, live) = records
  <2>1. new.pc = "swap" => new.command = 1
    BY <1>14 DEF Passed
  <2> QED BY <1>3, <1>5, <2>1, CollectedStaging
<1>17. ASSUME job.alone, job.steady
       PROVE  Faithful(new, f, records)
  <2>1. /\ Faithful(job, f, records) /\ job.visited \subseteq Listed(f)
        /\ Cardinality(job.visited) \in Nat
    BY <1>1, <1>2, <1>5, <1>16, <1>17, FaithKnown
  <2>2. /\ Levels(f, job.stack) /\ Truthful(f, records)
        /\ e \in Within(f, Len(job.stack)) /\ job.config = f[e]
        /\ e \in job.visited /\ Len(job.stack) < Cardinality(job.visited)
    BY <1>5, <2>1 DEF Faithful, OnTrack
  <2>3. Asking(job) = {e} /\ Entering(job) = {} /\ Recording(job) = {}
    BY <1>5 DEF Asking, Entering, Recording
  <2>4. PICK n \in Nat : n = Len(job.stack)
    BY <1>4, LenProperties DEF WalkRecord
  <2>5. PICK c \in Nat : c = Cardinality(job.visited) /\ n < c
    BY <2>1, <2>2, <2>4
  <2>6. \A d \in Range(subs) : Lists(f, e, d)
    BY <1>7, <2>2 DEF Lists
  <2>7. \A d \in Range(subs) : Due(f, d, Len(job.stack) + 1)
    <3>1. e \in Within(f, n) /\ n + 1 # 0 /\ n + 1 - 1 = n
      BY <2>2, <2>4
    <3>2. \A d \in Range(subs) : Due(f, d, n + 1)
      BY <2>6, <3>1 DEF Due
    <3> QED BY <2>4, <3>2
  <2>8. job.stack \in Seq(Seq(Entity))
    BY <1>4 DEF WalkRecord
  <2>9. /\ Len(stack) = n + 1 /\ Levels(f, stack)
        /\ Pending(stack) = Pending(job.stack) \cup Range(subs)
    BY <1>6, <1>11, <2>2, <2>4, <2>7, <2>8, DeeperStack
  <2>10. n + 1 <= c
    BY <2>5
  <2>11. Len(deeper.stack) <= Cardinality(deeper.visited)
    BY <1>12, <2>5, <2>9, <2>10
  <2>12. OnTrack(new, f)
    BY <1>4, <1>12, <1>14, <2>1, <2>9, <2>11, MovedOnTrack
  <2>13. ASSUME Short(f)
         PROVE  Thorough(new, f) /\ Whole(new, f, records)
    <3>1. Thorough(job, f) /\ Whole(job, f, records)
      BY <2>1, <2>13 DEF Faithful
    <3>2. Root \in deeper.visited
      BY <1>12, <2>3, <3>1 DEF Thorough
    <3>3. ASSUME NEW p \in deeper.visited \cap Published(f), NEW d \in Entity,
                 Lists(f, p, d)
          PROVE  d \in deeper.visited \cup Pending(deeper.stack)
      <4>1. CASE p = e
        <5>1. "federation_entity" \in f[e].metadata /\ d \in Range(f[e].list)
          BY <3>3, <4>1 DEF Lists
        <5>2. f[e] # None
          BY <3>3, <4>1 DEF Published
        <5>3. d \in Range(subs)
          BY <1>8, <2>2, <5>1, <5>2
        <5> QED BY <1>12, <2>9, <5>3
      <4>2. CASE p # e
        <5>1. d \in job.visited \cup Pending(job.stack)
          BY <1>12, <2>3, <3>1, <3>3, <4>2 DEF Thorough
        <5> QED BY <1>12, <2>9, <5>1
      <4> QED BY <4>1, <4>2
    <3>4. Thorough(new, f)
      BY <1>12, <1>14, <3>2, <3>3, MovedThorough
    <3>5. Whole(new, f, records)
      BY <1>15, <2>3, <3>1 DEF Whole
    <3> QED BY <3>4, <3>5
  <2> QED BY <2>2, <2>12, <2>13 DEF Faithful
<1>18. walk[w].alone /\ new.steady => Faithful(new, fed', Collected(new, staging', live'))
  <2>1. Collected(new, staging', live') = records
    BY <1>5, <1>16
  <2> QED BY <1>1, <1>5, <1>15, <1>17, <2>1
<1>19. walk' = [walk EXCEPT ![w] = new] /\ walk[w].pc # "idle"
  BY <1>1, <1>5, <1>10, <1>13
<1>20. new.alone = walk[w].alone
  BY <1>1, <1>15
<1> QED BY <1>18, <1>19, <1>20, OwnStep

(* A walk that has ended has nothing more to answer for.                   *)
LEMMA DieContent ==
  ASSUME CollectionInv, ContentInv, NEW w \in Walker, Die(w) \/ SetUpdated(w)
  PROVE  ContentInv'
<1>1. PICK new : new = NoWalk
  OBVIOUS
<1>2. walk[w].pc # "idle" /\ walk' = [walk EXCEPT ![w] = new]
  BY <1>1 DEF Die, SetUpdated
<1>3. new.pc = "idle"
  BY <1>1, NoWalkOK
<1> QED BY <1>2, <1>3, OwnStep

LEMMA DelContent ==
  ASSUME CollectionInv, ContentInv, NEW w \in Walker, DelLive(w)
  PROVE  ContentInv'
<1>1. PICK job : job = walk[w]
  OBVIOUS
<1>2. PICK f : f = fed
  OBVIOUS
<1>3. PICK records : records = staging.entities
  OBVIOUS
<1>4. /\ job.pc = "swap" /\ job.command = 1 /\ walk' = [walk EXCEPT ![w].command = 2]
      /\ staging' = staging /\ fed' = f
  BY <1>1, <1>2 DEF DelLive
<1>5. job \in WalkRecord /\ walk \in [Walker -> WalkRecord]
  BY <1>1, WalkKnown
<1> DEFINE new == [job EXCEPT !.command = 2]
<1>6. walk' = [walk EXCEPT ![w] = new]
  BY <1>1, <1>4, <1>5 DEF WalkRecord
<1>7. /\ new.pc = "swap" /\ new.command = 2 /\ new.visited = job.visited
      /\ new.stack = job.stack /\ new.alone = job.alone /\ new.steady = job.steady
  BY <1>4, <1>5 DEF WalkRecord
<1> HIDE DEF new
<1>8. /\ Collected(job, staging, live) = records
      /\ Collected(new, staging', live') = records
  <2>1. Collected(new, staging, live') = records
    BY <1>3, <1>7, CollectedStaging
  <2> QED BY <1>3, <1>4, <2>1, CollectedStaging
<1>9. ASSUME job.alone, job.steady
      PROVE  Faithful(new, f, records)
  <2>1. Faithful(job, f, records)
    BY <1>1, <1>2, <1>4, <1>8, <1>9, FaithKnown
  <2> QED BY <1>4, <1>7, <2>1
          DEF Faithful, OnTrack, Thorough, Whole, Asking, Entering, Recording
<1>10. walk[w].alone /\ new.steady => Faithful(new, fed', Collected(new, staging', live'))
  BY <1>1, <1>4, <1>7, <1>8, <1>9
<1> QED BY <1>1, <1>4, <1>6, <1>7, <1>10, OwnStep

LEMMA RenameContent ==
  ASSUME CollectionInv, ContentInv, NEW w \in Walker, RenameKey(w)
  PROVE  ContentInv'
<1>1. PICK job : job = walk[w]
  OBVIOUS
<1>2. PICK f : f = fed
  OBVIOUS
<1>3. /\ job \in WalkRecord /\ StoreOK(staging) /\ StoreOK(live)
      /\ walk \in [Walker -> WalkRecord] /\ job.pc = "swap"
      /\ job.alone => Moving(staging, live, job.command)
  BY <1>1, WalkKnown DEF Staged, RenameKey
<1>4. job.command \in Nat
  BY <1>3, KeysStored DEF WalkRecord
<1>5. PICK n : n = job.command - 1
  OBVIOUS
<1>6. /\ n \in DOMAIN Keys
      /\ IF staging[Keys[n]] = {} THEN UNCHANGED <<live, staging>>
           ELSE /\ live' = [live EXCEPT ![Keys[n]] = staging[Keys[n]]]
                /\ staging' = [staging EXCEPT ![Keys[n]] = {}]
      /\ walk' = [walk EXCEPT ![w].command = @ + 1]
      /\ fed' = f
  BY <1>1, <1>2, <1>5 DEF RenameKey
<1>7. n \in Nat /\ job.command = n + 1
  BY <1>4, <1>5, <1>6, KeysStored
<1>8. PICK c : c = n + 2 /\ c = job.command + 1
  BY <1>7
<1> DEFINE new == [job EXCEPT !.command = c]
<1>9. walk' = [walk EXCEPT ![w] = new]
  BY <1>1, <1>3, <1>6, <1>8 DEF WalkRecord
<1>10. /\ new.pc = "swap" /\ new.command = c /\ new.visited = job.visited
       /\ new.stack = job.stack /\ new.alone = job.alone /\ new.steady = job.steady
  BY <1>3 DEF WalkRecord
<1> HIDE DEF new
<1>11. PICK st : st = staging'
  OBVIOUS
<1>12. PICK lv : lv = live'
  OBVIOUS
<1>13. IF staging[Keys[n]] = {} THEN st = staging /\ lv = live
       ELSE /\ lv = [live EXCEPT ![Keys[n]] = staging[Keys[n]]]
            /\ st = [staging EXCEPT ![Keys[n]] = {}]
  BY <1>6, <1>11, <1>12
<1>14. Moving(staging, live, n + 1) =>
         Merged(st, lv, n + 2) = Merged(staging, live, n + 1)
  BY <1>3, <1>6, <1>13, KeyMoves
<1>15. ASSUME job.alone
       PROVE  Collected(new, st, lv) = Collected(job, staging, live)
  <2>1. Merged(st, lv, c) = Merged(staging, live, job.command)
    BY <1>3, <1>7, <1>8, <1>14, <1>15
  <2> QED BY <1>3, <1>10, <2>1 DEF Collected
<1>16. PICK records : records = Collected(job, staging, live)
  OBVIOUS
<1>17. ASSUME job.alone, job.steady
       PROVE  Faithful(new, f, records)
  <2>1. Faithful(job, f, records)
    BY <1>1, <1>2, <1>3, <1>16, <1>17, FaithKnown
  <2> QED BY <1>3, <1>10, <2>1
          DEF Faithful, OnTrack, Thorough, Whole, Asking, Entering, Recording
<1>18. walk[w].alone /\ new.steady => Faithful(new, fed', Collected(new, staging', live'))
  BY <1>1, <1>6, <1>10, <1>11, <1>12, <1>15, <1>16, <1>17
<1> QED BY <1>1, <1>3, <1>9, <1>10, <1>18, OwnStep

(* A walk starts at the anchor, with nothing collected.                    *)
LEMMA StartContent ==
  ASSUME CollectionInv, ContentInv, NEW w \in Walker, StartWalk(w)
  PROVE  ContentInv'
<1>1. PICK none : none = <<>>
  OBVIOUS
<1>2. PICK lone : lone = ~Running(Walker \ {w})
  OBVIOUS
<1>3. PICK new : new = [NoWalk EXCEPT !.pc = "enter", !.at = Root, !.alone = lone]
  OBVIOUS
<1>4. new.pc = "enter" /\ new.at = Root /\ new.visited = {} /\ new.stack = none
  <2>1. new = [pc |-> "enter", at |-> Root, config |-> None, types |-> {},
               stack |-> none, visited |-> {}, command |-> 0, steady |-> TRUE,
               alone |-> lone]
    BY <1>1, <1>3 DEF NoWalk
  <2> QED BY <2>1
<1> DEFINE other(v) == [walk[v] EXCEPT !.alone = (walk[v].alone /\ walk[v].pc = "idle")]
<1>5. walk' = [v \in Walker |-> IF v = w THEN new ELSE other(v)]
  BY <1>2, <1>3 DEF StartWalk
<1>6. ASSUME NEW v \in Walker, other(v).pc # "idle"
      PROVE  ~other(v).alone
  <2>1. walk[v] \in WalkRecord
    BY WalkKnown
  <2>2. PICK b \in BOOLEAN : b = (walk[v].alone /\ walk[v].pc = "idle")
    BY <2>1 DEF WalkRecord
  <2>3. PICK job : job = [walk[v] EXCEPT !.alone = b]
    OBVIOUS
  <2>4. other(v) = job
    BY <2>2, <2>3
  <2>5. job.alone = b /\ job.pc = walk[v].pc
    BY <2>1, <2>3 DEF WalkRecord
  <2> QED BY <1>6, <2>2, <2>4, <2>5
<1> HIDE DEF other
<1>7. walk'[w] = new /\ \A v \in Walker \ {w} : walk'[v] = other(v)
  BY <1>5
<1>8. PICK st : st = EmptyStore
  OBVIOUS
<1>9. staging' = st /\ fed' = fed /\ st.entities = {}
  <2>1. staging' = st /\ fed' = fed
    BY <1>8 DEF StartWalk
  <2>2. Ids(st) = {}
    BY <1>8, EmptyConsistent
  <2> QED BY <2>1, <2>2 DEF Ids
<1>10. Collected(new, staging', live') = {}
  BY <1>4, <1>9, CollectedStaging
<1>11. PICK f : f = fed
  OBVIOUS
<1>12. Faithful(new, f, {})
  <2>1. Len(new.stack) = 0 /\ DOMAIN new.stack = {}
    BY <1>1, <1>4, EmptySeq
  <2>2. Cardinality(new.visited) = 0
    BY <1>4, FS_EmptySet
  <2>3. Due(f, Root, 0)
    BY DEF Due
  <2>4. OnTrack(new, f)
    BY <1>4, <2>1, <2>2, <2>3 DEF OnTrack, Levels
  <2>5. Truthful(f, {})
    BY DEF Truthful
  <2>6. Thorough(new, f)
    BY <1>4 DEF Thorough, Entering
  <2>7. Whole(new, f, {})
    BY <1>4 DEF Whole
  <2> QED BY <2>4, <2>5, <2>6, <2>7 DEF Faithful
<1>13. ASSUME NEW v \in Walker, walk'[v].pc # "idle", walk'[v].alone, walk'[v].steady
       PROVE  Faithful(walk'[v], fed', Collected(walk'[v], staging', live'))
  <2>1. v = w
    BY <1>6, <1>7, <1>13
  <2> QED BY <1>7, <1>9, <1>10, <1>11, <1>12, <2>1
<1> QED BY <1>13 DEF ContentInv

(* A change of the federation ends what is claimed of a walk.              *)
LEMMA ChangeContent ==
  ASSUME CollectionInv, ContentInv, Change
  PROVE  ContentInv'
<1>1. ASSUME NEW v \in Walker
      PROVE  ~walk'[v].steady
  <2>1. walk[v] \in WalkRecord
    BY WalkKnown
  <2>2. walk'[v] = [walk[v] EXCEPT !.steady = FALSE]
    BY DEF Change
  <2> QED BY <2>1, <2>2 DEF WalkRecord
<1> QED BY <1>1 DEF ContentInv

LEMMA OtherContent ==
  ASSUME CollectionInv, ContentInv, UNCHANGED <<fed, staging, live, walk>>
  PROVE  ContentInv'
<1>1. PICK st : st = staging'
  OBVIOUS
<1>2. PICK lv : lv = live'
  OBVIOUS
<1>3. PICK f : f = fed'
  OBVIOUS
<1>4. st = staging /\ lv = live /\ f = fed /\ walk' = walk
  BY <1>1, <1>2, <1>3
<1>5. ASSUME NEW w \in Walker, walk'[w].pc # "idle", walk'[w].alone, walk'[w].steady
      PROVE  Faithful(walk'[w], f, Collected(walk'[w], st, lv))
  BY <1>4, <1>5 DEF ContentInv
<1> QED BY <1>1, <1>2, <1>3, <1>5 DEF ContentInv

-----------------------------------------------------------------------------
(* The invariant holds, and what follows from it.                          *)

LEMMA ContentStep ==
  ASSUME CollectionInv, ContentInv, [Next]_vars
  PROVE  ContentInv'
<1>1. ASSUME NEW w \in Walker, Walk(w)
      PROVE  ContentInv'
  BY <1>1, EnterContent, HsetContent, SaddContent, ZaddContent, ListContent,
     DelContent, RenameContent, DieContent DEF Walk
<1>2. ASSUME NEW w \in Walker, StartWalk(w) \/ Die(w)
      PROVE  ContentInv'
  BY <1>2, StartContent, DieContent
<1>3. CASE StartRead \/ Read \/ Rest \/ UNCHANGED vars
  <2>1. UNCHANGED <<fed, staging, live, walk>>
    BY <1>3 DEF StartRead, Read, ReadIds, ReadEntity, ReadUpdated, Rest, vars
  <2> QED BY <2>1, OtherContent
<1>4. CASE Change
  BY <1>4, ChangeContent
<1> QED BY <1>1, <1>2, <1>3, <1>4 DEF Next

LEMMA ContentHolds == Spec => [](CollectionInv /\ ContentInv)
<1>1. Init => ContentInv
  <2>1. ASSUME Init, NEW w \in Walker
        PROVE  walk[w].pc = "idle"
    BY <2>1, NoWalkOK DEF Init
  <2> QED BY <2>1 DEF ContentInv
<1>2. CollectionInv /\ ContentInv /\ [Next]_vars => CollectionInv' /\ ContentInv'
  BY CollectionStep, ContentStep
<1> QED BY <1>1, <1>2, CollectionInit, PTL DEF Spec

(* The only step by which a walk in its swap ends.                         *)
LEMMA EndsUpdated ==
  ASSUME CollectionInv, [Next]_vars, NEW w \in Walker,
         walk[w].pc = "swap", walk'[w].pc = "idle"
  PROVE  SetUpdated(w)
<1>1. walk \in [Walker -> WalkRecord] /\ walk[w] \in WalkRecord
  BY WalkKnown
<1>2. ASSUME NEW u \in Walker, Walk(u)
      PROVE  SetUpdated(w)
  <2>1. u = w
    <3>1. u # w => walk'[w] = walk[w]
      BY <1>1, <1>2 DEF Walk, Enter, HsetEntity, SaddType, ZaddSorted, FetchList,
                        DelLive, RenameKey, SetUpdated, Proceed
    <3> QED BY <3>1
  <2>2. DelLive(w) \/ RenameKey(w) \/ SetUpdated(w)
    BY <1>2, <2>1 DEF Walk, Enter, HsetEntity, SaddType, ZaddSorted, FetchList
  <2>3. DelLive(w) \/ RenameKey(w) => walk'[w].pc = walk[w].pc
    BY <1>1 DEF DelLive, RenameKey, WalkRecord
  <2> QED BY <2>2, <2>3
<1>3. ASSUME NEW u \in Walker, Die(u)
      PROVE  FALSE
  BY <1>1, <1>3 DEF Die
<1>4. ASSUME NEW u \in Walker, StartWalk(u)
      PROVE  FALSE
  <2>1. u # w
    BY <1>4 DEF StartWalk
  <2>2. PICK b : walk'[w] = [walk[w] EXCEPT !.alone = b]
    BY <1>4, <2>1 DEF StartWalk
  <2> QED BY <1>1, <2>2 DEF WalkRecord
<1>5. CASE StartRead \/ Read \/ Rest \/ UNCHANGED vars
  <2>1. UNCHANGED walk
    BY <1>5 DEF StartRead, Read, ReadIds, ReadEntity, ReadUpdated, Rest, vars
  <2> QED BY <2>1
<1>6. CASE Change
  <2>1. walk'[w] = [walk[w] EXCEPT !.steady = FALSE]
    BY <1>6 DEF Change
  <2> QED BY <1>1, <2>1 DEF WalkRecord
<1> QED BY <1>2, <1>3, <1>4, <1>5, <1>6 DEF Next

LEMMA PublishedOnce ==
  ASSUME CollectionInv, ContentInv, [Next]_vars, NEW w \in Walker,
         walk[w].pc = "swap", walk'[w].pc = "idle", walk[w].steady, walk[w].alone
  PROVE  /\ Ids(live') \subseteq Within(fed, MAX_COLLECTION_DEPTH)
         /\ Cardinality(Listed(fed)) <= MAX_COLLECTION_DEPTH + 1
              => Ids(live') = Within(fed, MAX_COLLECTION_DEPTH)
         /\ \A r \in live'.entities : r.types = DetectedTypes(fed[r.id].metadata)
<1>1. PICK job : job = walk[w]
  OBVIOUS
<1>2. PICK f : f = fed
  OBVIOUS
<1>3. job.command = Len(Keys) + 2 /\ live' = live
  BY <1>1, EndsUpdated DEF SetUpdated
<1>4. PICK lv : lv = live' /\ lv = live
  BY <1>3
<1>5. PICK records : records = lv.entities
  OBVIOUS
<1>6. Collected(job, staging, live) = records
  <2>1. PICK m \in Nat : m = Len(Keys)
    BY KeysStored
  <2>2. job.command - 2 = m
    BY <1>3, <2>1
  <2>3. DOMAIN Keys = 1 .. m /\ Range(Keys) = Stored
    BY <2>1, KeysStored
  <2>4. Done(job.command) = Stored
    BY <2>2, <2>3 DEF Done, Range
  <2>5. Merged(staging, live, job.command).entities = records
    BY <1>4, <1>5, <2>4, KeysDiffer DEF Merged
  <2> QED BY <1>1, <2>5 DEF Collected
<1>7. Faithful(job, f, records)
  BY <1>1, <1>2, <1>6, FaithKnown
<1>8. Truthful(f, records)
  BY <1>7 DEF Faithful
<1>9. Ids(lv) \subseteq Within(f, MAX_COLLECTION_DEPTH)
  BY <1>5, <1>8 DEF Truthful, Ids
<1>10. \A r \in lv.entities : r.types = DetectedTypes(f[r.id].metadata)
  BY <1>5, <1>8 DEF Truthful
<1>11. ASSUME Cardinality(Listed(f)) <= MAX_COLLECTION_DEPTH + 1
       PROVE  Within(f, MAX_COLLECTION_DEPTH) \subseteq Ids(lv)
  <2>1. Thorough(job, f) /\ Whole(job, f, records)
    BY <1>7, <1>11 DEF Faithful, Short
  <2>2. Entering(job) = {} /\ Asking(job) = {} /\ Recording(job) = {}
    BY <1>1 DEF Entering, Asking, Recording
  <2>3. job.stack = <<>>
    BY <1>1, <2>1 DEF Thorough
  <2>4. Pending(job.stack) = {}
    BY <2>3 DEF Pending
  <2>5. PICK S : S = job.visited
    OBVIOUS
  <2>6. /\ Root \in S
        /\ \A p \in S \cap Published(f) : \A e \in Entity : Lists(f, p, e) => e \in S
    BY <2>1, <2>2, <2>4, <2>5 DEF Thorough
  <2>7. Within(f, MAX_COLLECTION_DEPTH) \subseteq S
    BY <2>6, WithinClosed, BoundsAssumption
  <2>8. Within(f, MAX_COLLECTION_DEPTH) \subseteq Published(f)
    BY DEF Within
  <2> QED BY <1>5, <2>1, <2>2, <2>5, <2>7, <2>8 DEF Whole, Ids
<1> QED BY <1>2, <1>4, <1>9, <1>10, <1>11

(* What run_collection_walk publishes, if no other walk and no change of   *)
(* the federation came in between, is that federation: no entity that a    *)
(* chain of lists within MAX_COLLECTION_DEPTH does not lead to, each with  *)
(* its own types, and none left out where no path can be too long.         *)
THEOREM WalkPublishesFederation == Spec => PublishedComplete
<1>1. CollectionInv /\ ContentInv /\ [Next]_vars =>
        [\A w \in Walker :
           (/\ walk[w].pc = "swap" /\ walk'[w].pc = "idle"
            /\ walk[w].steady /\ walk[w].alone)
           => /\ Ids(live') \subseteq Within(fed, MAX_COLLECTION_DEPTH)
              /\ Cardinality(Listed(fed)) <= MAX_COLLECTION_DEPTH + 1
                   => Ids(live') = Within(fed, MAX_COLLECTION_DEPTH)
              /\ \A r \in live'.entities :
                   r.types = DetectedTypes(fed[r.id].metadata)]_vars
  BY PublishedOnce
<1> QED BY <1>1, ContentHolds, PTL DEF Spec, PublishedComplete
=============================================================================
