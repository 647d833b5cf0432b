--------------------------- MODULE MCChainResolver ---------------------------
(***************************************************************************)
(* Small instances of ChainResolver for TLC: a subject, three              *)
(* intermediates and an anchor, with loops, detours and one thing wrong.   *)
(***************************************************************************)
EXTENDS ChainResolver, TLC

CONSTANTS s, i1, i2, i3, ta, v1, v2, k1, k2

EC(hints) ==
  [keys |-> {k1}, signer |-> k1, endpoint |-> TRUE, hints |-> hints, metadata |-> v1]
Free == [keys |-> {k1}, signer |-> k1, max |-> None, permits |-> TRUE,
         leafPermits |-> TRUE, policy |-> None, forced |-> None]

(* What i3 hints matters only if i2 hints i3. *)
Hints ==
  {h \in [s  : {<<i1, i2>>, <<i2, ta>>}, i1 : {<<i2>>, <<s, ta>>, <<i2, ta>>},
          i2 : {<<ta>>, <<i1, ta>>, <<i3, ta>>}, i3 : {<<i1>>, <<ta>>}] :
     h.i3 = <<ta>> \/ Contains(h.i2, i3)}

Plain(h) ==
  [ec |-> (s :> EC(h.s)) @@ (i1 :> EC(h.i1)) @@ (i2 :> EC(h.i2))
          @@ (i3 :> EC(h.i3)) @@ (ta :> EC(<<>>)),
   ss |-> [p \in Entity \X Entity |-> Free]]

(* The statements a search may ask for. *)
Asked(f) == {p \in Entity \X Entity : Contains(f.ec[p[2]].hints, p[1])}
Flaws ==
  {None, Invalid, [Free EXCEPT !.permits = FALSE],
   [Free EXCEPT !.leafPermits = FALSE]}
Lengths == {[Free EXCEPT !.max = n] : n \in 0 .. 1}
Odd(e) ==
  {None, [EC(<<ta>>) EXCEPT !.keys = {k2}], [EC(<<ta>>) EXCEPT !.endpoint = FALSE]}

(* Policies of two entities, and what the lower one forces upon the subject; *)
(* what the upper one forces is not about the subject.                      *)
Ruled(h, lower, upper, v) ==
  LET low  == [Free EXCEPT !.policy = lower, !.forced = v]
      high == [Free EXCEPT !.policy = upper, !.forced = v2]
  IN  [Plain(h) EXCEPT !.ss[<<i1, s>>] = low, !.ss[<<i2, s>>] = low,
                       !.ss[<<ta, i1>>] = high, !.ss[<<ta, i2>>] = high,
                       !.ss[<<i2, i1>>] = high]

PolicyFederations ==
  LET hints == {h \in Hints : h.s = <<i1, i2>> /\ h.i3 = <<ta>>}
  IN  {Ruled(h, lower, upper, v) : h \in hints, lower \in {None, {v1}, {v1, v2}},
                                   upper \in {None, {v1}, {v2}}, v \in {None, v2}}
        \cup {[Plain(h) EXCEPT !.ec[s].metadata = None] : h \in hints}

(* i1 has k2 besides k1, or instead, signs with it, and the anchor lists   *)
(* the keys in the last argument.                                          *)
Two == Plain([s |-> <<i1, i2>>, i1 |-> <<ta>>, i2 |-> <<ta>>, i3 |-> <<ta>>])
Rolled(keys, signer, listed) ==
  [ec |-> [Two.ec EXCEPT ![i1] = [@ EXCEPT !.keys = keys, !.signer = signer]],
   ss |-> [p \in Entity \X Entity |->
             IF p[1] = i1 THEN [Free EXCEPT !.signer = signer]
             ELSE IF p = <<ta, i1>> THEN [Free EXCEPT !.keys = listed] ELSE Free]]

(* The anchor is late, has both keys, or has dropped the old one.  Before  *)
(* it rolls over, i1 may publish the new key, or not.                      *)
Lists == {{k1}, {k1, k2}, {k2}}
RolloverFederations ==
  {<<Rolled(old, k1, {k1}), Rolled({k1, k2}, k2, listed)>> :
     old \in {{k1}, {k1, k2}}, listed \in Lists}
    \cup {<<Rolled({k1}, k1, {k1}), Rolled({k2}, k2, {k1}), Rolled({k2}, k2, listed)>> :
            listed \in Lists}

(* Nothing wrong; one statement, or one configuration, is. *)
AllFederations ==
  LET plain == {Plain(h) : h \in Hints}
      fixed == plain \cup PolicyFederations
        \cup UNION {{[f EXCEPT !.ss[p] = x] : p \in Asked(f), x \in Flaws \cup Lengths}
                     : f \in plain}
        \cup UNION {{[f EXCEPT !.ec[e] = x] : f \in plain, x \in Odd(e)} : e \in Entity}
  IN  {<<f>> : f \in fixed} \cup RolloverFederations

(* Only path lengths. *)
LengthFederations ==
  UNION {{<<[f EXCEPT !.ss[p] = x]>> : p \in Asked(f), x \in Lengths}
          : f \in {Plain(h) : h \in Hints}}
=============================================================================
