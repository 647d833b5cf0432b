--------------------------- MODULE MCSubordinates ---------------------------
(***************************************************************************)
(* Small instances of Subordinates for TLC: one entity that rolls its keys *)
(* over, goes away, and comes back, and another beside it.                 *)
(***************************************************************************)
EXTENDS Subordinates

CONSTANTS e1, e2, w1, w2, k1, k2, f1, f2, rp

Config(signer, jwks) ==
  [signer |-> signer, jwks |-> jwks, metadata |-> rp, verdict |-> "accepted"]

(* The stages of a rollover from k1 to k2, the first with keys that are    *)
(* known from the registration only.                                       *)
Before  == Config(k1, None)
Rolling == Config(k1, {k1, k2})
Stages  == {Before, Rolling, Config(k2, {k1, k2})}

(* One no longer names this Trust Anchor, the other has no metadata.       *)
Refused  == [Config(k1, {k1}) EXCEPT !.verdict = "refused"]
Raising  == [Config(k1, {k1}) EXCEPT !.verdict = "raises"]

(* e1 rolls its keys over, goes away and comes back; e2 keeps its keys and *)
(* becomes odd.                                                            *)
Publishing ==
  [e \in Entity |-> IF e = e1 THEN Stages \cup {Refused, None}
                   ELSE {Before, Refused, Raising}]

Alone == [Entity -> Stages]
Pair  == {[e \in Entity |-> IF e = e1 THEN c ELSE Before] : c \in {Rolling, None}}

Ask(op, e, forced, active) ==
  [op |-> op, entity |-> e, jwks |-> {k1}, forced |-> forced, metadata |-> rp,
   active |-> active]

(* The update of a disabling also brings other keys and forced metadata.   *)
AllRequests ==
  {Ask("create", e1, f1, TRUE), Ask("create", e1, f2, FALSE),
   Ask("update", e1, f1, TRUE),
   [Ask("update", e1, f2, FALSE) EXCEPT !.jwks = {k1, k2}, !.metadata = None],
   Ask("renew", e1, f1, TRUE), Ask("readd", None, f1, TRUE),
   Ask("renewAll", None, f1, TRUE)}

(* The other entity only registers.                                        *)
PairRequests == AllRequests \cup {Ask("create", e2, f1, TRUE)}
=============================================================================
