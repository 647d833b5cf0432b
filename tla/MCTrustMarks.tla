---------------------------- MODULE MCTrustMarks ----------------------------
(***************************************************************************)
(* Small instances of TrustMarks for TLC: which requests each run lets the *)
(* clients and operators issue.                                            *)
(***************************************************************************)
EXTENDS TrustMarks, TLC

CONSTANTS w1, w2, t1, t2, d1, gold

Blank(op) == [op |-> op, active |-> None, autorenew |-> None,
              validFor |-> None, claims |-> None]

Create      == Blank("create")
CreateOff   == [Create EXCEPT !.active = FALSE, !.claims = gold, !.validFor = 1]
Renew       == Blank("renew")
Touch       == [Blank("update") EXCEPT !.autorenew = TRUE]
Deactivate  == [Blank("update") EXCEPT !.active = FALSE]
Activate    == [Blank("update") EXCEPT !.active = TRUE]
SetClaims   == [Blank("update") EXCEPT !.claims = gold]
NewType     == [Blank("createType") EXCEPT !.active = TRUE, !.autorenew = TRUE,
                                           !.validFor = 2]
DisableType == [Blank("updateType") EXCEPT !.active = FALSE]
ShortenType == [Blank("updateType") EXCEPT !.validFor = 1]

AllRequests ==
  {Create, CreateOff, Renew, Touch, Deactivate, Activate, SetClaims,
   DisableType, ShortenType, Blank("reissue"), Blank("reload")}
LossRequests == (AllRequests \ {Activate, Touch, ShortenType}) \cup {NewType}
RaceRequests == {Create, Renew, Deactivate}

(* t1 exists from the start, t2 has yet to be created. *)
Types == [t \in Type |-> IF t = t1 THEN [active |-> TRUE, autorenew |-> TRUE,
                                         validFor |-> 2]
                                   ELSE None]

Symmetry == Permutations(Worker)
=============================================================================
