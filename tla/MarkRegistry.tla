---------------------------- MODULE MarkRegistry ----------------------------
(***************************************************************************)
(* What the Trust Anchor promises a relying party that asks about a trust  *)
(* mark, with no workers, database rows or Redis commands in sight.        *)
(*                                                                         *)
(* Every (type, domain) pair has one entry: nothing yet, live, or revoked. *)
(* A mark is known once its issue has been recorded.  The verdict on a     *)
(* known mark depends on its expiry and on the entry of its pair, never on *)
(* which of the pair's marks is asked about.  The promise: a known mark    *)
(* stays known, and there is always an entry to answer from, so a status   *)
(* request about a known mark is never answered with an error.             *)
(***************************************************************************)
EXTENDS Naturals

CONSTANTS
  Pair,      \* (trust mark type, domain) pairs
  Mark,      \* trust mark JWTs
  PairOf(_), \* the pair a mark was issued for
  ExpOf(_),  \* the expiry time of a mark
  None       \* no entry

VARIABLES
  entry,     \* entry of each pair: None, "live" or "revoked"
  known,     \* marks whose issue is on record
  now        \* the clock

vars == <<entry, known, now>>

TypeOK ==
  /\ entry \in [Pair -> {None, "live", "revoked"}]
  /\ known \subseteq Mark
  /\ now \in Nat

Init ==
  /\ entry = [p \in Pair |-> None]
  /\ known = {}
  /\ now = 0

(* A mark of the pair is published. *)
Publish(p) ==
  /\ entry' = [entry EXCEPT ![p] = "live"]
  /\ UNCHANGED <<known, now>>

(* The issue of a mark is put on record; its pair has an entry already. *)
Record ==
  \E m \in known' \cap Mark :
    /\ entry[PairOf(m)] # None
    /\ known' = known \cup {m}
    /\ UNCHANGED <<entry, now>>

Revoke(p) ==
  /\ entry' = [entry EXCEPT ![p] = "revoked"]
  /\ UNCHANGED <<known, now>>

Tick ==
  /\ now' = now + 1
  /\ UNCHANGED <<entry, known>>

Next ==
  \/ \E p \in Pair : Publish(p) \/ Revoke(p)
  \/ Record
  \/ Tick

Spec == Init /\ [][Next]_vars

(* The verdict on a mark. *)
Status(m) ==
  CASE m \notin known -> "not_found"
    [] m \in known /\ ExpOf(m) <= now -> "expired"
    [] m \in known /\ ExpOf(m) > now /\ entry[PairOf(m)] = None -> "error"
    [] m \in known /\ ExpOf(m) > now /\ entry[PairOf(m)] = "revoked" -> "revoked"
    [] m \in known /\ ExpOf(m) > now /\ entry[PairOf(m)] = "live" -> "active"

(* A status request about a mark on record always has an entry to read. *)
AlwaysAnswerable == \A m \in known : entry[PairOf(m)] # None
=============================================================================
