---------------------------- MODULE MCCollection ----------------------------
(***************************************************************************)
(* Small instances of Collection for TLC: a few federations of at most     *)
(* four entities, and the filters asked for.                               *)
(***************************************************************************)
EXTENDS Collection, TLC

CONSTANTS ta, ia, rp, op, w1, w2

Types == <<"openid_provider", "openid_relying_party", "federation_entity">>

Node(types, list) == [metadata |-> types, hints |-> {ta}, list |-> list]
Authority(list) == Node({"federation_entity"}, list)

(* The anchor and an intermediate list each other: a loop. *)
Loop == (ta :> Authority(<<ia, rp>>)) @@ (ia :> Authority(<<ta, rp>>))
        @@ (rp :> Node({"openid_relying_party"}, <<>>)) @@ (op :> None)

(* The relying party has become a provider, the intermediate is away. *)
Turned == (ta :> Authority(<<ia, rp>>)) @@ (ia :> None)
          @@ (rp :> Node({"openid_provider"}, <<ta>>)) @@ (op :> None)

(* A chain of four entities, as deep as the bound allows and one more. *)
Chain == (ta :> Authority(<<ia>>)) @@ (ia :> Authority(<<rp>>))
         @@ (rp :> Authority(<<op>>)) @@ (op :> Authority(<<>>))

(* Only an intermediate without metadata is listed. *)
Bare == (ta :> Authority(<<ia>>))
        @@ (ia :> [metadata |-> None, hints |-> {ta}, list |-> <<rp>>])
        @@ (rp :> None) @@ (op :> None)

(* The anchor itself cannot be reached. *)
Gone == [e \in Entity |-> None]

AllFederations  == {Loop, Turned, Chain, Bare, Gone}
TwoFederations  == {Loop, Turned}
OneFederation   == {Loop}
AllFilters == {<<>>, <<"openid_provider", "openid_relying_party">>}

Symmetry == Permutations(Walker)
=============================================================================
