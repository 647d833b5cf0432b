------------------------ MODULE MCTrustMarkVerifier ------------------------
(***************************************************************************)
(* Small instances of TrustMarkVerifier for TLC.  In each federation the   *)
(* subject carries a few marks, and one thing is made interesting.         *)
(***************************************************************************)
EXTENDS TrustMarkVerifier, TLC

CONSTANTS q1, q2, ta, x, y, o, s, A, B, k1, k2, kta

JWT(t, iss, kid) ==
  [type |-> t, sub |-> s, iss |-> iss, kid |-> kid, delegation |-> None]
By(owner, to) == [by |-> owner, to |-> to, type |-> B]

Own   == JWT(A, ta, kta)                           \* of the anchor
X1    == JWT(A, x, k1)
X2    == JWT(A, x, k2)
Y     == [JWT(B, y, k1) EXCEPT !.delegation = By(o, y)]
YSelf == [JWT(B, y, k1) EXCEPT !.delegation = By(y, y)]
Alien == [JWT(A, x, k1) EXCEPT !.sub = None]       \* another entity's

Marks  == {Own, X1, X2, Y, YSelf, Alien}
Lapsing == {Own, Y, YSelf}

List(marks) == [k \in DOMAIN marks |-> [type |-> marks[k].type, mark |-> marks[k]]]

Keep(keys, signer, hold) == [keys |-> keys, signer |-> signer, hold |-> hold]
Fixed    == <<Keep({k1}, k1, 0)>>
Sudden   == <<Keep({k1}, k1, 0), Keep({k2}, k2, 0)>>
Prepared == <<Keep({k1}, k1, 0), Keep({k1, k2}, k1, TTL + BUDGET),
              Keep({k1, k2}, k2, BUDGET + 1), Keep({k2}, k2, 0)>>

Offers(stages, offers) == [stages |-> stages, offers |-> offers, endpoint |-> TRUE]
Inline == Offers(Fixed, {"inline"})

(* x is listed for A; B is o's, whoever is listed for it. *)
Fed(requests, carried, siteX, siteY) ==
  [requests |-> requests, carried |-> carried,
   site |-> (x :> siteX) @@ (y :> siteY) @@ (o :> [Inline EXCEPT !.endpoint = FALSE]),
   issuers |-> A :> {x}, owners |-> B :> o]

(* One request, marks of several issuers. *)
Mixed ==
  {Fed({q1}, List(<<Own, Y>>), Inline, Inline),
   Fed({q1}, List(<<Y, Own>>), Inline, Offers(Fixed, {"signed", "uri"}))}
    \cup {Fed({q1}, List(<<X1, Own>>), Offers(r, {"inline"}), Inline) : r \in {Fixed, Sudden}}
    \cup {Fed({q1}, List(<<X1, Y>>), Offers(Fixed, of), Inline) : of \in {{"signed"}, {}}}

(* Marks that are not to be passed on, or only with other settings. *)
Odd ==
  LET f == Fed({q1}, List(<<YSelf, Alien>>), Inline, Inline)
  IN  {f, [f EXCEPT !.carried = <<[type |-> B, mark |-> X1], [type |-> A, mark |-> Invalid]>>],
       [f EXCEPT !.carried = List(<<X1, Y, Own>>)],
       [f EXCEPT !.owners = Invalid, !.carried = List(<<Own>>)],
       [f EXCEPT !.owners = <<>>, !.issuers = (A :> {}) @@ (B :> {y})],
       [f EXCEPT !.site[y].endpoint = FALSE]}

(* Two requests and a rollover behind a jwks_uri. *)
Shared ==
  LET two(m, stages, offers) == Fed({q1, q2}, List(<<m>>), Offers(stages, offers), Inline)
  IN  {two(X1, Sudden, {"uri"}), two(X2, Prepared, {"uri"}),
       two(X1, Prepared, {"signed", "uri"})}

AllFederations == Mixed \cup Odd \cup Shared

(* The issuers of these federations are as FailureIsContained needs them. *)
ASSUME PrudentAssumption ==
  \A f \in AllFederations : \A i \in Issuer : Prudent(f.site[i].stages)
=============================================================================
