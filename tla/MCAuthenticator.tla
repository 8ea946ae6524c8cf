-------------------------- MODULE MCAuthenticator --------------------------
(* Instances of Authenticator for TLC. *)
EXTENDS Authenticator, TLC

CONSTANTS r1, r2, r3, a1, a2

(* Two names at one address, one of them in its grace period, and one at the *)
(* next.                                                                     *)
Named == (0 :> <<"home.id", "late.id">>) @@ (1 :> <<"next.id">>) @@ (2 :> <<>>) @@ (3 :> <<>>)
         @@ (4 :> <<>>)
Zones == ("home.id" :> "hosted") @@ ("late.id" :> "expired") @@ ("next.id" :> "hosted")

(* The first profile has an entry of one application, the second of both.     *)
With(one, other, api) ==
    [own |-> TRUE, apps |-> [a \in Apps |-> IF a = a1 THEN one ELSE other], api |-> api]
SomeBuckets == {[i \in Indices |-> CASE i = 0 -> With("moved", "none", "missing")
                                      [] i = 1 -> With("own", "foreign", "set")
                                      [] OTHER -> NoProfile]}

\* The first identity signs in to the second application from an old page.
Opened == {[id |-> [name |-> "home.id", index |-> 0, url |-> 0], app |-> a2, write |-> TRUE,
            nonce |-> 0]}

(* One request of any kind, a sign-in, and one that overlaps them.           *)
Roles == [r \in Requests |-> CASE r = r1 -> {"auth", "signin", "sethub"}
                               [] r = r2 -> {"signin"}
                               [] OTHER -> {"auth", "sethub"}]
=============================================================================
