-------------------------------- MODULE MCApi --------------------------------
(***************************************************************************)
(* An instance of Api for TLC: user 1 has an account, paths may name user  *)
(* 2; two ticks make a second, and a login's token lasts one second.       *)
(***************************************************************************)
EXTENDS Api

CONSTANT probe      \* a consumer

MCAhead == -1     \* the token service's clock is a tick behind

(* It asks for a token that names user 1 and never expires.                *)
MCAsks == [k \in {probe} |-> [sub |-> 1, ttl |-> 1, exp |-> 0]]

Request(method, resource, user, bearer, body) ==
    [method |-> method, resource |-> resource, user |-> user,
     bearer |-> bearer, body |-> body]

MCLogins == {Request("POST", "login", 1, NoToken, b) : b \in {"valid", "wrong"}}

MCUseCases == {Request(m, "status", 1, 1, "none") : m \in {"GET", "HEAD"}}
              \cup {Request("GET", "status", 1, probe, "none"),
                    Request("GET", "status", 2, 1, "none"),
                    Request("POST", "upgrade", 1, BadToken, "none")}

MCOthers == {Request("OPTIONS", "upgrade", 1, NoToken, "none"),
             Request("POST", "status", 1, NoToken, "none"),
             Request("POST", "other", 1, NoToken, "none")}

MCRequests == MCLogins \cup MCUseCases \cup MCOthers
=============================================================================
