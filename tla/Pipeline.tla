------------------------------- MODULE Pipeline -------------------------------
(***************************************************************************)
(* What Capitalia's chain of handlers (app/handlers.py) decides about one  *)
(* request before a use case runs, and the tokens it checks                *)
(* (jwt_service/tokens.py).  Pure: Api runs it against the token service.  *)
(*                                                                         *)
(* A path is the route it matches and the user it names; all paths that    *)
(* match no route are the resource "other".  Time is counted in ticks, so  *)
(* that several moments fall into a second.                                *)
(***************************************************************************)
EXTENDS Integers

CONSTANTS
    PerSecond,    \* ticks of a second
    TTL,          \* seconds a login asks for: 3600
    Ahead,        \* ticks by which the token service's clock is ahead
    Users,        \* user ids
    Consumers,    \* other programs that call the token service
    Asks,         \* what each of them asks for: [sub, ttl, exp], see Asked
    NoUser,       \* a sub that is no user
    NoExp,        \* the claims name no exp
    NoToken, BadToken    \* no bearer token; one with a bad format or signature

ASSUME TimeAssumption == PerSecond \in Nat \ {0} /\ TTL \in Nat \ {0} /\ Ahead \in Int

Claims == [sub : Users \cup {NoUser}, ttl : Nat \ {0}, exp : Int \cup {NoExp}]

ASSUME ClaimsAssumption ==
    /\ Asks \in [Consumers -> Claims]
    /\ NoExp \notin Int
    /\ NoUser \notin Users

Routes == [health |-> {"GET"}, login |-> {"POST"}, status |-> {"GET"},
           upgrade |-> {"POST"}, downgrade |-> {"POST"},
           suspend |-> {"POST"}, reactivate |-> {"POST"}]

Methods == {"GET", "HEAD", "POST", "PUT", "OPTIONS"}   \* PUT: any other method
Resources == DOMAIN Routes \cup {"other"}
Protected == DOMAIN Routes \ {"health", "login"}

-----------------------------------------------------------------------------
(* Tokens.  A holder has received one: a user from a login, or another     *)
(* consumer of the service, which signs any claims it is asked to, with    *)
(* the exp they name or the ttl the call names.  exp is in seconds of the  *)
(* issuer's clock; to and born are histories: who received the token, and  *)
(* the moment of signing on Capitalia's clock.                             *)

Holders == Users \cup Consumers

Asked(x) == IF x \in Users THEN [sub |-> x, ttl |-> TTL, exp |-> NoExp] ELSE Asks[x]

Tokens == [to : Holders, sub : Users \cup {NoUser}, exp : Int, born : Int]

ASSUME TokenAssumption == NoToken \notin Tokens /\ BadToken \notin Tokens

Seconds(t) == t \div PerSecond      \* int(time.time())

Exp(claims, t) == IF claims.exp = NoExp THEN Seconds(t) + claims.ttl ELSE claims.exp

Signed(x, now) ==
    [to |-> x, sub |-> Asked(x).sub, exp |-> Exp(Asked(x), now + Ahead), born |-> now]

ExpiredEarly(t, now) == t.exp # 0 /\ Seconds(now) >= t.exp      \* variant: >= for >

Expired(t, now) == t.exp # 0 /\ Seconds(now) > t.exp

Verified(t, now) == t \in Tokens /\ ~Expired(t, now)

-----------------------------------------------------------------------------
(* The chain.  A refusal is the status a request ends with before its      *)
(* route's handler; "none" lets it pass.                                   *)

AllowedAsListed(resource) == Routes[resource]      \* variant: HEAD is forgotten

(* _allowed_methods, and the Allow header of a 405.                        *)
Allowed(resource) ==
    Routes[resource] \cup (IF "GET" \in Routes[resource] THEN {"HEAD"} ELSE {})

Matches(q) ==
    \/ q.method \in Routes[q.resource]
    \/ q.method = "HEAD" /\ "GET" \in Routes[q.resource]

RoutingRefusal(q) ==
    IF q.method = "OPTIONS" THEN "204"
    ELSE IF q.resource = "other" THEN "404"
    ELSE IF ~Matches(q) THEN "405"
    ELSE "none"

SameUser(q) == q.bearer.sub = q.user      \* ensure_same_user

(* Variant: HEAD is turned into GET before the bearer token is looked at   *)
(* and reaches the handler without it.                                     *)
AuthRefusalButHead(q, now) ==
    IF q.resource \notin Protected \/ q.method = "HEAD" THEN "none"
    ELSE IF ~Verified(q.bearer, now) THEN "401"
    ELSE IF ~SameUser(q) THEN "403"
    ELSE "none"

AuthRefusal(q, now) ==
    IF q.resource \notin Protected THEN "none"
    ELSE IF ~Verified(q.bearer, now) THEN "401"
    ELSE IF ~SameUser(q) THEN "403"
    ELSE "none"

(* handle_login up to its call of the token service, by what the body is:  *)
(* another content type, no JSON, JSON but no object (body.get raises), no *)
(* e-mail or password, an unknown pair.                                    *)
LoginRefusal(body) ==
    CASE body = "untyped" -> "400"
      [] body = "malformed" -> "422"
      [] body = "notObject" -> "500"
      [] body = "missing" -> "422"
      [] body = "wrong" -> "401"
      [] OTHER -> "none"

Refusal(q, now) ==
    IF RoutingRefusal(q) # "none" THEN RoutingRefusal(q)
    ELSE IF q.resource = "login" THEN LoginRefusal(q.body)
    ELSE AuthRefusal(q, now)
=============================================================================
