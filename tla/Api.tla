---------------------------------- MODULE Api ----------------------------------
(***************************************************************************)
(* The connections of one Capitalia instance (app/server.py, app/handlers  *)
(* .py), one thread each, and the token service they log in with           *)
(* (adapters/jwt_client.py, jwt_service/server.py): a server that serves   *)
(* one connection at a time without a timeout of its own, signs what it is *)
(* asked to, for Capitalia and for other consumers, and restarts.          *)
(***************************************************************************)
EXTENDS Pipeline, SequencesExt

CONSTANTS
    Conns,
    Requests,     \* [method, resource, user, body, bearer]: see ReadRequest
    Backlog,      \* connections the kernel accepts ahead of the token service
    NoConn,
    Start,        \* Capitalia's clock at the start, in ticks since 1970
    MaxNow        \* bound: the last tick of the run

ASSUME ApiAssumption ==
    /\ Backlog \in Nat \ {0}
    /\ Start \in Nat /\ Start + Ahead \in Nat /\ MaxNow \in Nat
    /\ NoConn \notin Conns

Bodies == {"none", "untyped", "malformed", "notObject", "missing", "wrong", "valid"}

ASSUME RequestsAssumption ==
    \A q \in Requests :
        /\ q \in [method : Methods, resource : Resources, user : Users, body : Bodies,
                  bearer : Holders \cup {NoToken, BadToken}]
        /\ q.resource = "login" => q.body # "none"

VARIABLES
    now,       \* ticks, on Capitalia's clock
    conn,      \* each connection of Capitalia
    up,        \* the token service runs
    backlog,   \* its connections: the one it serves, then those that wait
    held       \* the latest token each user or consumer has received

vars == <<now, conn, up, backlog, held>>

PCs == {"idle", "reading", "handling", "connecting", "waiting", "over"}
Replies == {"none", "200", "204", "400", "401", "403", "404", "405", "422",
            "500", "503", "handler"}

NoRequest == [method |-> "GET", resource |-> "other", user |-> NoUser,
              body |-> "none", bearer |-> NoToken]
NoConnection == [pc |-> "idle", q |-> NoRequest, reply |-> "none", signed |-> FALSE]

(* A call of the token service: from a connection of ours (NoConn once     *)
(* that connection is closed), from another consumer (the purchase         *)
(* requests service, or anyone who follows jwt_service/README.md), or from *)
(* a client that sends nothing more.                                       *)
Calls == [by : {"login", "consumer", "silent"}, to : Holders \cup {NoUser},
          conn : Conns \cup {NoConn}]
LoginCall(c) == [by |-> "login", to |-> conn[c].q.user, conn |-> c]
ConsumerCall(k) == [by |-> "consumer", to |-> k, conn |-> NoConn]
SilentCall == [by |-> "silent", to |-> NoUser, conn |-> NoConn]

Init ==
    /\ now = Start
    /\ conn = [c \in Conns |-> NoConnection]
    /\ up = TRUE
    /\ backlog = <<>>
    /\ held = [x \in Holders |-> NoToken]

-----------------------------------------------------------------------------
(* A connection up to its request.                                         *)

Go(c, pc) == conn' = [conn EXCEPT ![c] = [conn[c] EXCEPT !.pc = pc]]
Ended(reply) == [NoConnection EXCEPT !.pc = "over", !.reply = reply]
End(c, reply) == conn' = [conn EXCEPT ![c] = Ended(reply)]
ServiceUnchanged == UNCHANGED <<now, up, backlog, held>>

Connect(c) ==
    /\ conn[c].pc = "idle"
    /\ Go(c, "reading")
    /\ ServiceUnchanged

(* A request names as bearer nothing, a bad token, or the user or consumer *)
(* whose latest token it carries.                                          *)
Bearer(b) == IF b \in Holders THEN held[b] ELSE b

ReadRequest(c, q) ==
    /\ conn[c].pc = "reading"
    /\ conn' = [conn EXCEPT ![c] = [NoConnection EXCEPT
                    !.pc = "handling", !.q = [q EXCEPT !.bearer = Bearer(q.bearer)]]]
    /\ ServiceUnchanged

(* A bad request line or header, or 30 s without a byte: 400.  The client  *)
(* closes before the end of its headers: no answer.                        *)
ReadFails(c) ==
    /\ conn[c].pc = "reading"
    /\ End(c, "400") \/ End(c, "none")
    /\ ServiceUnchanged

-----------------------------------------------------------------------------
(* The chain of handlers.                                                  *)

Refuse(c) ==
    /\ conn[c].pc = "handling"
    /\ Refusal(conn[c].q, now) # "none"
    /\ End(c, Refusal(conn[c].q, now))
    /\ ServiceUnchanged

(* The route's handler runs; for a use case see SubscriptionUoW.           *)
RunHandler(c) ==
    /\ conn[c].pc = "handling"
    /\ conn[c].q.resource # "login"
    /\ Refusal(conn[c].q, now) = "none"
    /\ End(c, "handler")
    /\ ServiceUnchanged

(* handle_login calls issue_token, which opens a connection.               *)
AskToken(c) ==
    /\ conn[c].pc = "handling"
    /\ conn[c].q.resource = "login"
    /\ Refusal(conn[c].q, now) = "none"
    /\ Go(c, "connecting")
    /\ ServiceUnchanged

Room == up /\ Len(backlog) < Backlog

Accepted(c) ==
    /\ conn[c].pc = "connecting"
    /\ Room
    /\ Go(c, "waiting")
    /\ backlog' = Append(backlog, LoginCall(c))
    /\ UNCHANGED <<now, up, held>>

(* Refused, or not accepted in time: URLError, so TokenIssueError and 503. *)
ConnectFails(c) ==
    /\ conn[c].pc = "connecting"
    /\ ~Room
    /\ End(c, "503")
    /\ ServiceUnchanged

(* Variant: the timeout of an answer is reported as an unreachable service.*)
TimesOutUnavailable(c) ==
    /\ conn[c].pc = "waiting"
    /\ End(c, "503")
    /\ ServiceUnchanged

(* Variant: urlopen is called without a timeout, and nothing ends the wait *)
(* for a service that is not there to answer.                              *)
TimesOutWhenDown(c) ==
    /\ conn[c].pc = "waiting"
    /\ ~up
    /\ End(c, "500")
    /\ ServiceUnchanged

(* The answer does not come in time: the TimeoutError of getresponse() is  *)
(* no URLError and becomes a 500.  The call stays in the backlog.          *)
TimesOut(c) ==
    /\ conn[c].pc = "waiting"
    /\ End(c, "500")
    /\ ServiceUnchanged

Close(c) ==
    /\ conn[c].pc = "over"
    /\ conn' = [conn EXCEPT ![c] = NoConnection]
    /\ backlog' = [n \in DOMAIN backlog |->
                      IF backlog[n].conn = c THEN [backlog[n] EXCEPT !.conn = NoConn]
                      ELSE backlog[n]]
    /\ UNCHANGED <<now, up, held>>

-----------------------------------------------------------------------------
(* The token service.  do_POST of the first call, once its body is there.  *)
(* The token of a call whose client is gone is signed and lost.            *)
Hears(k) ==
    IF k.by = "login" THEN {k.conn # NoConn /\ conn[k.conn].pc = "waiting"} ELSE BOOLEAN

Issue ==
    /\ up
    /\ backlog # <<>>
    /\ Head(backlog).by # "silent"
    /\ LET k == Head(backlog)
       IN  \E heard \in Hears(k) :
               /\ held' = IF heard THEN [held EXCEPT ![k.to] = Signed(k.to, now)] ELSE held
               /\ conn' = [c \in Conns |->
                              IF c # k.conn THEN conn[c]
                              ELSE IF heard THEN [Ended("200") EXCEPT !.signed = TRUE]
                              ELSE [conn[c] EXCEPT !.signed = TRUE]]
    /\ backlog' = Tail(backlog)
    /\ UNCHANGED <<now, up>>

OtherCalls ==
    /\ Room
    /\ \E k \in {ConsumerCall(x) : x \in Consumers} \cup {SilentCall} :
           backlog' = Append(backlog, k)
    /\ UNCHANGED <<now, conn, up, held>>

(* The silent client being served closes, which ends the read of its body. *)
SilentLeaves ==
    /\ backlog # <<>>
    /\ Head(backlog).by = "silent"
    /\ backlog' = Tail(backlog)
    /\ UNCHANGED <<now, conn, up, held>>

(* Variant: only the listening socket is closed.                           *)
ServiceStopsListening ==
    /\ up
    /\ up' = FALSE
    /\ backlog' = <<>>
    /\ UNCHANGED <<now, conn, held>>

(* The token service stops: its connections are reset, and the reset is no *)
(* URLError either.                                                        *)
ServiceStops ==
    /\ up
    /\ up' = FALSE
    /\ backlog' = <<>>
    /\ conn' = [c \in Conns |->
                   IF conn[c].pc = "waiting"
                   THEN Ended("500")
                   ELSE conn[c]]
    /\ UNCHANGED <<now, held>>

ServiceStarts ==
    /\ ~up
    /\ up' = TRUE
    /\ UNCHANGED <<now, conn, backlog, held>>

Tick ==
    /\ now < MaxNow
    /\ now' = now + 1
    /\ UNCHANGED <<conn, up, backlog, held>>

Work(c) ==
    \/ ReadFails(c) \/ Refuse(c) \/ RunHandler(c) \/ AskToken(c)
    \/ Accepted(c) \/ ConnectFails(c) \/ TimesOut(c) \/ Close(c)

Next ==
    \/ \E c \in Conns : Connect(c) \/ (\E q \in Requests : ReadRequest(c, q)) \/ Work(c)
    \/ Issue \/ OtherCalls \/ SilentLeaves
    \/ ServiceStops \/ ServiceStarts
    \/ Tick

Spec == Init /\ [][Next]_vars

(* A thread goes on, every wait of it having a timeout: 30 s for a request *)
(* and 5 s for each step of the call.  Nothing is assumed of the token     *)
(* service and its other clients.                                          *)
FairSpec == Spec /\ \A c \in Conns : WF_vars(Work(c))

-----------------------------------------------------------------------------
(* Every variable keeps its type; who waits for a token has a call in the  *)
(* backlog, and only one.                                                  *)
TypeOK ==
    /\ now \in Nat
    /\ conn \in [Conns -> [pc : PCs, reply : Replies, signed : BOOLEAN,
                          q : [method : Methods, resource : Resources, user : Users \cup {NoUser},
                               body : Bodies, bearer : Tokens \cup {NoToken, BadToken}]]]
    /\ up \in BOOLEAN
    /\ backlog \in Seq(Calls)
    /\ held \in [Holders -> Tokens \cup {NoToken}]
    /\ Len(backlog) <= Backlog
    /\ \A c \in Conns : conn[c].pc = "waiting" =>
           \E n \in DOMAIN backlog : backlog[n].conn = c

Runs(c) == conn[c].pc = "handling" /\ conn'[c].reply = "handler"

(* A use case runs for a user only under a token that the token service    *)
(* has signed, and handed out, in answer to a call naming this user, and   *)
(* only for the time this call asked for: a login's or any other ttl, less *)
(* than one second more and the lead of the issuer's clock, or up to the   *)
(* exp that the claims name, 0 being never ("Bearer (`sub == id`)",        *)
(* README.md:117).  Nothing here says that the call was a login.           *)
ActsOnSignedToken ==
    [][\A c \in Conns : Runs(c) /\ conn[c].q.resource \in Protected =>
           LET t == conn[c].q.bearer
               ask == Asked(t.to)
           IN  /\ t \in Tokens
               /\ ask.sub = conn[c].q.user
               /\ held[t.to] \in Tokens
               /\ t.born <= held[t.to].born
               /\ IF ask.exp = NoExp
                  THEN now - t.born < (ask.ttl + 1) * PerSecond + Ahead
                  ELSE ask.exp = 0 \/ Seconds(now) <= ask.exp]_vars

(* No token is refused before the time its call asked for is over, at      *)
(* whatever fraction of a second it was signed: iat and exp are whole      *)
(* seconds.                                                                *)
TokenLastsTTL ==
    [][\A c \in Conns :
           LET q == conn[c].q
               ask == Asked(q.bearer.to)
           IN  /\ conn[c].pc = "handling"
               /\ q.resource \in Protected
               /\ q.bearer \in Tokens
               /\ ask.sub = q.user
               /\ IF ask.exp = NoExp THEN now - q.bearer.born <= ask.ttl * PerSecond + Ahead
                  ELSE ask.exp = 0 \/ Seconds(now) <= ask.exp
               => conn'[c].reply \notin {"401", "403"}]_vars

(* OPTIONS "responde preflight com Allow" (README.md:124): of a path that  *)
(* exists, the methods named there and in the Allow header of a 405 are    *)
(* those the routing lets through, HEAD included.  (Of any other path      *)
(* OPTIONS names GET and POST, although the routing answers 404.)          *)
AllowIsTrue ==
    \A c \in Conns :
        LET q == conn[c].q
        IN  conn[c].pc = "handling" /\ q.resource # "other" =>
                Allowed(q.resource) =
                    {m \in Methods : RoutingRefusal([q EXCEPT !.method = m]) = "none"}

(* A login answered 503 (TokenIssueError, "cannot issue a token",          *)
(* jwt_client.py:11) has not had a token signed and never will: only a     *)
(* login that ended with 500 can have left one behind.                     *)
UnavailableMeansUnsigned == \A c \in Conns : conn[c].reply = "503" => ~conn[c].signed

(* A login ends although the token service is stalled by a silent client   *)
(* for ever, or keeps stopping: its unit of work, which is open meanwhile, *)
(* is not held for good (the fairness SubscriptionUoW assumes).            *)
LoginsEnd == \A c \in Conns : conn[c].pc = "connecting" ~> conn[c].pc = "idle"
=============================================================================
