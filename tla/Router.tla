-------------------------------- MODULE Router --------------------------------
(***************************************************************************)
(* router/router.py: the discovery thread that probes the candidate ports  *)
(* and publishes the healthy ones, the handler threads that proxy one      *)
(* request each, trying backends in turn, and around them the backends     *)
(* that come and go and the clients that may leave.  One pool: the default *)
(* and the csharp pool run the same code on lists of their own.            *)
(***************************************************************************)
EXTENDS BackendPool

CONSTANTS
    Candidates,   \* the candidate ports, in order
    Handlers,     \* handler threads, each serving one request at a time
    NoPort,
    Bodies,       \* {TRUE, FALSE}: may a request carry a body?
    RunAs         \* "module" or "script", how router.py is started

Ports == ToSet(Candidates)

ASSUME CandidatesAssumption == Candidates \in Seq(Ports) /\ IsInjective(Candidates)
ASSUME NoPortAssumption == NoPort \notin Ports
ASSUME BodiesAssumption == Bodies \subseteq BOOLEAN /\ RunAs \in {"module", "script"}

VARIABLES
    up,        \* backends that accept connections and answer
    pool,      \* the BackendPool
    probe,     \* the refresh in progress: next candidate, ports found
    serving,   \* start_discovery_loop's first refresh is over
    req        \* the request of each handler thread

vars == <<up, pool, probe, serving, req>>

PCs == {"none", "routing", "picking", "reading", "sending", "relaying",
        "relayingError", "failed", "unavailable", "over"}

(* body: the request has a Content-Length above 0; unread: it is still in  *)
(* the socket; ran: the backends that executed the request, in order.      *)
Requests == [pc : PCs, body : BOOLEAN, unread : BOOLEAN,
             client : {"waiting", "gone"}, port : Ports \cup {NoPort},
             tried : SUBSET Ports, ran : Seq(Ports),
             reply : {"none", "relayed", "503", "dropped"}]

NoRequest == [pc |-> "none", body |-> FALSE, unread |-> FALSE, client |-> "waiting",
              port |-> NoPort, tried |-> {}, ran |-> <<>>, reply |-> "none"]

StartProbing == [next |-> 1, found |-> <<>>]

Init ==
    /\ up \in SUBSET Ports
    /\ pool = EmptyPool
    /\ probe = StartProbing
    /\ serving = FALSE
    /\ req = [h \in Handlers |-> NoRequest]

-----------------------------------------------------------------------------
(* Discovery.  refresh() probes one port after the other with no lock held *)
(* and then publishes what it found.                                       *)

Probe ==
    /\ probe.next <= Len(Candidates)
    /\ LET p == Candidates[probe.next]
       IN  probe' = [next |-> probe.next + 1,
                     found |-> IF p \in up THEN Append(probe.found, p) ELSE probe.found]
    /\ UNCHANGED <<up, pool, serving, req>>

(* Variant: the ports found are added to those already listed.             *)
PublishAdding ==
    /\ probe.next > Len(Candidates)
    /\ pool' = Published(pool, SelectSeq(Candidates, LAMBDA p :
                                   p \in Listed(pool) \/ p \in ToSet(probe.found)))
    /\ probe' = StartProbing
    /\ serving' = TRUE
    /\ UNCHANGED <<up, req>>

(* Variant: a refresh only drops ports, it never adds one back.            *)
PublishDropping ==
    /\ probe.next > Len(Candidates)
    /\ pool' = Published(pool, IF serving
                               THEN SelectSeq(probe.found, LAMBDA p : p \in Listed(pool))
                               ELSE probe.found)
    /\ probe' = StartProbing
    /\ serving' = TRUE
    /\ UNCHANGED <<up, req>>

Publish ==
    /\ probe.next > Len(Candidates)
    /\ pool' = Published(pool, probe.found)
    /\ probe' = StartProbing
    /\ serving' = TRUE
    /\ UNCHANGED <<up, req>>

-----------------------------------------------------------------------------
(* A handler thread.  Go(h, pc) moves its request on.                      *)

Go(h, pc) == req' = [req EXCEPT ![h] = [req[h] EXCEPT !.pc = pc]]
End(h, reply) == req' = [req EXCEPT ![h] = [req[h] EXCEPT !.pc = "over", !.reply = reply]]

Arrive(h, body) ==
    /\ serving
    /\ req[h].pc = "none"
    /\ req' = [req EXCEPT ![h] = [NoRequest EXCEPT !.pc = "routing",
                                      !.body = body, !.unread = body]]
    /\ UNCHANGED <<up, pool, probe, serving>>

(* proxy() first calls choose_route.  Run as a script, serve_forever is    *)
(* called above the definition of choose_route: the name does not exist,   *)
(* the handler raises and the connection is closed.                        *)
Route(h) ==
    /\ req[h].pc = "routing"
    /\ IF RunAs = "module" THEN Go(h, "picking") ELSE End(h, "dropped")
    /\ UNCHANGED <<up, pool, probe, serving>>

Try(h, p) ==
    req' = [req EXCEPT ![h] =
                [req[h] EXCEPT !.port = p, !.tried = @ \cup {p},
                               !.pc = IF req[h].body THEN "reading" ELSE "sending"]]

(* Variant: a port is tried again as often as the pool offers it.          *)
PickAgain(h) ==
    /\ req[h].pc = "picking"
    /\ IF pool.healthy = <<>>
       THEN Go(h, "unavailable") /\ pool' = pool
       ELSE /\ pool' = Advanced(pool)
            /\ Try(h, Upcoming(pool))
    /\ UNCHANGED <<up, probe, serving>>

(* next_backend(), and the end of the loop when it has nothing new.        *)
Pick(h) ==
    /\ req[h].pc = "picking"
    /\ IF pool.healthy = <<>>
       THEN Go(h, "unavailable") /\ pool' = pool
       ELSE /\ pool' = Advanced(pool)
            /\ IF Upcoming(pool) \in req[h].tried
               THEN Go(h, "unavailable")
               ELSE Try(h, Upcoming(pool))
    /\ UNCHANGED <<up, probe, serving>>

(* self.rfile.read(length), once per attempt: the first empties the        *)
(* socket, a second one waits until the client closes its side.            *)
ReadBody(h) ==
    /\ req[h].pc = "reading"
    /\ req[h].unread \/ req[h].client = "gone"
    /\ req' = [req EXCEPT ![h] = [req[h] EXCEPT !.pc = "sending", !.unread = FALSE]]
    /\ UNCHANGED <<up, pool, probe, serving>>

(* The connection is reset under that read: it is outside the try of       *)
(* _forward_request, so the handler ends.                                  *)
ReadFails(h) ==
    /\ req[h].pc = "reading"
    /\ req[h].client = "gone"
    /\ End(h, "dropped")
    /\ UNCHANGED <<up, pool, probe, serving>>

(* urlopen: a port that is down refuses; a backend that is up executes the *)
(* request and answers 2xx, which resp.read() has read to its end, or      *)
(* sends the head of an answer with an error status; or an answer takes    *)
(* longer than BACKEND_TIMEOUT, or is cut off.                             *)
Refused(h) ==
    /\ req[h].pc = "sending"
    /\ req[h].port \notin up
    /\ Go(h, "failed")
    /\ UNCHANGED <<up, pool, probe, serving>>

(* Variant: only URLError is caught, which the TimeoutError of an answer   *)
(* that stops halfway is not.                                              *)
ExecutedUncaught(h, outcome) ==
    /\ req[h].pc = "sending"
    /\ req[h].port \in up
    /\ outcome \in {"relaying", "relayingError", "failed"}
    /\ req' = [req EXCEPT ![h] =
                    [req[h] EXCEPT !.pc = IF outcome = "failed" THEN "over" ELSE outcome,
                                   !.ran = Append(@, req[h].port),
                                   !.reply = IF outcome = "failed" THEN "dropped" ELSE @]]
    /\ UNCHANGED <<up, pool, probe, serving>>

Executed(h, outcome) ==
    /\ req[h].pc = "sending"
    /\ req[h].port \in up
    /\ outcome \in {"relaying", "relayingError", "failed"}
    /\ req' = [req EXCEPT ![h] =
                    [req[h] EXCEPT !.pc = outcome, !.ran = Append(@, req[h].port)]]
    /\ UNCHANGED <<up, pool, probe, serving>>

(* err.read(): the body of an error answer is read in the HTTPError        *)
(* branch.  The backend dies or stalls after the head: that raises, the    *)
(* except Exception beside the branch does not catch it and the handler    *)
(* ends, whether its client waits or not.                                  *)
ErrorBodyLost(h) ==
    /\ req[h].pc = "relayingError"
    /\ End(h, "dropped")
    /\ UNCHANGED <<up, pool, probe, serving>>

(* Variant: an error answer counts as a failure of the backend, and the    *)
(* next one is tried.                                                      *)
RelayNoErrors(h) ==
    /\ req[h].pc \in {"relaying", "relayingError"}
    /\ IF req[h].pc = "relaying" THEN End(h, "relayed") ELSE Go(h, "failed")
    /\ UNCHANGED <<up, pool, probe, serving>>

(* _relay_response.  Writing to a client that is gone may raise: inside    *)
(* the try of a 2xx answer that counts as a failure of the backend, in the *)
(* HTTPError branch it ends the handler.                                   *)
Relay(h) ==
    /\ req[h].pc \in {"relaying", "relayingError"}
    /\ End(h, "relayed")
    /\ UNCHANGED <<up, pool, probe, serving>>

RelayFails(h) ==
    /\ req[h].pc \in {"relaying", "relayingError"}
    /\ req[h].client = "gone"
    /\ IF req[h].pc = "relaying" THEN Go(h, "failed") ELSE End(h, "dropped")
    /\ UNCHANGED <<up, pool, probe, serving>>

(* Variant: the port that failed stays on the list.                        *)
MarkNothing(h) ==
    /\ req[h].pc = "failed"
    /\ Go(h, "picking")
    /\ UNCHANGED <<up, pool, probe, serving>>

Mark(h) ==
    /\ req[h].pc = "failed"
    /\ pool' = MarkedUnhealthy(pool, req[h].port)
    /\ Go(h, "picking")
    /\ UNCHANGED <<up, probe, serving>>

(* _respond_unavailable.                                                   *)
RespondUnavailable(h) ==
    /\ req[h].pc = "unavailable"
    /\ \/ End(h, "503")
       \/ req[h].client = "gone" /\ End(h, "dropped")
    /\ UNCHANGED <<up, pool, probe, serving>>

Finish(h) ==
    /\ req[h].pc = "over"
    /\ req' = [req EXCEPT ![h] = NoRequest]
    /\ UNCHANGED <<up, pool, probe, serving>>

-----------------------------------------------------------------------------
(* The environment.                                                        *)

ClientLeaves(h) ==
    /\ req[h].pc \notin {"none", "over"}
    /\ req[h].client = "waiting"
    /\ req' = [req EXCEPT ![h] = [req[h] EXCEPT !.client = "gone"]]
    /\ UNCHANGED <<up, pool, probe, serving>>

BackendStops(p) ==
    /\ p \in up
    /\ up' = up \ {p}
    /\ UNCHANGED <<pool, probe, serving, req>>

BackendStarts(p) ==
    /\ p \notin up
    /\ up' = up \cup {p}
    /\ UNCHANGED <<pool, probe, serving, req>>

Discovery == Probe \/ Publish

Serve(h) ==
    \/ Route(h) \/ Pick(h) \/ ReadBody(h) \/ ReadFails(h) \/ Refused(h)
    \/ \E outcome \in {"relaying", "relayingError", "failed"} : Executed(h, outcome)
    \/ ErrorBodyLost(h) \/ Relay(h) \/ RelayFails(h)
    \/ Mark(h) \/ RespondUnavailable(h) \/ Finish(h)

Next ==
    \/ Discovery
    \/ \E h \in Handlers :
           \/ \E body \in Bodies : Arrive(h, body)
           \/ Serve(h)
           \/ ClientLeaves(h)
    \/ \E p \in Ports : BackendStops(p) \/ BackendStarts(p)

Spec == Init /\ [][Next]_vars

(* The discovery loop runs for ever and every handler thread runs on; what *)
(* backends and clients do is their own choice.                            *)
FairSpec == Spec /\ WF_vars(Discovery) /\ \A h \in Handlers : WF_vars(Serve(h))

-----------------------------------------------------------------------------
(* Every variable keeps its type: in particular only candidate ports are   *)
(* ever listed, whatever discovery and handlers interleave.                *)
TypeOK ==
    /\ up \subseteq Ports
    /\ pool \in [healthy : Seq(Ports), cursor : Nat]
    /\ probe \in [next : 1..(Len(Candidates) + 1), found : Seq(Ports)]
    /\ serving \in BOOLEAN
    /\ req \in [Handlers -> Requests]

(* However next_backend, mark_unhealthy and the publication of a refresh   *)
(* interleave, the cursor stays on a listed port and no port is listed     *)
(* twice.                                                                  *)
PoolOK == CursorInRange(pool) /\ NoPortTwice(pool)

(* A request is executed at most once by each backend, although a refresh  *)
(* may list again a port it has just failed on.                            *)
OncePerBackend ==
    \A h \in Handlers : IsInjective(req[h].ran) /\ ToSet(req[h].ran) \subseteq req[h].tried

(* "Publica a API unificada na porta ROUTER_PORT" (README.md:164): a       *)
(* request whose client is there is never dropped without an answer.       *)
NoSilentDrop ==
    \A h \in Handlers : req[h].reply = "dropped" => req[h].client = "gone"

(* What the router keeps of that: a request whose client is there is       *)
(* dropped only when the body of an error answer is lost.  An answer of    *)
(* another status that stops halfway, a backend that refuses, a list that  *)
(* runs empty never cost the client its answer.                            *)
DropsOnlyErrors ==
    [][\A h \in Handlers :
           req[h].reply = "none" /\ req'[h].reply = "dropped" =>
               req[h].client = "gone" \/ req[h].pc = "relayingError"]_vars

(* mark_unhealthy does not disturb the round robin: the port whose turn it *)
(* is keeps its turn when another one is removed, wherever in the list.    *)
TurnKept ==
    [][\A h \in Handlers :
           req[h].pc = "failed" /\ req'[h].pc = "picking"
           /\ pool.healthy # <<>> /\ Upcoming(pool) # req[h].port =>
               pool'.healthy # <<>> /\ Upcoming(pool') = Upcoming(pool)]_vars

(* The 503 of the router says "no backend available" (router.py:263): when *)
(* it gives up on a request, it has tried every backend it lists.          *)
UnavailableMeansAllTried ==
    [][\A h \in Handlers :
           req[h].pc = "picking" /\ req'[h].pc = "unavailable" =>
               Listed(pool) \subseteq req[h].tried]_vars

(* What a client and the backends see of a request: not the list, not the  *)
(* ports that refused, not how often the loop went round.                  *)
StageOf(pc) ==
    CASE pc = "none" -> "idle"
      [] pc = "relaying" -> "served"
      [] pc = "relayingError" -> "erred"
      [] pc = "over" -> "over"
      [] OTHER -> "open"

Seen(q) == [stage |-> StageOf(q.pc), client |-> q.client, ran |-> ToSet(q.ran), reply |-> q.reply]

Promise == INSTANCE AtomicProxy
               WITH Backends <- Ports, asked <- [h \in Handlers |-> Seen(req[h])]

(* The retries, the refreshes and the evictions are invisible from outside *)
(* the router: it keeps the promise of AtomicProxy.                        *)
ImplementsPromise == Promise!Spec

(* Waiting for a body that the first attempt has already read.             *)
WaitsForBody(h) ==
    req[h].pc = "reading" /\ ~req[h].unread /\ req[h].client = "waiting"

(* Every request ends, unless it is retried with a body the first attempt  *)
(* consumed and its client keeps waiting: backends that fail and refreshes *)
(* that list them again cannot keep a handler in its loop.                 *)
RequestsEnd ==
    \A h \in Handlers :
        req[h].pc = "routing" ~> (req[h].pc = "none" \/ WaitsForBody(h))

(* A backend that stays up is listed again and again: no eviction (a slow  *)
(* answer, a client that left) hides it for good.                          *)
LiveListed ==
    \A p \in Ports : <>[](p \in up) => []<>(p \in Listed(pool))

(* A backend that stays down is at last off the list for good, although a  *)
(* stale refresh may bring it back after a handler has removed it.         *)
DeadForgotten ==
    \A p \in Ports : <>[](p \notin up) => <>[](p \notin Listed(pool))
=============================================================================
