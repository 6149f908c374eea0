------------------------- MODULE RouterHistory_proofs -------------------------
(***************************************************************************)
(* Proofs about RouterHistory: for any ports and any number of handlers, a *)
(* request that no refresh overtook is refused only when no backend is     *)
(* listed.                                                                 *)
(***************************************************************************)
EXTENDS RouterHistory, Router_proofs

(* The ports a request has tried and that are listed: none, but the one it *)
(* is trying now.                                                          *)
Trying == {"reading", "sending", "relaying", "relayingError", "failed"}
Looping == {"routing", "picking"} \cup Trying

TriedGone(q) ==
    q.tried \cap Listed(pool) \subseteq (IF q.pc \in Trying THEN {q.port} ELSE {})

UnrefreshedOK ==
    \A h \in Handlers : req[h].pc \in Looping /\ ~refreshed[h] => TriedGone(req[h])

(* Removing a port lists no other.                                         *)
LEMMA MarkedLess ==
    ASSUME NEW pl \in PoolType, NEW port
    PROVE  Listed(MarkedUnhealthy(pl, port)) \subseteq Listed(pl)
<1>1. CASE port \notin Listed(pl)
  BY <1>1 DEF MarkedUnhealthy
<1>2. CASE port \in Listed(pl)
  <2> DEFINE s == pl.healthy
             idx == IndexOf(pl, port)
             rest == RemoveAt(s, idx + 1)
  <2>1. s \in Seq(Ports) /\ Len(s) \in Nat
    BY DEF PoolType
  <2>2. \E i \in 1..Len(s) : s[i] = port
    BY <1>2, <2>1 DEF Listed, ToSet
  <2>3. idx + 1 \in 1..Len(s)
    BY <2>2 DEF IndexOf
  <2>4. /\ rest \in Seq(Ports) /\ Len(rest) = Len(s) - 1
        /\ \A k \in 1..(Len(s) - 1) : rest[k] = IF k < idx + 1 THEN s[k] ELSE s[k + 1]
    BY <2>1, <2>3, RemoveAtShape
  <2>5. MarkedUnhealthy(pl, port).healthy = rest
    BY <1>2 DEF MarkedUnhealthy
  <2> HIDE DEF idx, rest
  <2>6. ToSet(rest) \subseteq ToSet(s)
    <3>1. ASSUME NEW k \in 1..(Len(s) - 1)
          PROVE  rest[k] \in ToSet(s)
      BY <2>1, <2>4 DEF ToSet
    <3>2. DOMAIN rest = 1..(Len(s) - 1)
      BY <2>4
    <3> QED
      BY <3>1, <3>2 DEF ToSet
  <2> QED
    BY <2>5, <2>6 DEF Listed
<1> QED
  BY <1>1, <1>2

(* A step of handler g that lists no new port, publishes nothing and       *)
(* leaves the request of g in order.                                       *)
LEMMA OtherRequests ==
    ASSUME RouterInv, UnrefreshedOK, ~Publish, HNext, NEW g \in Handlers, NEW q,
           req' = [req EXCEPT ![g] = q],
           Listed(pool') \subseteq Listed(pool),
           q.pc \in Looping /\ (req[g].pc # "none" => ~refreshed[g]) =>
               q.tried \cap Listed(pool') \subseteq (IF q.pc \in Trying THEN {q.port} ELSE {})
    PROVE  UnrefreshedOK'
<1>0. req \in [Handlers -> Requests]
  BY DEF RouterInv, TypeOK
<1>1. \A h \in Handlers : refreshed'[h] = (req'[h].pc # "none" /\ refreshed[h])
  BY DEF HNext
<1> SUFFICES ASSUME NEW h \in Handlers, req'[h].pc \in Looping, ~refreshed'[h]
             PROVE  TriedGone(req[h])'
  BY DEF UnrefreshedOK
<1>2. ~refreshed[h]
  BY <1>1 DEF Looping, Trying
<1>3. CASE h = g
  <2>1. req'[h] = q
    BY <1>0, <1>3
  <2> QED
    BY <1>2, <1>3, <2>1 DEF TriedGone
<1>4. CASE h # g
  <2>1. req'[h] = req[h]
    BY <1>0, <1>4
  <2>2. TriedGone(req[h])
    BY <1>2, <2>1 DEF UnrefreshedOK
  <2> QED
    BY <2>1, <2>2 DEF TriedGone
<1> QED
  BY <1>3, <1>4

(* A handler has tried no port that is still listed but the one it is at.  *)
LEMMA UnrefreshedStep == RouterInv /\ UnrefreshedOK /\ [HNext]_hvars => UnrefreshedOK'
<1> SUFFICES ASSUME RouterInv, UnrefreshedOK, [HNext]_hvars
             PROVE  UnrefreshedOK'
  OBVIOUS
<1>0. /\ req \in [Handlers -> Requests] /\ pool \in PoolType
      /\ CursorInRange(pool) /\ NoPortTwice(pool)
  BY DEF RouterInv, TypeOK, PoolOK, PoolType
<1>1. CASE UNCHANGED hvars
  BY <1>1 DEF hvars, vars, UnrefreshedOK, TriedGone
<1>2. CASE HNext /\ Publish
  <2>1. ASSUME NEW h \in Handlers, req'[h].pc \in Looping
        PROVE  refreshed'[h]
    BY <1>2, <2>1 DEF HNext, Looping, Trying
  <2> QED
    BY <2>1 DEF UnrefreshedOK
<1>3. ASSUME HNext, ~Publish, UNCHANGED <<pool, req>>
      PROVE  UnrefreshedOK'
  BY <1>3 DEF HNext, UnrefreshedOK, TriedGone, Looping, Trying
<1>4. ASSUME HNext, ~Publish, NEW g \in Handlers,
             Serve(g) \/ ClientLeaves(g) \/ \E body \in Bodies : Arrive(g, body)
      PROVE  UnrefreshedOK'
  <2>0. /\ req[g] \in Requests
        /\ req[g].pc \in Looping /\ ~refreshed[g] => TriedGone(req[g])
    BY <1>0 DEF UnrefreshedOK
  <2>1. ASSUME NEW pc, Go(g, pc), pool' = pool,
               \/ pc \notin Looping
               \/ pc \in Trying /\ req[g].pc \in Trying
               \/ pc = "picking" /\ req[g].pc = "routing"
        PROVE  UnrefreshedOK'
    <3> DEFINE q == [req[g] EXCEPT !.pc = pc]
    <3>1. q.pc = pc /\ q.tried = req[g].tried /\ q.port = req[g].port
      BY <2>0 DEF Requests
    <3>2. req' = [req EXCEPT ![g] = q]
      BY <2>1 DEF Go
    <3> HIDE DEF q
    <3> QED
      BY <1>4, <2>0, <2>1, <3>1, <3>2, OtherRequests DEF TriedGone, Looping, Trying
  <2>2. ASSUME NEW r, End(g, r), pool' = pool
        PROVE  UnrefreshedOK'
    <3> DEFINE q == [req[g] EXCEPT !.pc = "over", !.reply = r]
    <3>1. q.pc = "over"
      BY <2>0 DEF Requests
    <3>2. req' = [req EXCEPT ![g] = q]
      BY <2>2 DEF End
    <3> HIDE DEF q
    <3> QED
      BY <1>4, <2>2, <3>1, <3>2, OtherRequests DEF Looping, Trying
  <2>3. CASE Route(g) \/ ReadFails(g) \/ Refused(g) \/ ErrorBodyLost(g) \/ Relay(g)
             \/ RelayFails(g) \/ RespondUnavailable(g)
    BY <2>1, <2>2, <2>3
       DEF Route, ReadFails, Refused, ErrorBodyLost, Relay, RelayFails, RespondUnavailable,
           Looping, Trying
  <2>4. CASE Pick(g)
    <3>0. Listed(pool') = Listed(pool)
      BY <1>0, <2>4 DEF Pick, Advanced, Listed, PoolType
    <3>1. CASE Go(g, "unavailable")
      <4> DEFINE q == [req[g] EXCEPT !.pc = "unavailable"]
      <4>1. q.pc = "unavailable"
        BY <2>0 DEF Requests
      <4>2. req' = [req EXCEPT ![g] = q]
        BY <3>1 DEF Go
      <4> HIDE DEF q
      <4> QED
        BY <1>4, <3>0, <4>1, <4>2, OtherRequests DEF Looping, Trying
    <3>2. CASE Try(g, Upcoming(pool))
      <4> DEFINE p == Upcoming(pool)
                 q == [req[g] EXCEPT !.port = p, !.tried = @ \cup {p},
                                     !.pc = IF req[g].body THEN "reading" ELSE "sending"]
      <4>1. /\ q.pc \in {"reading", "sending"} /\ q.port = p
            /\ q.tried = req[g].tried \cup {p} /\ req[g].pc = "picking"
        BY <2>0, <2>4 DEF Requests, Pick
      <4>2. req' = [req EXCEPT ![g] = q]
        BY <3>2 DEF Try
      <4> HIDE DEF q, p
      <4> QED
        BY <1>4, <2>0, <3>0, <4>1, <4>2, OtherRequests DEF TriedGone, Looping, Trying
    <3> QED
      BY <2>4, <3>1, <3>2 DEF Pick
  <2>5. CASE ReadBody(g)
    <3> DEFINE q == [req[g] EXCEPT !.pc = "sending", !.unread = FALSE]
    <3>1. /\ q.pc = "sending" /\ q.tried = req[g].tried /\ q.port = req[g].port
          /\ req[g].pc = "reading"
      BY <2>0, <2>5 DEF Requests, ReadBody
    <3>2. req' = [req EXCEPT ![g] = q] /\ pool' = pool
      BY <2>5 DEF ReadBody
    <3> HIDE DEF q
    <3> QED
      BY <1>4, <2>0, <3>1, <3>2, OtherRequests DEF TriedGone, Looping, Trying
  <2>6. CASE \E outcome \in {"relaying", "relayingError", "failed"} : Executed(g, outcome)
    <3>0. PICK outcome \in {"relaying", "relayingError", "failed"} : Executed(g, outcome)
      BY <2>6
    <3> DEFINE q == [req[g] EXCEPT !.pc = outcome, !.ran = Append(@, req[g].port)]
    <3>1. /\ q.pc = outcome /\ q.tried = req[g].tried /\ q.port = req[g].port
          /\ req[g].pc = "sending"
      BY <2>0, <3>0 DEF Requests, Executed
    <3>2. req' = [req EXCEPT ![g] = q] /\ pool' = pool
      BY <3>0 DEF Executed
    <3> HIDE DEF q
    <3> QED
      BY <1>4, <2>0, <3>1, <3>2, OtherRequests DEF TriedGone, Looping, Trying
  <2>7. CASE Mark(g)
    <3> DEFINE q == [req[g] EXCEPT !.pc = "picking"]
    <3>1. /\ q.pc = "picking" /\ q.tried = req[g].tried /\ q.port = req[g].port
          /\ req[g].pc = "failed"
      BY <2>0, <2>7 DEF Requests, Mark
    <3>2. req' = [req EXCEPT ![g] = q] /\ pool' = MarkedUnhealthy(pool, req[g].port)
      BY <2>7 DEF Mark, Go
    <3>3. Listed(pool') \subseteq Listed(pool) /\ req[g].port \notin Listed(pool')
      BY <1>0, <3>2, MarkedLess, MarkedOK
    <3> HIDE DEF q
    <3> QED
      BY <1>4, <2>0, <3>1, <3>2, <3>3, OtherRequests DEF TriedGone, Looping, Trying
  <2>8. CASE Finish(g)
    BY <1>4, <2>8, OtherRequests DEF Finish, NoRequest, Looping, Trying
  <2>9. CASE ClientLeaves(g)
    <3> DEFINE q == [req[g] EXCEPT !.client = "gone"]
    <3>1. q.pc = req[g].pc /\ q.tried = req[g].tried /\ q.port = req[g].port
      BY <2>0 DEF Requests
    <3>2. req' = [req EXCEPT ![g] = q] /\ pool' = pool /\ req[g].pc # "none"
      BY <2>9 DEF ClientLeaves
    <3> HIDE DEF q
    <3> QED
      BY <1>4, <2>0, <3>1, <3>2, OtherRequests DEF TriedGone, Looping, Trying
  <2>10. ASSUME NEW body \in Bodies, Arrive(g, body)
         PROVE  UnrefreshedOK'
    <3> DEFINE q == [NoRequest EXCEPT !.pc = "routing", !.body = body, !.unread = body]
    <3>1. q.pc = "routing" /\ q.tried = {}
      BY DEF NoRequest
    <3>2. req' = [req EXCEPT ![g] = q] /\ pool' = pool
      BY <2>10 DEF Arrive
    <3> HIDE DEF q
    <3> QED
      BY <1>4, <3>1, <3>2, OtherRequests
  <2> QED
    BY <1>4, <2>3, <2>4, <2>5, <2>6, <2>7, <2>8, <2>9, <2>10 DEF Serve
<1>5. ASSUME HNext, ~Publish,
             Probe \/ \E p \in Ports : BackendStops(p) \/ BackendStarts(p)
      PROVE  UnrefreshedOK'
  BY <1>3, <1>5 DEF Probe, BackendStops, BackendStarts
<1> QED
  BY <1>1, <1>2, <1>4, <1>5 DEF HNext, Next, Discovery

(* The history variable restricts nothing: what holds of the router holds  *)
(* of the router with its history.                                         *)
LEMMA HistoryInvariant == HSpec => [](RouterInv /\ UnrefreshedOK)
<1>1. HInit => RouterInv /\ UnrefreshedOK
  <2>1. HInit => UnrefreshedOK
    BY DEF HInit, Init, UnrefreshedOK, NoRequest, Looping, Trying
  <2> QED
    BY <2>1, RouterInvInit DEF HInit
<1>2. RouterInv /\ UnrefreshedOK /\ [HNext]_hvars => (RouterInv /\ UnrefreshedOK)'
  <2>1. [HNext]_hvars => [Next]_vars
    BY DEF HNext, hvars
  <2> QED
    BY <2>1, RouterInvNext, UnrefreshedStep
<1> QED
  BY <1>1, <1>2, PTL DEF HSpec

(* "no backend available" is true of every request that no refresh         *)
(* overtook, for any number of other handlers.                             *)
THEOREM UnavailableMeansNoneHolds == HSpec => UnavailableMeansNone
<1>1. ASSUME RouterInv, UnrefreshedOK, HNext, NEW h \in Handlers,
             req[h].pc = "picking", req'[h].pc = "unavailable", ~refreshed[h],
             pool.healthy # <<>>
      PROVE  FALSE
  <2>0. /\ req \in [Handlers -> Requests] /\ pool \in PoolType
        /\ CursorInRange(pool)
    BY <1>1 DEF RouterInv, TypeOK, PoolOK, PoolType
  <2>1. Upcoming(pool) \in Listed(pool)
    <3>1. Len(pool.healthy) \in Nat /\ Len(pool.healthy) > 0
      BY <1>1, <2>0 DEF PoolType
    <3>2. pool.cursor + 1 \in 1..Len(pool.healthy)
      BY <2>0, <3>1 DEF CursorInRange, PoolType
    <3> QED
      BY <2>0, <3>2 DEF Upcoming, Listed, ToSet, PoolType
  <2>2. Upcoming(pool) \notin req[h].tried
    BY <1>1, <2>1 DEF UnrefreshedOK, TriedGone, Looping, Trying
  <2>3. ASSUME NEW g \in Handlers, NEW q, req' = [req EXCEPT ![g] = q]
        PROVE  g = h /\ q.pc = "unavailable"
    BY <1>1, <2>0, <2>3
  <2>4. ASSUME NEW g \in Handlers, Serve(g)
        PROVE  FALSE
    <3>0. req[g] \in Requests
      BY <2>0
    <3>1. CASE Pick(g)
      <4>1. Try(g, Upcoming(pool)) /\ g = h
        <5>1. g = h
          BY <2>3, <3>1 DEF Pick, Go, Try
        <5> QED
          BY <1>1, <2>2, <3>1, <5>1 DEF Pick
      <4> DEFINE p == Upcoming(pool)
                 q == [req[g] EXCEPT !.port = p, !.tried = @ \cup {p},
                                     !.pc = IF req[g].body THEN "reading" ELSE "sending"]
      <4>2. q.pc # "unavailable" /\ req' = [req EXCEPT ![g] = q]
        BY <3>0, <4>1 DEF Try, Requests
      <4> HIDE DEF q
      <4> QED
        BY <2>3, <4>2
    <3>2. CASE ~Pick(g)
      BY <1>1, <2>3, <2>4, <3>0, <3>2
         DEF Serve, Route, ReadBody, ReadFails, Refused, Executed, ErrorBodyLost, Relay,
             RelayFails, Mark, RespondUnavailable, Finish, Go, End, Requests, NoRequest
    <3> QED
      BY <3>1, <3>2
  <2>5. ASSUME NEW g \in Handlers, ClientLeaves(g) \/ \E body \in Bodies : Arrive(g, body)
        PROVE  FALSE
    <3>0. req[g] \in Requests
      BY <2>0
    <3>1. ASSUME NEW body \in Bodies, Arrive(g, body)
          PROVE  FALSE
      <4>1. [NoRequest EXCEPT !.pc = "routing", !.body = body, !.unread = body].pc = "routing"
        BY DEF NoRequest
      <4> QED
        BY <2>3, <3>1, <4>1 DEF Arrive
    <3> QED
      BY <1>1, <2>3, <2>5, <3>0, <3>1 DEF ClientLeaves, Requests
  <2>6. req' # req
    BY <1>1
  <2> QED
    BY <1>1, <2>4, <2>5, <2>6
       DEF HNext, Next, Discovery, Probe, Publish, BackendStops, BackendStarts
<1>2. RouterInv /\ UnrefreshedOK /\ [HNext]_hvars =>
          [\A h \in Handlers :
               req[h].pc = "picking" /\ req'[h].pc = "unavailable" /\ ~refreshed[h] =>
                   pool.healthy = <<>>]_hvars
  BY <1>1
<1> QED
  BY <1>2, HistoryInvariant, PTL DEF HSpec, UnavailableMeansNone
=============================================================================
