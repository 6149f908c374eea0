---------------------------- MODULE Router_proofs ----------------------------
(***************************************************************************)
(* Proofs about the backend pool and the router, for any list of candidate *)
(* ports and any number of handler threads.                                *)
(***************************************************************************)
EXTENDS Router, SequenceTheorems, TLAPS

-----------------------------------------------------------------------------
(* Lists of ports.                                                         *)

(* The list that is left when one place is removed.                        *)
LEMMA RemoveAtShape ==
    ASSUME NEW S, NEW s \in Seq(S), NEW i \in 1..Len(s)
    PROVE  /\ RemoveAt(s, i) \in Seq(S)
           /\ Len(RemoveAt(s, i)) = Len(s) - 1
           /\ \A k \in 1..(Len(s) - 1) :
                  RemoveAt(s, i)[k] = IF k < i THEN s[k] ELSE s[k + 1]
<1> DEFINE a == SubSeq(s, 1, i - 1)
           b == SubSeq(s, i + 1, Len(s))
<1>1. a \in Seq(S) /\ Len(a) = i - 1 /\ (\A k \in 1..(i - 1) : a[k] = s[k])
  OBVIOUS
<1>2. b \in Seq(S) /\ Len(b) = Len(s) - i /\ (\A k \in 1..(Len(s) - i) : b[k] = s[k + i])
  OBVIOUS
<1>3. /\ a \o b \in Seq(S)
      /\ Len(a \o b) = Len(s) - 1
      /\ \A k \in 1..(Len(s) - 1) : (a \o b)[k] = IF k < i THEN s[k] ELSE s[k + 1]
  <2> HIDE DEF a, b
  <2>1. a \o b \in Seq(S) /\ Len(a \o b) = Len(a) + Len(b)
    BY <1>1, <1>2, ConcatProperties
  <2>2. \A k \in 1..(Len(a) + Len(b)) :
            (a \o b)[k] = IF k <= Len(a) THEN a[k] ELSE b[k - Len(a)]
    BY <1>1, <1>2, ConcatProperties
  <2>3. ASSUME NEW k \in 1..(Len(s) - 1)
        PROVE  (a \o b)[k] = IF k < i THEN s[k] ELSE s[k + 1]
    BY <1>1, <1>2, <2>2
  <2> QED
    BY <1>1, <1>2, <2>1, <2>3
<1> QED
  BY <1>3 DEF RemoveAt

(* Removing a place of a list without duplicates removes its value.        *)
LEMMA RemoveAtDistinct ==
    ASSUME NEW S, NEW s \in Seq(S), IsInjective(s), NEW i \in 1..Len(s)
    PROVE  IsInjective(RemoveAt(s, i)) /\ s[i] \notin ToSet(RemoveAt(s, i))
<1> DEFINE rest == RemoveAt(s, i)
           from(n) == IF n < i THEN n ELSE n + 1
<1>1. /\ rest \in Seq(S) /\ Len(rest) = Len(s) - 1
      /\ \A k \in 1..(Len(s) - 1) : rest[k] = IF k < i THEN s[k] ELSE s[k + 1]
  BY RemoveAtShape
<1> HIDE DEF rest
<1>2. Len(s) \in Nat /\ DOMAIN s = 1..Len(s) /\ DOMAIN rest = 1..(Len(s) - 1)
  BY <1>1
<1>3. ASSUME NEW n \in 1..(Len(s) - 1)
      PROVE  from(n) \in 1..Len(s) /\ from(n) # i /\ s[from(n)] = rest[n]
  <2>1. CASE n < i
    BY <1>1, <1>2, <2>1
  <2>2. CASE ~(n < i)
    BY <1>1, <1>2, <2>2
  <2> QED
    BY <2>1, <2>2
<1>4. \A m \in 1..Len(s), n \in 1..Len(s) : s[m] = s[n] => m = n
  BY <1>2 DEF IsInjective
<1>5. ASSUME NEW m \in 1..(Len(s) - 1), NEW n \in 1..(Len(s) - 1), rest[m] = rest[n]
      PROVE  m = n
  <2>1. from(m) = from(n)
    <3> HIDE DEF from
    <3> QED
      BY <1>3, <1>4, <1>5
  <2> QED
    BY <1>2, <2>1
<1>6. ASSUME NEW n \in 1..(Len(s) - 1)
      PROVE  rest[n] # s[i]
  <2> HIDE DEF from
  <2> QED
    BY <1>3, <1>4
<1>7. IsInjective(rest)
  BY <1>2, <1>5 DEF IsInjective
<1>8. s[i] \notin ToSet(rest)
  BY <1>2, <1>6 DEF ToSet
<1> QED
  BY <1>7, <1>8 DEF rest

(* Appending a new value keeps a list free of duplicates.                  *)
LEMMA AppendDistinct ==
    ASSUME NEW S, NEW s \in Seq(S), IsInjective(s), NEW p \in S, p \notin ToSet(s)
    PROVE  /\ Append(s, p) \in Seq(S)
           /\ IsInjective(Append(s, p))
           /\ ToSet(Append(s, p)) = ToSet(s) \cup {p}
<1> DEFINE t == Append(s, p)
<1>1. /\ t \in Seq(S) /\ Len(t) = Len(s) + 1
      /\ (\A k \in 1..Len(s) : t[k] = s[k])
      /\ t[Len(s) + 1] = p
      /\ Len(s) \in Nat /\ DOMAIN s = 1..Len(s) /\ DOMAIN t = 1..(Len(s) + 1)
  BY AppendProperties
<1>2. \A k \in 1..Len(s) : s[k] # p
  BY <1>1 DEF ToSet
<1> HIDE DEF t
<1>3. IsInjective(t)
  BY <1>1, <1>2 DEF IsInjective
<1>4. ToSet(t) = ToSet(s) \cup {p}
  BY <1>1 DEF ToSet
<1> QED
  BY <1>1, <1>3, <1>4 DEF t

PoolType == [healthy : Seq(Ports), cursor : Nat]

(* next_backend always finds a port at the cursor, and leaves the pool in  *)
(* order.                                                                  *)
LEMMA AdvancedOK ==
    ASSUME NEW pl \in PoolType, CursorInRange(pl), NoPortTwice(pl), pl.healthy # <<>>
    PROVE  /\ Upcoming(pl) \in Ports
           /\ Advanced(pl) \in PoolType
           /\ CursorInRange(Advanced(pl)) /\ NoPortTwice(Advanced(pl))
<1>1. Len(pl.healthy) \in Nat /\ Len(pl.healthy) > 0
  BY DEF PoolType
<1>2. pl.cursor + 1 \in 1..Len(pl.healthy)
  BY <1>1 DEF CursorInRange, PoolType
<1>3. (pl.cursor + 1) % Len(pl.healthy) \in 0..(Len(pl.healthy) - 1)
  BY <1>1, <1>2
<1> QED
  BY <1>1, <1>2, <1>3 DEF Upcoming, Advanced, PoolType, CursorInRange, NoPortTwice

(* Publishing a list without duplicates leaves the pool in order.          *)
LEMMA PublishedOK ==
    ASSUME NEW pl \in PoolType, NEW found \in Seq(Ports), IsInjective(found)
    PROVE  /\ Published(pl, found) \in PoolType
           /\ CursorInRange(Published(pl, found)) /\ NoPortTwice(Published(pl, found))
<1>1. CASE found = <<>>
  BY <1>1 DEF Published, PoolType, CursorInRange, NoPortTwice
<1>2. CASE found # <<>>
  <2>1. Len(found) \in Nat /\ Len(found) > 0
    BY <1>2
  <2>2. pl.cursor % Len(found) \in 0..(Len(found) - 1)
    BY <2>1 DEF PoolType
  <2> QED
    BY <1>2, <2>1, <2>2 DEF Published, PoolType, CursorInRange, NoPortTwice
<1> QED
  BY <1>1, <1>2

(* mark_unhealthy leaves the pool in order and the port off the list.      *)
LEMMA MarkedOK ==
    ASSUME NEW pl \in PoolType, CursorInRange(pl), NoPortTwice(pl), NEW port
    PROVE  /\ MarkedUnhealthy(pl, port) \in PoolType
           /\ CursorInRange(MarkedUnhealthy(pl, port))
           /\ NoPortTwice(MarkedUnhealthy(pl, port))
           /\ port \notin Listed(MarkedUnhealthy(pl, port))
           /\ port \in Listed(pl) /\ pl.healthy # <<>> /\ Upcoming(pl) # port =>
                  /\ MarkedUnhealthy(pl, port).healthy # <<>>
                  /\ Upcoming(MarkedUnhealthy(pl, port)) = Upcoming(pl)
<1>1. CASE port \notin Listed(pl)
  BY <1>1 DEF MarkedUnhealthy
<1>2. CASE port \in Listed(pl)
  <2> DEFINE s == pl.healthy
             idx == IndexOf(pl, port)
             rest == RemoveAt(s, idx + 1)
             moved == IF pl.cursor > idx THEN pl.cursor - 1 ELSE pl.cursor
             cur == IF moved >= Len(rest) THEN 0 ELSE moved
  <2>1. s \in Seq(Ports) /\ IsInjective(s) /\ pl.cursor \in Nat /\ Len(s) \in Nat
    BY DEF PoolType, NoPortTwice
  <2>2. \E i \in 1..Len(s) : s[i] = port
    BY <1>2, <2>1 DEF Listed, ToSet
  <2>3. idx + 1 \in 1..Len(s) /\ s[idx + 1] = port /\ idx \in Nat
    BY <2>2 DEF IndexOf
  <2>4. /\ rest \in Seq(Ports) /\ Len(rest) = Len(s) - 1
        /\ \A k \in 1..(Len(s) - 1) : rest[k] = IF k < idx + 1 THEN s[k] ELSE s[k + 1]
    BY <2>1, <2>3, RemoveAtShape
  <2>5. MarkedUnhealthy(pl, port) = [healthy |-> rest, cursor |-> cur]
    BY <1>2 DEF MarkedUnhealthy
  <2>6. pl.cursor < Len(s)
    BY <2>1, <2>3 DEF CursorInRange
  <2> HIDE DEF s, idx, rest
  <2>7. cur \in Nat /\ (cur < Len(rest) \/ cur = 0)
    BY <2>1, <2>3, <2>4, <2>6
  <2>8. IsInjective(rest) /\ port \notin ToSet(rest)
    BY <2>1, <2>3, RemoveAtDistinct DEF rest
  <2>9. ASSUME s[pl.cursor + 1] # port
         PROVE  rest # <<>> /\ rest[cur + 1] = s[pl.cursor + 1]
    <3>1. pl.cursor # idx
      BY <2>3, <2>9
    <3>2. CASE pl.cursor > idx
      <4>1. cur = pl.cursor - 1 /\ cur + 1 \in 1..(Len(s) - 1) /\ ~(cur + 1 < idx + 1)
        BY <2>1, <2>3, <2>4, <2>6, <3>2
      <4> QED
        BY <2>1, <2>4, <4>1
    <3>3. CASE pl.cursor < idx
      <4>1. cur = pl.cursor /\ cur + 1 \in 1..(Len(s) - 1) /\ cur + 1 < idx + 1
        BY <2>1, <2>3, <2>4, <2>6, <3>3
      <4> QED
        BY <2>1, <2>4, <4>1
    <3> QED
      BY <2>1, <2>3, <3>1, <3>2, <3>3
  <2> QED
    BY <2>4, <2>5, <2>7, <2>8, <2>9
       DEF PoolType, CursorInRange, NoPortTwice, Listed, Upcoming, s
<1> QED
  BY <1>1, <1>2

-----------------------------------------------------------------------------
(* The invariant.  A refresh in progress has found distinct ports, all     *)
(* among the candidates it has already probed; a request about to be sent  *)
(* to a port has not been executed by that backend yet.                    *)
ProbeOK ==
    /\ IsInjective(probe.found)
    /\ \A i \in 1..Len(probe.found) : \E k \in 1..(probe.next - 1) :
           probe.found[i] = Candidates[k]

RequestOK(q) ==
    /\ IsInjective(q.ran)
    /\ ToSet(q.ran) \subseteq q.tried
    /\ q.pc \in {"reading", "sending"} => q.port \in q.tried \ ToSet(q.ran)

RouterInv ==
    /\ TypeOK
    /\ PoolOK
    /\ ProbeOK
    /\ \A h \in Handlers : RequestOK(req[h])

(* The request of an idle thread is in order.                              *)
LEMMA NoRequestOK == NoRequest \in Requests /\ RequestOK(NoRequest)
BY DEF NoRequest, Requests, PCs, RequestOK, IsInjective, ToSet

(* What the assumption on the candidates gives.                            *)
LEMMA CandidatesType ==
    /\ Candidates \in Seq(Ports) /\ IsInjective(Candidates)
    /\ Len(Candidates) \in Nat /\ DOMAIN Candidates = 1..Len(Candidates)
    /\ \A k \in 1..Len(Candidates) : Candidates[k] \in Ports
BY CandidatesAssumption

(* The invariant holds at the start.                                       *)
LEMMA RouterInvInit == Init => RouterInv
<1> SUFFICES ASSUME Init
             PROVE  RouterInv
  OBVIOUS
<1>1. TypeOK
  <2>1. <<>> \in Seq(Ports) /\ 1 \in 1..(Len(Candidates) + 1)
    BY CandidatesType
  <2>2. pool \in [healthy : Seq(Ports), cursor : Nat]
    BY <2>1 DEF Init, EmptyPool
  <2>3. probe \in [next : 1..(Len(Candidates) + 1), found : Seq(Ports)]
    BY <2>1 DEF Init, StartProbing
  <2>4. req \in [Handlers -> Requests]
    BY NoRequestOK DEF Init
  <2> QED
    BY <2>2, <2>3, <2>4 DEF Init, TypeOK
<1>2. PoolOK
  BY DEF Init, PoolOK, EmptyPool, CursorInRange, NoPortTwice, IsInjective
<1>3. ProbeOK
  BY DEF Init, ProbeOK, StartProbing, IsInjective
<1> QED
  BY <1>1, <1>2, <1>3, NoRequestOK DEF Init, RouterInv

(* A step of one handler that leaves its request in order keeps all        *)
(* requests in order.                                                      *)
LEMMA OneRequest ==
    ASSUME RouterInv, NEW h \in Handlers, NEW q \in Requests, RequestOK(q),
           req' = [req EXCEPT ![h] = q]
    PROVE  req' \in [Handlers -> Requests] /\ \A g \in Handlers : RequestOK(req'[g])
BY DEF RouterInv, TypeOK

(* What the steps of a handler do to its request, other than Pick.         *)
LEMMA HandlerStep ==
    ASSUME RouterInv, NEW h \in Handlers,
           \/ \E body \in Bodies : Arrive(h, body)
           \/ Route(h) \/ ReadBody(h) \/ ReadFails(h) \/ Refused(h)
           \/ \E outcome \in {"relaying", "relayingError", "failed"} : Executed(h, outcome)
           \/ ErrorBodyLost(h) \/ Relay(h) \/ RelayFails(h) \/ Mark(h) \/ RespondUnavailable(h)
           \/ Finish(h) \/ ClientLeaves(h)
    PROVE  \E q \in Requests : RequestOK(q) /\ req' = [req EXCEPT ![h] = q]
<1>0. req[h] \in Requests /\ RequestOK(req[h])
  BY DEF RouterInv, TypeOK
<1>1. ASSUME NEW pc \in PCs \ {"reading", "sending"}, Go(h, pc)
      PROVE  \E q \in Requests : RequestOK(q) /\ req' = [req EXCEPT ![h] = q]
  <2> DEFINE q == [req[h] EXCEPT !.pc = pc]
  <2>1. q \in Requests /\ RequestOK(q)
    BY <1>0, <1>1 DEF Requests, RequestOK
  <2> QED
    BY <1>1, <2>1 DEF Go
<1>2. ASSUME NEW r \in {"relayed", "503", "dropped"}, End(h, r)
      PROVE  \E q \in Requests : RequestOK(q) /\ req' = [req EXCEPT ![h] = q]
  <2> DEFINE q == [req[h] EXCEPT !.pc = "over", !.reply = r]
  <2>1. q \in Requests /\ RequestOK(q)
    BY <1>0 DEF Requests, RequestOK, PCs
  <2> QED
    BY <1>2, <2>1 DEF End
<1>3. CASE \E body \in Bodies : Arrive(h, body)
  <2>1. PICK body \in BOOLEAN : Arrive(h, body)
    BY <1>3, BodiesAssumption
  <2> DEFINE q == [NoRequest EXCEPT !.pc = "routing", !.body = body, !.unread = body]
  <2>2. q \in Requests /\ RequestOK(q)
    BY NoRequestOK DEF Requests, RequestOK, PCs, NoRequest
  <2> QED
    BY <2>1, <2>2 DEF Arrive
<1>4. CASE Route(h) \/ ReadFails(h) \/ ErrorBodyLost(h) \/ Relay(h) \/ RelayFails(h)
           \/ RespondUnavailable(h)
  BY <1>1, <1>2, <1>4
     DEF Route, ReadFails, ErrorBodyLost, Relay, RelayFails, RespondUnavailable, PCs
<1>5. CASE Refused(h) \/ Mark(h)
  BY <1>1, <1>5 DEF Refused, Mark, PCs
<1>6. CASE ReadBody(h)
  <2> DEFINE q == [req[h] EXCEPT !.pc = "sending", !.unread = FALSE]
  <2>1. q \in Requests /\ RequestOK(q)
    BY <1>0, <1>6 DEF Requests, RequestOK, PCs, ReadBody
  <2> QED
    BY <1>6, <2>1 DEF ReadBody
<1>7. CASE \E outcome \in {"relaying", "relayingError", "failed"} : Executed(h, outcome)
  <2>1. PICK outcome \in {"relaying", "relayingError", "failed"} : Executed(h, outcome)
    BY <1>7
  <2> DEFINE q == [req[h] EXCEPT !.pc = outcome, !.ran = Append(@, req[h].port)]
  <2>2. /\ req[h].ran \in Seq(Ports) /\ req[h].port \in Ports
        /\ req[h].port \in req[h].tried /\ req[h].port \notin ToSet(req[h].ran)
    BY <1>0, <2>1 DEF Executed, Requests, RequestOK
  <2>3. /\ Append(req[h].ran, req[h].port) \in Seq(Ports)
        /\ IsInjective(Append(req[h].ran, req[h].port))
        /\ ToSet(Append(req[h].ran, req[h].port)) = ToSet(req[h].ran) \cup {req[h].port}
    BY <1>0, <2>2, AppendDistinct DEF RequestOK
  <2>4. q \in Requests
    BY <1>0, <2>1, <2>3 DEF Requests, PCs
  <2>5. /\ q.pc = outcome /\ q.tried = req[h].tried
        /\ q.ran = Append(req[h].ran, req[h].port)
    BY <1>0 DEF Requests
  <2>6. RequestOK(q)
    <3> HIDE DEF q
    <3> QED
      BY <1>0, <2>1, <2>2, <2>3, <2>5 DEF RequestOK
  <2> QED
    BY <2>1, <2>4, <2>6 DEF Executed
<1>8. CASE Finish(h)
  BY <1>8, NoRequestOK DEF Finish
<1>9. CASE ClientLeaves(h)
  <2> DEFINE q == [req[h] EXCEPT !.client = "gone"]
  <2>1. q \in Requests /\ RequestOK(q)
    BY <1>0 DEF Requests, RequestOK
  <2> QED
    BY <1>9, <2>1 DEF ClientLeaves
<1> QED
  BY <1>3, <1>4, <1>5, <1>6, <1>7, <1>8, <1>9

(* Pick moves the cursor and either tries a port that was not tried yet or *)
(* gives up.                                                               *)
LEMMA PickStep ==
    ASSUME RouterInv, NEW h \in Handlers, Pick(h)
    PROVE  /\ pool' \in PoolType /\ PoolOK'
           /\ \E q \in Requests : RequestOK(q) /\ req' = [req EXCEPT ![h] = q]
<1>0. /\ req[h] \in Requests /\ RequestOK(req[h])
      /\ pool \in PoolType /\ CursorInRange(pool) /\ NoPortTwice(pool)
  BY DEF RouterInv, TypeOK, PoolOK, PoolType
<1>1. ASSUME Go(h, "unavailable")
      PROVE  \E q \in Requests : RequestOK(q) /\ req' = [req EXCEPT ![h] = q]
  <2> DEFINE q == [req[h] EXCEPT !.pc = "unavailable"]
  <2>1. q \in Requests /\ RequestOK(q)
    BY <1>0 DEF Requests, RequestOK, PCs
  <2> QED
    BY <1>1, <2>1 DEF Go
<1>2. CASE pool.healthy = <<>>
  BY <1>0, <1>1, <1>2 DEF Pick, PoolOK
<1>3. CASE pool.healthy # <<>>
  <2>1. /\ Upcoming(pool) \in Ports
        /\ pool' \in PoolType /\ PoolOK'
    BY <1>0, <1>3, AdvancedOK DEF Pick, PoolOK
  <2>2. CASE Upcoming(pool) \in req[h].tried
    BY <1>1, <1>3, <2>1, <2>2 DEF Pick
  <2>3. CASE Upcoming(pool) \notin req[h].tried
    <3> DEFINE p == Upcoming(pool)
               pc == IF req[h].body THEN "reading" ELSE "sending"
               q == [req[h] EXCEPT !.port = p, !.tried = @ \cup {p}, !.pc = pc]
    <3>1. req' = [req EXCEPT ![h] = q]
      BY <1>3, <2>3 DEF Pick, Try
    <3>2. p \in Ports /\ p \notin req[h].tried
      BY <2>1, <2>3
    <3> HIDE DEF p
    <3>3. q \in Requests
      BY <1>0, <3>2 DEF Requests, PCs
    <3>4. /\ q.port = p /\ q.tried = req[h].tried \cup {p} /\ q.ran = req[h].ran
      BY <1>0 DEF Requests
    <3>5. RequestOK(q)
      <4> HIDE DEF q
      <4> QED
        BY <1>0, <3>2, <3>4 DEF RequestOK
    <3> QED
      BY <2>1, <3>1, <3>3, <3>5
  <2> QED
    BY <2>2, <2>3
<1> QED
  BY <1>2, <1>3

(* One more candidate is probed.                                           *)
LEMMA ProbeStep ==
    ASSUME RouterInv, Probe
    PROVE  probe' \in [next : 1..(Len(Candidates) + 1), found : Seq(Ports)] /\ ProbeOK'
<1> DEFINE n == probe.next
           p == Candidates[n]
           f == probe.found
           g == IF p \in up THEN Append(f, p) ELSE f
<1>1. /\ n \in 1..Len(Candidates) /\ p \in Ports /\ f \in Seq(Ports) /\ IsInjective(f)
      /\ \A i \in 1..Len(f) : \E k \in 1..(n - 1) : f[i] = Candidates[k]
  BY CandidatesType DEF RouterInv, TypeOK, ProbeOK, Probe
<1>2. probe' = [next |-> n + 1, found |-> g]
  BY DEF Probe
<1>3. p \notin ToSet(f)
  <2>1. ASSUME NEW i \in 1..Len(f), f[i] = p
        PROVE  FALSE
    <3>1. PICK k \in 1..(n - 1) : p = Candidates[k]
      BY <1>1, <2>1
    <3>2. k \in 1..Len(Candidates) /\ k # n /\ Candidates[k] = Candidates[n]
      BY <1>1, <3>1, CandidatesType
    <3> QED
      BY <1>1, <3>2, CandidatesType DEF IsInjective
  <2>2. DOMAIN f = 1..Len(f)
    BY <1>1
  <2> HIDE DEF f, p
  <2> QED
    BY <2>1, <2>2 DEF ToSet
<1>4. n + 1 \in 1..(Len(Candidates) + 1)
  BY <1>1, CandidatesType
<1>5. g \in Seq(Ports) /\ IsInjective(g)
  BY <1>1, <1>3, AppendDistinct
<1>6. \A i \in 1..Len(g) : \E k \in 1..n : g[i] = Candidates[k]
  <2>1. CASE p \in up
    <3>1. /\ Len(g) = Len(f) + 1 /\ g[Len(f) + 1] = p /\ Len(f) \in Nat
          /\ \A i \in 1..Len(f) : g[i] = f[i]
      BY <1>1, <2>1, AppendProperties
    <3>2. n \in 1..n /\ \A k \in 1..(n - 1) : k \in 1..n
      BY <1>1, CandidatesType
    <3>3. ASSUME NEW i \in 1..(Len(f) + 1)
          PROVE  \E k \in 1..n : g[i] = Candidates[k]
      <4>1. CASE i = Len(f) + 1
        BY <3>1, <3>2, <4>1
      <4>2. CASE i \in 1..Len(f)
        <5>1. PICK k \in 1..(n - 1) : f[i] = Candidates[k]
          BY <1>1, <4>2
        <5> HIDE DEF g
        <5> QED
          BY <3>1, <3>2, <4>2, <5>1
      <4> QED
        BY <3>1, <4>1, <4>2
    <3> QED
      BY <3>1, <3>3
  <2>2. CASE p \notin up
    <3>1. \A k \in 1..(n - 1) : k \in 1..n
      BY <1>1, CandidatesType
    <3> QED
      BY <1>1, <2>2, <3>1
  <2> QED
    BY <2>1, <2>2
<1>7. (n + 1) - 1 = n
  BY <1>1, CandidatesType
<1> HIDE DEF g, n, f
<1>8. probe'.next - 1 = n /\ probe'.found = g
  BY <1>2, <1>7
<1> QED
  BY <1>2, <1>4, <1>5, <1>6, <1>8 DEF ProbeOK

-----------------------------------------------------------------------------
(* Every step keeps the invariant.                                         *)
LEMMA RouterInvNext == RouterInv /\ [Next]_vars => RouterInv'
<1> SUFFICES ASSUME RouterInv, [Next]_vars
             PROVE  RouterInv'
  OBVIOUS
<1>0. /\ up \subseteq Ports /\ pool \in PoolType /\ serving \in BOOLEAN
      /\ CursorInRange(pool) /\ NoPortTwice(pool)
      /\ probe \in [next : 1..(Len(Candidates) + 1), found : Seq(Ports)]
      /\ req \in [Handlers -> Requests] /\ PoolOK /\ ProbeOK
      /\ \A h \in Handlers : RequestOK(req[h])
  BY DEF RouterInv, TypeOK, PoolOK, PoolType
<1>1. ASSUME NEW h \in Handlers, NEW q \in Requests, RequestOK(q),
             req' = [req EXCEPT ![h] = q], pool' \in PoolType, PoolOK',
             UNCHANGED <<up, probe, serving>>
      PROVE  RouterInv'
  <2>1. req' \in [Handlers -> Requests] /\ \A g \in Handlers : RequestOK(req'[g])
    BY <1>1, OneRequest
  <2> QED
    BY <1>0, <1>1, <2>1 DEF RouterInv, TypeOK, ProbeOK, PoolType
<1>2. CASE Probe
  <2>1. probe' \in [next : 1..(Len(Candidates) + 1), found : Seq(Ports)] /\ ProbeOK'
    BY <1>2, ProbeStep
  <2> QED
    BY <1>0, <1>2, <2>1 DEF RouterInv, TypeOK, PoolOK, PoolType, Probe
<1>3. CASE Publish
  <2>1. probe.found \in Seq(Ports) /\ IsInjective(probe.found)
    BY <1>0 DEF ProbeOK
  <2>2. pool' \in PoolType /\ CursorInRange(pool') /\ NoPortTwice(pool')
    BY <1>0, <1>3, <2>1, PublishedOK DEF Publish
  <2>3. probe' \in [next : 1..(Len(Candidates) + 1), found : Seq(Ports)] /\ ProbeOK'
    <3>1. <<>> \in Seq(Ports) /\ 1 \in 1..(Len(Candidates) + 1)
      BY CandidatesType
    <3>2. probe' = [next |-> 1, found |-> <<>>]
      BY <1>3 DEF Publish, StartProbing
    <3>3. probe'.found = <<>>
      BY <3>2
    <3> QED
      BY <3>1, <3>2, <3>3 DEF ProbeOK, IsInjective
  <2> QED
    BY <1>0, <1>3, <2>2, <2>3 DEF RouterInv, TypeOK, PoolOK, PoolType, Publish
<1>4. ASSUME NEW h \in Handlers, Pick(h)
      PROVE  RouterInv'
  <2>1. /\ pool' \in PoolType /\ PoolOK' /\ UNCHANGED <<up, probe, serving>>
        /\ \E q \in Requests : RequestOK(q) /\ req' = [req EXCEPT ![h] = q]
    BY <1>4, PickStep DEF Pick
  <2> QED
    BY <1>1, <2>1
<1>5. ASSUME NEW h \in Handlers, Mark(h)
      PROVE  RouterInv'
  <2>1. \E q \in Requests : RequestOK(q) /\ req' = [req EXCEPT ![h] = q]
    BY <1>5, HandlerStep
  <2>2. pool' \in PoolType /\ PoolOK' /\ UNCHANGED <<up, probe, serving>>
    BY <1>0, <1>5, MarkedOK DEF Mark, PoolOK
  <2> QED
    BY <1>1, <2>1, <2>2
<1>6. ASSUME NEW h \in Handlers,
             \/ \E body \in Bodies : Arrive(h, body)
             \/ Route(h) \/ ReadBody(h) \/ ReadFails(h) \/ Refused(h)
             \/ \E outcome \in {"relaying", "relayingError", "failed"} :
                    Executed(h, outcome)
             \/ ErrorBodyLost(h) \/ Relay(h) \/ RelayFails(h) \/ RespondUnavailable(h)
             \/ Finish(h) \/ ClientLeaves(h)
      PROVE  RouterInv'
  <2>1. \E q \in Requests : RequestOK(q) /\ req' = [req EXCEPT ![h] = q]
    BY <1>6, HandlerStep
  <2>2. UNCHANGED <<up, pool, probe, serving>>
    BY <1>6 DEF Arrive, Route, ReadBody, ReadFails, Refused, Executed, ErrorBodyLost, Relay,
                RelayFails, RespondUnavailable, Finish, ClientLeaves
  <2>3. pool' \in PoolType /\ PoolOK'
    BY <1>0, <2>2 DEF PoolOK
  <2> QED
    BY <1>1, <2>1, <2>2, <2>3
<1>7. ASSUME NEW p \in Ports, BackendStops(p) \/ BackendStarts(p)
      PROVE  RouterInv'
  BY <1>0, <1>7 DEF BackendStops, BackendStarts, RouterInv, TypeOK, PoolOK, ProbeOK, PoolType
<1>8. CASE UNCHANGED vars
  BY <1>0, <1>8 DEF vars, RouterInv, TypeOK, PoolOK, ProbeOK, PoolType
<1> QED
  BY <1>2, <1>3, <1>4, <1>5, <1>6, <1>7, <1>8 DEF Next, Discovery, Serve

(* The inductive invariant of the router.                                  *)
THEOREM RouterInvariant == Spec => []RouterInv
BY RouterInvInit, RouterInvNext, PTL DEF Spec

(* Only candidate ports are ever listed, probed or tried, and every        *)
(* variable keeps its type.                                                *)
THEOREM RouterTypeCorrect == Spec => []TypeOK
<1>1. RouterInv => TypeOK
  BY DEF RouterInv
<1> QED
  BY <1>1, RouterInvariant, PTL

(* next_backend never indexes outside the list, and no port is listed      *)
(* twice, whatever refreshes and evictions interleave.                     *)
THEOREM PoolInOrder == Spec => []PoolOK
<1>1. RouterInv => PoolOK
  BY DEF RouterInv
<1> QED
  BY <1>1, RouterInvariant, PTL

(* However often a refresh lists a failing port again, proxy() sends a     *)
(* request to each backend at most once.                                   *)
THEOREM OncePerBackendHolds == Spec => []OncePerBackend
<1>1. RouterInv => OncePerBackend
  BY DEF RouterInv, RequestOK, OncePerBackend
<1> QED
  BY <1>1, RouterInvariant, PTL

(* Removing a failing backend leaves the turn with the port that has it.   *)
THEOREM TurnKeptHolds == Spec => TurnKept
<1>1. ASSUME RouterInv, [Next]_vars, NEW h \in Handlers,
             req[h].pc = "failed", req'[h].pc = "picking",
             pool.healthy # <<>>, Upcoming(pool) # req[h].port
      PROVE  pool'.healthy # <<>> /\ Upcoming(pool') = Upcoming(pool)
  <2>0. /\ pool \in PoolType /\ CursorInRange(pool) /\ NoPortTwice(pool)
        /\ req \in [Handlers -> Requests]
    BY <1>1 DEF RouterInv, TypeOK, PoolOK, PoolType
  <2>1. Mark(h)
    <3>1. req' # req
      BY <1>1
    <3>2. ASSUME NEW g \in Handlers, NEW q, req' = [req EXCEPT ![g] = q]
          PROVE  g = h /\ q.pc = "picking"
      BY <1>1, <2>0, <3>2
    <3>3. ASSUME NEW g \in Handlers, Serve(g)
          PROVE  Mark(h)
      <4>1. CASE Mark(g)
        BY <3>2, <4>1 DEF Mark, Go
      <4>2. CASE ~Mark(g)
        BY <1>1, <2>0, <3>2, <3>3, <4>2
           DEF Serve, Route, Pick, Try, ReadBody, ReadFails, Refused, Executed, ErrorBodyLost,
               Relay, RelayFails, RespondUnavailable, Finish, Go, End, Requests, NoRequest
      <4> QED
        BY <4>1, <4>2
    <3>4. ASSUME NEW g \in Handlers, \E body \in Bodies : Arrive(g, body)
          PROVE  FALSE
      <4>1. PICK body \in Bodies : Arrive(g, body)
        BY <3>4
      <4>2. [NoRequest EXCEPT !.pc = "routing", !.body = body, !.unread = body].pc = "routing"
        BY DEF NoRequest
      <4> QED
        BY <3>2, <4>1, <4>2 DEF Arrive
    <3>5. ASSUME NEW g \in Handlers, ClientLeaves(g)
          PROVE  FALSE
      BY <1>1, <2>0, <3>2, <3>5 DEF ClientLeaves, Requests
    <3> QED
      BY <1>1, <3>1, <3>3, <3>4, <3>5
         DEF Next, Discovery, Probe, Publish, BackendStops, BackendStarts, vars
  <2>2. pool' = MarkedUnhealthy(pool, req[h].port)
    BY <2>1 DEF Mark
  <2>3. CASE req[h].port \in Listed(pool)
    BY <1>1, <2>0, <2>2, <2>3, MarkedOK
  <2>4. CASE req[h].port \notin Listed(pool)
    BY <1>1, <2>2, <2>4 DEF MarkedUnhealthy
  <2> QED
    BY <2>3, <2>4
<1>2. RouterInv /\ [Next]_vars =>
          [\A h \in Handlers :
               req[h].pc = "failed" /\ req'[h].pc = "picking"
               /\ pool.healthy # <<>> /\ Upcoming(pool) # req[h].port =>
                   pool'.healthy # <<>> /\ Upcoming(pool') = Upcoming(pool)]_vars
  BY <1>1
<1> QED
  BY <1>2, RouterInvariant, PTL DEF Spec, TurnKept

(* Started as a module, the router drops a request whose client waits only *)
(* when the body of a backend's error answer is lost after its head.       *)
THEOREM DropsOnlyErrorsHolds ==
    ASSUME RunAs = "module"
    PROVE  Spec => DropsOnlyErrors
<1> DEFINE Excused(h) == req[h].client = "gone" \/ req[h].pc = "relayingError"
<1>1. ASSUME RouterInv, [Next]_vars, NEW h \in Handlers,
             req[h].reply = "none", req'[h].reply = "dropped"
      PROVE  Excused(h)
  <2>0. req \in [Handlers -> Requests] /\ req' # req
    BY <1>1 DEF RouterInv, TypeOK
  <2>1. ASSUME NEW g \in Handlers, NEW q, req' = [req EXCEPT ![g] = q]
        PROVE  g = h /\ q.reply = "dropped"
    BY <1>1, <2>0, <2>1
  <2>2. ASSUME NEW g \in Handlers, Serve(g)
        PROVE  Excused(h)
    <3>0. req[g] \in Requests
      BY <2>0
    <3>1. ASSUME NEW pc, Go(g, pc)
          PROVE  FALSE
      BY <1>1, <2>1, <3>0, <3>1 DEF Go, Requests
    <3>2. ASSUME NEW r, End(g, r)
          PROVE  g = h /\ r = "dropped"
      <4> DEFINE q == [req[g] EXCEPT !.pc = "over", !.reply = r]
      <4>1. q.reply = r
        BY <3>0 DEF Requests
      <4>2. req' = [req EXCEPT ![g] = q]
        BY <3>2 DEF End
      <4> HIDE DEF q
      <4> QED
        BY <2>1, <4>1, <4>2
    <3>3. CASE Route(g)
      BY <1>1, <3>1, <3>3 DEF Route
    <3>4. CASE Pick(g)
      <4>1. CASE Try(g, Upcoming(pool))
        <5> DEFINE q == [req[g] EXCEPT !.port = Upcoming(pool), !.tried = @ \cup {Upcoming(pool)},
                                       !.pc = IF req[g].body THEN "reading" ELSE "sending"]
        <5>1. q.reply = req[g].reply
          BY <3>0 DEF Requests
        <5>2. req' = [req EXCEPT ![g] = q]
          BY <4>1 DEF Try
        <5> HIDE DEF q
        <5> QED
          BY <1>1, <2>1, <5>1, <5>2
      <4> QED
        BY <3>1, <3>4, <4>1 DEF Pick
    <3>5. CASE Refused(g) \/ Mark(g)
      BY <3>1, <3>5 DEF Refused, Mark
    <3>6. CASE ReadBody(g)
      BY <1>1, <2>1, <3>0, <3>6 DEF ReadBody, Requests
    <3>7. CASE \E outcome \in {"relaying", "relayingError", "failed"} : Executed(g, outcome)
      BY <1>1, <2>1, <3>0, <3>7 DEF Executed, Requests
    <3>8. CASE ReadFails(g) \/ ErrorBodyLost(g) \/ Relay(g) \/ RelayFails(g)
               \/ RespondUnavailable(g)
      <4>1. \/ End(g, "relayed") \/ End(g, "503") \/ Go(g, "failed")
            \/ End(g, "dropped") /\ Excused(g)
        BY <3>8 DEF ReadFails, ErrorBodyLost, Relay, RelayFails, RespondUnavailable
      <4> QED
        BY <3>1, <3>2, <4>1
    <3>9. CASE Finish(g)
      <4>1. NoRequest.reply = "none"
        BY DEF NoRequest
      <4> QED
        BY <2>1, <3>9, <4>1 DEF Finish
    <3> QED
      BY <2>2, <3>3, <3>4, <3>5, <3>6, <3>7, <3>8, <3>9 DEF Serve
  <2>3. ASSUME NEW g \in Handlers, NEW body \in Bodies, Arrive(g, body)
        PROVE  FALSE
    <3>1. [NoRequest EXCEPT !.pc = "routing", !.body = body, !.unread = body].reply = "none"
      BY DEF NoRequest
    <3> QED
      BY <2>1, <2>3, <3>1 DEF Arrive
  <2>4. ASSUME NEW g \in Handlers, ClientLeaves(g)
        PROVE  FALSE
    BY <1>1, <2>0, <2>1, <2>4 DEF ClientLeaves, Requests
  <2> QED
    BY <1>1, <2>0, <2>2, <2>3, <2>4
       DEF Next, Discovery, Probe, Publish, BackendStops, BackendStarts, vars
<1>2. RouterInv /\ [Next]_vars =>
          [\A h \in Handlers :
               req[h].reply = "none" /\ req'[h].reply = "dropped" =>
                   req[h].client = "gone" \/ req[h].pc = "relayingError"]_vars
  BY <1>1
<1> QED
  BY <1>2, RouterInvariant, PTL DEF Spec, DropsOnlyErrors

-----------------------------------------------------------------------------
(* The refinement: every step of the router is one of AtomicProxy, or is   *)
(* invisible from outside.                                                 *)

(* A request that is not over has no reply yet.                            *)
Unanswered == \A h \in Handlers : req[h].pc # "over" => req[h].reply = "none"

LEMMA UnansweredHolds == Spec => []Unanswered
<1>1. Init => Unanswered
  BY DEF Init, Unanswered, NoRequest
<1>2. RouterInv /\ Unanswered /\ [Next]_vars => Unanswered'
  <2> SUFFICES ASSUME RouterInv, Unanswered, [Next]_vars, NEW h \in Handlers,
                      req'[h].pc # "over"
               PROVE  req'[h].reply = "none"
    BY DEF Unanswered
  <2>0. req \in [Handlers -> Requests]
    BY DEF RouterInv, TypeOK
  <2>1. CASE req'[h] = req[h]
    BY <2>1 DEF Unanswered
  <2>2. ASSUME NEW g \in Handlers, NEW q, req' = [req EXCEPT ![g] = q],
               q.pc # "over" => q.reply = "none"
        PROVE  req'[h].reply = "none"
    BY <2>0, <2>2 DEF Unanswered
  <2>3. ASSUME NEW g \in Handlers, Serve(g)
        PROVE  req'[h].reply = "none"
    <3>0. req[g] \in Requests /\ (req[g].pc # "over" => req[g].reply = "none")
      BY <2>0 DEF Unanswered
    <3>1. ASSUME NEW pc, Go(g, pc), req[g].pc # "over"
          PROVE  req'[h].reply = "none"
      BY <2>2, <3>0, <3>1 DEF Go, Requests
    <3>2. ASSUME NEW r, End(g, r)
          PROVE  req'[h].reply = "none"
      BY <2>2, <3>0, <3>2 DEF End, Requests
    <3>3. CASE Route(g) \/ ReadFails(g) \/ Refused(g) \/ ErrorBodyLost(g) \/ Relay(g)
               \/ RelayFails(g) \/ Mark(g) \/ RespondUnavailable(g)
      BY <3>1, <3>2, <3>3
         DEF Route, ReadFails, Refused, ErrorBodyLost, Relay, RelayFails, Mark, RespondUnavailable
    <3>4. CASE Pick(g)
      <4>1. Go(g, "unavailable") \/ Try(g, Upcoming(pool))
        BY <3>4 DEF Pick
      <4>2. CASE Try(g, Upcoming(pool))
        <5> DEFINE q == [req[g] EXCEPT !.port = Upcoming(pool), !.tried = @ \cup {Upcoming(pool)},
                                       !.pc = IF req[g].body THEN "reading" ELSE "sending"]
        <5>1. q.reply = req[g].reply /\ req[g].pc = "picking"
          BY <3>0, <3>4 DEF Requests, Pick
        <5>2. req' = [req EXCEPT ![g] = q]
          BY <4>2 DEF Try
        <5> HIDE DEF q
        <5> QED
          BY <2>2, <3>0, <5>1, <5>2
      <4> QED
        BY <3>1, <3>4, <4>1, <4>2 DEF Pick
    <3>5. CASE ReadBody(g)
      BY <2>2, <3>0, <3>5 DEF ReadBody, Requests
    <3>6. CASE \E outcome \in {"relaying", "relayingError", "failed"} : Executed(g, outcome)
      BY <2>2, <3>0, <3>6 DEF Executed, Requests
    <3>7. CASE Finish(g)
      BY <2>2, <3>7 DEF Finish, NoRequest
    <3> QED
      BY <2>3, <3>3, <3>4, <3>5, <3>6, <3>7 DEF Serve
  <2>4. ASSUME NEW g \in Handlers, NEW body \in Bodies, Arrive(g, body)
        PROVE  req'[h].reply = "none"
    BY <2>2, <2>4 DEF Arrive, NoRequest
  <2>5. ASSUME NEW g \in Handlers, ClientLeaves(g)
        PROVE  req'[h].reply = "none"
    BY <2>0, <2>2, <2>5 DEF ClientLeaves, Requests, Unanswered
  <2>6. CASE Discovery \/ (\E p \in Ports : BackendStops(p) \/ BackendStarts(p)) \/ UNCHANGED vars
    BY <2>1, <2>6 DEF Discovery, Probe, Publish, BackendStops, BackendStarts, vars
  <2> QED
    BY <2>3, <2>4, <2>5, <2>6 DEF Next
<1> QED
  BY <1>1, <1>2, RouterInvariant, PTL DEF Spec

asked == [h \in Handlers |-> Seen(req[h])]

(* A step of one request, seen from outside.                               *)
LEMMA SeenStep ==
    ASSUME NEW h \in Handlers, NEW q, req \in [Handlers -> Requests],
           req' = [req EXCEPT ![h] = q]
    PROVE  asked' = [asked EXCEPT ![h] = Seen(q)]
  BY DEF asked

(* The steps of a handler are steps of its request in AtomicProxy.         *)
LEMMA ServeStep ==
    ASSUME RunAs = "module", RouterInv, Unanswered, NEW h \in Handlers, Serve(h)
    PROVE  \/ UNCHANGED <<up, asked>>
           \/ \E p \in Ports : Promise!Execute(h, p)
           \/ Promise!Relay(h) \/ Promise!Retry(h) \/ Promise!Unavailable(h)
           \/ Promise!Drop(h) \/ Promise!LoseError(h) \/ Promise!Finish(h)
<1>0. /\ req \in [Handlers -> Requests] /\ req[h] \in Requests /\ RequestOK(req[h])
      /\ req[h].pc # "over" => req[h].reply = "none"
      /\ asked[h] = Seen(req[h])
  BY DEF RouterInv, TypeOK, Unanswered, asked
<1>1. ASSUME NEW q, req' = [req EXCEPT ![h] = q], up' = up, Seen(q) = Seen(req[h])
      PROVE  UNCHANGED <<up, asked>>
  <2>1. asked' = [asked EXCEPT ![h] = Seen(q)]
    BY <1>0, <1>1, SeenStep
  <2>2. [asked EXCEPT ![h] = asked[h]] = asked
    BY DEF asked
  <2> QED
    BY <1>0, <1>1, <2>1, <2>2
<1>2. ASSUME NEW q, req' = [req EXCEPT ![h] = q], up' = up
      PROVE  Promise!Becomes(h, Seen(q).stage, Seen(q).client, Seen(q).ran, Seen(q).reply)
  <2>1. asked' = [asked EXCEPT ![h] = Seen(q)]
    BY <1>0, <1>2, SeenStep
  <2>2. Seen(q) = [stage |-> Seen(q).stage, client |-> Seen(q).client, ran |-> Seen(q).ran,
                   reply |-> Seen(q).reply]
    BY DEF Seen
  <2> QED
    BY <1>2, <2>1, <2>2 DEF Promise!Becomes, asked
<1>3. ASSUME NEW pc, Go(h, pc), StageOf(pc) = StageOf(req[h].pc), UNCHANGED up
      PROVE  UNCHANGED <<up, asked>>
  <2> DEFINE q == [req[h] EXCEPT !.pc = pc]
  <2>1. Seen(q) = Seen(req[h])
    BY <1>0, <1>3 DEF Seen, Requests
  <2> QED
    BY <1>1, <1>3, <2>1 DEF Go
<1>4. ASSUME NEW r, End(h, r), UNCHANGED up
      PROVE  Promise!Becomes(h, "over", req[h].client, ToSet(req[h].ran), r)
  <2> DEFINE q == [req[h] EXCEPT !.pc = "over", !.reply = r]
  <2>1. /\ Seen(q).stage = "over" /\ Seen(q).client = req[h].client
        /\ Seen(q).ran = ToSet(req[h].ran) /\ Seen(q).reply = r
    BY <1>0 DEF Seen, StageOf, Requests
  <2>2. req' = [req EXCEPT ![h] = q]
    BY <1>4 DEF End
  <2> HIDE DEF q
  <2> QED
    BY <1>2, <1>4, <2>1, <2>2
<1>5. /\ asked[h].stage = StageOf(req[h].pc) /\ asked[h].client = req[h].client
      /\ asked[h].ran = ToSet(req[h].ran) /\ asked[h].reply = req[h].reply
  BY <1>0 DEF Seen
<1>6. CASE Route(h) \/ Refused(h) \/ Mark(h)
  BY <1>3, <1>6 DEF Route, Refused, Mark, StageOf
<1>7. CASE Pick(h)
  <2>1. Go(h, "unavailable") \/ Try(h, Upcoming(pool))
    BY <1>7 DEF Pick
  <2>2. CASE Try(h, Upcoming(pool))
    <3> DEFINE q == [req[h] EXCEPT !.port = Upcoming(pool), !.tried = @ \cup {Upcoming(pool)},
                                   !.pc = IF req[h].body THEN "reading" ELSE "sending"]
    <3>1. Seen(q) = Seen(req[h])
      BY <1>0, <1>7 DEF Pick, Seen, StageOf, Requests
    <3> QED
      BY <1>1, <1>7, <2>2, <3>1 DEF Pick, Try
  <2> QED
    BY <1>3, <1>7, <2>1, <2>2 DEF Pick, StageOf
<1>8. CASE ReadBody(h)
  <2> DEFINE q == [req[h] EXCEPT !.pc = "sending", !.unread = FALSE]
  <2>1. Seen(q) = Seen(req[h])
    BY <1>0, <1>8 DEF ReadBody, Seen, StageOf, Requests
  <2> QED
    BY <1>1, <1>8, <2>1 DEF ReadBody
<1>9. CASE ReadFails(h)
  BY <1>4, <1>5, <1>9 DEF ReadFails, Promise!Drop, Promise!Becomes, asked, StageOf
<1>10. CASE \E outcome \in {"relaying", "relayingError", "failed"} : Executed(h, outcome)
  <2>1. PICK outcome \in {"relaying", "relayingError", "failed"} : Executed(h, outcome)
    BY <1>10
  <2> DEFINE p == req[h].port
             q == [req[h] EXCEPT !.pc = outcome, !.ran = Append(@, p)]
             stage == StageOf(outcome)
  <2>2. /\ p \in up /\ p \in Ports /\ p \notin ToSet(req[h].ran) /\ req[h].pc = "sending"
        /\ req[h].ran \in Seq(Ports) /\ IsInjective(req[h].ran)
    BY <1>0, <2>1 DEF Executed, RequestOK, Requests, RouterInv, TypeOK
  <2>3. ToSet(Append(req[h].ran, p)) = ToSet(req[h].ran) \cup {p}
    BY <2>2, AppendDistinct
  <2>4. /\ Seen(q).stage = stage /\ Seen(q).client = req[h].client
        /\ Seen(q).ran = ToSet(req[h].ran) \cup {p} /\ Seen(q).reply = "none"
    BY <1>0, <2>1, <2>2, <2>3 DEF Seen, StageOf, Requests
  <2>5. req' = [req EXCEPT ![h] = q] /\ up' = up
    BY <2>1 DEF Executed
  <2> HIDE DEF q, p, stage
  <2>6. Promise!Becomes(h, stage, req[h].client, ToSet(req[h].ran) \cup {p}, "none")
    BY <1>2, <2>4, <2>5
  <2>7. StageOf("sending") = "open" /\ stage \in {"open", "served", "erred"}
    BY <2>1 DEF StageOf, stage
  <2> QED
    BY <1>5, <2>2, <2>6, <2>7 DEF Promise!Execute, asked
<1>11. CASE Relay(h)
  BY <1>4, <1>5, <1>11 DEF Relay, Promise!Relay, asked, StageOf
<1>12. CASE RelayFails(h)
  <2>1. CASE req[h].pc = "relaying"
    <3> DEFINE q == [req[h] EXCEPT !.pc = "failed"]
    <3>1. /\ Seen(q).stage = "open" /\ Seen(q).client = "gone"
          /\ Seen(q).ran = ToSet(req[h].ran) /\ Seen(q).reply = "none"
      BY <1>0, <1>12, <2>1 DEF RelayFails, Seen, StageOf, Requests
    <3>2. req' = [req EXCEPT ![h] = q] /\ up' = up
      BY <1>12, <2>1 DEF RelayFails, Go
    <3> HIDE DEF q
    <3>3. Promise!Becomes(h, "open", "gone", ToSet(req[h].ran), "none")
      BY <1>2, <3>1, <3>2
    <3> QED
      BY <1>5, <1>12, <2>1, <3>3 DEF RelayFails, Promise!Retry, asked, StageOf
  <2>2. CASE req[h].pc # "relaying"
    BY <1>4, <1>5, <1>12, <2>2 DEF RelayFails, Promise!LoseError, asked, StageOf
  <2> QED
    BY <2>1, <2>2
<1>13. CASE RespondUnavailable(h)
  BY <1>4, <1>5, <1>13 DEF RespondUnavailable, Promise!Unavailable, Promise!Drop, asked, StageOf
<1>14. CASE Finish(h)
  <2>1. /\ Seen(NoRequest).stage = "idle" /\ Seen(NoRequest).client = "waiting"
        /\ Seen(NoRequest).ran = {} /\ Seen(NoRequest).reply = "none"
    BY DEF Seen, NoRequest, StageOf, ToSet
  <2>2. Promise!Becomes(h, "idle", "waiting", {}, "none")
    BY <1>2, <1>14, <2>1 DEF Finish
  <2> QED
    BY <1>5, <1>14, <2>2 DEF Finish, Promise!Finish, asked, StageOf
<1>15. CASE ErrorBodyLost(h)
  BY <1>4, <1>5, <1>15 DEF ErrorBodyLost, Promise!LoseError, asked, StageOf
<1> QED
  BY <1>6, <1>7, <1>8, <1>9, <1>10, <1>11, <1>12, <1>13, <1>14, <1>15 DEF Serve

(* Every step of the router is allowed by AtomicProxy.                     *)
LEMMA PromiseStep ==
    ASSUME RunAs = "module", RouterInv, Unanswered, [Next]_vars
    PROVE  [Promise!Next]_<<up, asked>>
<1>0. req \in [Handlers -> Requests]
  BY DEF RouterInv, TypeOK
<1>1. CASE UNCHANGED vars \/ Discovery
  BY <1>1 DEF vars, Discovery, Probe, Publish, asked
<1>2. ASSUME NEW h \in Handlers, NEW body \in Bodies, Arrive(h, body)
      PROVE  Promise!Arrive(h)
  <2> DEFINE q == [NoRequest EXCEPT !.pc = "routing", !.body = body, !.unread = body]
  <2>1. Seen(q) = [stage |-> "open", client |-> "waiting", ran |-> {}, reply |-> "none"]
    BY DEF Seen, StageOf, NoRequest, ToSet
  <2>2. req' = [req EXCEPT ![h] = q] /\ up' = up /\ req[h].pc = "none"
    BY <1>2 DEF Arrive
  <2>3. asked' = [asked EXCEPT ![h] = Seen(q)]
    BY <1>0, <2>2, SeenStep
  <2>4. asked[h].stage = "idle"
    BY <2>2 DEF asked, Seen, StageOf
  <2> QED
    BY <2>1, <2>2, <2>3, <2>4 DEF Promise!Arrive, Promise!Becomes, asked
<1>3. ASSUME NEW h \in Handlers, Serve(h)
      PROVE  [Promise!Next]_<<up, asked>>
  BY <1>3, ServeStep DEF Promise!Next
<1>4. ASSUME NEW h \in Handlers, ClientLeaves(h)
      PROVE  Promise!ClientLeaves(h)
  <2> DEFINE q == [req[h] EXCEPT !.client = "gone"]
  <2>0. req[h] \in Requests
    BY <1>0
  <2>1. Seen(q) = [stage |-> asked[h].stage, client |-> "gone", ran |-> asked[h].ran,
                   reply |-> asked[h].reply]
    BY <2>0 DEF Seen, asked, Requests
  <2>2. req' = [req EXCEPT ![h] = q] /\ up' = up
    BY <1>4 DEF ClientLeaves
  <2>3. asked' = [asked EXCEPT ![h] = Seen(q)]
    BY <1>0, <2>2, SeenStep
  <2>4. asked[h].stage \in {"open", "served", "erred"} /\ asked[h].client = "waiting"
    BY <1>4 DEF ClientLeaves, asked, Seen, StageOf
  <2> QED
    BY <2>1, <2>2, <2>3, <2>4 DEF Promise!ClientLeaves, Promise!Becomes, asked
<1>5. ASSUME NEW p \in Ports, BackendStops(p) \/ BackendStarts(p)
      PROVE  Promise!Change(p)
  BY <1>5 DEF BackendStops, BackendStarts, Promise!Change
<1> QED
  BY <1>1, <1>2, <1>3, <1>4, <1>5 DEF Next, Promise!Next

(* Started as a module, the router keeps the promise of AtomicProxy, with  *)
(* its exception for the answer of an error that stops after its head: the *)
(* list, the cursor, the refreshes and the retries cannot be seen from     *)
(* outside.                                                                *)
THEOREM ProxyRefinement ==
    ASSUME RunAs = "module"
    PROVE  Spec => ImplementsPromise
<1>1. Init => Promise!Init
  <2> SUFFICES ASSUME Init
               PROVE  Promise!Init
    OBVIOUS
  <2>1. Seen(NoRequest) = Promise!Idle
    BY DEF Promise!Idle, Seen, NoRequest, StageOf, ToSet
  <2>2. asked = [h \in Handlers |-> Promise!Idle]
    BY <2>1 DEF Init, asked
  <2> QED
    BY <2>2 DEF Init, Promise!Init, asked
<1>2. RouterInv /\ Unanswered /\ [Next]_vars => [Promise!Next]_(Promise!vars)
  BY PromiseStep DEF Promise!vars, asked
<1> QED
  BY <1>1, <1>2, RouterInvariant, UnansweredHolds, PTL DEF Spec, ImplementsPromise, Promise!Spec
=============================================================================
