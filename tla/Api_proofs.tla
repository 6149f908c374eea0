------------------------------ MODULE Api_proofs ------------------------------
(***************************************************************************)
(* Theorems about Api, for any users, connections and requests, any token  *)
(* lifetime, any division of a second and any difference of the clocks.    *)
(***************************************************************************)
EXTENDS Api, TLAPS

(* Whole seconds of two moments k seconds apart.                           *)
LEMMA SecondsType ==
    ASSUME NEW t \in Int
    PROVE  Seconds(t) \in Int
  BY TimeAssumption DEF Seconds

LEMMA SecondsBounds ==
    ASSUME NEW t \in Int
    PROVE  /\ Seconds(t) * PerSecond <= t
           /\ t < Seconds(t) * PerSecond + PerSecond
  BY TimeAssumption DEF Seconds

LEMMA MulMonotonic ==
    ASSUME NEW a \in Int, NEW b \in Int, NEW p \in Nat, a <= b
    PROVE  a * p <= b * p
  <1>1. (b - a) * p >= 0
    OBVIOUS
  <1>2. (b - a) * p = b * p - a * p
    OBVIOUS
  <1> QED BY <1>1, <1>2

LEMMA Distributes ==
    ASSUME NEW a \in Int, NEW b \in Int, NEW p \in Int
    PROVE  (a + b) * p = a * p + b * p
  OBVIOUS

(* A token signed at moment b of the issuer's clock is accepted through    *)
(* the ttl seconds that follow b, and not a second longer.                 *)
LEMMA Lifetime ==
    ASSUME NEW b \in Int, NEW t \in Int, NEW ttl \in Nat
    PROVE  /\ t <= b + ttl * PerSecond => Seconds(t) <= Seconds(b) + ttl
           /\ Seconds(t) <= Seconds(b) + ttl => t < b + (ttl + 1) * PerSecond
  <1> DEFINE P == PerSecond
             s == Seconds(t)
             r == Seconds(b)
  <1>1. P \in Nat /\ ttl \in Nat /\ s \in Int /\ r \in Int
    BY TimeAssumption, SecondsType
  <1>2. s * P <= t /\ t < s * P + P /\ r * P <= b /\ b < r * P + P
    BY SecondsBounds
  <1>3. (ttl + 1) * P = ttl * P + P
    <2>1. 1 \in Int /\ 1 * P = P
      BY <1>1
    <2> QED BY <1>1, <2>1, Distributes
  <1>4. (r + ttl) * P = r * P + ttl * P
    BY <1>1, Distributes
  <1>5. (r + (ttl + 1)) * P = r * P + (ttl + 1) * P
    <2>1. ttl + 1 \in Int
      BY <1>1
    <2> QED BY <1>1, <2>1, Distributes
  <1>6. s * P \in Int /\ r * P \in Int /\ ttl * P \in Int /\ (r + ttl) * P \in Int
        /\ (r + (ttl + 1)) * P \in Int /\ (ttl + 1) * P \in Int
    BY <1>1
  <1>7. ASSUME t <= b + ttl * P
        PROVE  s <= r + ttl
    <2>1. SUFFICES ASSUME r + (ttl + 1) <= s
                   PROVE  FALSE
      BY <1>1
    <2>2. (r + (ttl + 1)) * P <= s * P
      <3>1. r + (ttl + 1) \in Int
        BY <1>1
      <3> QED BY <1>1, <2>1, <3>1, MulMonotonic
    <2> HIDE DEF P, s, r
    <2> QED BY <1>1, <1>2, <1>3, <1>5, <1>6, <1>7, <2>2
  <1>8. ASSUME s <= r + ttl
        PROVE  t < b + (ttl + 1) * P
    <2>1. s * P <= (r + ttl) * P
      <3>1. r + ttl \in Int
        BY <1>1
      <3> QED BY <1>1, <1>8, <3>1, MulMonotonic
    <2> HIDE DEF P, s, r
    <2> QED BY <1>1, <1>2, <1>3, <1>4, <1>6, <2>1
  <1> QED BY <1>7, <1>8

(* What a holder of a token has asked for, and the exp that it is given.   *)
LEMMA AskedType ==
    ASSUME NEW x \in Holders
    PROVE  Asked(x) \in Claims
  BY TimeAssumption, ClaimsAssumption DEF Asked, Claims, Holders

LEMMA ExpType ==
    ASSUME NEW claims \in Claims, NEW t \in Int
    PROVE  Exp(claims, t) \in Int
  <1>1. Seconds(t) \in Int
    BY SecondsType
  <1> QED BY <1>1 DEF Exp, Claims

(* Only claims that name it have the exp 0.                                *)
LEMMA ExpNotZero ==
    ASSUME NEW claims \in Claims, claims.exp = NoExp, NEW t \in Nat
    PROVE  /\ Exp(claims, t) = Seconds(t) + claims.ttl
           /\ Exp(claims, t) # 0
           /\ claims.ttl \in Nat
  <1>1. Seconds(t) \in Int /\ 0 <= Seconds(t)
    BY TimeAssumption DEF Seconds
  <1> QED BY <1>1 DEF Exp, Claims

-----------------------------------------------------------------------------
(* What the tokens that are held and that requests carry have in common:   *)
(* who has received them, the user they name, and how exp follows from the *)
(* claims and the moment of signing.                                       *)
Genuine(t, x) ==
    /\ t \in Tokens
    /\ t.to = x
    /\ t.sub = Asked(x).sub
    /\ t.exp = Exp(Asked(x), t.born + Ahead)
    /\ Start <= t.born

HeldOK ==
    /\ Start <= now
    /\ \A x \in Holders : held[x] # NoToken => Genuine(held[x], x) /\ held[x].born <= now

BearerOK ==
    \A c \in Conns :
        LET t == conn[c].q.bearer
        IN  conn[c].pc = "handling" /\ t \in Tokens =>
                /\ Genuine(t, t.to)
                /\ held[t.to] \in Tokens
                /\ t.born <= held[t.to].born

(* A login in progress is one for a user.                                  *)
LoginOK == \A c \in Conns : conn[c].pc \in {"connecting", "waiting"} => conn[c].q.user \in Users
RequestOK == \A c \in Conns : conn[c].pc = "handling" => conn[c].q.user \in Users

(* A call of ours left in the backlog is of a login that waits, or of one  *)
(* that has ended but not with 503.                                        *)
CallsOK ==
    \A n \in DOMAIN backlog :
        /\ backlog[n].conn # NoConn => backlog[n].by = "login"
        /\ backlog[n].by # "silent" => backlog[n].to \in Holders
        /\ \A c \in Conns : backlog[n].conn = c =>
               /\ conn[c].pc \in {"waiting", "over"}
               /\ conn[c].reply # "503"

SignedOK ==
    \A c \in Conns :
        /\ conn[c].reply # "none" => conn[c].pc = "over"
        /\ conn[c].signed => conn[c].pc = "over" /\ conn[c].reply # "503"

ApiInv ==
    /\ TypeOK
    /\ HeldOK
    /\ BearerOK
    /\ LoginOK
    /\ RequestOK
    /\ CallsOK
    /\ SignedOK

-----------------------------------------------------------------------------
ConnRecord == [pc : PCs, reply : Replies, signed : BOOLEAN,
               q : [method : Methods, resource : Resources, user : Users \cup {NoUser},
                    body : Bodies, bearer : Tokens \cup {NoToken, BadToken}]]

(* A step that gives one connection the record r and leaves the token      *)
(* service alone keeps the invariant, if r fits.                           *)
LEMMA OneConnection ==
    ASSUME ApiInv, NEW c \in Conns, NEW r \in ConnRecord,
           conn' = [conn EXCEPT ![c] = r], ServiceUnchanged,
           r.pc # "waiting", ~r.signed, r.reply # "none" => r.pc = "over",
           r.pc \in {"connecting", "handling"} => r.q.user \in Users,
           r.pc = "handling" /\ r.q.bearer \in Tokens =>
               /\ Genuine(r.q.bearer, r.q.bearer.to)
               /\ held[r.q.bearer.to] \in Tokens
               /\ r.q.bearer.born <= held[r.q.bearer.to].born,
           conn[c].pc \in {"waiting", "over"} => r.pc = "over" /\ r.reply # "503"
    PROVE  ApiInv'
  <1>1. /\ conn' \in [Conns -> ConnRecord]
        /\ conn'[c] = r
        /\ \A d \in Conns \ {c} : conn'[d] = conn[d]
    BY DEF ApiInv, TypeOK, ConnRecord
  <1>2. now' = now /\ up' = up /\ backlog' = backlog /\ held' = held
    BY DEF ServiceUnchanged
  <1>3. TypeOK'
    BY <1>1, <1>2 DEF ApiInv, TypeOK, ConnRecord
  <1>4. HeldOK'
    BY <1>2 DEF ApiInv, HeldOK, Genuine
  <1>5. BearerOK'
    BY <1>1, <1>2 DEF ApiInv, BearerOK, Genuine
  <1>6. LoginOK' /\ RequestOK'
    BY <1>1 DEF ApiInv, LoginOK, RequestOK
  <1>7. CallsOK'
    BY <1>1, <1>2 DEF ApiInv, CallsOK
  <1>8. SignedOK'
    BY <1>1 DEF ApiInv, SignedOK
  <1> QED BY <1>3, <1>4, <1>5, <1>6, <1>7, <1>8 DEF ApiInv

LEMMA EndedFits ==
    ASSUME NEW reply \in Replies
    PROVE  /\ Ended(reply) \in ConnRecord
           /\ Ended(reply).pc = "over" /\ Ended(reply).reply = reply
           /\ ~Ended(reply).signed
  BY DEF Ended, NoConnection, NoRequest, ConnRecord, PCs, Replies, Methods, Resources, Bodies

(* Any connection may end, but one with a call in the backlog not with 503.*)
LEMMA EndKeeps ==
    ASSUME ApiInv, NEW c \in Conns, NEW reply \in Replies,
           End(c, reply), ServiceUnchanged,
           conn[c].pc \in {"waiting", "over"} => reply # "503"
    PROVE  ApiInv'
  <1>1. conn' = [conn EXCEPT ![c] = Ended(reply)]
    BY DEF End
  <1> QED BY <1>1, EndedFits, OneConnection

LEMMA RefusalType ==
    ASSUME NEW q, NEW t
    PROVE  Refusal(q, t) \in Replies \cup {"none"}
  BY DEF Refusal, RoutingRefusal, LoginRefusal, AuthRefusal, Replies

LEMMA Conversation ==
    ASSUME ApiInv, NEW c \in Conns,
           Connect(c) \/ ReadFails(c) \/ Refuse(c) \/ RunHandler(c) \/ AskToken(c)
           \/ ConnectFails(c) \/ TimesOut(c)
    PROVE  ApiInv'
  <1> USE DEF Replies
  <1>1. CASE Connect(c)
    <2> DEFINE r == [conn[c] EXCEPT !.pc = "reading"]
    <2>1. r \in ConnRecord /\ r.pc = "reading"
          /\ r.signed = conn[c].signed /\ r.reply = conn[c].reply
      BY DEF ApiInv, TypeOK, ConnRecord, PCs
    <2>2. conn[c].pc = "idle" /\ ~conn[c].signed /\ conn[c].reply = "none"
      BY <1>1 DEF Connect, ApiInv, SignedOK
    <2>3. conn' = [conn EXCEPT ![c] = r] /\ ServiceUnchanged
      BY <1>1 DEF Connect, Go
    <2> HIDE DEF r
    <2> QED BY <2>1, <2>2, <2>3, OneConnection
  <1>2. CASE ReadFails(c)
    BY <1>2, EndKeeps DEF ReadFails
  <1>3. CASE Refuse(c)
    BY <1>3, EndKeeps, RefusalType DEF Refuse
  <1>4. CASE RunHandler(c)
    BY <1>4, EndKeeps DEF RunHandler
  <1>5. CASE AskToken(c)
    <2> DEFINE r == [conn[c] EXCEPT !.pc = "connecting"]
    <2>1. r \in ConnRecord /\ r.pc = "connecting" /\ r.q = conn[c].q
          /\ r.signed = conn[c].signed /\ r.reply = conn[c].reply
      BY DEF ApiInv, TypeOK, ConnRecord, PCs
    <2>2. conn[c].pc = "handling" /\ ~conn[c].signed /\ conn[c].q.user \in Users
          /\ conn[c].reply = "none"
      BY <1>5 DEF AskToken, ApiInv, SignedOK, RequestOK
    <2>3. conn' = [conn EXCEPT ![c] = r] /\ ServiceUnchanged
      BY <1>5 DEF AskToken, Go
    <2> HIDE DEF r
    <2> QED BY <2>1, <2>2, <2>3, OneConnection
  <1>6. CASE ConnectFails(c)
    BY <1>6, EndKeeps DEF ConnectFails
  <1>7. CASE TimesOut(c)
    BY <1>7, EndKeeps DEF TimesOut
  <1> QED BY <1>1, <1>2, <1>3, <1>4, <1>5, <1>6, <1>7

LEMMA ReadRequestKeeps ==
    ASSUME ApiInv, NEW c \in Conns, NEW q \in Requests, ReadRequest(c, q)
    PROVE  ApiInv'
  <1> DEFINE b == Bearer(q.bearer)
             r == [NoConnection EXCEPT !.pc = "handling", !.q = [q EXCEPT !.bearer = b]]
  <1>1. /\ q \in [method : Methods, resource : Resources, user : Users, body : Bodies,
                  bearer : Holders \cup {NoToken, BadToken}]
    BY RequestsAssumption
  <1>2. b \in Tokens \cup {NoToken, BadToken}
    BY <1>1 DEF Bearer, ApiInv, TypeOK
  <1>3. r \in ConnRecord /\ r.pc = "handling" /\ ~r.signed /\ r.q.user \in Users /\ r.q.bearer = b
        /\ r.reply = "none"
    <2>1. [q EXCEPT !.bearer = b] \in [method : Methods, resource : Resources,
               user : Users \cup {NoUser}, body : Bodies, bearer : Tokens \cup {NoToken, BadToken}]
          /\ [q EXCEPT !.bearer = b].user \in Users /\ [q EXCEPT !.bearer = b].bearer = b
      BY <1>1, <1>2
    <2> HIDE DEF b
    <2> QED BY <2>1 DEF NoConnection, ConnRecord, PCs, Replies
  <1>4. ASSUME b \in Tokens
        PROVE  Genuine(b, b.to) /\ held[b.to] \in Tokens /\ b.born <= held[b.to].born
    <2>1. PICK u \in Holders : b = held[u]
      BY <1>1, <1>4, TokenAssumption DEF Bearer
    <2>2. held[u] \in Tokens /\ Genuine(held[u], u)
      BY <1>4, <2>1, TokenAssumption DEF ApiInv, HeldOK
    <2>3. b.to = u /\ b.born \in Int
      BY <2>1, <2>2 DEF Genuine, Tokens
    <2> QED BY <2>1, <2>2, <2>3
  <1>5. conn[c].pc = "reading" /\ conn' = [conn EXCEPT ![c] = r] /\ ServiceUnchanged
    BY DEF ReadRequest
  <1> HIDE DEF b, r
  <1> QED BY <1>3, <1>4, <1>5, OneConnection

LEMMA AcceptedKeeps ==
    ASSUME ApiInv, NEW c \in Conns, Accepted(c)
    PROVE  ApiInv'
  <1> DEFINE k == LoginCall(c)
             r == [conn[c] EXCEPT !.pc = "waiting"]
             m == Len(backlog)
  <1>1. conn[c] \in ConnRecord /\ conn[c].pc = "connecting" /\ conn[c].q.user \in Users
        /\ ~conn[c].signed /\ conn[c].reply = "none"
    BY DEF Accepted, ApiInv, TypeOK, ConnRecord, LoginOK, SignedOK
  <1>2. k \in Calls /\ k.conn = c /\ k.by = "login" /\ k.to \in Holders
    BY <1>1 DEF LoginCall, Calls, Holders
  <1>3. /\ r \in ConnRecord /\ r.pc = "waiting" /\ r.q = conn[c].q
        /\ r.reply = conn[c].reply /\ ~r.signed
    BY <1>1 DEF ConnRecord, PCs
  <1>4. /\ conn' = [conn EXCEPT ![c] = r] /\ backlog' = Append(backlog, k)
        /\ now' = now /\ up' = up /\ held' = held /\ m < Backlog
    BY DEF Accepted, Go, Room
  <1>5. /\ backlog \in Seq(Calls) /\ m \in Nat /\ m <= Backlog
        /\ DOMAIN backlog = 1..m /\ conn \in [Conns -> ConnRecord]
    BY DEF ApiInv, TypeOK, ConnRecord
  <1> HIDE DEF k, r, m
  <1>6. /\ backlog' \in Seq(Calls) /\ Len(backlog') = m + 1 /\ DOMAIN backlog' = 1..(m + 1)
        /\ backlog'[m + 1] = k /\ \A n \in 1..m : backlog'[n] = backlog[n]
    BY <1>2, <1>4, <1>5 DEF m
  <1>7. /\ conn' \in [Conns -> ConnRecord] /\ conn'[c] = r
        /\ \A d \in Conns \ {c} : conn'[d] = conn[d]
    BY <1>3, <1>4, <1>5
  <1>8. \A d \in Conns : conn'[d].pc = "waiting" => \E n \in DOMAIN backlog' : backlog'[n].conn = d
    <2> TAKE d \in Conns
    <2>1. CASE d = c
      BY <1>2, <1>5, <1>6, <2>1
    <2>2. CASE d # c
      <3> HAVE conn'[d].pc = "waiting"
      <3>1. PICK n \in DOMAIN backlog : backlog[n].conn = d
        BY <1>7, <2>2 DEF ApiInv, TypeOK
      <3> QED BY <1>5, <1>6, <3>1
    <2> QED BY <2>1, <2>2
  <1>9. TypeOK'
    <2>1. Len(backlog') <= Backlog
      BY <1>4, <1>5, <1>6, ApiAssumption
    <2> QED BY <1>4, <1>6, <1>7, <1>8, <2>1 DEF ApiInv, TypeOK, ConnRecord
  <1>10. HeldOK'
    BY <1>4 DEF ApiInv, HeldOK, Genuine
  <1>11. BearerOK'
    BY <1>3, <1>4, <1>7 DEF ApiInv, BearerOK, Genuine
  <1>12. LoginOK' /\ RequestOK' /\ SignedOK'
    BY <1>1, <1>3, <1>7 DEF ApiInv, LoginOK, RequestOK, SignedOK
  <1>13. CallsOK'
    <2>1. ASSUME NEW n \in 1..m
          PROVE  /\ backlog'[n].conn # NoConn => backlog'[n].by = "login"
                 /\ backlog'[n].by # "silent" => backlog'[n].to \in Holders
                 /\ \A d \in Conns : backlog'[n].conn = d =>
                        conn'[d].pc \in {"waiting", "over"} /\ conn'[d].reply # "503"
      BY <1>1, <1>5, <1>6, <1>7, <2>1 DEF ApiInv, CallsOK
    <2> QED BY <1>1, <1>2, <1>3, <1>5, <1>6, <1>7, <2>1 DEF CallsOK
  <1> QED BY <1>9, <1>10, <1>11, <1>12, <1>13 DEF ApiInv

LEMMA CloseKeeps ==
    ASSUME ApiInv, NEW c \in Conns, Close(c)
    PROVE  ApiInv'
  <1> DEFINE m == Len(backlog)
             Orphan(k) == IF k.conn = c THEN [k EXCEPT !.conn = NoConn] ELSE k
  <1>1. /\ backlog \in Seq(Calls) /\ m \in Nat /\ m <= Backlog
        /\ DOMAIN backlog = 1..m /\ \A n \in 1..m : backlog[n] \in Calls
    BY DEF ApiInv, TypeOK
  <1>2. \A k \in Calls : /\ Orphan(k) \in Calls
                         /\ Orphan(k).by = k.by /\ Orphan(k).to = k.to
                         /\ Orphan(k).conn = IF k.conn = c THEN NoConn ELSE k.conn
    BY DEF Calls
  <1>3. /\ backlog' = [n \in 1..m |-> Orphan(backlog[n])]
        /\ conn' = [conn EXCEPT ![c] = NoConnection]
        /\ now' = now /\ up' = up /\ held' = held
    BY <1>1 DEF Close
  <1> HIDE DEF m, Orphan
  <1>4. /\ backlog' \in Seq(Calls) /\ Len(backlog') = m /\ DOMAIN backlog' = 1..m
        /\ \A n \in 1..m : backlog'[n] = Orphan(backlog[n])
    BY <1>1, <1>2, <1>3
  <1>5. NoConnection \in ConnRecord /\ NoConnection.pc = "idle" /\ ~NoConnection.signed
        /\ NoConnection.reply = "none"
    BY DEF NoConnection, NoRequest, ConnRecord, PCs, Replies, Methods, Resources, Bodies
  <1>6. /\ conn' \in [Conns -> ConnRecord] /\ conn'[c] = NoConnection
        /\ \A d \in Conns \ {c} : conn'[d] = conn[d]
    BY <1>3, <1>5 DEF ApiInv, TypeOK, ConnRecord
  <1>7. \A d \in Conns : conn'[d].pc = "waiting" => \E n \in DOMAIN backlog' : backlog'[n].conn = d
    <2> TAKE d \in Conns
    <2> HAVE conn'[d].pc = "waiting"
    <2>1. d # c /\ conn[d].pc = "waiting"
      BY <1>5, <1>6
    <2>2. PICK n \in 1..m : backlog[n].conn = d
      BY <1>1, <2>1 DEF ApiInv, TypeOK
    <2> QED BY <1>1, <1>2, <1>4, <2>1, <2>2
  <1>8. TypeOK'
    BY <1>1, <1>3, <1>4, <1>6, <1>7 DEF ApiInv, TypeOK, ConnRecord
  <1>9. HeldOK'
    BY <1>3 DEF ApiInv, HeldOK, Genuine
  <1>10. BearerOK'
    BY <1>3, <1>5, <1>6 DEF ApiInv, BearerOK, Genuine
  <1>11. LoginOK' /\ RequestOK' /\ SignedOK'
    BY <1>5, <1>6 DEF ApiInv, LoginOK, RequestOK, SignedOK
  <1>12. CallsOK'
    <2> SUFFICES ASSUME NEW n \in 1..m
                 PROVE  /\ backlog'[n].conn # NoConn => backlog'[n].by = "login"
                        /\ backlog'[n].by # "silent" => backlog'[n].to \in Holders
                        /\ \A d \in Conns : backlog'[n].conn = d =>
                               conn'[d].pc \in {"waiting", "over"} /\ conn'[d].reply # "503"
      BY <1>4 DEF CallsOK
    <2>1. /\ backlog[n].conn # NoConn => backlog[n].by = "login"
          /\ backlog[n].by # "silent" => backlog[n].to \in Holders
          /\ \A d \in Conns : backlog[n].conn = d =>
                 conn[d].pc \in {"waiting", "over"} /\ conn[d].reply # "503"
      BY <1>1 DEF ApiInv, CallsOK
    <2> QED BY <1>1, <1>2, <1>4, <1>6, <2>1, ApiAssumption
  <1> QED BY <1>8, <1>9, <1>10, <1>11, <1>12 DEF ApiInv

(* The first call of the backlog, and those behind it.                     *)
LEMMA Queue ==
    ASSUME TypeOK, backlog # <<>>, backlog' = Tail(backlog)
    PROVE  /\ Head(backlog) = backlog[1] /\ backlog[1] \in Calls /\ 1 \in DOMAIN backlog
           /\ backlog' \in Seq(Calls) /\ Len(backlog') <= Backlog
           /\ \A n \in DOMAIN backlog' :
                  n + 1 \in DOMAIN backlog /\ backlog'[n] = backlog[n + 1]
           /\ \A n \in DOMAIN backlog : n # 1 =>
                  n - 1 \in DOMAIN backlog' /\ backlog'[n - 1] = backlog[n]
  <1> DEFINE m == Len(backlog)
  <1>1. backlog \in Seq(Calls) /\ m \in Nat /\ m <= Backlog /\ DOMAIN backlog = 1..m /\ m >= 1
    BY DEF TypeOK
  <1>2. /\ backlog' \in Seq(Calls) /\ Len(backlog') = m - 1 /\ DOMAIN backlog' = 1..(m - 1)
        /\ \A n \in 1..(m - 1) : backlog'[n] = backlog[n + 1]
    BY <1>1
  <1> QED BY <1>1, <1>2, ApiAssumption

LEMMA SilentLeavesKeeps ==
    ASSUME ApiInv, SilentLeaves
    PROVE  ApiInv'
  <1>1. /\ backlog # <<>> /\ Head(backlog).by = "silent" /\ backlog' = Tail(backlog)
        /\ now' = now /\ conn' = conn /\ up' = up /\ held' = held /\ TypeOK
    BY DEF SilentLeaves, ApiInv
  <1>2. backlog[1].conn \notin Conns
    BY <1>1, Queue, ApiAssumption DEF ApiInv, CallsOK
  <1>3. TypeOK'
    <2>1. \A c \in Conns : conn'[c].pc = "waiting" => \E n \in DOMAIN backlog' : backlog'[n].conn = c
      <3> TAKE c \in Conns
      <3> HAVE conn'[c].pc = "waiting"
      <3>1. PICK n \in DOMAIN backlog : backlog[n].conn = c
        BY <1>1 DEF TypeOK
      <3> QED BY <1>1, <1>2, <3>1, Queue
    <2> QED BY <1>1, <2>1, Queue DEF TypeOK
  <1>4. HeldOK' /\ BearerOK' /\ LoginOK' /\ RequestOK' /\ SignedOK'
    BY <1>1 DEF ApiInv, HeldOK, BearerOK, Genuine, LoginOK, RequestOK, SignedOK
  <1>5. CallsOK'
    BY <1>1, Queue DEF ApiInv, CallsOK
  <1> QED BY <1>3, <1>4, <1>5 DEF ApiInv

(* The token service answers its first call, or signs for nobody.          *)
LEMMA IssueKeeps ==
    ASSUME ApiInv, Issue
    PROVE  ApiInv'
  <1> DEFINE k == Head(backlog)
  <1>0. PICK heard \in Hears(k) :
            /\ held' = IF heard THEN [held EXCEPT ![k.to] = Signed(k.to, now)] ELSE held
            /\ conn' = [c \in Conns |->
                            IF c # k.conn THEN conn[c]
                            ELSE IF heard THEN [Ended("200") EXCEPT !.signed = TRUE]
                            ELSE [conn[c] EXCEPT !.signed = TRUE]]
    BY DEF Issue
  <1> DEFINE t == Signed(k.to, now)
             After(c) == IF heard THEN [Ended("200") EXCEPT !.signed = TRUE]
                         ELSE [conn[c] EXCEPT !.signed = TRUE]
  <1>1. /\ backlog # <<>> /\ backlog' = Tail(backlog) /\ now' = now /\ up' = up /\ TypeOK
        /\ k.by # "silent"
        /\ held' = IF heard THEN [held EXCEPT ![k.to] = t] ELSE held
        /\ conn' = [c \in Conns |-> IF c # k.conn THEN conn[c] ELSE After(c)]
    BY <1>0 DEF Issue, ApiInv
  <1>2. k = backlog[1] /\ k \in Calls /\ k.conn \in Conns \cup {NoConn} /\ now \in Nat
    BY <1>1, Queue DEF Calls, TypeOK
  <1>3. k.conn \in Conns => /\ k.by = "login"
                            /\ conn[k.conn].pc \in {"waiting", "over"}
                            /\ conn[k.conn].reply # "503"
    BY <1>1, <1>2, Queue, ApiAssumption DEF ApiInv, CallsOK
  <1>4. /\ k.to \in Holders
        /\ k.conn \in Conns => heard = (conn[k.conn].pc = "waiting")
    <2>1. k.to \in Holders
      BY <1>1, <1>2, Queue DEF ApiInv, CallsOK
    <2>2. k.conn \in Conns => heard = (conn[k.conn].pc = "waiting")
      BY <1>0, <1>3, ApiAssumption DEF Hears
    <2> QED BY <2>1, <2>2
  <1>5. Genuine(t, k.to) /\ t.born = now /\ t \in Tokens
    <2>1. now + Ahead \in Int
      BY <1>2, TimeAssumption
    <2>2. Asked(k.to).sub \in Users \cup {NoUser} /\ Exp(Asked(k.to), now + Ahead) \in Int
      BY <1>4, <2>1, AskedType, ExpType DEF Claims
    <2>3. Start <= now
      BY DEF ApiInv, HeldOK
    <2> QED BY <1>2, <1>4, <2>2, <2>3 DEF Signed, Genuine, Tokens
  <1>6. \A c \in Conns : c = k.conn =>
            /\ After(c) \in ConnRecord
            /\ After(c).pc = "over" /\ After(c).reply # "503"
    <2>1. Ended("200") \in ConnRecord /\ Ended("200").pc = "over" /\ Ended("200").reply = "200"
      BY EndedFits DEF Replies
    <2>2. conn \in [Conns -> ConnRecord]
      BY <1>1 DEF TypeOK, ConnRecord
    <2> HIDE DEF k
    <2>3. ASSUME NEW c \in Conns, c = k.conn, heard
          PROVE  After(c) \in ConnRecord /\ After(c).pc = "over" /\ After(c).reply # "503"
      BY <2>1, <2>3 DEF ConnRecord
    <2>4. ASSUME NEW c \in Conns, c = k.conn, ~heard
          PROVE  After(c) \in ConnRecord /\ After(c).pc = "over" /\ After(c).reply # "503"
      <3>1. conn[c].pc = "over" /\ conn[c].reply # "503" /\ conn[c] \in ConnRecord
        BY <1>3, <1>4, <2>2, <2>4, ApiAssumption
      <3> QED BY <2>4, <3>1 DEF ConnRecord
    <2> QED BY <2>3, <2>4
  <1> HIDE DEF k, After, t
  <1>7. /\ conn' \in [Conns -> ConnRecord]
        /\ \A c \in Conns : c # k.conn => conn'[c] = conn[c]
        /\ \A c \in Conns : c = k.conn => conn'[c].pc = "over" /\ conn'[c].reply # "503"
    BY <1>1, <1>6 DEF TypeOK, ConnRecord
  <1>8. /\ held' \in [Holders -> Tokens \cup {NoToken}]
        /\ \A x \in Holders : held'[x] = held[x] \/ (held'[x] = t /\ x = k.to)
    BY <1>1, <1>4, <1>5 DEF TypeOK
  <1>9. TypeOK'
    <2>1. \A c \in Conns : conn'[c].pc = "waiting" => \E n \in DOMAIN backlog' : backlog'[n].conn = c
      <3> TAKE c \in Conns
      <3> HAVE conn'[c].pc = "waiting"
      <3>1. c # k.conn /\ conn[c].pc = "waiting"
        BY <1>7
      <3>2. PICK n \in DOMAIN backlog : backlog[n].conn = c
        BY <1>1, <3>1 DEF TypeOK
      <3> QED BY <1>1, <1>2, <3>1, <3>2, Queue
    <2>2. backlog' \in Seq(Calls) /\ Len(backlog') <= Backlog
      BY <1>1, Queue
    <2> QED BY <1>1, <1>7, <1>8, <2>1, <2>2 DEF TypeOK, ConnRecord
  <1>10. HeldOK'
    BY <1>1, <1>2, <1>5, <1>8 DEF ApiInv, HeldOK, Genuine
  <1>11. BearerOK'
    <2> SUFFICES ASSUME NEW c \in Conns, conn'[c].pc = "handling", conn'[c].q.bearer \in Tokens
                 PROVE  /\ Genuine(conn'[c].q.bearer, conn'[c].q.bearer.to)
                        /\ held'[conn'[c].q.bearer.to] \in Tokens
                        /\ conn'[c].q.bearer.born <= held'[conn'[c].q.bearer.to].born
      BY DEF BearerOK, Genuine
    <2> DEFINE b == conn[c].q.bearer
    <2>1. conn'[c] = conn[c] /\ b \in Tokens
      BY <1>7
    <2>2. Genuine(b, b.to) /\ held[b.to] \in Tokens /\ b.born <= held[b.to].born
      BY <2>1 DEF ApiInv, BearerOK
    <2>3. b.to \in Holders /\ b.born \in Int
      BY <2>1 DEF Tokens
    <2>4. held[b.to].born <= now /\ held[b.to].born \in Int
      BY <2>2, <2>3, TokenAssumption DEF ApiInv, HeldOK, Tokens
    <2> HIDE DEF b
    <2>5. held'[b.to] \in Tokens /\ b.born <= held'[b.to].born
      BY <1>2, <1>5, <1>8, <2>2, <2>3, <2>4
    <2> QED BY <2>1, <2>2, <2>5 DEF b
  <1>12. LoginOK' /\ RequestOK'
    BY <1>7 DEF ApiInv, LoginOK, RequestOK
  <1>13. SignedOK'
    BY <1>7 DEF ApiInv, SignedOK
  <1>14. CallsOK'
    <2> SUFFICES ASSUME NEW n \in DOMAIN backlog'
                 PROVE  /\ backlog'[n].conn # NoConn => backlog'[n].by = "login"
                        /\ backlog'[n].by # "silent" => backlog'[n].to \in Holders
                        /\ \A c \in Conns : backlog'[n].conn = c =>
                               conn'[c].pc \in {"waiting", "over"} /\ conn'[c].reply # "503"
      BY DEF CallsOK
    <2>1. n + 1 \in DOMAIN backlog /\ backlog'[n] = backlog[n + 1]
      BY <1>1, Queue
    <2> QED BY <1>7, <2>1 DEF ApiInv, CallsOK
  <1> QED BY <1>9, <1>10, <1>11, <1>12, <1>13, <1>14 DEF ApiInv

LEMMA OtherCallsKeep ==
    ASSUME ApiInv, OtherCalls
    PROVE  ApiInv'
  <1> DEFINE m == Len(backlog)
  <1>1. PICK k \in {ConsumerCall(x) : x \in Consumers} \cup {SilentCall} :
            backlog' = Append(backlog, k)
    BY DEF OtherCalls
  <1>2. /\ now' = now /\ conn' = conn /\ up' = up /\ held' = held /\ m < Backlog
    BY DEF OtherCalls, Room
  <1>3. k \in Calls /\ k.conn = NoConn /\ (k.by # "silent" => k.to \in Holders)
    BY DEF ConsumerCall, SilentCall, Calls, Holders
  <1>4. backlog \in Seq(Calls) /\ m \in Nat /\ DOMAIN backlog = 1..m /\ TypeOK
    BY DEF ApiInv, TypeOK
  <1>5. /\ backlog' \in Seq(Calls) /\ Len(backlog') = m + 1 /\ DOMAIN backlog' = 1..(m + 1)
        /\ backlog'[m + 1] = k /\ \A n \in 1..m : backlog'[n] = backlog[n]
    BY <1>1, <1>3, <1>4
  <1> HIDE DEF m
  <1>6. TypeOK'
    <2>1. Len(backlog') <= Backlog
      BY <1>2, <1>4, <1>5, ApiAssumption
    <2>2. \A c \in Conns : conn'[c].pc = "waiting" => \E n \in DOMAIN backlog' : backlog'[n].conn = c
      <3> TAKE c \in Conns
      <3> HAVE conn'[c].pc = "waiting"
      <3>1. PICK n \in 1..m : backlog[n].conn = c
        BY <1>2, <1>4 DEF TypeOK
      <3> QED BY <1>4, <1>5, <3>1
    <2> QED BY <1>2, <1>4, <1>5, <2>1, <2>2 DEF TypeOK
  <1>7. HeldOK' /\ BearerOK' /\ LoginOK' /\ RequestOK' /\ SignedOK'
    BY <1>2 DEF ApiInv, HeldOK, BearerOK, Genuine, LoginOK, RequestOK, SignedOK
  <1>8. CallsOK'
    <2> SUFFICES ASSUME NEW n \in 1..(m + 1)
                 PROVE  /\ backlog'[n].conn # NoConn => backlog'[n].by = "login"
                        /\ backlog'[n].by # "silent" => backlog'[n].to \in Holders
                        /\ \A c \in Conns : backlog'[n].conn = c =>
                               conn'[c].pc \in {"waiting", "over"} /\ conn'[c].reply # "503"
      BY <1>5 DEF CallsOK
    <2>1. CASE n = m + 1
      BY <1>3, <1>5, <2>1, ApiAssumption
    <2>2. CASE n \in 1..m
      BY <1>2, <1>4, <1>5, <2>2 DEF ApiInv, CallsOK
    <2> QED BY <1>4, <2>1, <2>2
  <1> QED BY <1>6, <1>7, <1>8 DEF ApiInv

LEMMA ServiceStopsKeeps ==
    ASSUME ApiInv, ServiceStops
    PROVE  ApiInv'
  <1>1. /\ up' = FALSE /\ backlog' = <<>> /\ now' = now /\ held' = held
        /\ conn' = [c \in Conns |-> IF conn[c].pc = "waiting" THEN Ended("500") ELSE conn[c]]
    BY DEF ServiceStops
  <1>2. conn \in [Conns -> ConnRecord] /\ Backlog \in Nat
    BY ApiAssumption DEF ApiInv, TypeOK, ConnRecord
  <1>3. /\ Ended("500") \in ConnRecord /\ Ended("500").pc = "over"
        /\ Ended("500").reply = "500" /\ ~Ended("500").signed
    BY EndedFits DEF Replies
  <1>4. conn' \in [Conns -> ConnRecord]
    BY <1>1, <1>2, <1>3
  <1>5. \A c \in Conns : conn'[c] = Ended("500") \/ (conn'[c] = conn[c] /\ conn[c].pc # "waiting")
    BY <1>1
  <1>6. TypeOK'
    <2>1. backlog' \in Seq(Calls) /\ Len(backlog') <= Backlog
      BY <1>1, <1>2
    <2>2. \A c \in Conns : conn'[c].pc # "waiting"
      BY <1>3, <1>5
    <2>3. now' \in Nat /\ up' \in BOOLEAN /\ held' \in [Holders -> Tokens \cup {NoToken}]
      BY <1>1 DEF ApiInv, TypeOK
    <2> QED BY <1>4, <2>1, <2>2, <2>3 DEF TypeOK, ConnRecord
  <1>7. HeldOK'
    BY <1>1 DEF ApiInv, HeldOK, Genuine
  <1>8. BearerOK'
    BY <1>1, <1>3, <1>5 DEF ApiInv, BearerOK, Genuine
  <1>9. LoginOK' /\ RequestOK' /\ SignedOK'
    BY <1>3, <1>5 DEF ApiInv, LoginOK, RequestOK, SignedOK
  <1>10. CallsOK'
    BY <1>1 DEF CallsOK
  <1> QED BY <1>6, <1>7, <1>8, <1>9, <1>10 DEF ApiInv

LEMMA ClockKeeps ==
    ASSUME ApiInv, Tick \/ ServiceStarts \/ UNCHANGED vars
    PROVE  ApiInv'
  <1>1. /\ conn' = conn /\ backlog' = backlog /\ held' = held
        /\ up' \in BOOLEAN /\ now' \in Nat /\ now' >= now /\ now \in Nat
    <2>1. now \in Nat /\ up \in BOOLEAN
      BY DEF ApiInv, TypeOK
    <2>2. CASE Tick
      BY <2>1, <2>2 DEF Tick
    <2>3. CASE ServiceStarts
      BY <2>1, <2>3 DEF ServiceStarts
    <2>4. CASE UNCHANGED vars
      BY <2>1, <2>4 DEF vars
    <2> QED BY <2>2, <2>3, <2>4
  <1>2. TypeOK'
    BY <1>1 DEF ApiInv, TypeOK
  <1>3. HeldOK'
    <2>1. Start <= now'
      BY <1>1, ApiAssumption DEF ApiInv, HeldOK
    <2>2. ASSUME NEW x \in Holders, held'[x] # NoToken
          PROVE  Genuine(held'[x], x) /\ held'[x].born <= now'
      <3>1. Genuine(held[x], x) /\ held[x].born <= now /\ held[x].born \in Int
        BY <1>1, <2>2 DEF ApiInv, HeldOK, Genuine, Tokens
      <3> QED BY <1>1, <3>1
    <2> QED BY <2>1, <2>2 DEF HeldOK, Genuine
  <1>4. BearerOK' /\ LoginOK' /\ RequestOK' /\ CallsOK' /\ SignedOK'
    BY <1>1 DEF ApiInv, BearerOK, Genuine, LoginOK, RequestOK, CallsOK, SignedOK
  <1> QED BY <1>2, <1>3, <1>4 DEF ApiInv

-----------------------------------------------------------------------------
(* What a step may answer a request in the chain of handlers.              *)
LEMMA HandlingReplies ==
    ASSUME ApiInv, [Next]_vars, NEW c \in Conns,
           conn[c].pc = "handling", conn[c].reply = "none"
    PROVE  \/ conn'[c].reply = "none"
           \/ conn'[c].reply = "handler" /\ Refusal(conn[c].q, now) = "none"
           \/ conn'[c].reply = Refusal(conn[c].q, now) /\ Refusal(conn[c].q, now) # "none"
  <1> DEFINE Fits == \/ conn'[c].reply = "none"
                     \/ conn'[c].reply = "handler" /\ Refusal(conn[c].q, now) = "none"
                     \/ conn'[c].reply = Refusal(conn[c].q, now)
                        /\ Refusal(conn[c].q, now) # "none"
  <1>1. conn \in [Conns -> ConnRecord]
    BY DEF ApiInv, TypeOK, ConnRecord
  <1>2. ASSUME NEW d \in Conns, d # c, NEW r, conn' = [conn EXCEPT ![d] = r]
        PROVE  Fits
    BY <1>1, <1>2
  <1>3. ASSUME NEW d \in Conns,
               Connect(d) \/ (\E q \in Requests : ReadRequest(d, q)) \/ Work(d), d # c
        PROVE  Fits
    BY <1>2, <1>3 DEF Connect, ReadRequest, Work, ReadFails, Refuse, RunHandler, AskToken,
       Accepted, ConnectFails, TimesOut, Close, Go, End
  <1>4. ASSUME Connect(c) \/ (\E q \in Requests : ReadRequest(c, q)) \/ Work(c)
        PROVE  Fits
    <2>1. Refuse(c) \/ RunHandler(c) \/ AskToken(c)
      BY <1>4 DEF Connect, ReadRequest, Work, ReadFails, Accepted, ConnectFails, TimesOut, Close
    <2>2. CASE Refuse(c)
      <3>1. conn'[c] = Ended(Refusal(conn[c].q, now)) /\ Refusal(conn[c].q, now) # "none"
        BY <1>1, <2>2 DEF Refuse, End
      <3> QED BY <3>1, RefusalType, EndedFits
    <2>3. CASE RunHandler(c)
      <3>1. conn'[c] = Ended("handler") /\ Refusal(conn[c].q, now) = "none"
        BY <1>1, <2>3 DEF RunHandler, End
      <3> QED BY <3>1, EndedFits DEF Replies
    <2>4. CASE AskToken(c)
      BY <1>1, <2>4 DEF AskToken, Go, ConnRecord
    <2> QED BY <2>1, <2>2, <2>3, <2>4
  <1>5. CASE Issue
    <2>1. Head(backlog).conn # c
      BY <1>5, Queue DEF Issue, ApiInv, CallsOK
    <2> QED BY <1>5, <2>1 DEF Issue
  <1>6. CASE ServiceStops
    BY <1>6 DEF ServiceStops
  <1>7. CASE OtherCalls \/ SilentLeaves \/ ServiceStarts \/ Tick \/ UNCHANGED vars
    BY <1>7 DEF OtherCalls, SilentLeaves, ServiceStarts, Tick, vars
  <1> QED BY <1>3, <1>4, <1>5, <1>6, <1>7 DEF Next

(* A route's handler runs only for a request the chain does not refuse.    *)
LEMMA HandlerRuns ==
    ASSUME ApiInv, [Next]_vars, NEW c \in Conns,
           conn[c].pc = "handling", conn[c].reply = "none", conn'[c].reply = "handler"
    PROVE  Refusal(conn[c].q, now) = "none"
  <1>1. Refusal(conn[c].q, now) # "handler"
    BY DEF Refusal, RoutingRefusal, LoginRefusal, AuthRefusal
  <1> QED BY <1>1, HandlingReplies

LEMMA ApiStep ==
    ASSUME ApiInv, [Next]_vars
    PROVE  ApiInv'
  <1>1. CASE \E c \in Conns : Connect(c) \/ (\E q \in Requests : ReadRequest(c, q)) \/ Work(c)
    <2>1. PICK c \in Conns : Connect(c) \/ (\E q \in Requests : ReadRequest(c, q)) \/ Work(c)
      BY <1>1
    <2>2. CASE \E q \in Requests : ReadRequest(c, q)
      BY <2>2, ReadRequestKeeps
    <2>3. CASE Connect(c) \/ Work(c)
      BY <2>3, Conversation, AcceptedKeeps, CloseKeeps DEF Work
    <2> QED BY <2>1, <2>2, <2>3
  <1>2. CASE Issue \/ OtherCalls \/ SilentLeaves
    BY <1>2, IssueKeeps, OtherCallsKeep, SilentLeavesKeeps
  <1>3. CASE ServiceStops \/ ServiceStarts \/ Tick \/ UNCHANGED vars
    BY <1>3, ServiceStopsKeeps, ClockKeeps
  <1> QED BY <1>1, <1>2, <1>3 DEF Next

THEOREM ApiInvariant == Spec => []ApiInv
  <1>1. Init => ApiInv
    <2> SUFFICES ASSUME Init
                 PROVE  ApiInv
      OBVIOUS
    <2>1. NoConnection \in ConnRecord /\ NoConnection.pc = "idle" /\ ~NoConnection.signed
          /\ NoConnection.reply = "none"
      BY DEF NoConnection, NoRequest, ConnRecord, PCs, Replies, Methods, Resources, Bodies
    <2>2. backlog \in Seq(Calls) /\ Len(backlog) <= Backlog /\ DOMAIN backlog = {}
      BY ApiAssumption DEF Init
    <2>3. \A c \in Conns : conn[c] = NoConnection
      BY DEF Init
    <2>4. TypeOK
      BY <2>1, <2>2, <2>3, ApiAssumption DEF Init, TypeOK, ConnRecord
    <2>5. HeldOK /\ BearerOK
      BY <2>1, <2>3, ApiAssumption DEF Init, HeldOK, BearerOK
    <2>6. LoginOK /\ RequestOK /\ CallsOK /\ SignedOK
      BY <2>1, <2>2, <2>3 DEF LoginOK, RequestOK, CallsOK, SignedOK
    <2> QED BY <2>4, <2>5, <2>6 DEF ApiInv
  <1> QED BY <1>1, ApiStep, PTL DEF Spec

(* Connections, tokens and calls keep their types, and a connection that   *)
(* waits for a token has its call in the backlog.                          *)
THEOREM ApiTypeCorrect == Spec => []TypeOK
  <1>1. ApiInv => TypeOK
    BY DEF ApiInv
  <1> QED BY <1>1, ApiInvariant, PTL

(* A login answered with 503 has had no token signed: it is safe to repeat.*)
THEOREM UnavailableMeansUnsignedHolds == Spec => []UnavailableMeansUnsigned
  <1>1. ApiInv => UnavailableMeansUnsigned
    BY DEF ApiInv, SignedOK, UnavailableMeansUnsigned
  <1> QED BY <1>1, ApiInvariant, PTL

(* A use case runs for a user only under a token that was signed in answer *)
(* to a call, of a login or of any consumer, that named this user, and not *)
(* past the time that call asked for, whatever clocks and claims are.      *)
THEOREM ActsOnSignedTokenHolds == Spec => ActsOnSignedToken
  <1> DEFINE Acts(c) ==
                 LET t == conn[c].q.bearer
                     ask == Asked(t.to)
                 IN  /\ t \in Tokens
                     /\ ask.sub = conn[c].q.user
                     /\ held[t.to] \in Tokens
                     /\ t.born <= held[t.to].born
                     /\ IF ask.exp = NoExp
                        THEN now - t.born < (ask.ttl + 1) * PerSecond + Ahead
                        ELSE ask.exp = 0 \/ Seconds(now) <= ask.exp
  <1>1. ASSUME ApiInv, [Next]_vars, NEW c \in Conns, Runs(c), conn[c].q.resource \in Protected
        PROVE  Acts(c)
    <2> DEFINE q == conn[c].q
               b == q.bearer
               ask == Asked(b.to)
    <2>1. conn[c].pc = "handling" /\ conn[c].reply = "none" /\ conn'[c].reply = "handler"
      BY <1>1 DEF Runs, ApiInv, SignedOK
    <2>2. Refusal(q, now) = "none"
      BY <1>1, <2>1, HandlerRuns
    <2>3. Verified(b, now) /\ b.sub = q.user
      BY <1>1, <2>2 DEF Refusal, RoutingRefusal, AuthRefusal, SameUser, Protected, Routes
    <2>4. b \in Tokens /\ (b.exp = 0 \/ Seconds(now) <= b.exp)
      <3>1. now \in Int
        BY <1>1 DEF ApiInv, TypeOK
      <3>2. b \in Tokens /\ b.exp \in Int /\ Seconds(now) \in Int
        BY <2>3, <3>1, SecondsType DEF Verified, Tokens
      <3> QED BY <2>3, <3>2 DEF Verified, Expired
    <2>5. Genuine(b, b.to) /\ held[b.to] \in Tokens /\ b.born <= held[b.to].born
      BY <1>1, <2>1, <2>4 DEF ApiInv, BearerOK
    <2>6. ask \in Claims /\ ask.sub = q.user /\ b.exp = Exp(ask, b.born + Ahead)
      BY <2>3, <2>4, <2>5, AskedType DEF Genuine, Tokens
    <2>7. ASSUME ask.exp = NoExp
          PROVE  now - b.born < (ask.ttl + 1) * PerSecond + Ahead
      <3>1. b.born \in Int /\ now \in Int /\ Ahead \in Int /\ b.born + Ahead \in Nat
        BY <1>1, <2>4, <2>5, TimeAssumption, ApiAssumption DEF Genuine, Tokens, ApiInv, TypeOK
      <3>2. /\ b.exp = Seconds(b.born + Ahead) + ask.ttl
            /\ b.exp # 0
            /\ ask.ttl \in Nat
        BY <2>6, <2>7, <3>1, ExpNotZero
      <3> HIDE DEF ask, b, q
      <3>3. now < (b.born + Ahead) + (ask.ttl + 1) * PerSecond
        BY <2>4, <3>1, <3>2, Lifetime
      <3>4. (ask.ttl + 1) * PerSecond \in Int
        BY <3>2, TimeAssumption
      <3> QED BY <3>1, <3>3, <3>4
    <2>8. ASSUME ask.exp # NoExp
          PROVE  ask.exp = 0 \/ Seconds(now) <= ask.exp
      BY <2>4, <2>6, <2>8 DEF Exp
    <2> QED BY <2>4, <2>5, <2>6, <2>7, <2>8
  <1>2. ApiInv /\ [Next]_vars =>
            \A c \in Conns : Runs(c) /\ conn[c].q.resource \in Protected => Acts(c)
    BY <1>1
  <1> QED BY <1>2, ApiInvariant, PTL DEF Spec, ActsOnSignedToken

(* No token is refused before the time its call asked for is over,         *)
(* whatever the fraction of the second in which it was signed.             *)
THEOREM TokenLastsTTLHolds == Spec => TokenLastsTTL
  <1> DEFINE Young(c) ==
                 LET q == conn[c].q
                     ask == Asked(q.bearer.to)
                 IN  /\ conn[c].pc = "handling"
                     /\ q.resource \in Protected
                     /\ q.bearer \in Tokens
                     /\ ask.sub = q.user
                     /\ IF ask.exp = NoExp
                        THEN now - q.bearer.born <= ask.ttl * PerSecond + Ahead
                        ELSE ask.exp = 0 \/ Seconds(now) <= ask.exp
  <1>1. ASSUME ApiInv, [Next]_vars, NEW c \in Conns, Young(c)
        PROVE  conn'[c].reply \notin {"401", "403"}
    <2> DEFINE q == conn[c].q
               b == q.bearer
               ask == Asked(b.to)
    <2>1. conn[c].pc = "handling" /\ conn[c].reply = "none" /\ b \in Tokens
      BY <1>1 DEF ApiInv, SignedOK
    <2>2. /\ b.sub = ask.sub /\ b.exp = Exp(ask, b.born + Ahead) /\ Start <= b.born
          /\ b.born \in Int /\ b.exp \in Int /\ now \in Int /\ Ahead \in Int /\ ask \in Claims
      BY <1>1, <2>1, TimeAssumption, AskedType DEF ApiInv, BearerOK, Genuine, Tokens, TypeOK
    <2>3. Seconds(now) \in Int
      BY <2>2, SecondsType
    <2>4. ASSUME ask.exp = NoExp
          PROVE  Seconds(now) <= b.exp
      <3>1. b.born + Ahead \in Nat
        BY <2>2, ApiAssumption
      <3>2. b.exp = Seconds(b.born + Ahead) + ask.ttl /\ ask.ttl \in Nat
        BY <2>2, <2>4, <3>1, ExpNotZero
      <3>3. now - b.born <= ask.ttl * PerSecond + Ahead
        BY <1>1, <2>4
      <3> HIDE DEF ask, b, q
      <3>4. ask.ttl * PerSecond \in Int
        BY <3>2, TimeAssumption
      <3>5. now <= (b.born + Ahead) + ask.ttl * PerSecond
        BY <2>2, <3>3, <3>4
      <3> QED BY <2>2, <3>1, <3>2, <3>5, Lifetime
    <2>5. ASSUME ask.exp # NoExp
          PROVE  b.exp = 0 \/ Seconds(now) <= b.exp
      BY <1>1, <2>2, <2>5 DEF Exp
    <2>6. Verified(b, now)
      BY <2>1, <2>2, <2>3, <2>4, <2>5 DEF Verified, Expired
    <2>7. b.sub = q.user
      BY <1>1, <2>2
    <2>8. Refusal(q, now) \notin {"401", "403"}
      BY <1>1, <2>6, <2>7 DEF Refusal, RoutingRefusal, AuthRefusal, SameUser, Protected, Routes
    <2> QED BY <1>1, <2>1, <2>8, HandlingReplies
  <1>2. ApiInv /\ [Next]_vars =>
            \A c \in Conns : Young(c) => conn'[c].reply \notin {"401", "403"}
    BY <1>1
  <1> QED BY <1>2, ApiInvariant, PTL DEF Spec, TokenLastsTTL
=============================================================================
