# Formal model of Capitalia, its router and its neighbours

The repository holds a subscription service in Python (`capitalia/`), a reverse
proxy that spreads requests over its instances (`router/`), a token service
(`jwt_service/`) and a purchase-request service in C# (`CsharpRequest/`) that
asks Capitalia for decisions. This directory models the parts in which
concurrency, failures and order decide whether the code is right, checks them
with TLC on small instances and proves the main results with TLAPS for every
value of the constants. `PROJECT.json` lists the runs, the source lines each
definition stands for, the hazards and the theorems.

## 1. Inventory

| Part | State | Operations | What is hard | Properties that make it right |
| --- | --- | --- | --- | --- |
| Subscription domain (`domain/user_states.py`, `models.py`) | a user row: plan, status, start date | upgrade, downgrade, suspend, reactivate, evaluate (two routes) | the operations are split over state objects; a status is evaluated from the stored status or from the plan | only states the rules allow are stored; both evaluations agree |
| Use cases and units of work (`services.py`, `uow.py`, `sqlite_repo.py`, `mysql_repo.py`) | the users table; one open transaction per request | read, full-row UPDATE, commit or rollback per request; login reads too | threads and instances share the table; SQLite locks the file and refuses, MySQL reads snapshots; the row is saved whole; crashes | a request takes effect at one instant or not at all; nobody's update is lost; every request is answered |
| HTTP server and handlers (`app/server.py`, `handlers.py`) | one thread per connection; the request it carries | read a request, route, authenticate, call the use case, turn errors into answers | a remote call inside a transaction; HEAD passes as HEAD or as GET depending on the handler; reads that time out | a use case runs only for the user a signed token names, and in time; `Allow` is what routing accepts; an error never leaves a half-done operation |
| Token client (`jwt_client.py`) | one call per login | connect, send, wait for the answer, each with a timeout | which failures are `URLError` and which are not; answers nobody waits for | 503 means that no token was signed; a login ends |
| Token service (`jwt_service/`) | its clock; the connections it has accepted | sign the claims it is asked to, verify, one connection at a time | no timeout of its own; no authentication of its clients; whole-second `iat` and `exp`; clocks that differ | a token is accepted for the time its call asked for and less than a second more |
| Backend pool (`router.py`, `BackendPool`) | list of healthy ports, cursor | refresh, next_backend, mark_unhealthy, snapshot | handlers remove ports while discovery replaces the list | cursor in range, no duplicates, the turn is kept |
| Proxy and discovery (`router.py`) | one request per handler thread, a refresh in progress | choose_route, retry loop, relay, 503, probing | stale probes, retries, clients that leave, bodies that are read once | every request ends, with an answer unless its client has left or the body of an error answer is lost; a backend runs it once; live ports return, dead ones go |
| Ports (`config.py`, `main.py`, `Program.cs`, `parse_port_candidates` of the router) | candidate list, the place an instance is at | parse, bind and listen, or reserve, release and bind again | instances race for ports; three parsers read the same text | nobody runs out of candidates while there are enough; the router watches where they serve |
| Purchase requests (`CsharpRequest/Program.cs`) | purchase request rows | create, confirm, reject, external approval | entity read before an `await` and saved after it, column by column | a decided request is not decided otherwise; decision and status agree |
| Consul registration (`ConsulRegistrationHostedService.cs`) | an entry in an external agent | deregister and register at start, deregister at stop | a predecessor and its successor share an id | - |
| Scripts, containers | - | seed, restart | - | - |

How they interact: clients send HTTP requests to the router, which proxies
them to an instance of Capitalia (or of the C# service) whose port its
discovery thread has probed. Each instance serves a connection in a thread of
its own; the thread opens a connection to the shared database, which is the
only state the threads and instances share. A login also calls the token
service. The C# service calls the token service and Capitalia while it handles
an external approval.

## 2. Modules

| Module | Models |
| --- | --- |
| `Subscription` | the domain as pure operators on a row, and what each use case decides from the row it read |
| `AtomicSubscription` | the abstract service: each request is performed at one instant, or fails without effect |
| `SubscriptionUoW` | the use cases as they run: transactions of threads and instances over one table, on SQLite or MySQL |
| `SubscriptionUoW_proofs` | its theorems |
| `MCSubscriptionUoW` | the instances TLC checks |
| `BackendPool` | the pool as operators on a record (list, cursor); each runs under the pool's lock |
| `Router` | discovery thread, handler threads, backends that stop and start, clients that leave |
| `AtomicProxy` | the abstract router: what a client and the backends may rely on, without list, cursor or discovery |
| `RouterHistory` | `Router` with a history variable: was a refresh published during the request? |
| `Router_proofs`, `RouterHistory_proofs` | their theorems |
| `MCRouter`, `MCRouterHistory` | the instances TLC checks |
| `PurchaseWorkflow` | the C# handlers that decide a purchase request, and what Entity Framework saves |
| `PurchaseWorkflow_proofs` | its theorems |
| `MCPurchaseWorkflow` | the instances TLC checks |
| `PortParser` | how the three programs read a port specification, one turn of their loops a step |
| `PortParser_proofs` | the loop invariant of the parsers |
| `PortPool` | instances of one service that look for a port of their own, die and are started again |
| `PortPool_proofs` | its theorems |
| `MCPortPool` | the instances TLC checks |
| `Pipeline` | what Capitalia's chain of handlers decides about one request, and the tokens it checks; pure |
| `Api` | the connections of a Capitalia instance, their logins and the token service |
| `Api_proofs` | its theorems |
| `MCApi` | the instances TLC checks |

`SubscriptionUoW` is built on `Subscription`, `Router` on `BackendPool`,
`PortPool` on `PortParser` and `Api` on `Pipeline`. `Api` and `SubscriptionUoW`
look at the same login from two sides: in `Api` the token service is there and
the database is one answer, in `SubscriptionUoW` the call is one step that ends
(`TokenAnswer`) and the database is there. `LoginsEnd` of `Api` is what makes
the second one's fairness a fact and not a wish.

Operators called a *variant* in a comment (`UpgradedPlanOnly`,
`MarkedUnhealthyNoReset`, ...) are not part of the model: each is what a
plausible mistake in the code would make of the definition next to it, and
`PROJECT.json` ("mutants") says which property finds it.

### SubscriptionUoW and the code

`rows` is the committed table, `day` the date the clock shows, and `job[w]`
the request of a worker thread: its operation and user, the date it read, the
row it read and its answer. The row is the triple the rules look at (plan,
status, start); the columns the service never changes are left out.

| Action | Code |
| --- | --- |
| `Arrive` | `_serve_connection` hands a request to its handler; the clock is read (`services.py:24`), then `SqlUnitOfWork.__enter__` sends BEGIN |
| `Read`, `ReadBusy` | `get_by_id` / `get_by_email`; the busy timeout of `sqlite3.connect` (5 s) runs out while a committer holds PENDING |
| `Save`, `SaveBusy` | the full-row UPDATE of `save`; "database is locked" (SQLite) or a lock wait that times out (MySQL), which rolls back and becomes a 500 |
| `Close` | a unit of work that writes nothing ends: 200 of a status query, 401, 404 or 422 |
| `AskToken`, `TokenAnswer` | `handle_login` calls `issue_token` inside `with uow_factory()`; 200, 503 for a `TokenIssueError`, 500 for anything else |
| `BeginCommit`, `Commit`, `CommitBusy` | `uow.commit()`; SQLite waits for other readers and may give up |
| `Answer`, `Finish` | the second, empty commit of `__exit__`, the answer, the end of the thread |
| `Crash` | an instance dies and is restarted (`restart: unless-stopped`): open transactions are rolled back, its requests are not answered |
| `NextDay` | midnight |

The databases are external; `HasShared`, `MayRead`, `MayWrite` and `MayCommit`
state what the code gets from them. For SQLite (rollback journal, deferred
BEGIN: `config.py:59` sets no other mode): SHARED from the first SELECT to the
end, RESERVED from the UPDATE, refused at once to a transaction that already
reads, PENDING while committing. For MySQL (InnoDB, REPEATABLE READ): reads
never wait, the UPDATE locks its row until the commit. A MySQL UPDATE that
waited for another commit still writes every column from the entity read
earlier, which is what the run on MySQL looks at.

`AtomicSubscription` is the promise "Casos de uso com transação por operação"
(`services.py:11`). The mapping (`Stage`, `AtomicJob`) lets a request that
writes take effect at its commit and any other at its read; a rolled-back one
is a failure without effect.

### Router and the code

One pool, since the default pool and the C# pool run the same code on lists of
their own (the one discovery thread refreshes them in turn).

| Action | Code |
| --- | --- |
| `Probe`, `Publish` | `refresh`: one candidate after the other without the lock, then the new list under the lock |
| `Arrive`, `Finish` | a handler thread of `ThreadingTCPServer`, once the first refresh is over |
| `Route` | `choose_route`; with `RunAs = "script"` the name is not defined yet when the server runs |
| `Pick` | `next_backend`, and the test `port is None or port in tried` |
| `ReadBody`, `ReadFails` | `self.rfile.read(length)`, once per attempt |
| `Refused`, `Executed` | `urlopen`: refused; executed, and a 2xx answer read to its end or the head of an error answer received; or executed and then timed out or lost |
| `ErrorBodyLost` | `err.read()` raises in the HTTPError branch (`router.py:234`), where nothing catches it: the handler ends and its client, waiting or not, gets no answer |
| `Relay`, `RelayFails` | `_relay_response` inside the try (2xx) or in the HTTPError branch; writing to a client that has left may raise |
| `Mark` | `mark_unhealthy` |
| `RespondUnavailable` | the 503 |
| `ClientLeaves`, `BackendStops`, `BackendStarts` | the environment |

`up` is the set of backends that answer their health probe in time; a backend
that is slow with one request is an `Executed(h, "failed")`, and one whose
probe fails while it works is one that stops and starts again. Requests are
well formed: a Content-Length that is not a number, or larger than what the
client sends, is left out. `ran` is a history: which backends executed the
request.

### PurchaseWorkflow and the code

`rows` holds, of each purchase request, the status and the two columns of
Capitalia's decision the rules look at; the decision's text is reduced to
whether it approved. `job[w]` is a handler invocation with its own `DbContext`:
the row it loaded and the entity it has changed. `raced` is a history: the
requests that two handlers have worked on at once.

| Action | Code |
| --- | --- |
| `Create` | `createPurchaseRequestHandler` once its input is accepted: a pending row |
| `Arrive`, `Finish` | a POST to confirm, reject or external-approval under `/requests` or `/api/requests` |
| `Refuse` | 503 when the integration is off, 404, and the two 400s of the status guards |
| `Load` | `FirstOrDefaultAsync`, and the assignment of the status by confirm and reject |
| `Decide`, `DecideFails` | `RequestApprovalAsync`: a decision; null (502); an exception (500) |
| `Save`, `DatabaseFails` | `SaveChangesAsync`: the UPDATE of the columns that differ from those loaded; a locked file or a cancelled call |

`Enabled` is the configuration flag. An instance that dies leaves the table as
a failed call does and nothing else, so there is no action of its own for it.

### PortPool and the code

`setting` is the configuration: the service, whether Capitalia's text is that
of `PORT_POOL` or of `PORT`, and the text as its pieces; a piece is a range of
two numbers (a port is a range of one), `auto`, or a text that is neither.
`reader[r]` is how far the parser of the service and that of the router are:
the piece, the next port of its range and the ports collected, which are
`candidates` and `watched`. All instances read the same text with the same
result, so one reading stands for them all, and it is over before the first
one binds; the two parsers share nothing, so one order of their turns stands
for every order. Numbers are natural: `-5` is a range whose lower bound is
missing, which is a text, and `5--3`, of which only C# would make a range that
starts below 0, is left out. `inst[i]` is how far an instance is and at which
candidate.

| Action | Code |
| --- | --- |
| `OpenChunk` | the next piece of the text: `_coerce_port` and the test of the bounds, or their ValueError; C# turns reversed bounds round and skips what it cannot read |
| `ReadPort` | one turn of the loop over a range, with `_append_port_if_new` (Capitalia) or `seen` (router) |
| `Close` | the end of the text: `Config` adds 0 after `PORT`, and refuses a `PORT_POOL` that names no port |
| `Start` | the process starts; `Config()` raises ValueError, or the candidates are there |
| `Bind`, `Listen` | `sock.bind` and `sock.listen` of `app/server.py` for one candidate of the loop in `main.py`; with `SO_REUSEADDR` two may be bound, and the second to listen has EADDRINUSE |
| `Reserve`, `Release`, `Rebind` | the C# service: `TcpListener.Start` on each candidate, `Reservation?.Dispose()`, and `app.Run()`, which binds the port by its number and fails when it is gone |
| `GiveUp` | "No available ports to bind" and its C# twin, after the last candidate |
| `Die` | the process is stopped or killed, or ends by itself |

Errors other than an address in use, which end a start, are left out.

### Api and the code

`now` is Capitalia's clock in ticks, `conn[c]` a connection with the request
it carries and the answer it got, `up` and `backlog` the token service: the
call it serves and those the kernel has accepted behind it. `held[x]` is the
latest token that `x` has received, a user from a login or another consumer of
the token service, which signs any `sub`, `ttl` and `exp` for whoever asks
(`server.py:41-58`, `jwt_service/README.md`); `Asks` is what each consumer asks
for. A request may carry the latest token of any holder. `signed` and the `to`
and `born` of a token are histories.

| Action | Code |
| --- | --- |
| `Connect`, `ReadRequest`, `ReadFails`, `Close` | the thread of a connection: accept, `_read_request` with 30 s per read, the 400 of a request it cannot read, the end |
| `Refuse` | the chain up to the route's handler: 204 and 405 and 404 of routing, 401 and 403 of authentication, and what `handle_login` answers before it calls the token service |
| `RunHandler` | the route's handler runs; what a use case does then is `SubscriptionUoW` |
| `AskToken`, `Accepted`, `ConnectFails`, `TimesOut` | `issue_token`: refused or not accepted in 5 s is a `URLError`, so 503; no answer in 5 s or a reset is a bare `TimeoutError` or `ConnectionError`, so 500 |
| `Issue` | `do_POST` of the token service for the first connection: it signs what the call asks for; the token of a call whose client has gone is signed and lost |
| `OtherCalls`, `SilentLeaves` | the other clients: consumers such as the C# service, whose calls are signed as they ask, and one that connects and sends no body, which stalls the service until it leaves |
| `ServiceStops`, `ServiceStarts` | its container stops and is restarted; open calls are reset |
| `Tick` | time passes |

The token service is modelled as a process that does start.
`jwt_service/main.py` imports `config` and `server` by their bare names, so
this takes its directory on the module path; started as `docker-compose.yml`
says (`python -m jwt_service.main` from the root) it ends with
`ModuleNotFoundError`, and every login with the 503 of `ConnectFails`.

## 3. Runs

| Run | Instance | Question |
| --- | --- | --- |
| `UoWSqlite` | 2 instances with one thread each, 1 user (trial, premium or missing), all operations, a 1-day trial that ends during the run | are transactions atomic and rows coherent on SQLite, with crashes; does a status query leave the plan alone there? |
| `UoWLive` | 3 threads (2 of one instance), upgrade and login | do waits for locks end, is every request answered? |
| `UoWMysql` | 2 instances, 2 users, five operations, 1.2 million states | are rows still coherent on MySQL? |
| `UoWMysqlLostUpdate` | 2 instances, 1 trial user | does a status query leave the plan alone? (It does not.) |
| `RouterSafety` | 3 backends and 2 handler threads, symmetric; requests overlap, and one alone carries a body, as long as the third backend plays no part, and clients leave only while their request is alone (`MCOneOrTwo`), 1.9 million states | pool in order, turn kept by evictions, no request executed twice by a backend |
| `RouterLive` | 2 backends, 1 handler, with and without body, fair; 51,000 states | does the router keep the promise of `AtomicProxy`, is a 503 true when no refresh came in between, do requests end, is a waiting client dropped only for the lost body of an error answer, do live ports return and dead ones go? |
| `Router503` | 2 backends, 1 handler | does 503 mean that no listed backend is left? (It does not.) |
| `RouterScript` | started as in `router/Dockerfile` | is every request answered? (None is.) |
| `Purchase` | 1 purchase request, 3 handlers, one text of notes or none, symmetric, 520,000 states | is Capitalia's decision kept, and followed by the status; does turning over a decided request by hand take an overlap? |
| `PurchaseRace` | 1 purchase request, 2 handlers | is a confirmed request never rejected? (It can be.) |
| `Ports` | 3 instances of either service, every specification of up to two of seven pieces, from `PORT` and from `PORT_POOL`, one port taken by another program; 57,000 states | are the candidates those meant, does every start end in service, does the router see it? |
| `Api` | 2 connections, ten requests of a user and of strangers, a login's token of one second, a consumer's token for user 1 that never expires, 340,000 states | do tokens last as long as promised and no longer, and do logins end whatever the token service does? |

Why the bounds are enough. Two transactions are the least that can conflict and
locks are held pairwise; a third thread matters only for liveness, where a
writer waits for a stream of readers, hence the three of `UoWLive`. Operations
on one user are the ones that conflict; the second user of `UoWMysql` shows that
row locks do not disturb other rows. `MaxDay = 1` with `TrialDays = 1` lets the
trial end between any two steps. In the pool, a removal before, at and behind
the cursor needs three ports; a second handler is what makes evictions race with
`Pick`. Purchase requests are independent rows; three handlers let one of each
kind overlap on the same row. A request on its own in `RouterSafety` meets three
ports, two requests at once meet two: a turn lost by an eviction needs the
first, a race of `Pick` with an eviction the second. `Ports` has five ports of
which one is beyond the last number (`MaxPort = 4`), port 2 taken, reversed and
overlapping ranges and a port listed twice; three instances can lose a port to
one another in a circle, and there are specifications with fewer ports than
instances. In `Api` two ticks make a second, so a token may be signed in either
half of one; with a lifetime of one second and the token service's clock one
tick behind (`Ahead` is -1), the ticks from 2 (`Start`) to 4 (`MaxNow`) reach
both sides of its end. The one other consumer asks for a token of user 1 with
`exp` 0, the one value that `verify` never takes for expired (`tokens.py:49`). A
backlog of two lets a silent client stand before a login, and a third call be
refused. The theorems below do not depend on these bounds.

Fairness. `UoWLive` assumes weak fairness of each thread's next step: every
wait of the code has a timeout (busy timeout 5 s, lock wait timeout, token
client timeout), so no thread stays put for ever. `CommitBusy` is left out of
the fair steps, so a writer must get its commit because new readers are kept
out and not because it gives up; requests cut off by a crash count as ended.
`RouterLive` assumes that the discovery loop goes on and that each handler
thread runs, which the operating system's scheduling gives; nothing is assumed
of backends and clients. `Ports` assumes that a process that runs goes on
(`Run`), and neither that one is started nor that it lives. `Api` assumes weak
fairness of each connection's own steps (`Work`): its thread is scheduled, and
every wait has a timeout (30 s for a request, 5 s for each step of the call).
Nothing is assumed of the token service, which may be stalled for ever, nor of
clients.

## 4. What the runs show

* On SQLite the transactions implement the abstract service, whatever
  interleaves: a query or operation that is answered saw the row of one
  instant, a refused lock or a crash leaves nothing behind. This rests on the
  read lock being held to the end of the unit of work (`BEGIN` before the
  SELECT); without it `TrialNotRestored` fails.
* On MySQL it does not: `UoWMysqlLostUpdate` shows a status query that undoes
  a committed upgrade. `RowsCoherent` still holds there, because every
  UPDATE writes plan and status of one entity; with column-wise updates it
  would not.
* The two routes of evaluating a status agree on every row the service can
  store, although they differ on other rows (a suspended basic user).
* The login's call of the token service delays writers, but waits for locks
  never form a circle (`WaitsEnd`): a reader that is kept out waits for the
  one commit, the commit for the readers that are in, and those for nobody. It
  holds because on SQLite the second transaction that wants to write is
  refused, not queued; were it let through, two commits would wait for each
  other's read locks.
* A request that is sent to a second backend after it was executed at the first
  (a POST the router has timed out on) writes nothing: every operation leaves a
  row on which it has nothing more to do (`RetryWritesNothing`). This composes
  `Router`, whose `OncePerBackend` says how often it can happen, with the
  transactions of `SubscriptionUoW`; it rests on the guard of each operation
  being false on the row the operation leaves.
* Router: the pool stays in order under any interleaving, and a removal leaves
  the turn with the port that has it. `tried` is what makes the loop end and
  keeps a backend from executing a request twice. A body is read from the
  socket once per attempt, so a retried POST waits for bytes that were already
  consumed until its client gives up: `RequestsEnd` excludes exactly that
  state (`WaitsForBody`). A refresh in flight can bring a dead port back, but
  not for good.
* Seen from outside, the router is `AtomicProxy`: each backend executes a
  request at most once, and none after an answer unless the client has left;
  the client gets that answer or a 503. There is one exception, which
  `AtomicProxy` states as a step of its own (`LoseError`) and
  `DropsOnlyErrors` as the only one: the body of an error answer is read
  outside the try, so a backend that dies or stalls after the head of a 4xx
  or 5xx costs a waiting client its answer. `Router503` shows a 503 with a
  backend listed; `UnavailableMeansNone` says when that is possible: only if
  a refresh was published during the request. Other handlers, which evict
  ports and turn the cursor, cannot cause it.
* Purchase requests: because only changed columns are written, a manual
  decision never erases Capitalia's, even one saved after the handler loaded
  the request. As long as handlers do not overlap on a request, its status is
  what Capitalia decided. A decided request is turned over by hand only by a
  handler that checked a status which is no longer the stored one, and that
  takes an overlap (`ByHandOnlyStale`); `PurchaseRace` shows that it happens,
  since each guard tests the status it loaded. One external approval, which
  looks at no status, may turn a confirmed request into a rejected one alone.
* Ports: instances that walk one list never exhaust it while it has a free port
  for each, although an instance may lose a port after it has bound it
  (`Listen`) and others die and come back. A C# instance that loses its port
  between reservation and bind fails, but costs the others nothing. The list is
  what the text names, up to the last port number and whatever ranges overlap.
  With the text the router has too, the router watches every port in use when it
  comes from `PORT_POOL`; from `PORT` only while the ports suffice, since the
  last candidate is a port of the system's choice that no router knows:
  `Discoverable` states exactly this condition.
* Tokens: `exp` is a whole second, so a token signed in the middle of one is
  accepted for at least the time its call asked for and for less than a second
  more, plus the lead of the issuer's clock (`TokenLastsTTL`,
  `ActsOnSignedToken`). A use case runs only under a token signed for its user;
  that the user logged in is not promised, since the token service signs claims
  that name any user, and any `exp`, for any consumer. The comparison must be
  `>`: with `>=` tokens end early. HEAD is routed and authenticated like GET.
* Logins end although one silent client can stall the token service for
  ever. Of the two errors a login may end with, only 500 can leave a signed
  token behind: an answer that does not come in time is no `URLError`.
* `PurchaseRace`, `UoWMysqlLostUpdate`, `Router503` and `RouterScript` are
  disagreements of the code with its own messages and documentation; see
  "findings" in `PROJECT.json`.

## 5. Proofs

All theorems hold for any `Users`, `Workers`, `Ops`, instances and trial length;
any candidate list and any set of handlers; any purchase requests and handlers;
any settings and any finite set of instances; any users, connections, consumers
and claims, token lifetime, division of a second and difference of clocks. They
use only the named assumptions on constants (`TrialDaysAssumption`,
`NoAccountAssumption`, `ConstantsAssumption`, `CandidatesAssumption`,
`NoPortAssumption`, `BodiesAssumption`, `MaxPortAssumption`,
`SettingsAssumption`, `PortPoolAssumption`, `TimeAssumption`,
`ClaimsAssumption`, `TokenAssumption`, `ApiAssumption`, `RequestsAssumption`,
and those named below), which TLC evaluates on every run.

`SubscriptionUoW_proofs`:
* `TypeCorrect`, from `TypeInv`: `TypeOK` alone is not inductive, because the
  row a request saves must be one it has read and decided to write
  (`WritersDecided`: past `Save` there is a row and the operation accepts it).
* `Coherence` (both databases): the rows requests have read are coherent as
  well as the stored ones, and an operation takes a coherent row to a coherent
  row (`EntityCoherent`); coherence survives midnight (`CoherentLater`). No
  locking is needed, which is why it holds on MySQL. `EvaluatorsAgreeHolds`
  follows from it.
* `HeldRowsCurrentHolds` (SQLite): a transaction with a read lock sees the
  committed row, because `MayCommit` waits for all other readers.
* `TrialNotRestoredHolds` and `Refinement` (SQLite) follow from it: at a commit
  the entity was computed from the current row, so the commit is the abstract
  `Perform`. `Refinement` maps every action to a step or a stutter
  (`ReadRefines`, `CommitRefines`, `AnswerRefines`, `StepRefines`).
* `WaitsEndHolds` (both databases) rests on `OneWriter`: with SQLite no two
  transactions have saved at once (`WriterShape`: only `Save` takes the write
  lock, and only when nobody has it), so of a chain of two waits the second is
  that of the one commit, for a reader (`OneWriterWaitsEnd`). On MySQL who holds
  a row lock waits for nothing.
* `QueryKeepsPlanHolds` (SQLite), from `HeldRowsCurrent`, proves for SQLite what
  the run `UoWMysqlLostUpdate` refutes for MySQL.
* `RetryWritesNothingHolds` (both databases) rests on `EntityFinal`: the row an
  operation stores is one on which it has nothing to do.

`Router_proofs`: `RouterInv` adds to `TypeOK` and `PoolOK` that a refresh in
progress has found distinct ports among those it has probed (`ProbeOK`), so that
publishing keeps the list free of duplicates, and that a request about to be
sent has not run at that port (`RequestOK`). `RemoveAtShape`, `AdvancedOK`,
`PublishedOK` and `MarkedOK` are the facts about lists and cursor.
`RouterTypeCorrect`, `PoolInOrder` and `OncePerBackendHolds` follow from
`RouterInv`, `TurnKeptHolds` from it and `MarkedOK`. `DropsOnlyErrorsHolds` (for
a router started as a module) goes through the steps that end a handler without
an answer: its client has gone, or it was relaying an error answer.
`ProxyRefinement`, for such a router too, maps every action to a step of
`AtomicProxy` or to none (`ServeStep`, `PromiseStep`): probing, publishing,
picking, marking and refused connections are invisible. It needs `RouterInv`
(the port a request is sent to has not executed it) and that a request that is
not over has no reply (`Unanswered`). The router's assumption on its list of
candidates, ports without repetitions, is what `ReadOK` below proves of the
parser that makes the list.

`RouterHistory_proofs`: `UnavailableMeansNone` follows from `UnrefreshedOK`: of
the ports a handler has tried since the last refresh, none is listed but the
one it is trying. `mark_unhealthy` removes all there is of a port because the
list has no duplicates (`MarkedLess`, from `PoolOK`); steps of other handlers
only shorten the list (`OtherRequests`).

`PurchaseWorkflow_proofs`: `WorkInv` adds to `TypeOK` and
`StatusFollowsDecision` what a handler at work holds (`WorkOK`: its entity is a
decision, by hand or of Capitalia, on a row its guard accepted) and that on a
request nobody has raced for it is alone and has loaded the stored row
(`Alone`). `LoadKeeps`, `DecideKeeps`, `SaveKeeps` and `LeavesWork` are the
steps; `SavedColumns` is the fact about change tracking that
`ManualKeepsDecisionHolds` rests on. `ByHandOnlyStaleHolds`: a guard that
accepts a decided status accepts the one it writes, so with the stored status
loaded no column differs and nothing is saved; and `Alone` says that without an
overlap the stored row is loaded. Assumed: `NoRowAssumption` and
`EnabledAssumption`.

`PortParser_proofs`: `ReadOK` is the loop invariant of the three parsers. A
reader between two pieces has the ports of the pieces before; one inside a range
has those and the part of the range up to its next port; the list has no
repetitions where the program tests for them; a reader that is done has met no
malformed piece, one that has refused has. `OpenChunkKeeps`, `ReadPortKeeps` and
`CloseKeeps` are the steps, `ChunkMeans` says that the bounds of the loop are
those of the piece, `MalformedIsUnsound` that the tests of a piece refuse what
is no port and nothing else, `Appends` what a turn adds. Because the parsers are
steps and not recursive operators this needs no induction over the text, and
`CandidatesAsMeant` follows for texts of any length (`ReadAsMeant`).

`PortPool_proofs`: `CandidatesAsMeantHolds` lifts that to the instances, which
leave the readers alone. `NobodyGivesUpHolds` is a counting argument. `Counted`
says of every place m of the list that the instances beyond m and the free
candidates up to m are together no more than the instances. An instance passes a
free candidate only because another holds it, and that one stays at its place
(`PassKeepsCount`); at the last place, with as many free candidates as
instances, nobody is left to be beyond it. `StepShape` says that every action
moves one instance. `DiscoverableHolds` compares the lists of the two parsers:
with `PORT_POOL` both name the same ports. With `PORT` the last candidate is 0,
which the router does not have; as many free ports as instances stand before it
(`FreePorts`), so by `Counted` nobody is at it (`NobodyAtLast`).

`Api_proofs`: `ApiInv` adds to `TypeOK` what tokens have in common (`HeldOK`,
`BearerOK`: who received them, the user they name, and `exp` as it follows from
the claims and the moment of signing), that a login in progress is one for a
user (`LoginOK`, `RequestOK`), and that a call in the backlog belongs to a login
that waits or has ended otherwise than with 503 (`CallsOK`, `SignedOK`).
`Conversation`, `IssueKeeps`, `ServiceStopsKeeps` and their like are the steps.
`UnavailableMeansUnsignedHolds` follows. `Lifetime` is the arithmetic of whole
seconds, and `ExpNotZero` says that only claims that name it have the `exp` 0,
for which `ApiAssumption` takes both clocks to be past 1970;
`ActsOnSignedTokenHolds` and `TokenLastsTTLHolds` follow from them and `ApiInv`.

Only model-checked: liveness (`RequestsAnswered`, `RequestsEnd`, `LiveListed`,
`DeadForgotten`, `StartsServe`, `LoginsEnd`), which the prover does not reach,
and `AllowIsTrue`, which compares two operators of `Pipeline` on the routes
there are. Every other invariant and action property of the passing runs is a
theorem; those of the runs that expect a violation are false of the code, and
`QueryKeepsPlanHolds`, `UnavailableMeansNoneHolds`, `ByHandOnlyStaleHolds` and
`DropsOnlyErrorsHolds` say under which condition each of them, or the part of it
that remains, is true.

## 6. Not modelled, and why

* `choose_route`: the rewriting of a path below the prefix of the C# service.
  It keeps no state, and decides only which of two pools a request uses.
* The two pools together: the one discovery thread refreshes them in turn, so
  a slow refresh of one delays the other; each is a `Router` of its own.
* Which route external approval calls: Capitalia has no `purchase-approvals`,
  so of the outcomes in `PurchaseWorkflow` only the failures occur between
  these two programs as they are.
* The 400, 404 and 422 of the token service, which only malformed calls
  cause, and claims whose `exp` is no number. (`iat` is never looked at.)
* OPTIONS of a path without a route names GET and POST although every other
  method gets a 404 there; `AllowIsTrue` is about the paths that exist.
* The validation of a new purchase request and its totals: arithmetic on one
  input; a row starts as it leaves it.
* Explicit `Urls` of the C# service, for which no port is reserved.
* Consul: one call at start and stop to an external agent; the order of
  `StopAsync` and the release of the port belongs to the host's framework. The
  hazard is listed.
* HTTP parsing and the copying of headers, password hashing and HMAC (no
  state), logging, Swagger, the seed and init scripts except for the rows they
  write.

What would come next: the two pools under one discovery thread, and external
approval sent twice by the router (its 10 s against the client's 30 s) as a
composition of `Router` and `PurchaseWorkflow`, once a text of the repository
says what the row should then hold.
