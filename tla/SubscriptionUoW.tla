--------------------------- MODULE SubscriptionUoW ---------------------------
(***************************************************************************)
(* The use cases of Capitalia as they run: one unit of work per request    *)
(* (adapters/uow.py), a read and a full-row UPDATE (adapters/*_repo.py)    *)
(* inside it, in the threads of one or more server instances that share    *)
(* one database.                                                           *)
(*                                                                         *)
(* The two databases the configuration can choose differ in what BEGIN     *)
(* gives.  SQLite (rollback journal, deferred BEGIN) locks the file: a     *)
(* read takes SHARED until the end of the transaction, an UPDATE takes     *)
(* RESERVED, a commit takes PENDING, which keeps new readers out, and      *)
(* waits for the readers that are in.  MySQL (InnoDB, repeatable read)     *)
(* reads a snapshot without locking and locks only the row it updates.     *)
(***************************************************************************)
EXTENDS Subscription

CONSTANTS
    Users, Workers, Ops,
    Instance,       \* the process a worker thread belongs to
    DbKind,         \* "sqlite" or "mysql", DB_KIND in config.py
    SeedAccounts,   \* rows a user may have at the start
    MaxDay          \* bound: days of the run

ASSUME ConstantsAssumption ==
    /\ Users # {}
    /\ Ops \subseteq AllOps
    /\ DbKind \in {"sqlite", "mysql"}
    /\ MaxDay \in Nat
    /\ \A a \in SeedAccounts \ {NoAccount} : a \in Accounts /\ Coherent(a, 0)

VARIABLES
    rows,   \* the committed users table
    day,    \* today, as the clock of the instances shows it
    job     \* the request each worker serves

vars == <<rows, day, job>>

(* pc of a request: no request; unit of work entered (BEGIN sent); row     *)
(* read; waiting for the token service; row saved; commit asked for;       *)
(* committed; transaction over and answer sent.                            *)
PCs == {"idle", "open", "read", "asking", "saved", "committing", "committed", "answered"}
Jobs == [pc : PCs, op : AllOps, user : Users, today : Int,
         seen : Accounts \cup {NoAccount},
         reply : {"none", "200", "401", "404", "422", "500", "503"}]

IdleJob == [pc |-> "idle", op |-> "status", user |-> CHOOSE u \in Users : TRUE,
            today |-> 0, seen |-> NoAccount, reply |-> "none"]

(* The next state of a request: where it is, the row it has, its answer.   *)
To(j, pc, seen, reply) ==
    [pc |-> pc, op |-> j.op, user |-> j.user, today |-> j.today,
     seen |-> seen, reply |-> reply]

Init ==
    /\ day = 0
    /\ rows \in [Users -> SeedAccounts]
    /\ job = [w \in Workers |-> IdleJob]

-----------------------------------------------------------------------------
(* Locks, as the transactions now open hold them.                          *)

Others(w) == Workers \ {w}

(* Variant: no BEGIN, so that the SELECT is a transaction of its own.      *)
HasSharedNoBegin(w) == job[w].pc \in {"saved", "committing"}

(* A connection holds SHARED from its first SELECT on, because begin() has *)
(* opened a transaction, until commit or rollback end it.                  *)
HasShared(w) == job[w].pc \in {"read", "asking", "saved", "committing"}
HasReserved(w) == job[w].pc \in {"saved", "committing"}
HasPending(w) == job[w].pc = "committing"

(* May w take its first SHARED lock?  InnoDB's snapshot read never waits.  *)
MayRead(w) == DbKind = "sqlite" => \A v \in Others(w) : ~HasPending(v)

(* May w take the write lock of the database, or of its row?               *)
MayWrite(w) ==
    \A v \in Others(w) :
        HasReserved(v) => DbKind = "mysql" /\ job[v].user # job[w].user

(* May w commit?  SQLite waits until no other transaction reads.           *)
MayCommit(w) == DbKind = "sqlite" => \A v \in Others(w) : ~HasShared(v)

JobWrites(w) == Writes(job[w].op, job[w].seen, job[w].today)

-----------------------------------------------------------------------------
(* A request reaches a worker thread; the clock is read before the unit of *)
(* work is entered.                                                        *)
Arrive(w, op, u) ==
    /\ job[w].pc = "idle"
    /\ job' = [job EXCEPT ![w] =
                   [pc |-> "open", op |-> op, user |-> u, today |-> day,
                    seen |-> NoAccount, reply |-> "none"]]
    /\ UNCHANGED <<rows, day>>

(* __exit__ after an exception: rollback, close, answer 500.               *)
RollBack(w) ==
    /\ job' = [job EXCEPT ![w] = To(job[w], "answered", NoAccount, "500")]
    /\ UNCHANGED <<rows, day>>

Read(w) ==
    /\ job[w].pc = "open"
    /\ MayRead(w)
    /\ job' = [job EXCEPT ![w] = To(job[w], "read", rows[job[w].user], "none")]
    /\ UNCHANGED <<rows, day>>

(* sqlite3's busy timeout (5 s) runs out before the committer is done.     *)
ReadBusy(w) ==
    /\ job[w].pc = "open"
    /\ ~MayRead(w)
    /\ RollBack(w)

(* Variant: the UPDATE is queued although another transaction is writing.  *)
SaveAnyway(w) ==
    /\ job[w].pc = "read"
    /\ JobWrites(w)
    /\ job' = [job EXCEPT ![w] = To(job[w], "saved", job[w].seen, "none")]
    /\ UNCHANGED <<rows, day>>

Save(w) ==
    /\ job[w].pc = "read"
    /\ JobWrites(w)
    /\ MayWrite(w)
    /\ job' = [job EXCEPT ![w] = To(job[w], "saved", job[w].seen, "none")]
    /\ UNCHANGED <<rows, day>>

(* "database is locked": SQLite refuses at once to upgrade a read lock     *)
(* while another transaction is the writer.  InnoDB waits for the row and  *)
(* gives up after its lock wait timeout.                                   *)
SaveBusy(w) ==
    /\ job[w].pc = "read"
    /\ JobWrites(w)
    /\ ~MayWrite(w)
    /\ RollBack(w)

(* Variant: a use case that refuses leaves its unit of work open.          *)
CloseUnlessRefused(w) ==
    /\ job[w].pc = "read"
    /\ ~JobWrites(w)
    /\ job[w].op \notin Changes
    /\ job' = [job EXCEPT ![w] = To(job[w], "answered", job[w].seen,
                                       RefusalOrView(job[w].op, job[w].seen))]
    /\ UNCHANGED <<rows, day>>

(* The rest of a unit of work that writes nothing: 401, 404, 422 and the   *)
(* status that needs no update.  __exit__ commits or rolls back, which     *)
(* ends the read lock.                                                     *)
Close(w) ==
    /\ job[w].pc = "read"
    /\ ~JobWrites(w)
    /\ job' = [job EXCEPT ![w] = To(job[w], "answered", job[w].seen,
                                       RefusalOrView(job[w].op, job[w].seen))]
    /\ UNCHANGED <<rows, day>>

(* The login handler calls the token service inside its unit of work.      *)
AskToken(w) ==
    /\ job[w].pc = "read"
    /\ job[w].op = "login"
    /\ job[w].seen # NoAccount
    /\ job' = [job EXCEPT ![w] = To(job[w], "asking", job[w].seen, "none")]
    /\ UNCHANGED <<rows, day>>

TokenAnswer(w) ==
    /\ job[w].pc = "asking"
    /\ \E r \in TokenReplies :
           job' = [job EXCEPT ![w] = To(job[w], "answered", job[w].seen, r)]
    /\ UNCHANGED <<rows, day>>

(* uow.commit() is called: from here SQLite lets no new reader in.         *)
BeginCommit(w) ==
    /\ job[w].pc = "saved"
    /\ job' = [job EXCEPT ![w] = To(job[w], "committing", job[w].seen, "none")]
    /\ UNCHANGED <<rows, day>>

(* Variant: only the columns the use case changed are written.             *)
CommitColumns(w) ==
    /\ job[w].pc = "committing"
    /\ MayCommit(w)
    /\ LET u == job[w].user
           e == Entity(job[w].op, job[w].seen, job[w].today)
       IN  rows' = [rows EXCEPT
                        ![u].plan = IF e.plan # job[w].seen.plan THEN e.plan ELSE @,
                        ![u].status = IF e.status # job[w].seen.status THEN e.status ELSE @]
    /\ job' = [job EXCEPT ![w] = To(job[w], "committed", job[w].seen, "none")]
    /\ UNCHANGED day

(* The commit writes the whole entity over the row.                        *)
Commit(w) ==
    /\ job[w].pc = "committing"
    /\ MayCommit(w)
    /\ rows' = [rows EXCEPT ![job[w].user] = Entity(job[w].op, job[w].seen, job[w].today)]
    /\ job' = [job EXCEPT ![w] = To(job[w], "committed", job[w].seen, "none")]
    /\ UNCHANGED day

(* Variant: the failed commit is not noticed.                              *)
CommitBusyIgnored(w) ==
    /\ job[w].pc = "committing"
    /\ ~MayCommit(w)
    /\ job' = [job EXCEPT ![w] = To(job[w], "committed", job[w].seen, "none")]
    /\ UNCHANGED <<rows, day>>

(* The busy timeout runs out while some other transaction still reads.     *)
CommitBusy(w) ==
    /\ job[w].pc = "committing"
    /\ ~MayCommit(w)
    /\ RollBack(w)

(* The second, empty commit of __exit__, and the answer 200.               *)
Answer(w) ==
    /\ job[w].pc = "committed"
    /\ job' = [job EXCEPT ![w] = To(job[w], "answered", job[w].seen, "200")]
    /\ UNCHANGED <<rows, day>>

(* The answer is written and the connection closed: the thread ends.       *)
Finish(w) ==
    /\ job[w].pc = "answered"
    /\ job' = [job EXCEPT ![w] = IdleJob]
    /\ UNCHANGED <<rows, day>>

(* An instance dies and is started again: the database rolls back whatever *)
(* its threads had not committed.                                          *)
Crash(i) ==
    /\ job' = [w \in Workers |-> IF Instance[w] = i THEN IdleJob ELSE job[w]]
    /\ UNCHANGED <<rows, day>>

NextDay ==
    /\ day < MaxDay
    /\ day' = day + 1
    /\ UNCHANGED <<rows, job>>

Step(w) ==
    \/ Read(w) \/ ReadBusy(w)
    \/ Save(w) \/ SaveBusy(w)
    \/ Close(w)
    \/ AskToken(w) \/ TokenAnswer(w)
    \/ BeginCommit(w) \/ Commit(w) \/ CommitBusy(w)
    \/ Answer(w) \/ Finish(w)

Next ==
    \/ \E w \in Workers : (\E op \in Ops, u \in Users : Arrive(w, op, u)) \/ Step(w)
    \/ \E i \in {Instance[w] : w \in Workers} : Crash(i)
    \/ NextDay

Spec == Init /\ [][Next]_vars

(* Every wait is bounded by a timeout (busy timeout, lock wait timeout,    *)
(* token client timeout), so a thread is never stopped for ever.  A writer *)
(* waiting to commit is not assumed to be rescued by its timeout: Serve    *)
(* leaves CommitBusy out.                                                  *)
Serve(w) ==
    \/ Read(w) \/ ReadBusy(w) \/ Save(w) \/ SaveBusy(w) \/ Close(w)
    \/ AskToken(w) \/ TokenAnswer(w) \/ BeginCommit(w) \/ Commit(w)
    \/ Answer(w) \/ Finish(w)

FairSpec == Spec /\ \A w \in Workers : WF_vars(Serve(w))

-----------------------------------------------------------------------------
(* Every variable keeps its type.  A row is never malformed, whatever the  *)
(* interleaving of the full-row UPDATEs of sqlite_repo.py and              *)
(* mysql_repo.py.                                                          *)
TypeOK ==
    /\ rows \in [Users -> Accounts \cup {NoAccount}]
    /\ day \in Nat
    /\ job \in [Workers -> Jobs]

(* Whatever the threads interleave, no stored row combines the plan of one *)
(* request with the status of another: only premium users are suspended,   *)
(* only trials that are over are expired (UPDATE of the full row).         *)
RowsCoherent == \A u \in Users : rows[u] # NoAccount => Coherent(rows[u], day)

(* The service evaluates a status from the state object of the stored      *)
(* status, User.evaluate_status from the plan first: on every row the      *)
(* service can store, the two agree.                                       *)
EvaluatorsAgree ==
    \A u \in Users :
        rows[u] # NoAccount => Evaluate(rows[u], day) = EvaluateStatus(rows[u], day)

(* With SQLite, the row a transaction read is still the committed row for  *)
(* as long as the transaction is open: nothing can commit in between.      *)
HeldRowsCurrent ==
    DbKind = "sqlite" =>
        \A w \in Workers : HasShared(w) => job[w].seen = rows[job[w].user]

(* The threads whose lock w is waiting for.  SQLite keeps a reader out     *)
(* while a commit is pending and the commit back while others read, but    *)
(* refuses a second writer at once; InnoDB queues the second writer of a   *)
(* row (the adapters of adapters/uow.py leave all of it to the database).  *)
WaitsFor(w) ==
    {v \in Others(w) :
        \/ DbKind = "sqlite" /\ job[w].pc = "open" /\ HasPending(v)
        \/ DbKind = "sqlite" /\ job[w].pc = "committing" /\ HasShared(v)
        \/ DbKind = "mysql" /\ job[w].pc = "read" /\ JobWrites(w)
           /\ HasReserved(v) /\ job[v].user = job[w].user}

(* Waits never close into a circle: a thread that some thread waits for    *)
(* waits, if at all, only for threads that wait for nothing.  So each wait *)
(* of a unit of work (uow.py) ends with the work of a thread that can go   *)
(* on, and no timeout is needed to break it.                               *)
WaitsEnd ==
    \A w \in Workers : \A v \in WaitsFor(w) : \A u \in WaitsFor(v) : WaitsFor(u) = {}

(* A user who has left the trial (paid, or went back to basic) is never    *)
(* put on trial again: no operation of the service does it, so only an     *)
(* update lost to a concurrent request could.                              *)
TrialNotRestored ==
    [][\A u \in Users :
           rows[u] # NoAccount /\ rows[u].plan # "trial" => rows'[u].plan # "trial"]_vars

(* GET /user/{id}/status "calcula status efetivo (expira trial)"           *)
(* (README.md:117): what it commits may change the status of the user, not *)
(* the plan.                                                               *)
QueryKeepsPlan ==
    [][\A w \in Workers :
           job[w].op = "status" /\ rows' # rows /\ job'[w] # job[w] =>
               rows'[job[w].user].plan = rows[job[w].user].plan]_vars

(* The router sends a POST that timed out at one backend to another        *)
(* (router.py:201), so an operation may run twice: what the first run      *)
(* commits leaves a row on which the same operation writes nothing.        *)
RetryWritesNothing ==
    [][\A w \in Workers :
           job[w].pc = "committing" /\ job'[w].pc = "committed" =>
               ~Writes(job[w].op, rows'[job[w].user], day')]_vars

(* Each request that is not cut off by a crash is answered: the waits of   *)
(* threads for each other's locks never close into a circle, and a writer  *)
(* gets its commit although logins and queries keep coming.                *)
RequestsAnswered == \A w \in Workers : job[w].pc = "open" ~> job[w].pc = "idle"

-----------------------------------------------------------------------------
(* Refinement: what a request has done so far, seen from outside.  A       *)
(* request that writes takes effect at its commit, any other at its read.  *)
Stage(j) ==
    CASE j.pc \in {"idle", "answered"} -> j.pc
      [] j.pc \in {"asking", "committed"} -> "performed"
      [] j.pc = "read" /\ ~Writes(j.op, j.seen, j.today) -> "performed"
      [] OTHER -> "open"

AtomicJob(j) ==
    [stage |-> Stage(j), op |-> j.op, user |-> j.user, today |-> j.today,
     seen |-> IF Stage(j) = "open" THEN NoAccount ELSE j.seen,
     reply |-> j.reply]

AtomicJobs == [w \in Workers |-> AtomicJob(job[w])]

Atomic == INSTANCE AtomicSubscription WITH jobs <- AtomicJobs

(* Each answered request took effect at one instant, on the row as it was  *)
(* then, or failed with no effect: the transactions implement the abstract *)
(* service.                                                                *)
ImplementsAtomic == Atomic!Spec
=============================================================================
