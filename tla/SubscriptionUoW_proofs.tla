----------------------- MODULE SubscriptionUoW_proofs -----------------------
(***************************************************************************)
(* Proofs about SubscriptionUoW: for any set of users, threads, instances  *)
(* and days, and for either database where the statement does not name     *)
(* one.                                                                    *)
(***************************************************************************)
EXTENDS SubscriptionUoW, TLAPS

(* A use case that saves, saves a row: Entity is again an account.         *)
LEMMA EntityType ==
    ASSUME NEW op \in AllOps, NEW a \in Accounts, NEW today \in Int,
           Writes(op, a, today)
    PROVE  Entity(op, a, today) \in Accounts
BY DEF Entity, Writes, AllOps, Changes, Accounts, Upgraded, Downgraded, Suspended,
       Reactivated, Evaluate, Plans, Statuses

(* The job of an idle worker is a job: some user exists.                   *)
LEMMA IdleJobType == IdleJob \in Jobs
<1>1. (CHOOSE u \in Users : TRUE) \in Users
  BY ConstantsAssumption
<1> QED
  BY <1>1 DEF IdleJob, Jobs, PCs, AllOps

Seeable == Accounts \cup {NoAccount}
ReplyCodes == {"none", "200", "401", "404", "422", "500", "503"}

(* A job stays a job when its place, row and answer change.                *)
LEMMA ToType ==
    ASSUME NEW j \in Jobs, NEW pc \in PCs, NEW seen \in Seeable, NEW reply \in ReplyCodes
    PROVE  To(j, pc, seen, reply) \in Jobs
BY DEF To, Jobs, Seeable, ReplyCodes

(* The fields of a job.                                                    *)
LEMMA JobFields ==
    ASSUME NEW j \in Jobs
    PROVE  /\ j.pc \in PCs /\ j.op \in AllOps /\ j.user \in Users /\ j.today \in Int
           /\ j.seen \in Seeable /\ j.reply \in ReplyCodes
BY DEF Jobs, Seeable, ReplyCodes

(* A request that has saved, had something to save.                        *)
WritersDecided ==
    \A w \in Workers : job[w].pc \in {"saved", "committing", "committed"} => JobWrites(w)

(* The shape every step of a worker has: only its own job changes, and     *)
(* only to a job.                                                          *)
LEMMA StepShape ==
    ASSUME TypeOK, NEW w \in Workers, Step(w)
    PROVE  \E j \in Jobs : job' = [job EXCEPT ![w] = j]
<1> USE JobFields, ToType DEF TypeOK
<1>1. job[w] \in Jobs
  OBVIOUS
<1>2. ASSUME RollBack(w)
      PROVE  \E j \in Jobs : job' = [job EXCEPT ![w] = j]
  BY <1>1, <1>2 DEF RollBack, PCs, Seeable, ReplyCodes
<1>3. CASE Read(w)
  BY <1>1, <1>3 DEF Read, PCs, Seeable, ReplyCodes
<1>4. CASE ReadBusy(w) \/ SaveBusy(w) \/ CommitBusy(w)
  BY <1>2, <1>4 DEF ReadBusy, SaveBusy, CommitBusy
<1>5. CASE Save(w) \/ AskToken(w) \/ BeginCommit(w) \/ Commit(w)
  BY <1>1, <1>5 DEF Save, AskToken, BeginCommit, Commit, PCs, ReplyCodes
<1>6. CASE Close(w)
  BY <1>1, <1>6 DEF Close, RefusalOrView, PCs, ReplyCodes
<1>7. CASE TokenAnswer(w)
  BY <1>1, <1>7 DEF TokenAnswer, TokenReplies, PCs, ReplyCodes
<1>8. CASE Answer(w)
  BY <1>1, <1>8 DEF Answer, PCs, ReplyCodes
<1>9. CASE Finish(w)
  BY <1>9, IdleJobType DEF Finish
<1> QED
  BY <1>3, <1>4, <1>5, <1>6, <1>7, <1>8, <1>9 DEF Step

(* Only a commit changes the table.                                        *)
LEMMA RowsShape ==
    ASSUME NEW w \in Workers, Step(w)
    PROVE  rows' = rows \/ Commit(w)
BY DEF Step, RollBack, Read, ReadBusy, Save, SaveBusy, Close, AskToken, TokenAnswer,
       BeginCommit, CommitBusy, Answer, Finish

-----------------------------------------------------------------------------
TypeInv == TypeOK /\ WritersDecided

(* The typing invariant holds at the start.                                *)
LEMMA TypeInvInit == Init => TypeInv
<1> SUFFICES ASSUME Init
             PROVE  TypeInv
  OBVIOUS
<1>1. SeedAccounts \subseteq Accounts \cup {NoAccount}
  BY ConstantsAssumption
<1>2. TypeOK
  BY <1>1, IdleJobType DEF Init, TypeOK
<1>3. WritersDecided
  BY DEF Init, IdleJob, WritersDecided
<1> QED
  BY <1>2, <1>3 DEF TypeInv

(* An arrival gives its worker a new job and touches nothing else.         *)
LEMMA ArriveShape ==
    ASSUME TypeOK, NEW w \in Workers, NEW op \in Ops, NEW u \in Users, Arrive(w, op, u)
    PROVE  \E j \in Jobs : j.pc = "open" /\ j.seen = NoAccount /\ j.today = day
                          /\ job' = [job EXCEPT ![w] = j]
<1>1. op \in AllOps
  BY ConstantsAssumption
<1> DEFINE j == [pc |-> "open", op |-> op, user |-> u, today |-> day,
                 seen |-> NoAccount, reply |-> "none"]
<1>2. j \in Jobs
  BY <1>1 DEF Jobs, PCs, TypeOK
<1>3. job' = [job EXCEPT ![w] = j]
  BY DEF Arrive
<1> QED
  BY <1>2, <1>3

(* Steps of workers keep WritersDecided: only Save enters those places.    *)
LEMMA WritersDecidedStep ==
    ASSUME TypeInv, NEW w \in Workers, Step(w)
    PROVE  WritersDecided'
<1> USE DEF TypeInv, TypeOK, WritersDecided, JobWrites
<1>1. ASSUME NEW v \in Workers, v # w,
             job'[v].pc \in {"saved", "committing", "committed"}
      PROVE  JobWrites(v)'
  <2>1. job'[v] = job[v]
    BY <1>1, StepShape
  <2> QED
    BY <1>1, <2>1
<1>2. ASSUME job'[w].pc \in {"saved", "committing", "committed"}
      PROVE  JobWrites(w)'
  <2>1. job[w] \in Jobs
    OBVIOUS
  <2>2. CASE Save(w) \/ BeginCommit(w) \/ Commit(w)
    BY <2>1, <2>2 DEF Save, BeginCommit, Commit, To
  <2>3. CASE ~(Save(w) \/ BeginCommit(w) \/ Commit(w))
    <3>1. job'[w].pc \in {"read", "asking", "answered", "idle"}
      BY <2>1, <2>3 DEF Step, RollBack, Read, ReadBusy, SaveBusy, Close, AskToken,
         TokenAnswer, CommitBusy, Answer, Finish, To, IdleJob
    <3> QED
      BY <1>2, <3>1
  <2> QED
    BY <2>2, <2>3
<1> QED
  BY <1>1, <1>2

(* Every variable keeps its type and no request saves what it should not,  *)
(* whatever the interleaving and the database.                             *)
THEOREM TypeCorrect == Spec => [](TypeOK /\ WritersDecided)
<1>1. Init => TypeInv
  BY TypeInvInit
<1>2. TypeInv /\ [Next]_vars => TypeInv'
  <2> SUFFICES ASSUME TypeInv, [Next]_vars
               PROVE  TypeInv'
    OBVIOUS
  <2>1. ASSUME NEW w \in Workers, NEW op \in Ops, NEW u \in Users, Arrive(w, op, u)
        PROVE  TypeInv'
    <3>1. TypeOK'
      BY <2>1, ArriveShape DEF TypeInv, TypeOK, Arrive
    <3>2. WritersDecided'
      BY <2>1, ArriveShape DEF TypeInv, TypeOK, WritersDecided, JobWrites
    <3> QED
      BY <3>1, <3>2 DEF TypeInv
  <2>2. ASSUME NEW w \in Workers, Step(w)
        PROVE  TypeInv'
    <3>1. job' \in [Workers -> Jobs]
      BY <2>2, StepShape DEF TypeInv, TypeOK
    <3>2. rows' \in [Users -> Accounts \cup {NoAccount}]
      <4>1. CASE rows' = rows
        BY <4>1 DEF TypeInv, TypeOK
      <4>2. CASE Commit(w)
        <5>1. job[w] \in Jobs /\ job[w].seen \in Accounts
          BY <4>2, JobFields DEF TypeInv, TypeOK, WritersDecided, JobWrites, Writes,
             Commit, Seeable
        <5>2. Entity(job[w].op, job[w].seen, job[w].today) \in Accounts
          BY <4>2, <5>1, JobFields, EntityType DEF TypeInv, WritersDecided, JobWrites, Commit
        <5> QED
          BY <4>2, <5>2 DEF Commit, TypeInv, TypeOK
      <4> QED
        BY <2>2, <4>1, <4>2, RowsShape
    <3>3. day' = day
      BY <2>2 DEF Step, RollBack, Read, ReadBusy, Save, SaveBusy, Close, AskToken,
         TokenAnswer, BeginCommit, Commit, CommitBusy, Answer, Finish
    <3> QED
      BY <2>2, <3>1, <3>2, <3>3, WritersDecidedStep DEF TypeInv, TypeOK
  <2>3. ASSUME NEW i, Crash(i)
        PROVE  TypeInv'
    BY <2>3, IdleJobType DEF Crash, TypeInv, TypeOK, WritersDecided, JobWrites, IdleJob
  <2>4. CASE NextDay
    BY <2>4 DEF NextDay, TypeInv, TypeOK, WritersDecided, JobWrites
  <2>5. CASE UNCHANGED vars
    BY <2>5 DEF vars, TypeInv, TypeOK, WritersDecided, JobWrites
  <2> QED
    BY <2>1, <2>2, <2>3, <2>4, <2>5 DEF Next
<1> QED
  BY <1>1, <1>2, PTL DEF Spec, TypeInv

THEOREM TypeOKHolds == Spec => []TypeOK
BY TypeCorrect, PTL

-----------------------------------------------------------------------------
(* Rows stay coherent.  The invariant has to speak of the rows the open    *)
(* transactions hold too, for any of them may be written back, and of the  *)
(* day a status query has read from the clock.                             *)
SeenCoherent ==
    \A w \in Workers :
        /\ job[w].today <= day
        /\ job[w].seen # NoAccount => Coherent(job[w].seen, day)

CoherenceInv == RowsCoherent /\ SeenCoherent

(* What a use case saves is coherent when what it read was.                *)
LEMMA EntityCoherent ==
    ASSUME NEW op \in AllOps, NEW a \in Accounts, NEW today \in Int, NEW now \in Int,
           today <= now, Coherent(a, now), Writes(op, a, today)
    PROVE  Coherent(Entity(op, a, today), now)
<1> USE TrialDaysAssumption DEF Coherent, Writes, Accounts, TrialOver
<1>1. CASE op = "upgrade"
  BY <1>1 DEF Entity, Upgraded
<1>2. CASE op = "downgrade"
  BY <1>2 DEF Entity, Downgraded
<1>3. CASE op = "suspend"
  BY <1>3 DEF Entity, Suspended, Changes, Accepts, CanSuspend
<1>4. CASE op = "reactivate"
  BY <1>4 DEF Entity, Reactivated
<1>5. CASE op = "status"
  BY <1>5 DEF Entity, Evaluate, Changes
<1> QED
  BY <1>1, <1>2, <1>3, <1>4, <1>5 DEF AllOps, Changes

(* A coherent row stays coherent as days pass.                             *)
LEMMA CoherentLater ==
    ASSUME NEW a \in Accounts, NEW d \in Int, NEW e \in Int, d <= e, Coherent(a, d)
    PROVE  Coherent(a, e)
BY TrialDaysAssumption DEF Coherent, TrialOver, Accounts

(* No stored row mixes the plan of one request with the status of another: *)
(* with the full-row UPDATE this holds on both databases, lost updates     *)
(* included.                                                               *)
THEOREM Coherence == Spec => []RowsCoherent
<1>1. Init => CoherenceInv
  <2> SUFFICES ASSUME Init
               PROVE  CoherenceInv
    OBVIOUS
  <2>1. RowsCoherent
    BY ConstantsAssumption DEF Init, RowsCoherent
  <2>2. SeenCoherent
    BY DEF Init, IdleJob, SeenCoherent
  <2> QED
    BY <2>1, <2>2 DEF CoherenceInv
<1>2. TypeInv /\ CoherenceInv /\ [Next]_vars => CoherenceInv'
  <2> SUFFICES ASSUME TypeOK, WritersDecided, RowsCoherent, SeenCoherent, [Next]_vars
               PROVE  RowsCoherent' /\ SeenCoherent'
    BY DEF TypeInv, CoherenceInv
  <2>0. \A w \in Workers : job[w] \in Jobs
    BY DEF TypeOK
  <2>1. ASSUME NEW w \in Workers, NEW op \in Ops, NEW u \in Users, Arrive(w, op, u)
        PROVE  RowsCoherent' /\ SeenCoherent'
    <3>1. rows' = rows /\ day' = day /\ day \in Int
      BY <2>1 DEF Arrive, TypeOK
    <3> QED
      BY <2>1, <3>1, ArriveShape DEF RowsCoherent, SeenCoherent, TypeOK
  <2>2. ASSUME NEW w \in Workers, Step(w)
        PROVE  RowsCoherent' /\ SeenCoherent'
    <3>1. day' = day /\ day \in Int
      BY <2>2 DEF Step, RollBack, Read, ReadBusy, Save, SaveBusy, Close, AskToken,
         TokenAnswer, BeginCommit, Commit, CommitBusy, Answer, Finish, TypeOK
    <3>2. RowsCoherent'
      <4>1. CASE rows' = rows
        BY <3>1, <4>1 DEF RowsCoherent
      <4>2. CASE Commit(w)
        <5>1. job[w].seen \in Accounts /\ JobWrites(w)
          BY <2>0, <4>2, JobFields DEF WritersDecided, JobWrites, Writes, Commit, Seeable
        <5>2. Coherent(Entity(job[w].op, job[w].seen, job[w].today), day)
          BY <2>0, <3>1, <5>1, JobFields, EntityCoherent, NoAccountAssumption
             DEF SeenCoherent, JobWrites
        <5> QED
          BY <3>1, <4>2, <5>2 DEF Commit, RowsCoherent, TypeOK
      <4> QED
        BY <2>2, <4>1, <4>2, RowsShape
    <3>3. SeenCoherent'
      <4>1. ASSUME NEW v \in Workers, v # w
            PROVE  job'[v] = job[v]
        BY <2>2, <4>1, StepShape DEF TypeOK
      <4>2. job'[w].today <= day /\ (job'[w].seen # NoAccount => Coherent(job'[w].seen, day))
        <5>1. CASE Read(w)
          BY <2>0, <5>1, JobFields DEF Read, To, RowsCoherent, SeenCoherent, TypeOK
        <5>2. CASE Finish(w)
          BY <3>1, <5>2 DEF Finish, IdleJob, TypeOK
        <5>3. CASE ~Read(w) /\ ~Finish(w)
          <6>1. /\ job'[w].today = job[w].today
                /\ job'[w].seen \in {job[w].seen, NoAccount}
            BY <2>2, <5>3 DEF Step, RollBack, ReadBusy, Save, SaveBusy, Close, AskToken,
               TokenAnswer, BeginCommit, Commit, CommitBusy, Answer, To, TypeOK
          <6> QED
            BY <6>1 DEF SeenCoherent
        <5> QED
          BY <5>1, <5>2, <5>3
      <4> QED
        BY <3>1, <4>1, <4>2 DEF SeenCoherent
    <3> QED
      BY <3>2, <3>3
  <2>3. ASSUME NEW i, Crash(i)
        PROVE  RowsCoherent' /\ SeenCoherent'
    BY <2>3 DEF Crash, RowsCoherent, SeenCoherent, IdleJob, TypeOK
  <2>4. CASE NextDay
    <3>1. day \in Int /\ day' \in Int /\ day <= day' /\ rows' = rows /\ job' = job
      BY <2>4 DEF NextDay, TypeOK
    <3>2. RowsCoherent'
      <4> SUFFICES ASSUME NEW u \in Users, rows[u] # NoAccount
                   PROVE  Coherent(rows[u], day')
        BY <3>1 DEF RowsCoherent
      <4> QED
        BY <3>1, CoherentLater DEF RowsCoherent, TypeOK
    <3>3. SeenCoherent'
      <4> SUFFICES ASSUME NEW w \in Workers
                   PROVE  /\ job[w].today <= day'
                          /\ job[w].seen # NoAccount => Coherent(job[w].seen, day')
        BY <3>1 DEF SeenCoherent
      <4>1. job[w].seen # NoAccount => job[w].seen \in Accounts
        BY <2>0, JobFields DEF Seeable
      <4> QED
        BY <2>0, <3>1, <4>1, CoherentLater, JobFields DEF SeenCoherent
    <3> QED
      BY <3>2, <3>3
  <2>5. CASE UNCHANGED vars
    BY <2>5 DEF vars, RowsCoherent, SeenCoherent
  <2> QED
    BY <2>1, <2>2, <2>3, <2>4, <2>5 DEF Next
<1> QED
  BY <1>1, <1>2, TypeCorrect, PTL DEF Spec, TypeInv, CoherenceInv

(* On every stored row the service and the model evaluate the status       *)
(* alike, because stored rows are coherent.                                *)
THEOREM EvaluatorsAgreeHolds == Spec => []EvaluatorsAgree
<1>1. TypeOK /\ RowsCoherent => EvaluatorsAgree
  <2> SUFFICES ASSUME TypeOK, RowsCoherent, NEW u \in Users, rows[u] # NoAccount
               PROVE  Evaluate(rows[u], day) = EvaluateStatus(rows[u], day)
    BY DEF EvaluatorsAgree
  <2>1. rows[u] \in Accounts /\ Coherent(rows[u], day)
    BY DEF TypeOK, RowsCoherent
  <2> QED
    BY <2>1 DEF Evaluate, EvaluateStatus, Coherent, TrialOver, Accounts, Plans, Statuses
<1> QED
  BY <1>1, TypeOKHolds, Coherence, PTL

-----------------------------------------------------------------------------
(* Waits for locks.  With SQLite there is one writer at a time, and that   *)
(* is what keeps two commits from waiting for each other's read locks.     *)
OneWriter ==
    DbKind = "sqlite" =>
        \A w, v \in Workers : HasReserved(w) /\ HasReserved(v) => w = v

(* A step that gives nobody the write lock keeps the writer alone.         *)
LEMMA NoNewWriter ==
    ASSUME OneWriter, \A v \in Workers : HasReserved(v)' => HasReserved(v)
    PROVE  OneWriter'
BY DEF OneWriter

(* Only Save takes the write lock, and only for its own worker.            *)
LEMMA WriterShape ==
    ASSUME TypeOK, NEW w \in Workers, Step(w)
    PROVE  /\ \A v \in Others(w) : HasReserved(v)' <=> HasReserved(v)
           /\ HasReserved(w)' => HasReserved(w) \/ Save(w)
<1> USE DEF HasReserved, TypeOK
<1>1. ASSUME NEW v \in Others(w)
      PROVE  HasReserved(v)' <=> HasReserved(v)
  <2>1. job'[v] = job[v]
    BY <1>1, StepShape DEF Others
  <2> QED
    BY <2>1
<1>2. ASSUME ~HasReserved(w), ~Save(w)
      PROVE  ~HasReserved(w)'
  BY <1>2 DEF Step, RollBack, Read, ReadBusy, SaveBusy, Close, AskToken, TokenAnswer,
     BeginCommit, Commit, CommitBusy, Answer, Finish, To, IdleJob
<1> QED
  BY <1>1, <1>2

LEMMA OneWriterStep == TypeOK /\ OneWriter /\ [Next]_vars => OneWriter'
<1> SUFFICES ASSUME TypeOK, OneWriter, [Next]_vars
             PROVE  OneWriter'
  OBVIOUS
<1>1. ASSUME NEW w \in Workers, NEW op \in Ops, NEW u \in Users, Arrive(w, op, u)
      PROVE  OneWriter'
  BY <1>1, ArriveShape, NoNewWriter DEF HasReserved, TypeOK
<1>2. ASSUME NEW w \in Workers, Step(w)
      PROVE  OneWriter'
  <2>1. CASE Save(w)
    <3> SUFFICES ASSUME DbKind = "sqlite", NEW v \in Others(w), HasReserved(v)'
                 PROVE  FALSE
      BY <1>2, WriterShape DEF OneWriter, Others
    <3> QED
      BY <1>2, <2>1, WriterShape DEF Save, MayWrite
  <2>2. CASE ~Save(w)
    BY <1>2, <2>2, WriterShape, NoNewWriter DEF Others
  <2> QED
    BY <2>1, <2>2
<1>3. ASSUME NEW i, Crash(i)
      PROVE  OneWriter'
  BY <1>3, NoNewWriter DEF Crash, HasReserved, IdleJob
<1>4. CASE NextDay \/ UNCHANGED vars
  BY <1>4, NoNewWriter DEF NextDay, vars, HasReserved
<1> QED
  BY <1>1, <1>2, <1>3, <1>4 DEF Next

(* With one writer, waits end after two threads: a reader kept out waits   *)
(* for the commit, the commit for readers that are in, and those wait for  *)
(* nobody.  On MySQL the writer of a row never waits.                      *)
LEMMA OneWriterWaitsEnd == OneWriter => WaitsEnd
<1> SUFFICES ASSUME OneWriter, NEW w \in Workers, NEW v \in WaitsFor(w),
                    NEW u \in WaitsFor(v), NEW t \in WaitsFor(u)
             PROVE  FALSE
  BY DEF WaitsEnd
<1> USE DEF WaitsFor, Others
<1>1. CASE DbKind = "sqlite"
  <2>1. \A p \in Workers : HasPending(p) => HasReserved(p)
    BY DEF HasPending, HasReserved
  <2>2. ASSUME NEW p \in Workers, NEW q \in WaitsFor(p), NEW r \in WaitsFor(q)
        PROVE  HasPending(q) /\ HasShared(r) /\ r # q
    <3>1. HasPending(q) \/ HasShared(q)
      BY <1>1, <2>2
    <3> QED
      BY <1>1, <2>2, <3>1 DEF HasPending, HasShared
  <2>3. HasPending(v) /\ HasPending(u) /\ u # v
    BY <2>2
  <2> QED
    BY <1>1, <2>1, <2>3 DEF OneWriter
<1>2. CASE DbKind # "sqlite"
  BY <1>2 DEF HasReserved
<1> QED
  BY <1>1, <1>2

(* Waits of threads for each other's locks never close into a circle, on   *)
(* either database and for any number of threads and instances.            *)
THEOREM WaitsEndHolds == Spec => []WaitsEnd
<1>1. Init => OneWriter
  BY DEF Init, IdleJob, OneWriter, HasReserved
<1> QED
  BY <1>1, OneWriterStep, OneWriterWaitsEnd, TypeOKHolds, PTL DEF Spec

-----------------------------------------------------------------------------
(* With SQLite an open transaction holds the current row: only a commit    *)
(* changes it, and a commit waits for every other transaction that reads.  *)
THEOREM HeldRowsCurrentHolds == Spec => []HeldRowsCurrent
<1>1. Init => HeldRowsCurrent
  BY DEF Init, IdleJob, HeldRowsCurrent, HasShared
<1>2. TypeOK /\ HeldRowsCurrent /\ [Next]_vars => HeldRowsCurrent'
  <2> SUFFICES ASSUME TypeOK, HeldRowsCurrent, [Next]_vars, DbKind = "sqlite"
               PROVE  \A w \in Workers : HasShared(w)' => job'[w].seen = rows'[job'[w].user]
    BY DEF HeldRowsCurrent
  <2>0. \A w \in Workers : HasShared(w) => job[w].seen = rows[job[w].user]
    BY DEF HeldRowsCurrent
  <2>1. ASSUME NEW w \in Workers, NEW op \in Ops, NEW u \in Users, Arrive(w, op, u)
        PROVE  \A v \in Workers : HasShared(v)' => job'[v].seen = rows'[job'[v].user]
    <3>1. rows' = rows
      BY <2>1 DEF Arrive
    <3> QED
      BY <2>0, <2>1, <3>1, ArriveShape DEF HasShared, TypeOK
  <2>2. ASSUME NEW w \in Workers, Step(w), NEW v \in Workers, HasShared(v)'
        PROVE  job'[v].seen = rows'[job'[v].user]
    <3>1. job[w] \in Jobs /\ job[v] \in Jobs
      BY DEF TypeOK
    <3>2. CASE Commit(w)
      <4>1. job'[w].pc = "committed"
        BY <3>1, <3>2 DEF Commit, To, TypeOK
      <4>2. v # w
        BY <2>2, <4>1 DEF HasShared
      <4>3. ~HasShared(v)
        BY <3>2, <4>2 DEF Commit, MayCommit, Others
      <4>4. job'[v] = job[v]
        BY <3>2, <4>2 DEF Commit, TypeOK
      <4> QED
        BY <2>2, <4>3, <4>4 DEF HasShared
    <3>3. CASE ~Commit(w)
      <4>1. rows' = rows
        BY <2>2, <3>3, RowsShape
      <4>2. CASE v # w
        <5>1. job'[v] = job[v]
          BY <2>2, <4>2, StepShape DEF TypeOK
        <5> QED
          BY <2>0, <2>2, <4>1, <5>1 DEF HasShared
      <4>3. CASE v = w
        <5>1. CASE Read(w)
          BY <3>1, <4>1, <4>3, <5>1 DEF Read, To, TypeOK
        <5>2. CASE Save(w) \/ AskToken(w) \/ BeginCommit(w)
          BY <2>0, <3>1, <4>1, <4>3, <5>2 DEF Save, AskToken, BeginCommit, To, HasShared, TypeOK
        <5>3. CASE ~(Read(w) \/ Save(w) \/ AskToken(w) \/ BeginCommit(w))
          <6>1. job'[w].pc \in {"answered", "idle"}
            BY <2>2, <3>1, <3>3, <5>3 DEF Step, RollBack, ReadBusy, SaveBusy, Close,
               TokenAnswer, CommitBusy, Answer, Finish, To, IdleJob, TypeOK
          <6> QED
            BY <2>2, <4>3, <6>1 DEF HasShared
        <5> QED
          BY <5>1, <5>2, <5>3
      <4> QED
        BY <4>2, <4>3
    <3> QED
      BY <3>2, <3>3
  <2>3. ASSUME NEW i, Crash(i)
        PROVE  \A v \in Workers : HasShared(v)' => job'[v].seen = rows'[job'[v].user]
    BY <2>0, <2>3 DEF Crash, HasShared, IdleJob, TypeOK
  <2>4. CASE NextDay \/ UNCHANGED vars
    BY <2>0, <2>4 DEF NextDay, vars, HasShared
  <2> QED
    BY <2>1, <2>2, <2>3, <2>4 DEF Next
<1> QED
  BY <1>1, <1>2, TypeOKHolds, PTL DEF Spec

(* What a use case saves is on trial only if what it read was.             *)
LEMMA EntityLeavesTrial ==
    ASSUME NEW op \in AllOps, NEW a \in Accounts, NEW today \in Int,
           Writes(op, a, today), a.plan # "trial"
    PROVE  Entity(op, a, today).plan # "trial"
<1> USE DEF Entity, Accounts
<1>1. CASE op = "upgrade"
  BY <1>1 DEF Upgraded
<1>2. CASE op = "downgrade"
  BY <1>2 DEF Downgraded
<1>3. CASE op \in {"suspend", "reactivate", "status"}
  BY <1>3 DEF Suspended, Reactivated
<1> QED
  BY <1>1, <1>2, <1>3 DEF AllOps, Changes, Writes

(* With SQLite a user who left the trial is never put back on trial: the   *)
(* row a commit overwrites is the row its transaction read.                *)
THEOREM TrialNotRestoredHolds ==
    ASSUME DbKind = "sqlite"
    PROVE  Spec => TrialNotRestored
<1>1. TypeOK /\ WritersDecided /\ HeldRowsCurrent /\ [Next]_vars =>
          [\A u \in Users :
               rows[u] # NoAccount /\ rows[u].plan # "trial" => rows'[u].plan # "trial"]_vars
  <2> SUFFICES ASSUME TypeOK, WritersDecided, HeldRowsCurrent, [Next]_vars,
                      NEW u \in Users, rows[u] # NoAccount, rows[u].plan # "trial"
               PROVE  rows'[u].plan # "trial"
    OBVIOUS
  <2>1. CASE rows' = rows
    BY <2>1
  <2>2. ASSUME NEW w \in Workers, Commit(w)
        PROVE  rows'[u].plan # "trial"
    <3>1. job[w] \in Jobs /\ JobWrites(w) /\ HasShared(w)
      BY <2>2 DEF TypeOK, WritersDecided, Commit, HasShared
    <3>2. job[w].seen = rows[job[w].user] /\ job[w].seen \in Accounts
      BY <3>1, JobFields DEF HeldRowsCurrent, JobWrites, Writes, Seeable
    <3>3. CASE job[w].user = u
      <4>1. Entity(job[w].op, job[w].seen, job[w].today).plan # "trial"
        BY <3>1, <3>2, <3>3, JobFields, EntityLeavesTrial DEF JobWrites
      <4> QED
        BY <2>2, <3>3, <4>1 DEF Commit, TypeOK
    <3>4. CASE job[w].user # u
      BY <2>2, <3>4 DEF Commit, TypeOK
    <3> QED
      BY <3>3, <3>4
  <2> QED
    BY <2>1, <2>2, RowsShape DEF Next, Arrive, Crash, NextDay, vars
<1> QED
  BY <1>1, TypeCorrect, TypeOKHolds, HeldRowsCurrentHolds, PTL DEF Spec, TrialNotRestored

(* With SQLite a status query never changes a plan: what it commits is the *)
(* committed row with its status evaluated.  (On MySQL it can undo an      *)
(* upgrade, so the hypothesis is needed.)                                  *)
THEOREM QueryKeepsPlanHolds ==
    ASSUME DbKind = "sqlite"
    PROVE  Spec => QueryKeepsPlan
<1>1. TypeOK /\ WritersDecided /\ HeldRowsCurrent /\ [Next]_vars =>
          [\A w \in Workers :
               job[w].op = "status" /\ rows' # rows /\ job'[w] # job[w] =>
                   rows'[job[w].user].plan = rows[job[w].user].plan]_vars
  <2> SUFFICES ASSUME TypeOK, WritersDecided, HeldRowsCurrent, [Next]_vars,
                      NEW w \in Workers,
                      job[w].op = "status", rows' # rows, job'[w] # job[w]
               PROVE  rows'[job[w].user].plan = rows[job[w].user].plan
    OBVIOUS
  <2>1. PICK v \in Workers : Step(v) /\ Commit(v)
    BY RowsShape DEF Next, Arrive, Crash, NextDay, vars
  <2>2. v = w
    BY <2>1 DEF Commit, TypeOK
  <2>3. job[w].user \in Users /\ HasShared(w)
    BY <2>1, <2>2, JobFields DEF TypeOK, Commit, HasShared
  <2>4. /\ job[w].seen = rows[job[w].user]
        /\ rows'[job[w].user] = Entity("status", job[w].seen, job[w].today)
    BY <2>1, <2>2, <2>3 DEF HeldRowsCurrent, Commit, TypeOK
  <2>5. job[w].seen \in Accounts
    BY <2>1, <2>2, JobFields DEF TypeOK, WritersDecided, JobWrites, Writes, Commit, Seeable
  <2> QED
    BY <2>4, <2>5 DEF Entity, Accounts
<1> QED
  BY <1>1, TypeCorrect, HeldRowsCurrentHolds, PTL DEF Spec, QueryKeepsPlan

(* On what an operation saves, the same operation has nothing to save.     *)
LEMMA EntityFinal ==
    ASSUME NEW op \in AllOps, NEW a \in Accounts, NEW today \in Int, NEW later \in Int,
           Writes(op, a, today)
    PROVE  ~Writes(op, Entity(op, a, today), later)
<1> USE DEF Entity, Accounts, Writes, Accepts, Changes
<1>1. CASE op = "upgrade"
  BY <1>1 DEF Upgraded, CanUpgrade
<1>2. CASE op = "downgrade"
  BY <1>2 DEF Downgraded, CanDowngrade
<1>3. CASE op = "suspend"
  BY <1>3 DEF Suspended, CanSuspend
<1>4. CASE op = "reactivate"
  BY <1>4 DEF Reactivated, CanReactivate
<1>5. CASE op = "status"
  BY <1>5 DEF Evaluate
<1> QED
  BY <1>1, <1>2, <1>3, <1>4, <1>5 DEF AllOps

(* An operation that runs twice, one run after the other's commit, writes  *)
(* once: the second run finds the row as the first left it and refuses.    *)
THEOREM RetryWritesNothingHolds == Spec => RetryWritesNothing
<1>1. TypeOK /\ WritersDecided /\ TypeOK' /\ [Next]_vars =>
          [\A w \in Workers :
               job[w].pc = "committing" /\ job'[w].pc = "committed" =>
                   ~Writes(job[w].op, rows'[job[w].user], day')]_vars
  <2> SUFFICES ASSUME TypeOK, WritersDecided, TypeOK', [Next]_vars, NEW w \in Workers,
                      job[w].pc = "committing", job'[w].pc = "committed"
               PROVE  ~Writes(job[w].op, rows'[job[w].user], day')
    OBVIOUS
  <2>0. job \in [Workers -> Jobs] /\ job[w] \in Jobs /\ day' \in Int
    BY DEF TypeOK
  <2>1. Commit(w)
    <3>1. ASSUME NEW v \in Workers, Step(v)
          PROVE  Commit(w)
      <4>1. v = w
        BY <2>0, <3>1, StepShape
      <4> QED
        BY <2>0, <3>1, <4>1
           DEF Step, RollBack, Read, ReadBusy, Save, SaveBusy, Close, AskToken, TokenAnswer,
               BeginCommit, CommitBusy, Answer, Finish, To, IdleJob
    <3>2. ASSUME NEW v \in Workers, NEW op \in Ops, NEW u \in Users, Arrive(v, op, u)
          PROVE  FALSE
      <4>1. PICK j \in Jobs : j.pc = "open" /\ job' = [job EXCEPT ![v] = j]
        BY <3>2, ArriveShape
      <4> QED
        BY <2>0, <4>1
    <3> QED
      BY <3>1, <3>2 DEF Next, Crash, NextDay, vars, IdleJob
  <2>2. JobWrites(w) /\ job[w].seen \in Accounts
    BY <2>0, JobFields DEF WritersDecided, JobWrites, Writes, Seeable
  <2>3. rows'[job[w].user] = Entity(job[w].op, job[w].seen, job[w].today)
    BY <2>0, <2>1, JobFields DEF Commit, TypeOK
  <2> QED
    BY <2>0, <2>2, <2>3, JobFields, EntityFinal DEF JobWrites
<1> QED
  BY <1>1, TypeCorrect, TypeOKHolds, PTL DEF Spec, RetryWritesNothing

-----------------------------------------------------------------------------
(* The refinement.  Besides the invariants above it needs to know that a   *)
(* request has no answer until its transaction is over, and that only a    *)
(* login of a known user asks for a token.                                 *)
JobShape ==
    \A w \in Workers :
        /\ job[w].pc # "answered" => job[w].reply = "none"
        /\ job[w].pc = "asking" => job[w].op = "login" /\ job[w].seen # NoAccount

(* JobShape is an invariant.                                               *)
LEMMA JobShapeHolds == Spec => []JobShape
<1>1. Init => JobShape
  BY DEF Init, IdleJob, JobShape
<1>2. TypeOK /\ JobShape /\ [Next]_vars => JobShape'
  <2> SUFFICES ASSUME TypeOK, JobShape, [Next]_vars
               PROVE  JobShape'
    OBVIOUS
  <2>1. ASSUME NEW w \in Workers, NEW op \in Ops, NEW u \in Users, Arrive(w, op, u)
        PROVE  JobShape'
    BY <2>1 DEF Arrive, JobShape, TypeOK
  <2>2. ASSUME NEW w \in Workers, Step(w)
        PROVE  JobShape'
    <3>1. \A v \in Workers : v # w => job'[v] = job[v]
      BY <2>2, StepShape DEF TypeOK
    <3>2. /\ job'[w].pc # "answered" => job'[w].reply = "none"
          /\ job'[w].pc = "asking" => job'[w].op = "login" /\ job'[w].seen # NoAccount
      BY <2>2 DEF Step, RollBack, Read, ReadBusy, Save, SaveBusy, Close, AskToken,
         TokenAnswer, BeginCommit, Commit, CommitBusy, Answer, Finish, To, IdleJob, TypeOK
    <3> QED
      BY <3>1, <3>2 DEF JobShape
  <2>3. ASSUME NEW i, Crash(i)
        PROVE  JobShape'
    BY <2>3 DEF Crash, JobShape, IdleJob, TypeOK
  <2>4. CASE NextDay \/ UNCHANGED vars
    BY <2>4 DEF NextDay, vars, JobShape
  <2> QED
    BY <2>1, <2>2, <2>3, <2>4 DEF Next
<1> QED
  BY <1>1, <1>2, TypeOKHolds, PTL DEF Spec

(* A step that changes one job changes one abstract job.                   *)
LEMMA AtomicJobsExcept ==
    ASSUME TypeOK, NEW w \in Workers, NEW j \in Jobs, job' = [job EXCEPT ![w] = j]
    PROVE  /\ AtomicJobs' = [AtomicJobs EXCEPT ![w] = AtomicJob(j)]
           /\ AtomicJobs[w] = AtomicJob(job[w])
BY DEF AtomicJobs, TypeOK

RefinementInv ==
    /\ TypeOK /\ WritersDecided
    /\ HeldRowsCurrent
    /\ JobShape

(* A step that neither the table nor the stage of the request shows.       *)
LEMMA HiddenStep ==
    ASSUME RefinementInv, NEW w \in Workers, NEW j \in Jobs,
           job' = [job EXCEPT ![w] = j], AtomicJob(j) = AtomicJob(job[w]),
           UNCHANGED <<rows, day>>
    PROVE  UNCHANGED Atomic!vars
<1>1. AtomicJobs' = AtomicJobs
  BY AtomicJobsExcept DEF RefinementInv, AtomicJobs
<1> QED
  BY <1>1 DEF Atomic!vars

(* The instance has its own copies of the domain operators.                *)
LEMMA AtomicDomain ==
    ASSUME NEW op, NEW a, NEW today
    PROVE  /\ Atomic!Writes(op, a, today) <=> Writes(op, a, today)
           /\ Atomic!Entity(op, a, today) = Entity(op, a, today)
           /\ Atomic!RefusalOrView(op, a) = RefusalOrView(op, a)
           /\ Atomic!TokenReplies = TokenReplies
<1>1. Atomic!Evaluate(a, today) = Evaluate(a, today)
  BY DEF Atomic!Evaluate, Evaluate, Atomic!TrialOver, TrialOver
<1>2. Atomic!Accepts(op, a) <=> Accepts(op, a)
  BY DEF Atomic!Accepts, Accepts, Atomic!CanUpgrade, CanUpgrade, Atomic!CanDowngrade,
     CanDowngrade, Atomic!CanSuspend, CanSuspend, Atomic!CanReactivate, CanReactivate
<1>3. Atomic!Writes(op, a, today) <=> Writes(op, a, today)
  BY <1>1, <1>2 DEF Atomic!Writes, Writes, Atomic!Changes, Changes
<1>4. Atomic!Entity(op, a, today) = Entity(op, a, today)
  BY <1>1 DEF Atomic!Entity, Entity, Atomic!Upgraded, Upgraded, Atomic!Downgraded,
     Downgraded, Atomic!Suspended, Suspended, Atomic!Reactivated, Reactivated
<1> QED
  BY <1>3, <1>4 DEF Atomic!RefusalOrView, RefusalOrView, Atomic!TokenReplies, TokenReplies

(* When a request, seen from outside, performs its use case.               *)
LEMMA PerformShape ==
    ASSUME NEW w \in Workers, NEW a,
           a = rows[job[w].user], Stage(job[w]) = "open",
           rows' = IF Writes(job[w].op, a, job[w].today)
                   THEN [rows EXCEPT ![job[w].user] = Entity(job[w].op, a, job[w].today)]
                   ELSE rows,
           day' = day,
           AtomicJobs' = [AtomicJobs EXCEPT
                              ![w] = Atomic!To(AtomicJob(job[w]), "performed", a, "none")]
    PROVE  Atomic!Perform(w)
<1>1. /\ AtomicJobs[w] = AtomicJob(job[w])
      /\ AtomicJobs[w].stage = "open"
      /\ AtomicJobs[w].op = job[w].op
      /\ AtomicJobs[w].user = job[w].user
      /\ AtomicJobs[w].today = job[w].today
  BY DEF AtomicJobs, AtomicJob
<1>2. rows' = IF Atomic!Writes(job[w].op, a, job[w].today)
              THEN [rows EXCEPT ![job[w].user] = Atomic!Entity(job[w].op, a, job[w].today)]
              ELSE rows
  BY AtomicDomain
<1>3. rows' = IF Atomic!Writes(AtomicJobs[w].op, a, AtomicJobs[w].today)
              THEN [rows EXCEPT ![AtomicJobs[w].user] =
                        Atomic!Entity(AtomicJobs[w].op, a, AtomicJobs[w].today)]
              ELSE rows
  BY <1>1, <1>2
<1>4. AtomicJobs' = [AtomicJobs EXCEPT
                         ![w] = Atomic!To(AtomicJobs[w], "performed", a, "none")]
  BY <1>1
<1>5. a = rows[AtomicJobs[w].user]
  BY <1>1
<1> QED
  BY <1>1, <1>3, <1>4, <1>5 DEF Atomic!Perform

(* A failure, wherever the transaction was, is a failure with no effect.   *)
LEMMA RollBackFails ==
    ASSUME RefinementInv, NEW w \in Workers, RollBack(w), Stage(job[w]) = "open"
    PROVE  Atomic!Fail(w)
<1> DEFINE j == To(job[w], "answered", NoAccount, "500")
<1>1. job[w] \in Jobs
  BY DEF RefinementInv, TypeOK
<1>2. j \in Jobs
  BY <1>1, ToType DEF PCs, Seeable, ReplyCodes
<1>3. AtomicJob(j) = Atomic!To(AtomicJob(job[w]), "answered", NoAccount, "500")
  BY DEF AtomicJob, Stage, To, Atomic!To
<1>4. AtomicJobs' = [AtomicJobs EXCEPT ![w] = Atomic!To(AtomicJobs[w], "answered", NoAccount, "500")]
  BY <1>2, <1>3, AtomicJobsExcept DEF RefinementInv, RollBack
<1>5. AtomicJobs[w].stage = "open"
  BY DEF AtomicJobs, AtomicJob
<1> QED
  BY <1>4, <1>5 DEF Atomic!Fail, RollBack

(* A read that decides the request performs it; any other read is hidden.  *)
LEMMA ReadRefines ==
    ASSUME RefinementInv, NEW w \in Workers, Read(w)
    PROVE  Atomic!Perform(w) \/ UNCHANGED Atomic!vars
<1> DEFINE a == rows[job[w].user]
           j == To(job[w], "read", a, "none")
<1>1. job[w] \in Jobs /\ job[w].user \in Users /\ a \in Seeable
  BY JobFields DEF RefinementInv, TypeOK, Seeable
<1>2. j \in Jobs
  BY <1>1, ToType DEF PCs, ReplyCodes
<1>3. job[w].reply = "none" /\ job[w].pc = "open"
  BY DEF Read, RefinementInv, JobShape
<1>4. AtomicJob(job[w]) = [stage |-> "open", op |-> job[w].op, user |-> job[w].user,
                           today |-> job[w].today, seen |-> NoAccount, reply |-> "none"]
  BY <1>3 DEF AtomicJob, Stage
<1>5. job' = [job EXCEPT ![w] = j] /\ UNCHANGED <<rows, day>>
  BY DEF Read
<1>6. /\ AtomicJobs' = [AtomicJobs EXCEPT ![w] = AtomicJob(j)]
      /\ AtomicJobs[w] = AtomicJob(job[w])
  BY <1>2, <1>5, AtomicJobsExcept DEF RefinementInv
<1>7. CASE Writes(job[w].op, a, job[w].today)
  <2>1. Stage(j) = "open"
    BY <1>7 DEF Stage, To
  <2>2. AtomicJob(j) = AtomicJob(job[w])
    BY <1>4, <2>1 DEF AtomicJob, To
  <2> QED
    BY <1>2, <1>5, <2>2, HiddenStep
<1>8. CASE ~Writes(job[w].op, a, job[w].today)
  <2>1. Stage(j) = "performed"
    BY <1>8 DEF Stage, To
  <2>2. AtomicJob(j) = Atomic!To(AtomicJob(job[w]), "performed", a, "none")
    BY <1>4, <2>1 DEF AtomicJob, To, Atomic!To
  <2> QED
    BY <1>3, <1>5, <1>6, <1>8, <2>2, PerformShape DEF Stage
<1> QED
  BY <1>7, <1>8

(* The commit of a request that writes performs it, on the row that is     *)
(* current at the commit: with SQLite the one the transaction read.        *)
LEMMA CommitRefines ==
    ASSUME RefinementInv, DbKind = "sqlite", NEW w \in Workers, Commit(w)
    PROVE  Atomic!Perform(w)
<1> DEFINE a == rows[job[w].user]
           j == To(job[w], "committed", job[w].seen, "none")
<1>1. job[w] \in Jobs /\ job[w].seen \in Seeable
  BY JobFields DEF RefinementInv, TypeOK
<1>2. j \in Jobs
  BY <1>1, ToType DEF PCs, ReplyCodes
<1>3. job[w].reply = "none" /\ job[w].pc = "committing"
  BY DEF Commit, RefinementInv, JobShape
<1>4. job[w].seen = a
  BY <1>3 DEF RefinementInv, HeldRowsCurrent, HasShared
<1>5. Writes(job[w].op, a, job[w].today)
  BY <1>3, <1>4 DEF RefinementInv, WritersDecided, JobWrites
<1>6. AtomicJob(job[w]) = [stage |-> "open", op |-> job[w].op, user |-> job[w].user,
                           today |-> job[w].today, seen |-> NoAccount, reply |-> "none"]
  BY <1>3 DEF AtomicJob, Stage
<1>7. AtomicJob(j) = Atomic!To(AtomicJob(job[w]), "performed", a, "none")
  BY <1>4, <1>6 DEF AtomicJob, Stage, To, Atomic!To
<1>8. /\ AtomicJobs' = [AtomicJobs EXCEPT ![w] = AtomicJob(j)]
      /\ AtomicJobs[w] = AtomicJob(job[w])
  BY <1>2, AtomicJobsExcept DEF RefinementInv, Commit
<1>9. /\ rows' = [rows EXCEPT ![job[w].user] = Entity(job[w].op, a, job[w].today)]
      /\ UNCHANGED day
  BY <1>4 DEF Commit
<1> QED
  BY <1>3, <1>5, <1>7, <1>8, <1>9, PerformShape DEF Stage

(* The three ways to an answer: refusal or view, token, committed change.  *)
LEMMA AnswerRefines ==
    ASSUME RefinementInv, NEW w \in Workers, Close(w) \/ TokenAnswer(w) \/ Answer(w)
    PROVE  Atomic!Answer(w)
<1>1. job[w] \in Jobs /\ job[w].seen \in Seeable
  BY JobFields DEF RefinementInv, TypeOK
<1>2. PICK r \in ReplyCodes :
          /\ job' = [job EXCEPT ![w] = To(job[w], "answered", job[w].seen, r)]
          /\ r \in Atomic!Replies(job[w].op, job[w].seen, job[w].today)
  <2>1. CASE Close(w)
    BY <2>1, AtomicDomain DEF Close, JobWrites, RefusalOrView, ReplyCodes, Atomic!Replies
  <2>2. CASE TokenAnswer(w)
    <3>1. job[w].op = "login" /\ job[w].seen # NoAccount
      BY <2>2 DEF TokenAnswer, RefinementInv, JobShape
    <3>2. ~Writes(job[w].op, job[w].seen, job[w].today)
      BY <3>1 DEF Writes, Changes
    <3>3. TokenReplies \subseteq Atomic!Replies(job[w].op, job[w].seen, job[w].today)
      BY <3>1, <3>2, AtomicDomain DEF Atomic!Replies
    <3> QED
      BY <2>2, <3>3 DEF TokenAnswer, TokenReplies, ReplyCodes
  <2>3. CASE Answer(w)
    <3>1. Writes(job[w].op, job[w].seen, job[w].today)
      BY <2>3 DEF Answer, RefinementInv, WritersDecided, JobWrites
    <3> QED
      BY <2>3, <3>1, AtomicDomain DEF Answer, ReplyCodes, Atomic!Replies
  <2> QED
    BY <2>1, <2>2, <2>3
<1> DEFINE j == To(job[w], "answered", job[w].seen, r)
<1>3. j \in Jobs
  BY <1>1, ToType DEF PCs
<1>4. Stage(job[w]) = "performed"
  BY DEF Close, TokenAnswer, Answer, JobWrites, Stage
<1>5. /\ AtomicJob(job[w]).stage = "performed"
      /\ AtomicJob(job[w]).op = job[w].op
      /\ AtomicJob(job[w]).seen = job[w].seen
      /\ AtomicJob(job[w]).today = job[w].today
  BY <1>4 DEF AtomicJob
<1>6. AtomicJob(j) = Atomic!To(AtomicJob(job[w]), "answered", job[w].seen, r)
  BY DEF AtomicJob, Stage, To, Atomic!To
<1>7. /\ AtomicJobs' = [AtomicJobs EXCEPT ![w] = AtomicJob(j)]
      /\ AtomicJobs[w] = AtomicJob(job[w])
  BY <1>2, <1>3, AtomicJobsExcept DEF RefinementInv
<1>8. UNCHANGED <<rows, day>>
  BY DEF Close, TokenAnswer, Answer
<1> QED
  BY <1>2, <1>5, <1>6, <1>7, <1>8 DEF Atomic!Answer

(* Every step of a worker is a step of the abstract service, or hidden.    *)
LEMMA StepRefines ==
    ASSUME RefinementInv, DbKind = "sqlite", NEW w \in Workers, Step(w)
    PROVE  \/ Atomic!Perform(w) \/ Atomic!Answer(w) \/ Atomic!Fail(w) \/ Atomic!Finish(w)
           \/ UNCHANGED Atomic!vars
<1>0. job[w] \in Jobs /\ job[w].seen \in Seeable
  BY JobFields DEF RefinementInv, TypeOK
<1>1. CASE Read(w)
  BY <1>1, ReadRefines
<1>2. CASE ReadBusy(w) \/ SaveBusy(w) \/ CommitBusy(w)
  <2>1. Stage(job[w]) = "open" /\ RollBack(w)
    BY <1>2 DEF ReadBusy, SaveBusy, CommitBusy, JobWrites, Stage
  <2> QED
    BY <2>1, RollBackFails
<1>3. CASE Save(w) \/ AskToken(w) \/ BeginCommit(w)
  <2>1. PICK pc \in {"saved", "asking", "committing"} :
            /\ job' = [job EXCEPT ![w] = To(job[w], pc, job[w].seen, "none")]
            /\ Stage(To(job[w], pc, job[w].seen, "none")) = Stage(job[w])
    BY <1>3 DEF Save, AskToken, BeginCommit, Stage, To, JobWrites, Writes, Changes
  <2>2. job[w].reply = "none" /\ UNCHANGED <<rows, day>>
    BY <1>3 DEF Save, AskToken, BeginCommit, RefinementInv, JobShape
  <2>3. AtomicJob(To(job[w], pc, job[w].seen, "none")) = AtomicJob(job[w])
    BY <2>1, <2>2 DEF AtomicJob, To
  <2>4. To(job[w], pc, job[w].seen, "none") \in Jobs
    BY <1>0, ToType DEF PCs, ReplyCodes
  <2> QED
    BY <2>1, <2>2, <2>3, <2>4, HiddenStep
<1>4. CASE Close(w) \/ TokenAnswer(w) \/ Answer(w)
  BY <1>4, AnswerRefines
<1>5. CASE Commit(w)
  BY <1>5, CommitRefines
<1>6. CASE Finish(w)
  <2>1. AtomicJob(IdleJob) = Atomic!IdleJob
    BY DEF AtomicJob, IdleJob, Atomic!IdleJob, Stage
  <2>2. AtomicJobs' = [AtomicJobs EXCEPT ![w] = Atomic!IdleJob]
    BY <1>6, <2>1, IdleJobType, AtomicJobsExcept DEF Finish, RefinementInv
  <2>3. AtomicJobs[w].stage = "answered"
    BY <1>6 DEF Finish, AtomicJobs, AtomicJob, Stage
  <2> QED
    BY <1>6, <2>2, <2>3 DEF Finish, Atomic!Finish
<1> QED
  BY <1>1, <1>2, <1>3, <1>4, <1>5, <1>6 DEF Step

(* With SQLite the service is atomic: each answered request took effect at *)
(* one instant on the row as it then was, or failed with no effect,        *)
(* whatever the requests, the crashes and the waits for locks.             *)
THEOREM Refinement ==
    ASSUME DbKind = "sqlite"
    PROVE  Spec => ImplementsAtomic
<1>0. AtomicJob(IdleJob) = Atomic!IdleJob
  BY DEF AtomicJob, IdleJob, Atomic!IdleJob, Stage
<1>1. Init => Atomic!Init
  BY <1>0 DEF Init, Atomic!Init, AtomicJobs
<1>2. RefinementInv /\ [Next]_vars => [Atomic!Next]_Atomic!vars
  <2> SUFFICES ASSUME RefinementInv, [Next]_vars
               PROVE  Atomic!Next \/ UNCHANGED Atomic!vars
    OBVIOUS
  <2>1. ASSUME NEW w \in Workers, NEW op \in Ops, NEW u \in Users, Arrive(w, op, u)
        PROVE  Atomic!Next
    <3> DEFINE j == [pc |-> "open", op |-> op, user |-> u, today |-> day,
                     seen |-> NoAccount, reply |-> "none"]
    <3>1. j \in Jobs
      BY ConstantsAssumption DEF Jobs, PCs, RefinementInv, TypeOK
    <3>2. AtomicJob(j) = [stage |-> "open", op |-> op, user |-> u, today |-> day,
                          seen |-> NoAccount, reply |-> "none"]
      BY DEF AtomicJob, Stage
    <3>3. AtomicJobs' = [AtomicJobs EXCEPT ![w] = AtomicJob(j)]
      BY <2>1, <3>1, AtomicJobsExcept DEF Arrive, RefinementInv
    <3>4. AtomicJobs[w].stage = "idle"
      BY <2>1 DEF Arrive, AtomicJobs, AtomicJob, Stage
    <3>5. Atomic!Arrive(w, op, u)
      BY <2>1, <3>2, <3>3, <3>4 DEF Arrive, Atomic!Arrive
    <3> QED
      BY <3>5 DEF Atomic!Next
  <2>2. ASSUME NEW w \in Workers, Step(w)
        PROVE  Atomic!Next \/ UNCHANGED Atomic!vars
    BY <2>2, StepRefines DEF Atomic!Next
  <2>3. ASSUME NEW i \in {Instance[w] : w \in Workers}, Crash(i)
        PROVE  Atomic!Next
    <3>1. AtomicJobs' = [w \in Workers |-> IF Instance[w] = i THEN Atomic!IdleJob
                                           ELSE AtomicJobs[w]]
      BY <1>0, <2>3 DEF Crash, AtomicJobs
    <3>2. Atomic!Crash(i)
      BY <2>3, <3>1 DEF Crash, Atomic!Crash
    <3> QED
      BY <3>2 DEF Atomic!Next
  <2>4. CASE NextDay
    <3>1. Atomic!NextDay
      BY <2>4 DEF NextDay, Atomic!NextDay, AtomicJobs
    <3> QED
      BY <3>1 DEF Atomic!Next
  <2>5. CASE UNCHANGED vars
    BY <2>5 DEF vars, Atomic!vars, AtomicJobs
  <2> QED
    BY <2>1, <2>2, <2>3, <2>4, <2>5 DEF Next
<1> QED
  BY <1>1, <1>2, TypeCorrect, HeldRowsCurrentHolds, JobShapeHolds, PTL
     DEF Spec, RefinementInv, ImplementsAtomic, Atomic!Spec
=============================================================================
