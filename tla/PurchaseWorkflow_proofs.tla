----------------------- MODULE PurchaseWorkflow_proofs -----------------------
(***************************************************************************)
(* Proofs about PurchaseWorkflow, for any set of requests, any number of   *)
(* handlers at work and any notes.                                         *)
(***************************************************************************)
EXTENDS PurchaseWorkflow, TLAPS

-----------------------------------------------------------------------------
(* The operators on rows.                                                  *)

(* Deciding a request, by hand or by Capitalia, gives a row.               *)
LEMMA DecidedType ==
    /\ \A op \in Manual, row \in Rows :
           /\ DecidedByHand(op, row) \in Rows
           /\ DecidedByHand(op, row).decision = row.decision
           /\ DecidedByHand(op, row).notes = row.notes
           /\ DecidedByHand(op, row).status =
                  IF op = "confirm" THEN "Confirmed" ELSE "Rejected"
    /\ \A approved \in BOOLEAN, notes \in Notes \cup {"none"} :
           DecidedByCapitalia(approved, notes) \in Rows
BY DEF DecidedByHand, DecidedByCapitalia, Rows, Statuses, Manual

(* What SaveChanges leaves in the row: each column is the entity's, or it  *)
(* was not changed and is the stored one.                                  *)
LEMMA SavedColumns ==
    ASSUME NEW row \in Rows, NEW loaded \in Rows, NEW entity \in Rows
    PROVE  /\ Saved(row, loaded, entity) \in Rows
           /\ row = loaded => Saved(row, loaded, entity) = entity
           /\ entity.decision = loaded.decision =>
                  Saved(row, loaded, entity).decision = row.decision
           /\ entity.notes = loaded.notes =>
                  Saved(row, loaded, entity).notes = row.notes
BY DEF Saved, Rows

-----------------------------------------------------------------------------
(* The invariant.  A handler at work has loaded a row that still exists,   *)
(* its entity is a decision on what it loaded, and on a request that was   *)
(* never worked on by two at once it is alone and has loaded what is       *)
(* stored.                                                                 *)
Works(j) == j.pc \in {"awaiting", "changed"}

Follows(row) ==
    /\ row.decision = "approved" => row.status = "Confirmed"
    /\ row.decision = "declined" => row.status = "Rejected"

ByCapitalia ==
    {DecidedByCapitalia(approved, notes) : approved \in BOOLEAN, notes \in Notes \cup {"none"}}

WorkOK(j) ==
    Works(j) =>
        /\ j.loaded \in Rows /\ j.entity \in Rows
        /\ rows[j.id] \in Rows
        /\ j.pc = "awaiting" => j.op = "external"
        /\ j.pc = "changed" /\ j.op \in Manual =>
               /\ j.entity = DecidedByHand(j.op, j.loaded)
               /\ Refusal(j.op, j.loaded) = "none"
        /\ j.pc = "changed" /\ j.op = "external" => j.entity \in ByCapitalia

Alone(w) ==
    Works(job[w]) /\ job[w].id \notin raced =>
        /\ job[w].loaded = rows[job[w].id]
        /\ \A v \in Workers : Inside(v, job[w].id) => v = w

WorkInv ==
    /\ TypeOK
    /\ StatusFollowsDecision
    /\ \A w \in Workers : WorkOK(job[w]) /\ Alone(w)

(* The fields of a job.                                                    *)
LEMMA JobFields ==
    ASSUME NEW j \in Jobs
    PROVE  /\ j.pc \in PCs /\ j.op \in Ops /\ j.id \in Ids
           /\ j.loaded \in Rows \cup {NoRow} /\ j.entity \in Rows \cup {NoRow}
BY DEF Jobs

(* A job built from parts of the right types is a job with those parts.    *)
LEMMA JobType ==
    ASSUME NEW pc \in PCs, NEW op \in Ops, NEW id \in Ids,
           NEW loaded \in Rows \cup {NoRow}, NEW entity \in Rows \cup {NoRow},
           NEW reply \in {"none", "200", "400", "404", "500", "502", "503"}
    PROVE  LET j == Job(pc, op, id, loaded, entity, reply)
           IN  /\ j \in Jobs
               /\ j.pc = pc /\ j.op = op /\ j.id = id
               /\ j.loaded = loaded /\ j.entity = entity
BY DEF Job, Jobs

(* The invariant holds at the start: nothing exists and nobody works.      *)
LEMMA WorkInvInit == Init => WorkInv
<1> SUFFICES ASSUME Init
             PROVE  WorkInv
  OBVIOUS
<1>1. ASSUME NEW w \in Workers
      PROVE  job[w] \in Jobs /\ job[w].pc = "idle"
  <2>1. PICK r \in Ids : job[w] = Idle("confirm", r)
    BY <1>1 DEF Init
  <2> QED
    BY <2>1 DEF Idle, Job, Jobs, PCs, Ops
<1>2. TypeOK
  BY <1>1 DEF Init, TypeOK
<1>3. StatusFollowsDecision
  BY DEF Init, StatusFollowsDecision
<1> QED
  BY <1>1, <1>2, <1>3 DEF WorkInv, WorkOK, Alone, Works

(* A step that gives one handler a job that is not at work, and leaves the *)
(* table alone, keeps the invariant.                                       *)
LEMMA LeavesWork ==
    ASSUME WorkInv, NEW w \in Workers, NEW j \in Jobs, ~Works(j),
           job' = [job EXCEPT ![w] = j], UNCHANGED <<rows, raced>>
    PROVE  WorkInv'
<1>1. TypeOK' /\ StatusFollowsDecision'
  BY DEF WorkInv, TypeOK, StatusFollowsDecision
<1>2. \A v \in Workers : job'[v] = IF v = w THEN j ELSE job[v]
  BY DEF WorkInv, TypeOK
<1>3. ASSUME NEW v \in Workers
      PROVE  WorkOK(job[v])' /\ Alone(v)'
  BY <1>2 DEF WorkInv, WorkOK, Alone, Works, Inside
<1> QED
  BY <1>1, <1>3 DEF WorkInv

(* Loading a row.                                                          *)
LEMMA LoadKeeps == WorkInv /\ (\E w \in Workers : Load(w)) => WorkInv'
<1> SUFFICES ASSUME WorkInv, NEW w \in Workers, Load(w)
             PROVE  WorkInv'
  OBVIOUS
<1> DEFINE j == job[w]
           row == rows[j.id]
           k == IF j.op \in Manual
                THEN Job("changed", j.op, j.id, row, DecidedByHand(j.op, row), "none")
                ELSE Job("awaiting", j.op, j.id, row, row, "none")
<1>1. j \in Jobs /\ j.op \in Ops /\ j.id \in Ids /\ j.pc = "open"
  BY JobFields DEF WorkInv, TypeOK, Load
<1>2. row \in Rows /\ Refusal(j.op, row) = "none"
  BY <1>1 DEF WorkInv, TypeOK, Load, Refusal
<1>3. /\ k \in Jobs /\ k.op = j.op /\ k.id = j.id /\ k.loaded = row /\ Works(k)
      /\ j.op \in Manual => k.pc = "changed" /\ k.entity = DecidedByHand(j.op, row)
      /\ j.op \notin Manual => k.pc = "awaiting" /\ k.entity = row
      /\ k.entity \in Rows
  BY <1>1, <1>2, JobType, DecidedType DEF PCs, Works
<1>4. job' = [job EXCEPT ![w] = k] /\ rows' = rows
  BY DEF Load
<1>5. raced' = IF \E v \in Workers \ {w} : Inside(v, j.id)
               THEN raced \cup {j.id} ELSE raced
  BY DEF Load
<1>6. \A v \in Workers : job'[v] = IF v = w THEN k ELSE job[v]
  BY <1>4 DEF WorkInv, TypeOK
<1> HIDE DEF k
<1>7. TypeOK' /\ StatusFollowsDecision'
  BY <1>1, <1>3, <1>4, <1>5 DEF WorkInv, TypeOK, StatusFollowsDecision
<1>8. ASSUME NEW v \in Workers
      PROVE  WorkOK(job[v])'
  <2>1. CASE v = w
    BY <1>1, <1>2, <1>3, <1>4, <1>6, <2>1 DEF WorkOK, Works, Ops, Manual
  <2>2. CASE v # w
    BY <1>4, <1>6, <2>2 DEF WorkInv, WorkOK, Works
  <2> QED
    BY <2>1, <2>2
<1>9. ASSUME NEW v \in Workers
      PROVE  Alone(v)'
  <2>1. SUFFICES ASSUME Works(job'[v]), job'[v].id \notin raced'
                 PROVE  /\ job'[v].loaded = rows[job'[v].id]
                        /\ \A u \in Workers :
                               Works(job'[u]) /\ job'[u].id = job'[v].id => u = v
    BY <1>4 DEF Alone, Works, Inside
  <2>2. CASE v = w
    <3>1. ~ \E u \in Workers \ {w} : Inside(u, j.id)
      BY <1>3, <1>5, <1>6, <2>1, <2>2
    <3> QED
      BY <1>3, <1>6, <2>2, <3>1 DEF Inside, Works
  <2>3. CASE v # w
    <3>1. job'[v] = job[v] /\ job[v].id \notin raced
      BY <1>5, <1>6, <2>1, <2>3
    <3>2. /\ job[v].loaded = rows[job[v].id]
          /\ \A u \in Workers : Inside(u, job[v].id) => u = v
      BY <2>1, <3>1 DEF WorkInv, Alone
    <3>3. job[v].id # j.id
      <4>1. SUFFICES ASSUME job[v].id = j.id
                     PROVE  FALSE
        OBVIOUS
      <4>2. Inside(v, j.id)
        BY <2>1, <3>1, <4>1 DEF Inside, Works
      <4> QED
        BY <1>5, <2>1, <2>3, <3>1, <4>1, <4>2
    <3> QED
      BY <1>3, <1>6, <3>1, <3>2, <3>3 DEF Inside, Works
  <2> QED
    BY <2>2, <2>3
<1> QED
  BY <1>7, <1>8, <1>9 DEF WorkInv

(* Capitalia's answer changes the entity of a handler that is alone, or    *)
(* not, as before.                                                         *)
LEMMA DecideKeeps ==
    ASSUME WorkInv, NEW w \in Workers, NEW approved \in BOOLEAN,
           NEW notes \in Notes \cup {"none"}, Decide(w, approved, notes)
    PROVE  WorkInv'
<1> DEFINE j == job[w]
           e == DecidedByCapitalia(approved, notes)
           k == Job("changed", j.op, j.id, j.loaded, e, "none")
<1>1. j \in Jobs /\ j.op \in Ops /\ j.id \in Ids /\ j.pc = "awaiting" /\ Works(j)
  BY JobFields DEF WorkInv, TypeOK, Decide, Works
<1>2. j.loaded \in Rows /\ rows[j.id] \in Rows /\ j.op = "external"
  BY <1>1 DEF WorkInv, WorkOK
<1>3. e \in Rows /\ e \in ByCapitalia
  BY DecidedType DEF ByCapitalia
<1> HIDE DEF e
<1>4. /\ k \in Jobs /\ k.op = "external" /\ k.id = j.id /\ k.loaded = j.loaded
      /\ k.entity = e /\ k.pc = "changed"
  BY <1>1, <1>2, <1>3 DEF PCs, Job, Jobs
<1>5. job' = [job EXCEPT ![w] = k] /\ rows' = rows /\ raced' = raced
  BY DEF Decide, e
<1> HIDE DEF k
<1>6. \A v \in Workers : job'[v] = IF v = w THEN k ELSE job[v]
  BY <1>5 DEF WorkInv, TypeOK
<1>7. TypeOK' /\ StatusFollowsDecision'
  BY <1>4, <1>5 DEF WorkInv, TypeOK, StatusFollowsDecision
<1>8. ASSUME NEW v \in Workers
      PROVE  WorkOK(job[v])'
  <2>1. CASE v = w
    BY <1>2, <1>3, <1>4, <1>5, <1>6, <2>1 DEF WorkOK, Works, Manual
  <2>2. CASE v # w
    BY <1>5, <1>6, <2>2 DEF WorkInv, WorkOK, Works
  <2> QED
    BY <2>1, <2>2
<1>9. ASSUME NEW v \in Workers
      PROVE  Alone(v)'
  <2>1. \A u \in Workers, r \in Ids : Inside(u, r)' <=> Inside(u, r)
    BY <1>1, <1>4, <1>6 DEF Inside
  <2>2. /\ Works(job'[v]) <=> Works(job[v])
        /\ job'[v].id = job[v].id /\ job'[v].loaded = job[v].loaded /\ job[v].id \in Ids
    BY <1>1, <1>4, <1>6, JobFields DEF Works, WorkInv, TypeOK
  <2>3. Alone(v)
    BY DEF WorkInv
  <2> QED
    BY <1>5, <2>1, <2>2, <2>3 DEF Alone, Works
<1> QED
  BY <1>7, <1>8, <1>9 DEF WorkInv

(* Saving: on a request that was never raced for, the entity was made from *)
(* the stored row and replaces it; on any other the columns are mixed.     *)
LEMMA SaveKeeps ==
    ASSUME WorkInv, NEW w \in Workers, Save(w)
    PROVE  WorkInv'
<1> DEFINE j == job[w]
           r == j.id
           new == Saved(rows[r], j.loaded, j.entity)
           k == Job("answered", j.op, j.id, NoRow, j.entity, "200")
<1>1. j \in Jobs /\ j.op \in Ops /\ r \in Ids /\ j.pc = "changed" /\ Works(j)
  BY JobFields DEF WorkInv, TypeOK, Save, Works
<1>2. WorkOK(j) /\ Alone(w)
  BY DEF WorkInv
<1>3. j.loaded \in Rows /\ j.entity \in Rows /\ rows[r] \in Rows
  BY <1>1, <1>2 DEF WorkOK
<1>4. k \in Jobs /\ k.pc = "answered"
  BY <1>1, <1>3 DEF PCs, Job, Jobs
<1>5. new \in Rows /\ (rows[r] = j.loaded => new = j.entity)
  BY <1>3, SavedColumns
<1>6. job' = [job EXCEPT ![w] = k] /\ rows' = [rows EXCEPT ![r] = new] /\ raced' = raced
  BY DEF Save
<1>7. r \notin raced => Follows(new)
  <2>1. SUFFICES ASSUME r \notin raced
                 PROVE  Follows(j.entity)
    BY <1>1, <1>2, <1>5 DEF Alone
  <2>2. CASE j.op = "external"
    <3>1. j.entity \in ByCapitalia
      BY <1>1, <1>2, <2>2 DEF WorkOK
    <3> QED
      BY <3>1 DEF ByCapitalia, DecidedByCapitalia, Follows
  <2>3. CASE j.op \in Manual
    <3>1. j.entity = DecidedByHand(j.op, j.loaded) /\ Refusal(j.op, j.loaded) = "none"
      BY <1>1, <1>2, <2>3 DEF WorkOK
    <3>2. Follows(j.loaded)
      <4>1. j.loaded = rows[r] /\ rows[r] # NoRow
        BY <1>1, <1>2, <1>3, <2>1, NoRowAssumption DEF Alone
      <4> QED
        BY <1>1, <2>1, <4>1 DEF WorkInv, StatusFollowsDecision, Follows
    <3>3. /\ j.op = "confirm" => j.loaded.decision # "declined"
          /\ j.op = "reject" => j.loaded.decision # "approved"
      BY <1>3, <3>1, <3>2, NoRowAssumption DEF Refusal, Follows
    <3> QED
      BY <1>3, <2>3, <3>1, <3>3, DecidedType DEF Follows, Manual
  <2> QED
    BY <1>1, <2>2, <2>3 DEF Ops, Manual
<1> HIDE DEF new, k
<1>8. \A v \in Workers : job'[v] = IF v = w THEN k ELSE job[v]
  BY <1>6 DEF WorkInv, TypeOK
<1>9. \A s \in Ids : rows'[s] = IF s = r THEN new ELSE rows[s]
  BY <1>6 DEF WorkInv, TypeOK
<1>10. TypeOK'
  BY <1>1, <1>4, <1>5, <1>6 DEF WorkInv, TypeOK
<1>11. StatusFollowsDecision'
  BY <1>6, <1>7, <1>9 DEF WorkInv, StatusFollowsDecision, Follows
<1>12. ASSUME NEW v \in Workers
       PROVE  WorkOK(job[v])' /\ Alone(v)'
  <2>1. CASE v = w
    BY <1>4, <1>8, <2>1 DEF WorkOK, Alone, Works
  <2>2. CASE v # w
    <3>1. job'[v] = job[v] /\ job[v].id \in Ids /\ WorkOK(job[v]) /\ Alone(v)
      BY <1>8, <2>2, JobFields DEF WorkInv, TypeOK
    <3>2. rows[job[v].id] \in Rows => rows'[job[v].id] \in Rows
      BY <1>5, <1>9, <3>1
    <3>3. WorkOK(job[v])'
      BY <3>1, <3>2 DEF WorkOK, Works
    <3>4. Works(job[v]) /\ job[v].id \notin raced => job[v].id # r
      BY <1>1, <2>2, <3>1 DEF Alone, Inside, Works
    <3>5. Alone(v)'
      BY <1>4, <1>6, <1>8, <1>9, <3>1, <3>4 DEF Alone, Inside, Works
    <3> QED
      BY <3>3, <3>5
  <2> QED
    BY <2>1, <2>2
<1> QED
  BY <1>10, <1>11, <1>12 DEF WorkInv

(* Every step keeps the invariant.                                         *)
LEMMA WorkInvNext == WorkInv /\ [Next]_vars => WorkInv'
<1> SUFFICES ASSUME WorkInv, [Next]_vars
             PROVE  WorkInv'
  OBVIOUS
<1>0. \A w \in Workers : job[w] \in Jobs /\ job[w].op \in Ops /\ job[w].id \in Ids
                         /\ job[w].entity \in Rows \cup {NoRow}
  BY JobFields DEF WorkInv, TypeOK
<1>1. ASSUME NEW r \in Ids, Create(r)
      PROVE  WorkInv'
  <2>1. NewRow \in Rows /\ Follows(NewRow)
    BY DEF NewRow, Rows, Statuses, Follows
  <2>2. \A s \in Ids : rows'[s] = IF s = r THEN NewRow ELSE rows[s]
    BY <1>1 DEF Create, WorkInv, TypeOK
  <2>3. rows[r] = NoRow /\ job' = job /\ raced' = raced
    BY <1>1 DEF Create
  <2>4. TypeOK'
    BY <1>1, <2>1 DEF Create, WorkInv, TypeOK
  <2>5. StatusFollowsDecision'
    BY <2>1, <2>2, <2>3 DEF WorkInv, StatusFollowsDecision, Follows
  <2>6. ASSUME NEW w \in Workers
        PROVE  WorkOK(job[w])' /\ Alone(w)'
    <3>1. WorkOK(job[w]) /\ Alone(w) /\ job[w].id \in Ids
      BY <1>0 DEF WorkInv
    <3>2. Works(job[w]) => job[w].id # r
      BY <2>3, <3>1, NoRowAssumption DEF WorkOK
    <3> QED
      BY <2>2, <2>3, <3>1, <3>2 DEF WorkOK, Alone, Works, Inside
  <2> QED
    BY <2>4, <2>5, <2>6 DEF WorkInv
<1>2. ASSUME NEW w \in Workers, NEW op \in Ops, NEW r \in Ids, Arrive(w, op, r)
      PROVE  WorkInv'
  <2> DEFINE k == Job("open", op, r, NoRow, NoRow, "none")
  <2>1. k \in Jobs /\ ~Works(k)
    BY JobType DEF PCs, Works
  <2> HIDE DEF k
  <2>2. job' = [job EXCEPT ![w] = k] /\ UNCHANGED <<rows, raced>>
    BY <1>2 DEF Arrive, k
  <2> QED
    BY <2>1, <2>2, LeavesWork
<1>3. ASSUME NEW w \in Workers, NEW reply \in {"400", "404", "500", "502", "503"},
             job' = [job EXCEPT ![w] =
                         Job("answered", job[w].op, job[w].id, NoRow, NoRow, reply)],
             UNCHANGED <<rows, raced>>
      PROVE  WorkInv'
  <2> DEFINE k == Job("answered", job[w].op, job[w].id, NoRow, NoRow, reply)
  <2>1. k \in Jobs /\ ~Works(k)
    BY <1>0 DEF PCs, Works, Job, Jobs
  <2> HIDE DEF k
  <2>2. job' = [job EXCEPT ![w] = k]
    BY <1>3 DEF k
  <2> QED
    BY <1>3, <2>1, <2>2, LeavesWork
<1>4. ASSUME NEW w \in Workers, Refuse(w)
      PROVE  WorkInv'
  <2>1. Refusal(job[w].op, rows[job[w].id]) \in {"400", "404", "503"}
    BY <1>4 DEF Refuse, Refusal
  <2> QED
    BY <1>3, <1>4, <2>1 DEF Refuse
<1>5. ASSUME NEW w \in Workers, DecideFails(w)
      PROVE  WorkInv'
  <2>1. PICK reply \in {"502", "500"} :
            job' = [job EXCEPT ![w] =
                        Job("answered", job[w].op, job[w].id, NoRow, NoRow, reply)]
    BY <1>5 DEF DecideFails
  <2> QED
    BY <1>3, <1>5, <2>1 DEF DecideFails
<1>6. ASSUME NEW w \in Workers, DatabaseFails(w)
      PROVE  WorkInv'
  BY <1>3, <1>6 DEF DatabaseFails
<1>7. ASSUME NEW w \in Workers, Finish(w)
      PROVE  WorkInv'
  <2> DEFINE k == Job("idle", "confirm", job[w].id, NoRow, NoRow, "none")
  <2>1. k \in Jobs /\ ~Works(k)
    BY <1>0 DEF PCs, Works, Ops, Job, Jobs
  <2> HIDE DEF k
  <2>2. job' = [job EXCEPT ![w] = k] /\ UNCHANGED <<rows, raced>>
    BY <1>7 DEF Finish, Idle, k
  <2> QED
    BY <2>1, <2>2, LeavesWork
<1>8. CASE UNCHANGED vars
  <2>1. UNCHANGED <<rows, job, raced>>
    BY <1>8 DEF vars
  <2> QED
    BY <2>1 DEF WorkInv, TypeOK, StatusFollowsDecision, WorkOK, Alone, Works, Inside
<1> QED
  BY <1>1, <1>2, <1>4, <1>5, <1>6, <1>7, <1>8, LoadKeeps, DecideKeeps, SaveKeeps DEF Next

(* The inductive invariant of the purchase workflow.                       *)
THEOREM WorkInvariant == Spec => []WorkInv
BY WorkInvInit, WorkInvNext, PTL DEF Spec

(* Every variable keeps its type, whatever columns the saves write.        *)
THEOREM PurchaseTypeCorrect == Spec => []TypeOK
<1>1. WorkInv => TypeOK
  BY DEF WorkInv
<1> QED
  BY <1>1, WorkInvariant, PTL

(* As long as no two handlers have worked on a request at once, its status *)
(* is what Capitalia has decided, if it has.                               *)
THEOREM StatusFollowsDecisionHolds == Spec => []StatusFollowsDecision
<1>1. WorkInv => StatusFollowsDecision
  BY DEF WorkInv
<1> QED
  BY <1>1, WorkInvariant, PTL

(* Confirming or rejecting by hand never overwrites what Capitalia has     *)
(* decided, however the handlers overlap: the columns are not written.     *)
THEOREM ManualKeepsDecisionHolds == Spec => ManualKeepsDecision
<1>1. ASSUME WorkInv, [Next]_vars, NEW w \in Workers,
             job[w].op \in Manual, job'[w] # job[w],
             rows'[job[w].id] # rows[job[w].id]
      PROVE  /\ rows'[job[w].id].decision = rows[job[w].id].decision
             /\ rows'[job[w].id].notes = rows[job[w].id].notes
  <2>1. Save(w)
    BY <1>1 DEF Next, vars, Create, Arrive, Refuse, Load, Decide, DecideFails, Save,
                DatabaseFails, Finish, WorkInv, TypeOK
  <2>2. /\ job[w].id \in Ids /\ job[w].pc = "changed"
        /\ rows'[job[w].id] = Saved(rows[job[w].id], job[w].loaded, job[w].entity)
    BY <1>1, <2>1, JobFields DEF Save, WorkInv, TypeOK
  <2>3. /\ job[w].loaded \in Rows /\ job[w].entity \in Rows /\ rows[job[w].id] \in Rows
        /\ job[w].entity = DecidedByHand(job[w].op, job[w].loaded)
    BY <1>1, <2>2 DEF WorkInv, WorkOK, Works
  <2>4. /\ job[w].entity.decision = job[w].loaded.decision
        /\ job[w].entity.notes = job[w].loaded.notes
    BY <1>1, <2>3, DecidedType
  <2> QED
    BY <2>2, <2>3, <2>4, SavedColumns
<1>2. WorkInv /\ [Next]_vars =>
          [\A w \in Workers :
               LET r == job[w].id
               IN  job[w].op \in Manual /\ job'[w] # job[w] /\ rows'[r] # rows[r] =>
                       /\ rows'[r].decision = rows[r].decision
                       /\ rows'[r].notes = rows[r].notes]_vars
  BY <1>1
<1> QED
  BY <1>2, WorkInvariant, PTL DEF Spec, ManualKeepsDecision

(* A decided request is turned over by hand only by a handler that checked *)
(* another status than the stored one, and only on a request that two      *)
(* handlers have worked on at once.                                        *)
THEOREM ByHandOnlyStaleHolds == Spec => ByHandOnlyStale
<1>1. ASSUME WorkInv, [Next]_vars, NEW w \in Workers,
             job[w].op \in Manual, job'[w] # job[w],
             rows'[job[w].id] # rows[job[w].id],
             rows[job[w].id].status # "Pending"
      PROVE  /\ job[w].loaded.status # rows[job[w].id].status
             /\ job[w].id \in raced
  <2> DEFINE j == job[w]
             row == rows[j.id]
  <2>1. Save(w)
    BY <1>1 DEF Next, vars, Create, Arrive, Refuse, Load, Decide, DecideFails, Save,
                DatabaseFails, Finish, WorkInv, TypeOK
  <2>2. /\ j.id \in Ids /\ j.pc = "changed"
        /\ rows'[j.id] = Saved(row, j.loaded, j.entity)
    BY <1>1, <2>1, JobFields DEF Save, WorkInv, TypeOK
  <2>3. /\ j.loaded \in Rows /\ j.entity \in Rows /\ row \in Rows
        /\ j.entity = DecidedByHand(j.op, j.loaded)
        /\ Refusal(j.op, j.loaded) = "none"
        /\ j.id \notin raced => j.loaded = row
    BY <1>1, <2>2 DEF WorkInv, WorkOK, Alone, Works
  <2>4. j.loaded.status # row.status
    <3>1. SUFFICES ASSUME j.loaded.status = row.status
                   PROVE  FALSE
      OBVIOUS
    <3>2. /\ j.entity.decision = j.loaded.decision
          /\ j.entity.notes = j.loaded.notes
          /\ j.entity.status = IF j.op = "confirm" THEN "Confirmed" ELSE "Rejected"
      BY <1>1, <2>3, DecidedType
    <3>3. j.entity.status = j.loaded.status
      <4>1. j.loaded.status \in {"Confirmed", "Rejected"} /\ j.loaded # NoRow
        BY <1>1, <2>3, <3>1, NoRowAssumption DEF Rows, Statuses
      <4> QED
        BY <1>1, <2>3, <3>2, <4>1 DEF Refusal, Manual
    <3>4. Saved(row, j.loaded, j.entity) = row
      BY <2>3, <3>2, <3>3 DEF Saved, Rows
    <3> QED
      BY <1>1, <2>2, <3>4
  <2>5. j.id \in raced
    BY <2>3, <2>4
  <2> QED
    BY <2>4, <2>5
<1>2. WorkInv /\ [Next]_vars =>
          [\A w \in Workers :
               LET r == job[w].id
               IN  job[w].op \in Manual /\ job'[w] # job[w] /\ rows'[r] # rows[r]
                   /\ rows[r].status # "Pending" =>
                       /\ job[w].loaded.status # rows[r].status
                       /\ r \in raced]_vars
  BY <1>1
<1> QED
  BY <1>2, WorkInvariant, PTL DEF Spec, ByHandOnlyStale
==============================================================================
