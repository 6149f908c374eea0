--------------------------- MODULE PurchaseWorkflow ---------------------------
(***************************************************************************)
(* CsharpRequest/Program.cs: the handlers that decide purchase requests.   *)
(* Each has a DbContext of its own: it loads the entity, changes it, in    *)
(* external approval after awaiting Capitalia's answer, and saves.  Entity *)
(* Framework then updates the columns that differ from those loaded, and   *)
(* no concurrency token is configured: nothing notices that the row has    *)
(* changed in between.                                                     *)
(*                                                                         *)
(* Of a row only the columns the handlers write matter.  The time of the   *)
(* external decision, which is always written with it, is left out.        *)
(***************************************************************************)
EXTENDS Naturals

CONSTANTS
    Ids,        \* purchase requests
    Workers,    \* handler invocations in progress
    Notes,      \* texts that come with an external decision
    NoRow,      \* the request does not exist
    Enabled     \* is the Capitalia integration configured?

Ops == {"confirm", "reject", "external"}
Manual == {"confirm", "reject"}
Statuses == {"Pending", "Confirmed", "Rejected"}
Rows == [status : Statuses, decision : {"none", "approved", "declined"},
         notes : Notes \cup {"none"}]

ASSUME NoRowAssumption == NoRow \notin Rows
ASSUME EnabledAssumption == Enabled \in BOOLEAN

VARIABLES
    rows,   \* the purchase requests table
    job,    \* what each handler is doing
    raced   \* history: requests two handlers have worked on at once

vars == <<rows, job, raced>>

(* pc: none; request received; awaiting Capitalia; entity changed and to   *)
(* be saved; answered.                                                     *)
PCs == {"idle", "open", "awaiting", "changed", "answered"}
Jobs == [pc : PCs, op : Ops, id : Ids, loaded : Rows \cup {NoRow},
         entity : Rows \cup {NoRow},
         reply : {"none", "200", "400", "404", "500", "502", "503"}]

Job(pc, op, id, loaded, entity, reply) ==
    [pc |-> pc, op |-> op, id |-> id, loaded |-> loaded, entity |-> entity, reply |-> reply]

Idle(op, id) == Job("idle", op, id, NoRow, NoRow, "none")

NewRow == [status |-> "Pending", decision |-> "none", notes |-> "none"]

Init ==
    /\ rows = [r \in Ids |-> NoRow]
    /\ job \in [Workers -> {Idle("confirm", r) : r \in Ids}]
    /\ raced = {}

-----------------------------------------------------------------------------
(* What a handler makes of the row it has loaded.                          *)

RefusalUnguarded(op, row) ==    \* variant: the status is not looked at
    IF op = "external" /\ ~Enabled THEN "503"
    ELSE IF row = NoRow THEN "404"
    ELSE "none"

(* The early returns, or "none" when the handler goes on.                  *)
Refusal(op, row) ==
    IF op = "external" /\ ~Enabled THEN "503"
    ELSE IF row = NoRow THEN "404"
    ELSE IF \/ op = "confirm" /\ row.status = "Rejected"
            \/ op = "reject" /\ row.status = "Confirmed" THEN "400"
    ELSE "none"

DecidedByHand(op, row) ==
    [row EXCEPT !.status = IF op = "confirm" THEN "Confirmed" ELSE "Rejected"]

DecidedSwapped(approved, notes) ==    \* variant: decision and notes, both texts, swapped
    [status |-> IF approved THEN "Confirmed" ELSE "Rejected",
     decision |-> notes,
     notes |-> IF approved THEN "approved" ELSE "declined"]

DecidedByCapitalia(approved, notes) ==
    [status |-> IF approved THEN "Confirmed" ELSE "Rejected",
     decision |-> IF approved THEN "approved" ELSE "declined",
     notes |-> notes]

(* Variant: the whole entity is written (DbContext.Update).                *)
SavedWhole(row, loaded, entity) == entity

(* SaveChanges: a column that differs from the loaded one is written.      *)
Saved(row, loaded, entity) ==
    LET Column(new, old, now) == IF new # old THEN new ELSE now
    IN  [status |-> Column(entity.status, loaded.status, row.status),
         decision |-> Column(entity.decision, loaded.decision, row.decision),
         notes |-> Column(entity.notes, loaded.notes, row.notes)]

-----------------------------------------------------------------------------
(* POST /requests: the row is inserted with its lines in one transaction.  *)
Create(r) ==
    /\ rows[r] = NoRow
    /\ rows' = [rows EXCEPT ![r] = NewRow]
    /\ UNCHANGED <<job, raced>>

Arrive(w, op, r) ==
    /\ job[w].pc = "idle"
    /\ job' = [job EXCEPT ![w] = Job("open", op, r, NoRow, NoRow, "none")]
    /\ UNCHANGED <<rows, raced>>

(* From the arrival to the answer of a request that is refused.            *)
Refuse(w) ==
    LET j == job[w]
        refusal == Refusal(j.op, rows[j.id])
    IN  /\ j.pc = "open"
        /\ refusal # "none"
        /\ job' = [job EXCEPT ![w] = Job("answered", j.op, j.id, NoRow, NoRow, refusal)]
        /\ UNCHANGED <<rows, raced>>

Inside(v, r) == job[v].id = r /\ job[v].pc \in {"awaiting", "changed"}

(* The entity is loaded and the handler runs on to its next await.         *)
Load(w) ==
    LET j == job[w]
        row == rows[j.id]
    IN  /\ j.pc = "open"
        /\ Refusal(j.op, row) = "none"
        /\ job' = [job EXCEPT ![w] =
                       IF j.op \in Manual
                       THEN Job("changed", j.op, j.id, row, DecidedByHand(j.op, row), "none")
                       ELSE Job("awaiting", j.op, j.id, row, row, "none")]
        /\ raced' = IF \E v \in Workers \ {w} : Inside(v, j.id)
                    THEN raced \cup {j.id} ELSE raced
        /\ UNCHANGED rows

(* Capitalia has decided.                                                  *)
Decide(w, approved, notes) ==
    LET j == job[w]
    IN  /\ j.pc = "awaiting"
        /\ job' = [job EXCEPT ![w] = Job("changed", j.op, j.id, j.loaded,
                                          DecidedByCapitalia(approved, notes), "none")]
        /\ UNCHANGED <<rows, raced>>

(* It has not: an error status gives null and 502; a timeout, a connection *)
(* that fails or a client that leaves ends the handler with an exception.  *)
DecideFails(w) ==
    LET j == job[w]
    IN  /\ j.pc = "awaiting"
        /\ \E reply \in {"502", "500"} :
               job' = [job EXCEPT ![w] =
                           Job("answered", j.op, j.id, NoRow, NoRow, reply)]
        /\ UNCHANGED <<rows, raced>>

Save(w) ==
    LET j == job[w]
    IN  /\ j.pc = "changed"
        /\ rows' = [rows EXCEPT ![j.id] = Saved(rows[j.id], j.loaded, j.entity)]
        /\ job' = [job EXCEPT ![w] = Job("answered", j.op, j.id, NoRow, j.entity, "200")]
        /\ UNCHANGED raced

(* The file stays locked too long, or the client leaves: the token given   *)
(* to the query and to SaveChangesAsync cancels them.                      *)
DatabaseFails(w) ==
    LET j == job[w]
    IN  /\ j.pc \in {"open", "changed"}
        /\ job' = [job EXCEPT ![w] = Job("answered", j.op, j.id, NoRow, NoRow, "500")]
        /\ UNCHANGED <<rows, raced>>

Finish(w) ==
    /\ job[w].pc = "answered"
    /\ job' = [job EXCEPT ![w] = Idle("confirm", job[w].id)]
    /\ UNCHANGED <<rows, raced>>

Next ==
    \/ \E r \in Ids : Create(r)
    \/ \E w \in Workers :
           \/ \E op \in Ops, r \in Ids : Arrive(w, op, r)
           \/ Refuse(w) \/ Load(w)
           \/ \E approved \in BOOLEAN, notes \in Notes \cup {"none"} :
                  Decide(w, approved, notes)
           \/ DecideFails(w) \/ Save(w) \/ DatabaseFails(w) \/ Finish(w)

Spec == Init /\ [][Next]_vars

-----------------------------------------------------------------------------
(* Every variable keeps its type: in particular the column of Capitalia's  *)
(* decision holds a decision and no other text that came with it.          *)
TypeOK ==
    /\ rows \in [Ids -> Rows \cup {NoRow}]
    /\ job \in [Workers -> Jobs]
    /\ raced \subseteq Ids

(* A request decided by hand keeps what Capitalia has decided about it,    *)
(* even when that was saved after the handler had loaded the entity.       *)
ManualKeepsDecision ==
    [][\A w \in Workers :
           LET r == job[w].id
           IN  job[w].op \in Manual /\ job'[w] # job[w] /\ rows'[r] # rows[r] =>
                   /\ rows'[r].decision = rows[r].decision
                   /\ rows'[r].notes = rows[r].notes]_vars

(* In any sequence of calls, as long as no two handlers work on a request  *)
(* at once, the status is what Capitalia has decided if it has.            *)
StatusFollowsDecision ==
    \A r \in Ids \ raced :
        rows[r] # NoRow =>
            /\ rows[r].decision = "approved" => rows[r].status = "Confirmed"
            /\ rows[r].decision = "declined" => rows[r].status = "Rejected"

(* Handlers check, change and save in steps of their own (Program.cs:265   *)
(* to 361).  That a request which is decided, either way, is turned over   *)
(* BY HAND takes a handler that has checked a status other than the stored *)
(* one, and this takes an overlap of two handlers on the request.  (One    *)
(* external approval may turn it over alone: it looks at no status.)       *)
ByHandOnlyStale ==
    [][\A w \in Workers :
           LET r == job[w].id
           IN  job[w].op \in Manual /\ job'[w] # job[w] /\ rows'[r] # rows[r]
               /\ rows[r].status # "Pending" =>
                   /\ job[w].loaded.status # rows[r].status
                   /\ r \in raced]_vars

(* "Confirmed requests cannot be rejected." (Program.cs:350): no save of   *)
(* the reject handler turns a confirmed request into a rejected one.       *)
ConfirmedNotRejected ==
    [][\A w \in Workers :
           LET r == job[w].id
           IN  job[w].op = "reject" /\ job'[w] # job[w] /\ rows[r] # NoRow
               /\ rows[r].status = "Confirmed" => rows'[r].status # "Rejected"]_vars
===============================================================================
