------------------------- MODULE AtomicSubscription -------------------------
(***************************************************************************)
(* What the subscription service promises ("Casos de uso com transação por *)
(* operação", domain/services.py:11): every request that is answered with  *)
(* anything but a failure took effect at one instant, between its arrival  *)
(* and its answer, on the row as it was at that instant.  There are no     *)
(* locks, snapshots or commits here; SubscriptionUoW shows whether the     *)
(* transactions of the code provide it.                                    *)
(***************************************************************************)
EXTENDS Subscription

CONSTANTS
    Users, Workers, Ops,
    Instance,       \* the process a worker thread belongs to
    SeedAccounts,   \* rows a user may have at the start
    MaxDay          \* bound: days of the run

VARIABLES
    rows,   \* the users table
    day,    \* today, as the clock shows it
    jobs    \* the request each worker serves

vars == <<rows, day, jobs>>

IdleJob == [stage |-> "idle", op |-> "status", user |-> CHOOSE u \in Users : TRUE,
            today |-> 0, seen |-> NoAccount, reply |-> "none"]

To(j, stage, seen, reply) ==
    [stage |-> stage, op |-> j.op, user |-> j.user, today |-> j.today,
     seen |-> seen, reply |-> reply]

Init ==
    /\ day = 0
    /\ rows \in [Users -> SeedAccounts]
    /\ jobs = [w \in Workers |-> IdleJob]

Arrive(w, op, u) ==
    /\ jobs[w].stage = "idle"
    /\ jobs' = [jobs EXCEPT ![w] =
                    [stage |-> "open", op |-> op, user |-> u, today |-> day,
                     seen |-> NoAccount, reply |-> "none"]]
    /\ UNCHANGED <<rows, day>>

(* The whole use case, at once.                                            *)
Perform(w) ==
    LET j == jobs[w]
        a == rows[j.user]
    IN  /\ j.stage = "open"
        /\ rows' = IF Writes(j.op, a, j.today)
                   THEN [rows EXCEPT ![j.user] = Entity(j.op, a, j.today)]
                   ELSE rows
        /\ jobs' = [jobs EXCEPT ![w] = To(j, "performed", a, "none")]
        /\ UNCHANGED day

Replies(op, a, today) ==
    IF Writes(op, a, today) THEN {"200"}
    ELSE {RefusalOrView(op, a)}
         \cup (IF op = "login" /\ a # NoAccount THEN TokenReplies ELSE {})

Answer(w) ==
    LET j == jobs[w]
    IN  /\ j.stage = "performed"
        /\ \E r \in Replies(j.op, j.seen, j.today) :
               jobs' = [jobs EXCEPT ![w] = To(j, "answered", j.seen, r)]
        /\ UNCHANGED <<rows, day>>

(* A request may fail instead, but then it has no effect.                  *)
Fail(w) ==
    /\ jobs[w].stage = "open"
    /\ jobs' = [jobs EXCEPT ![w] = To(jobs[w], "answered", NoAccount, "500")]
    /\ UNCHANGED <<rows, day>>

Finish(w) ==
    /\ jobs[w].stage = "answered"
    /\ jobs' = [jobs EXCEPT ![w] = IdleJob]
    /\ UNCHANGED <<rows, day>>

(* An instance stops: its requests are never answered, performed or not.   *)
Crash(i) ==
    /\ jobs' = [w \in Workers |-> IF Instance[w] = i THEN IdleJob ELSE jobs[w]]
    /\ UNCHANGED <<rows, day>>

NextDay ==
    /\ day < MaxDay
    /\ day' = day + 1
    /\ UNCHANGED <<rows, jobs>>

Next ==
    \/ \E w \in Workers :
           \/ \E op \in Ops, u \in Users : Arrive(w, op, u)
           \/ Perform(w) \/ Answer(w) \/ Fail(w) \/ Finish(w)
    \/ \E i \in {Instance[w] : w \in Workers} : Crash(i)
    \/ NextDay

Spec == Init /\ [][Next]_vars
=============================================================================
