---------------------------- MODULE Subscription ----------------------------
(***************************************************************************)
(* The subscription domain of Capitalia (domain/user_states.py,            *)
(* domain/models.py) and what domain/services.py decides from one user     *)
(* row.  Pure: the modules that run requests against a database share it.  *)
(*                                                                         *)
(* Of a row only plan, status and start_date matter; name, e-mail and      *)
(* credentials are never changed by the service.  Dates are day numbers.   *)
(***************************************************************************)
EXTENDS Integers

CONSTANTS
    TrialDays,   \* length of a trial: 30 in the code, smaller in the models
    NoAccount    \* what get_by_id and get_by_email return for an unknown user

Plans == {"basic", "trial", "premium"}
Statuses == {"active", "suspended", "expired"}
Accounts == [plan : Plans, status : Statuses, start : Int]

ASSUME TrialDaysAssumption == TrialDays \in Nat
ASSUME NoAccountAssumption == NoAccount \notin Accounts

CanUpgradeAgain(a) == a.status \in {"active", "expired"}   \* variant: plan not looked at

(* The state objects: each operation succeeds only from some of them.      *)
CanUpgrade(a) == a.status \in {"active", "expired"} /\ a.plan \in {"basic", "trial"}
CanDowngrade(a) == a.status \in {"active", "suspended"} /\ a.plan = "premium"
CanSuspend(a) == a.status = "active" /\ a.plan = "premium"
CanReactivate(a) == a.status = "suspended" /\ a.plan = "premium"

UpgradedPlanOnly(a) == [a EXCEPT !.plan = "premium"]      \* variant: status not reset
DowngradedPlanOnly(a) == [a EXCEPT !.plan = "basic"]      \* variant: status not reset

Upgraded(a) == [a EXCEPT !.plan = "premium", !.status = "active"]
Downgraded(a) == [a EXCEPT !.plan = "basic", !.status = "active"]
Suspended(a) == [a EXCEPT !.status = "suspended"]
Reactivated(a) == [a EXCEPT !.status = "active"]

TrialOver(a, today) == a.plan = "trial" /\ a.start + TrialDays <= today

(* Variant: a status the schema does not know.                             *)
EvaluateInactive(a, today) ==
    IF a.status = "active" /\ TrialOver(a, today) THEN "inactive" ELSE a.status

(* get_user_state(user.status).evaluate(user, today), as the service does. *)
Evaluate(a, today) ==
    IF a.status = "active" /\ TrialOver(a, today) THEN "expired" ELSE a.status

(* User.evaluate_status: basic and trial users are evaluated from the      *)
(* active state whatever status is stored (resolve_state_for).             *)
EvaluateStatus(a, today) ==
    Evaluate(IF a.plan \in {"basic", "trial"} THEN [a EXCEPT !.status = "active"] ELSE a,
             today)

-----------------------------------------------------------------------------
(* The use cases.  A job is one request to an instance: its operation, the *)
(* user it names, the day read from the clock and the row it has read.     *)

Changes == {"upgrade", "downgrade", "suspend", "reactivate"}
AllOps == Changes \cup {"status", "login"}

Accepts(op, a) ==
    \/ op = "upgrade" /\ CanUpgrade(a)
    \/ op = "downgrade" /\ CanDowngrade(a)
    \/ op = "suspend" /\ CanSuspend(a)
    \/ op = "reactivate" /\ CanReactivate(a)

(* Does the use case save the row it read?  read_effective_status does so  *)
(* only when the effective status differs from the stored one.             *)
Writes(op, a, today) ==
    /\ a # NoAccount
    /\ \/ op \in Changes /\ Accepts(op, a)
       \/ op = "status" /\ Evaluate(a, today) # a.status

(* The entity it saves.                                                    *)
Entity(op, a, today) ==
    CASE op = "upgrade" -> Upgraded(a)
      [] op = "downgrade" -> Downgraded(a)
      [] op = "suspend" -> Suspended(a)
      [] op = "reactivate" -> Reactivated(a)
      [] op = "status" -> [a EXCEPT !.status = Evaluate(a, today)]
      [] OTHER -> a

(* The answer when nothing is written.  For a login this is the answer to  *)
(* an unknown e-mail or a wrong password.                                  *)
RefusalOrView(op, a) ==
    IF op = "login" THEN "401"
    ELSE IF a = NoAccount THEN "404"
    ELSE IF op = "status" THEN "200"
    ELSE "422"

(* The answers of the token service as the login handler relays them: a    *)
(* TokenIssueError becomes 503, any other exception 500.                   *)
TokenReplies == {"200", "503", "500"}

(* A row the code can have produced: only premium is suspended, and only a *)
(* trial whose days are over is expired.                                   *)
Coherent(a, today) ==
    /\ a.status = "suspended" => a.plan = "premium"
    /\ a.status = "expired" => TrialOver(a, today)
=============================================================================
