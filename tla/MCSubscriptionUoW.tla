-------------------------- MODULE MCSubscriptionUoW --------------------------
(***************************************************************************)
(* Instances of SubscriptionUoW for TLC.                                   *)
(***************************************************************************)
EXTENDS SubscriptionUoW, TLC

CONSTANTS w1, w2, w3, A, B

(* Two threads of one instance and, when there is a third worker, one of a *)
(* second instance sharing the database (docker compose --scale app=n).    *)
MCInstance == (w1 :> A) @@ (w2 :> IF w3 \in Workers THEN A ELSE B) @@ (w3 :> B)

(* The rows of the seed scripts: a trial that is over or about to be, a    *)
(* premium user; and a user id whose row is missing.                       *)
MCSeed == {[plan |-> "trial", status |-> "active", start |-> 0],
           [plan |-> "premium", status |-> "active", start |-> 0],
           NoAccount}

MCTrialSeed == {[plan |-> "trial", status |-> "active", start |-> 0]}
=============================================================================
