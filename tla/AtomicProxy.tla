----------------------------- MODULE AtomicProxy -----------------------------
(***************************************************************************)
(* What the router promises of a request: backends execute it, each at     *)
(* most once and only while it is up, until one of them answers; then the  *)
(* client gets that answer, or 503 when none came, and no further backend  *)
(* executes the request.  A client gets nothing only when it has left, or  *)
(* when the answer is that of an error and its body does not arrive; only  *)
(* the request of a client that has left may be executed again after an    *)
(* answer.  There is no list of healthy ports here, no discovery, no       *)
(* cursor.                                                                 *)
(***************************************************************************)
EXTENDS Naturals

CONSTANTS Handlers, Backends

VARIABLES
    up,      \* the backends that are up
    asked    \* the request of each handler

vars == <<up, asked>>

Idle == [stage |-> "idle", client |-> "waiting", ran |-> {}, reply |-> "none"]

Init ==
    /\ up \in SUBSET Backends
    /\ asked = [h \in Handlers |-> Idle]

Becomes(h, stage, client, ran, reply) ==
    /\ asked' = [asked EXCEPT ![h] = [stage |-> stage, client |-> client, ran |-> ran,
                                      reply |-> reply]]
    /\ UNCHANGED up

Arrive(h) ==
    /\ asked[h].stage = "idle"
    /\ Becomes(h, "open", "waiting", {}, "none")

(* A backend executes the request, and answers, begins the answer of an    *)
(* error, or fails to answer.                                              *)
Execute(h, p) ==
    /\ asked[h].stage = "open"
    /\ p \in up \ asked[h].ran
    /\ \E stage \in {"open", "served", "erred"} :
           Becomes(h, stage, asked[h].client, asked[h].ran \cup {p}, "none")

Relay(h) ==
    /\ asked[h].stage \in {"served", "erred"}
    /\ Becomes(h, "over", asked[h].client, asked[h].ran, "relayed")

(* The answer could not be delivered, and counts as none.                  *)
Retry(h) ==
    /\ asked[h].stage = "served" /\ asked[h].client = "gone"
    /\ Becomes(h, "open", "gone", asked[h].ran, "none")

Unavailable(h) ==
    /\ asked[h].stage = "open"
    /\ Becomes(h, "over", asked[h].client, asked[h].ran, "503")

Drop(h) ==
    /\ asked[h].stage = "open" /\ asked[h].client = "gone"
    /\ Becomes(h, "over", "gone", asked[h].ran, "dropped")

(* The answer of an error stops after its head, or cannot be delivered.    *)
LoseError(h) ==
    /\ asked[h].stage = "erred"
    /\ Becomes(h, "over", asked[h].client, asked[h].ran, "dropped")

Finish(h) ==
    /\ asked[h].stage = "over"
    /\ Becomes(h, "idle", "waiting", {}, "none")

ClientLeaves(h) ==
    /\ asked[h].stage \in {"open", "served", "erred"} /\ asked[h].client = "waiting"
    /\ Becomes(h, asked[h].stage, "gone", asked[h].ran, asked[h].reply)

(* Backends stop and start one by one.                                     *)
Change(p) ==
    /\ up' \in {up \ {p}, up \cup {p}}
    /\ UNCHANGED asked

Next ==
    \/ \E h \in Handlers :
           \/ Arrive(h)
           \/ \E p \in Backends : Execute(h, p)
           \/ Relay(h) \/ Retry(h) \/ Unavailable(h) \/ Drop(h) \/ LoseError(h)
           \/ Finish(h) \/ ClientLeaves(h)
    \/ \E p \in Backends : Change(p)

Spec == Init /\ [][Next]_vars
=============================================================================
