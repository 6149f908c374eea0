------------------------------- MODULE MCRouter -------------------------------
(***************************************************************************)
(* Instances of Router for TLC.                                            *)
(***************************************************************************)
EXTENDS Router, TLC, FiniteSets

CONSTANTS p1, p2, p3

MCTwo == <<p1, p2>>
MCThree == <<p1, p2, p3>>

(* A bound on the states explored: requests overlap, and carry a body,     *)
(* only while the third candidate plays no part, and a request with a body *)
(* is alone.  One request alone meets all three.  Clients leave only while *)
(* their request is alone: to the pool and to another request what follows *)
(* looks like a backend that fails.                                        *)
Busy == {h \in Handlers : req[h].pc # "none"}
WithBody == {h \in Handlers : req[h].body}
Visited == up \cup Listed(pool) \cup ToSet(probe.found)
              \cup UNION {req[h].tried : h \in Handlers}
Left == {h \in Handlers : req[h].client = "gone"}
MCOneOrTwo ==
    \/ Cardinality(Busy) <= 1 /\ WithBody = {}
    \/ p3 \notin Visited /\ (Cardinality(Busy) <= 1 \/ WithBody \cup Left = {})

(* The handler threads are interchangeable.                                *)
MCSymmetry == Permutations(Handlers)
=============================================================================
