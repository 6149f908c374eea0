---------------------------- MODULE RouterHistory ----------------------------
(***************************************************************************)
(* Router with a history variable: has a refresh been published while the  *)
(* request of a handler was being proxied?  It restricts no step; it tells *)
(* the requests for which a 503 is what it says from the others.           *)
(***************************************************************************)
EXTENDS Router

VARIABLE refreshed     \* for each handler, TRUE after such a refresh

hvars == <<vars, refreshed>>

HInit == Init /\ refreshed = [h \in Handlers |-> FALSE]

HNext ==
    /\ Next
    /\ refreshed' = [h \in Handlers |->
                         /\ req'[h].pc # "none"
                         /\ refreshed[h] \/ Publish]

HSpec == HInit /\ [][HNext]_hvars

HFairSpec ==
    /\ HSpec
    /\ WF_hvars(Discovery /\ HNext)
    /\ \A h \in Handlers : WF_hvars(Serve(h) /\ HNext)

(* "no backend available" (router.py:263) is true unless a refresh came in *)
(* between: what a handler has tried it has also removed, so that as long  *)
(* as no refresh lists a port again, the loop ends only when no backend is *)
(* listed at all, whatever other handlers do to the list and the cursor.   *)
UnavailableMeansNone ==
    [][\A h \in Handlers :
           req[h].pc = "picking" /\ req'[h].pc = "unavailable" /\ ~refreshed[h] =>
               pool.healthy = <<>>]_hvars
=============================================================================
