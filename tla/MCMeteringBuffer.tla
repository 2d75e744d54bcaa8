-------------------------- MODULE MCMeteringBuffer --------------------------
(* Four billable calls, two of them of one retried request, a deque of two *)
(* events with the threshold at one of them, and two flush tasks.          *)
EXTENDS MeteringBuffer

CONSTANTS e1, e2, e3, e4, r1, r2, r3

MCEmissions == {e1, e2, e3, e4}
MCRequests == {r1, r2, r3}
MCRequestOf ==
    [e \in MCEmissions |-> CASE e = e1 -> r1 [] e = e2 -> r1
                             [] e = e3 -> r2 [] e = e4 -> r3]
=============================================================================
