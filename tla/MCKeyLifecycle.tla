--------------------------- MODULE MCKeyLifecycle ---------------------------
(* Two ways of life of the same keys.  In the first, requests of one       *)
(* process present two keys, one of which may be rotated meanwhile.  In    *)
(* the second nothing is presented, but two rotations race over three keys *)
(* in processes whose clocks differ.                                       *)
EXTENDS MCApiKeyAuth

CONSTANTS k1, k2, k3, o1, o2

VARIABLE focus

mcKeys == {k1, k2, k3}
mcRotations == {o1, o2}

\* Bounds: the third key and the second rotation are left to the second way,
\* which stops a tick earlier; in the first, one key at most ever expires and
\* one token at a time is not genuine.
Expiring == {k \in Keys : db[k] # NoRow /\ db[k].expires # Never}
Forged == {q \in Requests : request[q] # Idle /\ ~request[q].genuine}

InFocus ==
    IF focus = "requests"
    THEN /\ db'[k3] = NoRow /\ rotation'[o2] = Idle
         /\ \A q \in Requests : request'[q] # Idle => request'[q].key # k3
         /\ Cardinality(Expiring') <= 1 /\ Cardinality(Forged') <= 1
    ELSE clock' < MaxTime /\ request' = request

MCInit == Init /\ focus \in {"requests", "rotations"}

MCNext == Next /\ InFocus /\ UNCHANGED focus

MCSpec == MCInit /\ [][MCNext]_<<vars, focus>>

\* The first two keys are alike, and so are the requests.
MCAlike == Permutations({k1, k2}) \cup Permutations(Requests)
=============================================================================
