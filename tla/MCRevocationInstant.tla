------------------------- MODULE MCRevocationInstant -------------------------
(* ApiKeyAuth with a history of the rotations that have returned: what the *)
(* documentation of AuthService promises from that moment on.              *)
EXTENDS MCApiKeyAuth

VARIABLE returned   \* returned[p]: keys whose rotate_key returned in process p

ReturnsNow(p) ==
    {k \in Keys : \E o \in Rotations :
        rotation[o].pc = "committed" /\ rotation[o].proc = p /\ rotation[o].key = k
            /\ RotateReturns(o)}

InitR == Init /\ returned = [p \in Processes |-> {}]

NextR ==
    /\ Next
    /\ returned' = [p \in Processes |-> returned[p] \cup ReturnsNow(p)]

SpecR == InitR /\ [][NextR]_<<vars, returned>>

(* Revocations of the same process have "instant propagation": once        *)
(* rotate_key has returned in a process, a request that comes in there     *)
(* after the grace period is not accepted with the old key.                *)
InstantInSameProcess ==
    [][\A q \in Requests :
          LET r == request'[q]
              p == ProcOf[q]
          IN  request[q] = Idle /\ r.pc = "decided" /\ r.key \in returned[p]
                 /\ Outcome(r.row, r.genuine, Wall(p, clock)) = "accepted"
              => ~GraceOver(db[r.key], Wall(p, clock))]_<<vars, returned>>

=============================================================================
