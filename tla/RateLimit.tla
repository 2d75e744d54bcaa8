------------------------------ MODULE RateLimit ------------------------------
(* The token bucket of one (tenant, path) in Redis                         *)
(* (backend/rate_limiter/token_bucket.py) and the middleware in front of   *)
(* it.  A gateway worker reads its clock, then sends the script; scripts   *)
(* run one at a time but not in the order in which the clocks were read.   *)
(* Tokens are counted in parts of 1/Minute, so that a tick of the clock    *)
(* refills exactly Limit of them.                                          *)
EXTENDS Integers

CONSTANTS
    Workers,        \* gateway workers handling a request of the tenant
    Limit,          \* limit_per_minute
    Minute,         \* ticks in the minute that refills the bucket
    KeyTtl,         \* ticks after which Redis drops an unused bucket
    MaxDelay,       \* ticks between a worker's clock and its script, at most
    LastTick        \* bound on time

ASSUME RateAssumption ==
    /\ Limit \in Nat \ {0} /\ Minute \in Nat \ {0}
    /\ KeyTtl \in Nat /\ KeyTtl >= 2 * Minute
    /\ MaxDelay \in Nat /\ LastTick \in Nat

VARIABLES
    bucket,         \* the Redis hash: tokens, last_refill, expiry; or absent
    request,        \* [Workers -> the request a worker handles]
    letThrough,     \* [ticks -> requests let through by its end] (history)
    tick

rateVars == <<bucket, request, letThrough, tick>>

Full == Limit * Minute

NoRequest == [at |-> "none"]

Absent == [tokens |-> -1]

RateInit ==
    /\ bucket = Absent
    /\ request = [w \in Workers |-> NoRequest]
    /\ letThrough = [k \in 0..LastTick |-> 0]
    /\ tick = 0

\* dispatch up to the call of the limiter: paths without a limit and requests
\* without a tenant never get here.
ReadClock(w) ==
    /\ request[w].at = "none"
    /\ request' = [request EXCEPT ![w] = [at |-> "sent", now |-> tick]]
    /\ UNCHANGED <<bucket, letThrough, tick>>

LesserOf(a, b) == IF a < b THEN a ELSE b

RefilledAnyway(now) ==
    IF bucket = Absent THEN [tokens |-> Full, last |-> now]
    ELSE [tokens |-> LesserOf(Full, bucket.tokens + IF now > bucket.last
                                  THEN (now - bucket.last) * Limit ELSE 0),
          last |-> now]

\* The script's refill: a clock behind the last refill leaves both alone.
Refilled(now) ==
    IF bucket = Absent THEN [tokens |-> Full, last |-> now]
    ELSE IF now > bucket.last
    THEN [tokens |-> LesserOf(Full, bucket.tokens + (now - bucket.last) * Limit),
          last |-> now]
    ELSE [tokens |-> bucket.tokens, last |-> bucket.last]

\* One run of the script: a token is taken if there is a whole one.  The
\* figures it answers besides (remaining, reset_at, retry_after) are left out.
\* The middleware answers 429 or lets the endpoint run, and adds the headers.
RunScript(w) ==
    /\ request[w].at = "sent"
    /\ LET now  == request[w].now
           b    == Refilled(now)
           ok   == b.tokens >= Minute
           left == IF ok THEN b.tokens - Minute ELSE b.tokens
       IN
        /\ bucket' = [tokens |-> left, last |-> b.last, expires |-> tick + KeyTtl]
        /\ request' = [request EXCEPT ![w] = NoRequest]
        /\ letThrough' = IF ok THEN [k \in 0..LastTick |->
                                        letThrough[k] + IF k < tick THEN 0 ELSE 1]
                         ELSE letThrough
    /\ UNCHANGED tick

\* Redis: a bucket unused for KeyTtl is gone.
TickPasses ==
    /\ tick < LastTick
    /\ \A w \in Workers : request[w].at = "sent" => tick - request[w].now < MaxDelay
    /\ tick' = tick + 1
    /\ bucket' = IF bucket # Absent /\ tick + 1 >= bucket.expires
                 THEN Absent ELSE bucket
    /\ UNCHANGED <<request, letThrough>>

RateNext ==
    \/ \E w \in Workers : ReadClock(w)
    \/ \E w \in Workers : RunScript(w)
    \/ TickPasses

RateSpec == RateInit /\ [][RateNext]_rateVars

-----------------------------------------------------------------------------

RateTypeOK ==
    /\ bucket # Absent =>
           /\ bucket.tokens \in 0..Full /\ bucket.last \in 0..LastTick
           /\ bucket.expires \in Nat
    /\ \A w \in Workers : request[w].at \in {"none", "sent"}
    /\ letThrough \in [0..LastTick -> Nat]
    /\ tick \in 0..LastTick

\* The requests let through from one tick to another, both included.
InWindow(from, to) == letThrough[to] - (IF from = 0 THEN 0 ELSE letThrough[from - 1])

\* The limit (R14.1): in every window of time, however the scripts of the
\* workers overtake one another and whenever Redis drops the bucket, no more
\* requests pass than one full bucket and what the window refills, where a
\* worker's clock may lag its script by MaxDelay.
RateBounded ==
    \A from \in 0..tick : \A to \in from..tick :
        InWindow(from, to) * Minute <= Full + (to - from + MaxDelay) * Limit

\* No request is between the middleware's steps.
RateQuiet == \A w \in Workers : request[w].at = "none"
=============================================================================
