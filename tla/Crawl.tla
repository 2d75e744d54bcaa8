-------------------------------- MODULE Crawl --------------------------------
(* The crawler at one host (backend/crawler): a fetch asks the opt-out     *)
(* registry, then robots.txt through a cache with a lock, then the         *)
(* throttle for one of its slots and the end of the crawl delay, and only  *)
(* then gets the page, which the host may send on to other pages.  Fetches *)
(* are tasks of one event loop: between two of these steps the host        *)
(* changes its robots.txt, opts out, another fetch begins or completes, or *)
(* a fetch is cancelled where it waits.                                    *)
EXTENDS Integers, Sequences, FiniteSets

CONSTANTS
    Crawlers,           \* tasks calling CrawlFetcher.fetch
    Paths, PageAsked,       \* paths of the host, and the one that is asked for
    RobotsFiles,        \* what the host may serve as robots.txt
    MaxSlots,           \* max_concurrency, at most
    DefaultDelay,       \* MIN_CRAWL_DELAY
    RobotsTtl,
    OptOutWindow,       \* _ACTIVATION_WINDOW_HOURS
    MaxRedirects,       \* redirects httpx follows in one get
    MaxGets,            \* bound: pages got
    MaxCancels,         \* bound: fetches cancelled
    MaxSiteChanges,     \* bound: changes of the host's robots.txt
    LastInstant         \* bound on time

NoDelay == -1   \* no Crawl-delay in the robots.txt

\* A robots.txt, for the agent of the fetches: the paths it forbids and its
\* delay.  An absent one forbids none, and a server that fails is unavailable.
ASSUME CrawlAssumption ==
    /\ PageAsked \in Paths
    /\ RobotsFiles \subseteq [available : BOOLEAN, forbids : SUBSET Paths,
                              delay : Nat \cup {NoDelay}]
    /\ MaxSlots \in Nat \ {0} /\ DefaultDelay \in Nat \ {0}
    /\ RobotsTtl \in Nat \ {0} /\ OptOutWindow \in Nat \ {0}
    /\ MaxRedirects \in Nat /\ MaxGets \in Nat /\ MaxCancels \in Nat
    /\ MaxSiteChanges \in Nat /\ LastInstant \in Nat \ {0}

VARIABLES
    slots,          \* max_concurrency of this host, clamped
    site,           \* the host: its robots.txt and how often it changed
    siteAt,         \* [instants -> the files served then] (history)
    optOut,         \* when the domain opted out
    robotsCache,    \* the cache entry of the host
    robotsLock,     \* the crawler fetching robots.txt under the host's lock
    robotsFetched,  \* the answers on robots.txt: asked when, arrived when (history)
    throttle,       \* _HostState
    crawler,        \* [Crawlers -> where the fetch is]
    gets,           \* the pages got, when and after what (history)
    cancelled,      \* fetches cancelled, and slots lost by it
    instant

crawlVars == <<slots, site, siteAt, optOut, robotsCache, robotsLock, robotsFetched,
               throttle, crawler, gets, cancelled, instant>>

Instants == 1..LastInstant

NotYet == 0     \* no such time

Idling == [at |-> "idle"]

CrawlInit ==
    /\ slots \in 1..MaxSlots
    /\ \E r \in RobotsFiles : /\ site = [file |-> r, changes |-> 0]
                              /\ siteAt = [n \in Instants |-> IF n = 1 THEN {r} ELSE {}]
    /\ optOut = NotYet
    /\ robotsCache = [at |-> NotYet]
    /\ robotsLock = {} /\ robotsFetched = <<>>
    /\ throttle = [free |-> slots, last |-> NotYet, delay |-> DefaultDelay, lock |-> {}]
    /\ crawler = [f \in Crawlers |-> Idling]
    /\ gets = <<>>
    /\ cancelled = [times |-> 0, lost |-> 0]
    /\ instant = 1

Greater(a, b) == IF a > b THEN a ELSE b

\* is_opted_out: an opt-out is active once its window has passed.
OptedOut == optOut # NotYet /\ instant >= optOut + OptOutWindow

RobotsFresh == robotsCache.at # NotYet /\ instant - robotsCache.at < RobotsTtl

\* What a fetch that was asked for at a does with the answer on robots.txt,
\* before it waits again: it is skipped, or the crawl delay is set and a slot
\* asked for.
Decide(f, a, r) ==
    IF r.available /\ PageAsked \notin r.forbids
    THEN /\ crawler' = [crawler EXCEPT ![f] =
                [at |-> "slot", asked |-> a, decided |-> instant, file |-> r]]
         /\ throttle' = IF r.delay = NoDelay THEN throttle
                        ELSE [throttle EXCEPT !.delay = Greater(r.delay, DefaultDelay)]
    ELSE /\ crawler' = [crawler EXCEPT ![f] = Idling]
         /\ UNCHANGED throttle

\* fetch: an opted-out domain is skipped, with an audit event.
MayFetch(f) ==
    /\ crawler[f].at = "idle" /\ ~OptedOut
    /\ Len(gets) + Cardinality({g \in Crawlers : crawler[g].at \notin {"idle", "get"}})
           < MaxGets

\* RobotsCache.get: a fresh answer is taken from the cache at once, or else the
\* fetch queues for the lock.
BeginFetch(f) ==
    /\ MayFetch(f)
    /\ IF RobotsFresh
       THEN Decide(f, instant, robotsCache.result)
       ELSE /\ crawler' = [crawler EXCEPT ![f] = [at |-> "queue", asked |-> instant]]
            /\ UNCHANGED throttle
    /\ UNCHANGED <<slots, site, siteAt, optOut, robotsCache, robotsLock, robotsFetched,
                   gets, cancelled, instant>>

\* The lock is free, and somebody else has filled the cache meanwhile.
CachedRobots(f) ==
    /\ crawler[f].at = "queue" /\ robotsLock = {}
    /\ RobotsFresh
    /\ Decide(f, crawler[f].asked, robotsCache.result)
    /\ UNCHANGED <<slots, site, siteAt, optOut, robotsCache, robotsLock, robotsFetched,
                   gets, cancelled, instant>>

AskForRobots(f) ==
    /\ crawler[f].at = "queue" /\ robotsLock = {}
    /\ robotsLock' = {f}
    /\ crawler' = [crawler EXCEPT ![f] =
           [at |-> "fetching", asked |-> @.asked, from |-> instant]]
    /\ UNCHANGED <<slots, site, siteAt, optOut, robotsCache, robotsFetched, throttle,
                   gets, cancelled, instant>>

FetchRobotsUnchecked(f) == AskForRobots(f)

\* The cache is looked at again under the lock.
FetchRobots(f) == ~RobotsFresh /\ AskForRobots(f)

Unavailable == [available |-> FALSE, forbids |-> {}, delay |-> NoDelay]

\* The answer leaves: what the host serves then (or whatever it redirects to
\* serves), or that there is none (HTTP 5xx, a timeout, a network error).
RobotsServed(f) ==
    /\ crawler[f].at = "fetching"
    /\ \E r \in {site.file, Unavailable} :
        crawler' = [crawler EXCEPT ![f] =
            [at |-> "answered", asked |-> @.asked, from |-> @.from, file |-> r]]
    /\ UNCHANGED <<slots, site, siteAt, optOut, robotsCache, robotsLock, robotsFetched,
                   throttle, gets, cancelled, instant>>

\* The answer arrives, whatever it is: it is cached from now on, the lock is
\* free and the fetch goes on.
RobotsAnswered(f) ==
    /\ crawler[f].at = "answered"
    /\ robotsCache' = [at |-> instant, result |-> crawler[f].file]
    /\ robotsLock' = {}
    /\ robotsFetched' = Append(robotsFetched,
           [from |-> crawler[f].from, at |-> instant, file |-> crawler[f].file])
    /\ Decide(f, crawler[f].asked, crawler[f].file)
    /\ UNCHANGED <<slots, site, siteAt, optOut, gets, cancelled, instant>>

\* acquire, first half: the semaphore.
TakeSlot(f) ==
    /\ crawler[f].at = "slot" /\ throttle.free > 0
    /\ throttle' = [throttle EXCEPT !.free = @ - 1]
    /\ crawler' = [crawler EXCEPT ![f].at = "pace"]
    /\ UNCHANGED <<slots, site, siteAt, optOut, robotsCache, robotsLock, robotsFetched,
                   gets, cancelled, instant>>

\* The request for the page is sent.
StartGet(f, granted, delay) ==
    /\ gets' = Append(gets, [start |-> instant, end |-> NotYet, granted |-> granted,
                             delay |-> delay, asked |-> crawler[f].asked,
                             decided |-> crawler[f].decided, file |-> crawler[f].file,
                             redirects |-> <<>>])
    /\ crawler' = [crawler EXCEPT ![f] = [at |-> "get", number |-> Len(gets) + 1]]

\* acquire, second half, under the lock: the delay that remains is worked out
\* once, from the last completion known now, and slept.
Pace(f) ==
    /\ crawler[f].at = "pace" /\ throttle.lock = {}
    /\ IF throttle.last # NotYet /\ instant - throttle.last < throttle.delay
       THEN /\ throttle' = [throttle EXCEPT !.lock = {f}]
            /\ crawler' = [crawler EXCEPT ![f] =
                   [at |-> "sleep", asked |-> @.asked, decided |-> @.decided,
                    file |-> @.file, granted |-> instant, delay |-> throttle.delay,
                    wake |-> throttle.last + throttle.delay]]
            /\ UNCHANGED gets
       ELSE StartGet(f, instant, throttle.delay) /\ UNCHANGED throttle
    /\ UNCHANGED <<slots, site, siteAt, optOut, robotsCache, robotsLock, robotsFetched,
                   cancelled, instant>>

Wake(f) ==
    /\ crawler[f].at = "sleep" /\ instant >= crawler[f].wake
    /\ StartGet(f, crawler[f].granted, crawler[f].delay)
    /\ throttle' = [throttle EXCEPT !.lock = {}]
    /\ UNCHANGED <<slots, site, siteAt, optOut, robotsCache, robotsLock, robotsFetched,
                   cancelled, instant>>

\* The page is redirected to some path of the host, and httpx asks for that one
\* at once: neither robots.txt nor the throttle is consulted.  (A redirect to
\* another host changes nothing here.)
Redirected(f) ==
    /\ crawler[f].at = "get"
    /\ Len(gets[crawler[f].number].redirects) < MaxRedirects
    /\ \E p \in Paths :
        gets' = [gets EXCEPT ![crawler[f].number].redirects = Append(@, p)]
    /\ UNCHANGED <<slots, site, siteAt, optOut, robotsCache, robotsLock, robotsFetched,
                   throttle, crawler, cancelled, instant>>

GetOverUntimed(f) ==
    /\ crawler[f].at = "get"
    /\ gets' = [gets EXCEPT ![crawler[f].number].end = instant]
    /\ throttle' = [throttle EXCEPT !.free = @ + 1]
    /\ crawler' = [crawler EXCEPT ![f] = Idling]
    /\ UNCHANGED <<slots, site, siteAt, optOut, robotsCache, robotsLock, robotsFetched,
                   cancelled, instant>>

\* The page is there, or the get failed or was cancelled: release.
GetOver(f) ==
    /\ crawler[f].at = "get"
    /\ gets' = [gets EXCEPT ![crawler[f].number].end = instant]
    /\ throttle' = [throttle EXCEPT !.last = instant, !.free = @ + 1]
    /\ crawler' = [crawler EXCEPT ![f] = Idling]
    /\ UNCHANGED <<slots, site, siteAt, optOut, robotsCache, robotsLock, robotsFetched,
                   cancelled, instant>>

\* Cancellation (a timeout around fetch, a shutdown) before the get: the lock
\* that is held is left, but a slot that was taken is not given back, since
\* acquire comes before the try whose finally releases.
Cancel(f) ==
    /\ cancelled.times < MaxCancels
    /\ \/ crawler[f].at \in {"queue", "fetching", "answered", "slot", "sleep"}
       \/ crawler[f].at = "pace" /\ throttle.lock # {}
    /\ crawler' = [crawler EXCEPT ![f] = Idling]
    /\ robotsLock' = robotsLock \ {f}
    /\ throttle' = [throttle EXCEPT !.lock = @ \ {f}]
    /\ cancelled' = [times |-> cancelled.times + 1,
                     lost |-> cancelled.lost + IF crawler[f].at \in {"pace", "sleep"}
                                               THEN 1 ELSE 0]
    /\ UNCHANGED <<slots, site, siteAt, optOut, robotsCache, robotsFetched, gets, instant>>

\* register_opt_out: the first one counts.
RegisterOptOut ==
    /\ optOut = NotYet
    /\ optOut' = instant
    /\ UNCHANGED <<slots, site, siteAt, robotsCache, robotsLock, robotsFetched, throttle,
                   crawler, gets, cancelled, instant>>

SiteChanges ==
    /\ site.changes < MaxSiteChanges
    /\ \E r \in RobotsFiles \ {site.file} :
        /\ site' = [file |-> r, changes |-> site.changes + 1]
        /\ siteAt' = [siteAt EXCEPT ![instant] = @ \cup {r}]
    /\ UNCHANGED <<slots, optOut, robotsCache, robotsLock, robotsFetched, throttle,
                   crawler, gets, cancelled, instant>>

InstantPasses ==
    /\ instant < LastInstant
    /\ instant' = instant + 1
    /\ siteAt' = [siteAt EXCEPT ![instant + 1] = {site.file}]
    /\ UNCHANGED <<slots, site, optOut, robotsCache, robotsLock, robotsFetched, throttle,
                   crawler, gets, cancelled>>

CrawlNext ==
    \/ \E f \in Crawlers :
           \/ BeginFetch(f) \/ CachedRobots(f) \/ FetchRobots(f)
           \/ RobotsServed(f) \/ RobotsAnswered(f)
           \/ TakeSlot(f) \/ Pace(f) \/ Wake(f) \/ Redirected(f) \/ GetOver(f)
           \/ Cancel(f)
    \/ RegisterOptOut
    \/ SiteChanges
    \/ InstantPasses

CrawlSpec == CrawlInit /\ [][CrawlNext]_crawlVars

-----------------------------------------------------------------------------

CrawlTypeOK ==
    /\ throttle.free \in 0..slots /\ throttle.last \in 0..LastInstant
    /\ throttle.delay >= DefaultDelay
    /\ Cardinality(robotsLock) <= 1 /\ Cardinality(throttle.lock) <= 1
    /\ cancelled.lost \in 0..slots
    /\ instant \in Instants

Under(i) == {j \in DOMAIN gets : j < i}

\* The crawl delay the fetches owe a robots.txt.
DelayOf(r) == Greater(r.delay, DefaultDelay)

\* The answers on robots.txt that a decision taken at d, and what the throttle
\* knows at t, may rest on.
AnswersFor(d, t) ==
    {k \in DOMAIN robotsFetched : /\ d - RobotsTtl < robotsFetched[k].at
                                  /\ robotsFetched[k].at <= t}

\* Politeness (R1.4, R1.5) towards the host.  No more pages are being got than
\* there are slots, lost ones included.  A get starts the crawl delay or more
\* after every completion before its turn in the throttle, and with one slot
\* after every completion.  That delay is a recent one: if the robots.txt that
\* permitted the get names a delay, it is the one that file or a later answer
\* asks for.  (The requests a get is redirected to are outside this: they
\* follow within the get, without a delay.)
CrawlPolite ==
    /\ Cardinality({i \in DOMAIN gets : gets[i].end = NotYet}) + cancelled.lost <= slots
    /\ \A i \in DOMAIN gets : \A j \in Under(i) :
        /\ gets[j].end \in 1..(gets[i].granted - 1) =>
               gets[i].start >= gets[j].end + gets[i].delay
        /\ slots = 1 => /\ gets[j].end # NotYet
                        /\ gets[i].start >= gets[j].end + gets[i].delay
    /\ \A i \in DOMAIN gets : gets[i].file.delay # NoDelay =>
           \E k \in AnswersFor(gets[i].decided, gets[i].granted) :
               /\ robotsFetched[k].file.delay # NoDelay
               /\ gets[i].delay = DelayOf(robotsFetched[k].file)

\* What the host served while robots.txt was asked for.
ServedBetween(from, to) == UNION {siteAt[n] : n \in from..to}

\* robots.txt and opt-outs are respected (R1.1-R1.3, R1.6) though they change
\* while fetches wait: robots.txt is asked for once a lifetime however many
\* fetches miss it together; an answer is what the host served between question
\* and arrival; every get rests on an answer that arrived within a lifetime
\* before the decision and permits the page asked for; and no fetch begun after
\* an opt-out became active got a page.  (The pages a get is redirected to are
\* outside this; see OnlyAllowedPages.)
RobotsRespected ==
    /\ \A k \in DOMAIN robotsFetched :
        /\ k > 1 => robotsFetched[k].from >= robotsFetched[k - 1].at + RobotsTtl
        /\ robotsFetched[k].file.available =>
               robotsFetched[k].file \in
                   ServedBetween(robotsFetched[k].from, robotsFetched[k].at)
    /\ \A i \in DOMAIN gets :
        /\ \E k \in AnswersFor(gets[i].decided, gets[i].decided) :
               /\ robotsFetched[k].file = gets[i].file
               /\ gets[i].file.available /\ PageAsked \notin gets[i].file.forbids
        /\ optOut # NotYet => gets[i].asked < optOut + OptOutWindow

\* "IF the cached or freshly fetched robots.txt for a host disallows a URL for
\* the configured user agent, THEN THE Crawler SHALL skip the URL" (R1.2): no
\* page is asked for, by a redirect either, that the robots.txt in hand forbids.
OnlyAllowedPages ==
    \A i \in DOMAIN gets : \A k \in DOMAIN gets[i].redirects :
        gets[i].redirects[k] \notin gets[i].file.forbids

\* Nobody waits, but for a delay that ends after the last instant, or for a slot
\* when all of them are lost.
CrawlQuiet ==
    \/ \A f \in Crawlers : crawler[f].at = "idle"
    \/ \E f \in Crawlers : crawler[f].at = "sleep" /\ crawler[f].wake > LastInstant
    \/ cancelled.lost = slots /\ \A f \in Crawlers : crawler[f].at \in {"idle", "slot"}
=============================================================================
