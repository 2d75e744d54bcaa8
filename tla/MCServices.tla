----------------------------- MODULE MCServices -----------------------------
(* The services that share no state with one another, checked in one run:  *)
(* a behaviour picks one of them and runs it, the others stay as they      *)
(* start.  A service that can do nothing more must be quiet, so that a     *)
(* deadlock is an error.                                                   *)
EXTENDS TLC, SessionStore, AuditTrail, RateLimit, Search, AnswerStream, Ingest,
        RetryBook, Crawl, QueryFilter, Pipeline, SdkClient, Gateway

VARIABLE part   \* the service that runs

-----------------------------------------------------------------------------
(* Constants.                                                              *)

mcTables == <<"sessions", "pipelines">>

\* One text answers the query in meaning, the other in words; one is credible.
mcSearchTexts == { [neural |-> 1, keyword |-> 0, cred |-> 1],
                   [neural |-> 2, keyword |-> 1, cred |-> 0] }

\* One robots.txt forbids the page, one permits it with a long delay, and one
\* (or none at all) permits it without a delay.
mcRobotsFiles == { [available |-> TRUE, forbids |-> {"page"}, delay |-> -1],
                   [available |-> TRUE, forbids |-> {}, delay |-> 2],
                   [available |-> TRUE, forbids |-> {}, delay |-> -1] }

\* As the prints sort: y and z compare one number of the metadata, with six
\* digits and with eight, of which the print keeps six; x has one that is too
\* large for a float; a is a date, whose "<" is printed as "lt".
mcTokenOrder == <<"(", "x", "y", "z", "not", "a", "and", "or", ")">>

mcPrinted == [c \in {"a", "y", "z"} |-> IF c = "z" THEN "y" ELSE c]

mcPrintedWidth == [a |-> 7, y |-> 5, z |-> 5]

\* The length of a text with no space but those that end a word.
mcWidth == ("(" :> 1) @@ (")" :> 1) @@ ("or" :> 2) @@ [t \in Tokens |-> 3]

mcTight(ts) ==
    MapThenSumSet(LAMBDA i : mcWidth[ts[i]], DOMAIN ts)
        + Cardinality({i \in 1..(Len(ts) - 1) :
              ts[i] \in {"and", "or", "not"} /\ ts[i + 1] \notin {"(", ")"}})

Operands == {<<"a">>, <<"z">>, <<"not", "a">>}
Words == {"and", "or"}
Pairs == {x \o <<w>> \o y : x, y \in Operands, w \in Words}
Paren(ts) == <<"(">> \o ts \o <<")">>

\* All texts of at most four tokens, well formed or not, and the deeper ones
\* where the binding of and, or and not, and the limits, make a difference.
mcTokenTexts ==
    UNION {[1..n -> ToSet(mcTokenOrder) \ {"x", "y"}] : n \in 0..4}
    \cup {Paren(p) \o <<w>> \o x : p \in Pairs, x \in Operands, w \in Words}
    \cup {x \o <<w>> \o Paren(p) : p \in Pairs, x \in Operands, w \in Words}
    \cup {Paren(p) \o <<w>> \o Paren(q) : p, q \in Pairs, w \in Words}
    \cup {<<"not">> \o Paren(p) : p \in Pairs}
    \cup {Paren(Paren(p)) : p \in Pairs}
    \cup {<<"x">>, <<"a", "or", "x">>}

\* Tight, and the short ones with spaces beyond the limit as well.
mcFilterTexts ==
    {[tokens |-> ts, length |-> mcTight(ts)] : ts \in mcTokenTexts}
    \cup {[tokens |-> ts, length |-> 31] : ts \in {t \in mcTokenTexts : Len(t) < 3}}

\* Four results, not in the order of their scores: two of one url, two of one
\* language, one foreign, one without a language, one without a date.
mcCandidates == { << [url |-> "u1", domain |-> "d1", age |-> 0, lang |-> "en",
                      score |-> 2, cred |-> 0],
                     [url |-> "u2", domain |-> "d2", age |-> 3, lang |-> "",
                      score |-> 3, cred |-> 4],
                     [url |-> "u1", domain |-> "d1", age |-> -1, lang |-> "fr",
                      score |-> 1, cred |-> 4],
                     [url |-> "u3", domain |-> "d1", age |-> 0, lang |-> "en",
                      score |-> 4, cred |-> 1] >> }

\* Callers of a service are alike, and so are tenants; the same two of each
\* stand for the callers and the tenants of every service.
Alike == Permutations(SessionCallers) \cup Permutations(SessionTenants)

mcStepNames == Registered \cup {"unknown"}

\* Bound: what befalls the crawler in one behaviour, two things at most.
CrawlTroubles ==
    cancelled.times + site.changes
        + Cardinality({i \in DOMAIN gets : gets[i].redirects # <<>>})
        + IF optOut = NotYet THEN 0 ELSE 1

-----------------------------------------------------------------------------

Parts == {"sessions", "audit", "rate", "search", "answer", "ingest",
          "books", "crawl", "filter", "pipeline", "sdk", "gateway"}

Init ==
    /\ part \in Parts
    /\ SessionInit /\ AuditInit /\ RateInit /\ SearchInit /\ AnswerInit
    /\ IngestInit /\ BookInit /\ CrawlInit /\ FilterInit /\ PipelineInit /\ SdkInit
    /\ GatewayInit /\ \A b, d \in Buckets : tokens[b] = tokens[d]
    /\ site.file.delay = 2 /\ (part # "crawl" => slots = 1)
    /\ part # "search" => ~clustered
    /\ part # "gateway" => \A b \in Buckets : tokens[b] = 0

\* Every service but the one that runs stays as it is.
Stay ==
    /\ UNCHANGED part
    /\ part # "sessions" => UNCHANGED sessionVars
    /\ part # "audit" => UNCHANGED auditVars
    /\ part # "rate" => UNCHANGED rateVars
    /\ part # "search" => UNCHANGED searchVars
    /\ part # "answer" => UNCHANGED answerVars
    /\ part # "ingest" => UNCHANGED ingestVars
    /\ part # "books" => UNCHANGED bookVars
    /\ part # "crawl" => UNCHANGED crawlVars
    /\ part # "filter" => UNCHANGED filterVars
    /\ part # "pipeline" => UNCHANGED pipelineVars
    /\ part # "sdk" => UNCHANGED sdkVars
    /\ part # "gateway" => UNCHANGED gatewayVars

\* Nothing of the service that runs is left half done.
Quiet ==
    /\ part = "sessions" => SessionQuiet
    /\ part = "audit" => AuditQuiet
    /\ part = "rate" => RateQuiet
    /\ part = "answer" => AnswerQuiet
    /\ part = "ingest" => IngestQuiet
    /\ part = "crawl" => CrawlQuiet
    /\ part = "filter" => FilterQuiet
    /\ part = "pipeline" => PipelineQuiet
    /\ part = "gateway" => GatewayQuiet

Rest ==
    /\ Quiet
    /\ UNCHANGED <<sessionVars, auditVars, rateVars, searchVars, answerVars, ingestVars,
                   bookVars, crawlVars, filterVars, pipelineVars, sdkVars, gatewayVars, part>>

Next ==
    \/ part = "sessions" /\ SessionNext /\ Stay
    \/ part = "audit" /\ AuditNext /\ Stay
    \/ part = "rate" /\ RateNext /\ Stay
    \/ part = "search" /\ SearchNext /\ Stay
    \/ part = "answer" /\ AnswerNext /\ Stay
    \/ part = "ingest" /\ IngestNext /\ Stay
    \/ part = "books" /\ BookNext /\ Stay
    \/ part = "crawl" /\ CrawlNext /\ CrawlTroubles' <= 2 /\ Stay
    \/ part = "filter" /\ FilterNext /\ Stay
    \/ part = "pipeline" /\ PipelineNext /\ Stay
    \/ part = "sdk" /\ SdkNext /\ Stay
    \/ part = "gateway" /\ GatewayNext /\ Stay
    \/ Rest

vars == <<part, sessionVars, auditVars, rateVars, searchVars, answerVars,
          ingestVars, bookVars, crawlVars, filterVars, pipelineVars, sdkVars,
          gatewayVars>>

Spec == Init /\ [][Next]_vars

\* The variables of every service have their types.
ServicesTypeOK ==
    /\ SessionTypeOK /\ AuditTypeOK /\ RateTypeOK /\ SearchTypeOK /\ AnswerTypeOK
    /\ IngestTypeOK /\ BookTypeOK /\ CrawlTypeOK /\ FilterTypeOK /\ PipelineTypeOK
    /\ SdkTypeOK /\ GatewayTypeOK
=============================================================================
