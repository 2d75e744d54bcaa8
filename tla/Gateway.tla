------------------------------- MODULE Gateway ------------------------------
(* What a request passes on its way to a service: the middleware chain of  *)
(* the HTTP gateway (backend/api_gateway/app.py: request id, auth, rate    *)
(* limit, PII stub, error handling, route), or MCPServer.call_tool, which  *)
(* takes its tokens from the same buckets.  The steps of a chain await, so *)
(* requests interleave between them.  RateLimit has how much of a bucket   *)
(* comes back with time, ApiKeyAuth the verdict: here they are choices.    *)
EXTENDS Integers, FiniteSets

CONSTANTS
    Calls,          \* requests
    GatewayTenants,
    Budget          \* limit_per_minute

ASSUME BudgetAssumption == Budget \in Nat \ {0} /\ IsFiniteSet(Calls)

\* A tenant's id is a UUID, none of the names the code or the model has besides.
ASSUME TenantAssumption == {"none", "anyone", "mcp-agent"} \cap GatewayTenants = {}

VARIABLES
    tokens,         \* [buckets -> whole tokens left when last written]
    supplied,       \* [buckets -> tokens there have been in it] (history)
    exchange        \* [Calls -> how far a request has come]

gatewayVars == <<tokens, supplied, exchange>>

\* The endpoints that differ: a route that calls a service for its tenant,
\* one whose service knows no tenants, and the MCP endpoint of the gateway.
Routes == {"/v1/search", "/v1/contents", "/mcp/messages"}
Public == "/health"
Tools == {"/v1/search", "/v1/contents"}

\* endpoint_map: a tool has the bucket of its REST endpoint.
Buckets == GatewayTenants \X Routes

NoExchange == [at |-> "none"]

\* A request just read: no tenant, no token, no service called.
Read(via, route) ==
    [at |-> "auth", via |-> via, route |-> route, tenant |-> "none",
     remaining |-> -1, servedAs |-> "none", answer |-> "none"]

GatewayInit ==
    /\ tokens \in [Buckets -> 0..Budget]
    /\ supplied = tokens
    /\ exchange = [c \in Calls |-> NoExchange]

Move(c, e) == exchange' = [exchange EXCEPT ![c] = e]

Answer(c, what) == Move(c, [exchange[c] EXCEPT !.at = "done", !.answer = what])

-----------------------------------------------------------------------------

\* The public paths skip authentication and, having no tenant, the limit.
ReceivePublic(c) ==
    /\ exchange[c].at = "none"
    /\ Move(c, [Read("rest", Public) EXCEPT !.at = "done", !.answer = "ok"])
    /\ UNCHANGED <<tokens, supplied>>

Receive(c, route) ==
    /\ exchange[c].at = "none"
    /\ Move(c, Read("rest", route))
    /\ UNCHANGED <<tokens, supplied>>

\* call_tool: an unknown tool and a missing key are refused at once.
ReceiveTool(c, route) ==
    /\ exchange[c].at = "none"
    /\ Move(c, Read("tool", route))
    /\ UNCHANGED <<tokens, supplied>>

ReceiveNoTool(c) ==
    /\ exchange[c].at = "none"
    /\ \E what \in {"invalid", "unauthorized"} :
           Move(c, [Read("tool", Public) EXCEPT !.at = "done", !.answer = what])
    /\ UNCHANGED <<tokens, supplied>>

Authenticated(c, t) ==
    /\ exchange[c].at = "auth"
    /\ Move(c, [exchange[c] EXCEPT !.at = "limit", !.tenant = t])
    /\ UNCHANGED <<tokens, supplied>>

Unauthorized(c) ==
    /\ exchange[c].at = "auth"
    /\ Answer(c, "unauthorized")
    /\ UNCHANGED <<tokens, supplied>>

\* An exception of the key lookup or of Redis passes all of the gateway's own
\* middleware: the server's last handler answers 500, without their headers.
AuthRaises(c) ==
    /\ exchange[c].at = "auth"
    /\ Answer(c, "raised")
    /\ UNCHANGED <<tokens, supplied>>

BucketOf(c) == <<exchange[c].tenant, exchange[c].route>>

\* What the script may find in a bucket, filled again since it was written.
Found(b) == tokens[b]..Budget

\* The script, of a bucket it found a whole token in.
Consume(b, found) ==
    /\ tokens' = [tokens EXCEPT ![b] = found - 1]
    /\ supplied' = [supplied EXCEPT ![b] = @ + found - tokens[b]]

TakeToken(c) ==
    /\ exchange[c].at = "limit"
    /\ \E found \in Found(BucketOf(c)) \ {0} :
           /\ Consume(BucketOf(c), found)
           /\ Move(c, [exchange[c] EXCEPT !.at = "handler", !.remaining = found - 1])

LimitedNoted(c) ==
    /\ exchange[c].at = "limit"
    /\ tokens[BucketOf(c)] = 0
    /\ Move(c, [exchange[c] EXCEPT !.at = "handler"])
    /\ UNCHANGED <<tokens, supplied>>

Limited(c) ==
    /\ exchange[c].at = "limit"
    /\ tokens[BucketOf(c)] = 0
    /\ Answer(c, "limited")
    /\ UNCHANGED <<tokens, supplied>>

\* Redis fails before the script has run, or after it: then a token is gone.
LimitRaises(c) ==
    /\ exchange[c].at = "limit"
    /\ Answer(c, "raised")
    /\ \/ UNCHANGED <<tokens, supplied>>
       \/ \E found \in Found(BucketOf(c)) \ {0} : Consume(BucketOf(c), found)

-----------------------------------------------------------------------------

\* The tenant a service is called for: a tool's for the caller's, with every
\* tool; the contents route and the gateway's MCP endpoint hand none on.
ServedTenant(e) ==
    CASE e.route = "/mcp/messages"                    -> "mcp-agent"
      [] e.route = "/v1/contents" /\ e.via = "rest"   -> "anyone"
      [] OTHER                                        -> e.tenant

\* The request is not what the route or the tool's input schema asks for; the
\* MCP endpoint also answers methods that call no service.
NotServed(c) ==
    /\ exchange[c].at = "handler"
    /\ \E what \in IF exchange[c].route = "/mcp/messages"
                   THEN {"ok", "failed"} ELSE {"invalid"} :
           Answer(c, what)
    /\ UNCHANGED <<tokens, supplied>>

\* The service is called: its answer, or what ErrorHandlingMiddleware,
\* _execute_tool's caller or call_tool make of its exception.  A tool whose
\* answer does not meet the output schema has failed although it has run.
Served(c) ==
    /\ exchange[c].at = "handler"
    /\ \E what \in {"ok", "failed"} :
           Move(c, [exchange[c] EXCEPT !.at = "done", !.answer = what,
                                       !.servedAs = ServedTenant(exchange[c])])
    /\ UNCHANGED <<tokens, supplied>>

GatewayNext ==
    \E c \in Calls :
        \/ ReceivePublic(c)
        \/ \E r \in Routes : Receive(c, r)
        \/ \E r \in Tools : ReceiveTool(c, r)
        \/ ReceiveNoTool(c)
        \/ \E t \in GatewayTenants : Authenticated(c, t)
        \/ Unauthorized(c)
        \/ AuthRaises(c)
        \/ TakeToken(c)
        \/ Limited(c)
        \/ LimitRaises(c)
        \/ NotServed(c)
        \/ Served(c)

GatewaySpec == GatewayInit /\ [][GatewayNext]_gatewayVars

-----------------------------------------------------------------------------

GatewayTypeOK ==
    /\ tokens \in [Buckets -> 0..Budget] /\ supplied \in [Buckets -> Nat]
    /\ \A c \in Calls : exchange[c] # NoExchange =>
           /\ exchange[c].at \in {"auth", "limit", "handler", "done"}
           /\ exchange[c].route \in Routes \cup {Public}
           /\ exchange[c].remaining \in -1..Budget

\* The requests that were given a token of a bucket.
Holding(b) ==
    {c \in Calls : exchange[c] # NoExchange /\ exchange[c].remaining >= 0
                      /\ BucketOf(c) = b}

\* No service is called but for a request that was authenticated and was given
\* a token, by whichever of the two ways it came, and then for its own tenant,
\* or for none that can sign in; and REST and tool calls of a tenant at an
\* endpoint share its tokens: no more of them are given one than there have
\* been, whatever is in flight or fails (R12.4, R12.6, R13.1, R14.1).
GatewaySound ==
    /\ \A c \in {x \in Calls : exchange[x].at \notin {"none", "auth"}} :
           LET e == exchange[c] IN
           /\ e.servedAs # "none" =>
                  /\ e.tenant \in GatewayTenants /\ e.remaining >= 0
                  /\ e.answer \in {"ok", "failed"}
                  /\ e.servedAs \in GatewayTenants => e.servedAs = e.tenant
           /\ e.answer = "limited" => e.remaining < 0
    /\ \A b \in Buckets : Cardinality(Holding(b)) + tokens[b] <= supplied[b]

\* No request is on its way.
GatewayQuiet == \A c \in Calls : exchange[c].at \in {"none", "done"}
=============================================================================
