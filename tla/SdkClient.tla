------------------------------ MODULE SdkClient ------------------------------
(* The Python client (src/sdks/python): plain requests, whose outcome is a *)
(* value or one of the SDK's exceptions, and streams of server-sent events *)
(* read line by line.  A stream may be cut after any line; the application *)
(* then asks for the events after the last id it saw.  The server is what  *)
(* sse.py and Last-Event-ID promise: events numbered from 1, comments in   *)
(* silence, replay of the events after an id.  sse.py leaves U+0085, U+2028*)
(* and U+2029 of a text as they are, and the client's httpx ends a line at *)
(* each of them: the data of such an event comes as two lines.             *)
EXTENDS Integers, Sequences, SequencesExt

CONSTANTS
    StreamLength,       \* events of the stream, the last one done or error
    Separated,          \* those whose text holds one of the three separators
    MaxComments,        \* bound: keepalive comments sent
    MaxCuts,            \* bound: connections cut
    Statuses            \* HTTP statuses a server answers a request with

ASSUME SdkAssumption ==
    /\ StreamLength \in Nat \ {0} /\ Separated \subseteq 1..StreamLength
    /\ MaxComments \in Nat /\ MaxCuts \in Nat

VARIABLES
    connection,     \* the stream's connection: state, next event, lines sent
    parser,         \* _parse_sse_stream: event_type, event_id, data_lines
    delivered,      \* the events the application got
    sdkBudget,      \* comments and cuts so far
    call            \* the last plain request: what came back, what was made of it

sdkVars == <<connection, parser, delivered, sdkBudget, call>>

Lines == {"id", "event", "data", "blank", "comment", "text"}

\* What follows the separator: text that is no field, nothing (a second
\* separator is next), or text that looks like a data field.
Remainders == {"text", "blank", "data"}

\* The data as it is parsed: an event's own, or a part, which is no JSON.
DataOf(e) == IF e \in Separated THEN -e ELSE e

Line(name, of) == [line |-> name, of |-> of]

\* SSEEvent.format, and its lines as httpx tells them apart.
EventLines(e, remainder) ==
    IF e \in Separated
    THEN << Line("id", e), Line("event", e), Line("data", -e), Line(remainder, -e),
            Line("blank", e) >>
    ELSE << Line("id", e), Line("event", e), Line("data", e), Line("blank", e) >>

CommentLines == << Line("comment", 0), Line("blank", 0) >>

Nothing == [type |-> 0, id |-> 0, data |-> 0]

Disconnected == [at |-> "none"]

SdkInit ==
    /\ connection = Disconnected
    /\ parser = Nothing
    /\ delivered = <<>>
    /\ sdkBudget = [comments |-> 0, cuts |-> 0]
    /\ call = [at |-> "none"]

LastSeen == IF delivered = <<>> THEN 0 ELSE Last(delivered).id

\* The stream's generator stops after a done or an error event.
Ended == delivered # <<>> /\ Last(delivered).type = StreamLength

\* research_events with Last-Event-ID: the server starts after the id it is
\* told; answer is opened once.  A response that is no stream (an error status,
\* whose body the client does not look at) has no line that means anything.
OpenStream ==
    /\ connection.at = "none" /\ ~Ended
    /\ \E ok \in BOOLEAN :
        /\ ~ok => sdkBudget.cuts < MaxCuts
        /\ connection' = [at |-> IF ok THEN "open" ELSE "closing",
                          next |-> LastSeen + 1, lines |-> <<>>]
        /\ sdkBudget' = IF ok THEN sdkBudget ELSE [sdkBudget EXCEPT !.cuts = @ + 1]
    /\ parser' = Nothing
    /\ UNCHANGED <<delivered, call>>

SendEvent ==
    /\ connection.at = "open" /\ connection.lines = <<>>
    /\ connection.next <= StreamLength
    /\ \E remainder \in Remainders :
           connection' = [connection EXCEPT !.next = @ + 1,
                                            !.lines = EventLines(connection.next, remainder)]
    /\ UNCHANGED <<parser, delivered, sdkBudget, call>>

SendComment ==
    /\ connection.at = "open" /\ connection.lines = <<>>
    /\ sdkBudget.comments < MaxComments
    /\ connection' = [connection EXCEPT !.lines = CommentLines]
    /\ sdkBudget' = [sdkBudget EXCEPT !.comments = @ + 1]
    /\ UNCHANGED <<parser, delivered, call>>

Pending == parser.type # 0 \/ parser.data # 0

ParsedLineNoReset(l) ==
    CASE l.line = "id" -> [parser EXCEPT !.id = l.of]
      [] l.line = "event" -> [parser EXCEPT !.type = l.of]
      [] l.line = "data" -> [parser EXCEPT !.data = l.of]
      [] OTHER -> parser

\* One line: a blank one ends an event if there is any; comments and what else
\* is no field are passed over.
ParsedLine(l) ==
    CASE l.line = "id" -> [parser EXCEPT !.id = l.of]
      [] l.line = "event" -> [parser EXCEPT !.type = l.of]
      [] l.line = "data" -> [parser EXCEPT !.data = l.of]
      [] l.line = "blank" /\ Pending -> Nothing
      [] OTHER -> parser

DeliveredBy(l) ==
    IF l.line = "blank" /\ Pending THEN Append(delivered, parser) ELSE delivered

\* The application stops reading after the terminal event.
ReadLine ==
    /\ connection.at = "open" /\ connection.lines # <<>>
    /\ LET l == Head(connection.lines) IN
        /\ parser' = ParsedLine(l)
        /\ delivered' = DeliveredBy(l)
        /\ connection' = IF DeliveredBy(l) # delivered /\ parser.type = StreamLength
                         THEN Disconnected
                         ELSE [connection EXCEPT !.lines = Tail(@)]
    /\ UNCHANGED <<sdkBudget, call>>

\* The connection is cut, or ends: half an event is not delivered.  The caller
\* sees an exception or the end of the stream.
CutStream ==
    /\ \/ connection.at = "open" /\ sdkBudget.cuts < MaxCuts
          /\ sdkBudget' = [sdkBudget EXCEPT !.cuts = @ + 1]
       \/ connection.at = "closing" /\ UNCHANGED sdkBudget
    /\ connection' = Disconnected
    /\ parser' = Nothing
    /\ UNCHANGED <<delivered, call>>

-----------------------------------------------------------------------------
(* Plain requests.                                                         *)

TwoHundreds == 200..299

\* The status every method expects; the deletes have a check of their own.
QueryEndpoints == [search |-> 200, find_similar |-> 200, contents |-> 200]
ResearchEndpoints == [create_research |-> 201, get_research_job |-> 200]
SessionEndpoints == [create_session |-> 201]
PipelineEndpoints == [create_pipeline |-> 201, get_pipeline |-> 200]

Expected ==
    [e \in DOMAIN QueryEndpoints \cup DOMAIN ResearchEndpoints
           \cup DOMAIN SessionEndpoints \cup DOMAIN PipelineEndpoints |->
        CASE e \in DOMAIN QueryEndpoints -> QueryEndpoints[e]
          [] e \in DOMAIN ResearchEndpoints -> ResearchEndpoints[e]
          [] e \in DOMAIN SessionEndpoints -> SessionEndpoints[e]
          [] e \in DOMAIN PipelineEndpoints -> PipelineEndpoints[e]]

Transport(reply) ==
    CASE reply.kind = "timeout" -> "TimeoutError"
      [] reply.kind = "connect" -> "ConnectionError"
      [] reply.kind = "broken" -> "transport exception"

\* What the methods make of a JSON body.  contents asks for no field, search
\* and find_similar for those of a result, the others for their own.
ValueOf(endpoint, body) ==
    CASE body = "complete" -> "value"
      [] body = "empty" -> IF endpoint \in DOMAIN QueryEndpoints THEN "value" ELSE "KeyError"
      [] body = "partial" -> IF endpoint = "contents" THEN "value" ELSE "KeyError"
      [] body = "no object" ->
            IF endpoint \in DOMAIN QueryEndpoints \cup {"get_research_job"}
            THEN "AttributeError" ELSE "TypeError"

\* _request: the status it expects or another 2xx is read as a value.
Outcome(endpoint, reply) ==
    IF reply.kind # "response" THEN Transport(reply)
    ELSE IF reply.status # Expected[endpoint] /\ reply.status \notin TwoHundreds THEN "APIError"
    ELSE IF reply.body = "unreadable" THEN "ParseError"
    ELSE ValueOf(endpoint, reply.body)

\* delete_session and delete_pipeline look at nothing but the status.
DeleteOutcome(reply) ==
    IF reply.kind # "response" THEN Transport(reply)
    ELSE IF reply.status \in {200, 204} THEN "value"
    ELSE "APIError"

\* The body is what the method reads, or an object that lacks a field of it or
\* all of it, or other JSON, or no JSON.
Bodies == {"complete", "partial", "empty", "no object", "unreadable"}

Replies ==
    [kind : {"timeout", "connect", "broken"}]
        \cup [kind : {"response"}, status : Statuses, body : Bodies]

Request(endpoint, reply) ==
    /\ call.at = "none"
    /\ call' = [at |-> "over", endpoint |-> endpoint, reply |-> reply,
                outcome |-> Outcome(endpoint, reply)]
    /\ UNCHANGED <<connection, parser, delivered, sdkBudget>>

DeleteRequest(endpoint, reply) ==
    /\ call.at = "none"
    /\ call' = [at |-> "over", endpoint |-> endpoint, reply |-> reply,
                outcome |-> DeleteOutcome(reply)]
    /\ UNCHANGED <<connection, parser, delivered, sdkBudget>>

NextRequest ==
    /\ call.at = "over"
    /\ call' = [at |-> "none"]
    /\ UNCHANGED <<connection, parser, delivered, sdkBudget>>

SdkNext ==
    \/ OpenStream
    \/ SendEvent
    \/ SendComment
    \/ ReadLine
    \/ CutStream
    \/ \E reply \in Replies :
          \/ \E endpoint \in DOMAIN Expected : Request(endpoint, reply)
          \/ \E endpoint \in {"delete_session", "delete_pipeline"} :
                 DeleteRequest(endpoint, reply)
    \/ NextRequest

SdkSpec == SdkInit /\ [][SdkNext]_sdkVars

-----------------------------------------------------------------------------

SdkTypeOK ==
    /\ connection.at \in {"none", "open", "closing"}
    /\ Len(delivered) <= StreamLength
    /\ call.at \in {"none", "over"}

SdkOutcomes == {"value", "APIError", "TimeoutError", "ConnectionError", "ParseError"}

\* What an application gets from a stream it resumes after every cut is the
\* server's events from the first on, none missing and none twice, and nothing
\* after the terminal one (R16.2); each of them whole, unless its text holds one
\* of the separators: then its data is broken.  A plain request is a value only
\* if its server said so, with what the method needs, and the exception R16.3
\* names for a status, a timeout, a failed connection and a body that is no JSON.
\* It does not hold of every failure: a transport that breaks otherwise, and
\* JSON without what the method reads, raise an exception that is none of the
\* SDK's, where R16.3 and ParseError's own description (client.py:63) promise one.
SdkFaithful ==
    /\ \A i \in DOMAIN delivered : delivered[i] = [type |-> i, id |-> i, data |-> DataOf(i)]
    /\ connection.at = "open" => connection.next > Len(delivered)
    /\ call.at = "over" =>
        LET reply == call.reply
            success == reply.kind = "response" /\ reply.status \in TwoHundreds
            parsed == success /\ call.endpoint \in DOMAIN Expected
        IN
        /\ call.outcome = "value" => success
        /\ reply.kind = "response" /\ ~success => call.outcome = "APIError"
        /\ reply.kind = "timeout" => call.outcome = "TimeoutError"
        /\ reply.kind = "connect" => call.outcome = "ConnectionError"
        /\ parsed /\ reply.body = "unreadable" => call.outcome = "ParseError"
        /\ parsed /\ reply.body = "complete" => call.outcome = "value"
        /\ parsed /\ reply.body = "partial" /\ call.endpoint # "contents" =>
               call.outcome = "KeyError"
        /\ call.outcome \notin SdkOutcomes =>
               \/ reply.kind = "broken"
               \/ parsed /\ reply.body \in {"partial", "empty", "no object"}
=============================================================================
