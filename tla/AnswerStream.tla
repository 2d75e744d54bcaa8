---------------------------- MODULE AnswerStream ----------------------------
(* One answer on its way to a client: AnswerEngine.generate_answer yields  *)
(* tokens, citations and one last event; the client gets them over a       *)
(* WebSocket it may cancel or drop (api_gateway/websocket.py), as          *)
(* server-sent events with keepalives (sse.py), or in one JSON response    *)
(* (routes.py).  The WebSocket handler runs three tasks of the event loop: *)
(* one feeds the generator's events to the socket, one listens for a       *)
(* cancel, and the handler itself waits for the first of them to end.      *)
EXTENDS Integers, Sequences, SequencesExt, FiniteSets

CONSTANTS
    Sources,            \* documents that may be retrieved
    MaxTokens,          \* bound: tokens of an answer
    MaxKeepalives       \* bound: keepalive comments of a stream

ASSUME AnswerAssumption == MaxTokens \in Nat /\ MaxKeepalives \in Nat

VARIABLES
    engine,     \* generate_answer: its retrieval set, tokens and citations so far
    yielded,    \* the events it has yielded (history)
    feeder,     \* the consumer of the generator, and the event it holds
    handler,    \* ws_answer_handler: waiting, or over
    listener,   \* listen_for_cancel
    socket,     \* transport, _closed, and whether the client asked to cancel
    wire        \* the frames that reached the client

answerVars == <<engine, yielded, feeder, handler, listener, socket, wire>>

Terminals == {"done", "error"}

AnswerInit ==
    /\ engine = [at |-> "unstarted", found |-> {}, tokens |-> 0, cited |-> <<>>, due |-> {}]
    /\ yielded = <<>>
    /\ feeder = [at |-> "off"]
    /\ handler = "none"
    /\ listener = "off"
    /\ socket = [kind |-> "none", closed |-> FALSE, cancel |-> FALSE]
    /\ wire = <<>>

-----------------------------------------------------------------------------
(* The engine.  A step of it is one yield; it runs only when asked for the *)
(* next event.                                                             *)

Token(i) == [event |-> "token", index |-> i]

\* A citation points at the answer text as long as it is after its token.
Citation(d, n) == [event |-> "citation", doc |-> d, upto |-> n]

Done(n, cs) == [event |-> "done", tokens |-> n, citations |-> cs]

Error(code) == [event |-> "error", code |-> code]

Yields(e) == yielded' = Append(yielded, e) /\ feeder' = [at |-> "send", event |-> e]

Asked == feeder.at = "pull"

\* Nothing was found: the answer is an error before any token.
NoSources ==
    /\ Asked /\ engine.at = "unstarted" /\ engine.found = {}
    /\ Yields(Error("no_sources_available"))
    /\ engine' = [engine EXCEPT !.at = "ended"]

\* A token comes, and with it what _detect_citations finds in the last window
\* of the answer, at most one citation a document.
NextToken ==
    /\ Asked /\ engine.at \in {"unstarted", "streaming"} /\ engine.due = {}
    /\ engine.found # {} /\ engine.tokens < MaxTokens
    /\ \E matched \in SUBSET engine.found :
           engine' = [engine EXCEPT !.at = "streaming", !.tokens = @ + 1,
                                    !.due = matched]
    /\ Yields(Token(engine.tokens))

EmitCitation(d) ==
    /\ Asked /\ d \in engine.due
    /\ LET c == Citation(d, engine.tokens) IN
        /\ engine' = [engine EXCEPT !.due = @ \ {d}, !.cited = Append(@, c)]
        /\ Yields(c)

FailThenGoOn(code) ==
    /\ Asked /\ engine.at \in {"unstarted", "streaming"} /\ engine.due = {}
    /\ engine.found # {}
    /\ Yields(Error(code))
    /\ UNCHANGED engine

\* An error ends the stream; citations that were found are yielded first.
Fail(code) ==
    /\ Asked /\ engine.at \in {"unstarted", "streaming"} /\ engine.due = {}
    /\ engine.found # {}
    /\ Yields(Error(code))
    /\ engine' = [engine EXCEPT !.at = "ended"]

\* No token for thirty seconds.
StreamTimesOut == Fail("stream_timeout")

\* The model, or the connection to it, fails.
ModelFails == Fail("model_error")

InternalError == Fail("internal_error")

\* The provider has no more tokens.
Complete ==
    /\ Asked /\ engine.at \in {"unstarted", "streaming"} /\ engine.due = {}
    /\ engine.found # {}
    /\ Yields(Done(engine.tokens, engine.cited))
    /\ engine' = [engine EXCEPT !.at = "ended"]

EngineStep ==
    /\ \/ NoSources
       \/ NextToken
       \/ \E d \in Sources : EmitCitation(d)
       \/ StreamTimesOut \/ ModelFails \/ InternalError
       \/ Complete
    /\ UNCHANGED <<handler, listener, socket, wire>>

\* StopAsyncIteration, or the generator was closed under the consumer.
Exhausted ==
    /\ Asked /\ engine.at = "ended"
    /\ feeder' = [at |-> "finished"]
    /\ UNCHANGED <<engine, yielded, handler, listener, socket, wire>>

-----------------------------------------------------------------------------
(* The transports.                                                         *)

\* What was retrieved for the query is handed to the engine.
Retrieved == \E found \in SUBSET Sources : engine' = [engine EXCEPT !.found = found]

\* accept_and_authenticate: a client that fails to authenticate is closed
\* with 4001 and the generator with it.
ConnectSocket ==
    /\ handler = "none"
    /\ \/ /\ handler' = "wait"
          /\ feeder' = [at |-> "pull"]
          /\ listener' = "on"
          /\ socket' = [socket EXCEPT !.kind = "ws"]
          /\ Retrieved
       \/ /\ handler' = "over"
          /\ socket' = [socket EXCEPT !.kind = "ws", !.closed = TRUE]
          /\ engine' = [engine EXCEPT !.at = "ended"]
          /\ UNCHANGED <<feeder, listener>>
    /\ UNCHANGED <<yielded, wire>>

\* POST /v1/answer, as server-sent events or as JSON.
ConnectHttp(kind) ==
    /\ handler = "none"
    /\ handler' = "wait"
    /\ feeder' = [at |-> "pull"]
    /\ socket' = [socket EXCEPT !.kind = kind]
    /\ Retrieved
    /\ UNCHANGED <<yielded, wire, listener>>

Cancelled == socket.kind = "ws" /\ socket.cancel

\* send_event: the frame is on the wire before the task runs again.
SendFrame ==
    /\ socket.kind \in {"ws", "sse"}
    /\ feeder.at = "send" /\ ~socket.closed
    /\ ~Cancelled
    /\ wire' = Append(wire, feeder.event)
    /\ feeder' = [feeder EXCEPT !.at = "sent"]
    /\ UNCHANGED <<engine, yielded, handler, listener, socket>>

\* _run_generator stops when it sees the cancel or cannot send.
StopSending ==
    /\ socket.kind \in {"ws", "sse"}
    /\ feeder.at = "send"
    /\ socket.closed \/ Cancelled
    /\ feeder' = [at |-> "finished"]
    /\ engine' = [engine EXCEPT !.at = "ended"]
    /\ UNCHANGED <<yielded, handler, listener, socket, wire>>

\* After a terminal event the WebSocket is closed and the loop left; an SSE
\* stream asks on and ends with the generator.
AfterSend ==
    /\ feeder.at = "sent"
    /\ IF socket.kind = "ws" /\ feeder.event.event \in Terminals
       THEN /\ feeder' = [at |-> "finished"]
            /\ socket' = [socket EXCEPT !.closed = TRUE]
       ELSE feeder' = [at |-> "pull"] /\ UNCHANGED socket
    /\ UNCHANGED <<engine, yielded, handler, listener, wire>>

\* SSEStream: silence is filled with comments, the pending event kept.
Keepalive ==
    /\ socket.kind = "sse" /\ feeder.at = "pull" /\ ~socket.closed
    /\ Cardinality({i \in DOMAIN wire : wire[i].event = "keepalive"}) < MaxKeepalives
    /\ wire' = Append(wire, [event |-> "keepalive"])
    /\ UNCHANGED <<engine, yielded, feeder, handler, listener, socket>>

\* The JSON answer: events are collected, and the last decides what is sent.
Collect ==
    /\ socket.kind = "json" /\ feeder.at = "send"
    /\ feeder' = [at |-> "pull"]
    /\ UNCHANGED <<engine, yielded, handler, listener, socket, wire>>

\* The client cancels, or goes away.
ClientCancels ==
    /\ listener = "on" /\ ~socket.closed
    /\ socket' = [socket EXCEPT !.cancel = TRUE]
    /\ listener' = "over"
    /\ UNCHANGED <<engine, yielded, feeder, handler, wire>>

ClientLeaves ==
    /\ socket.kind \in {"ws", "sse"} /\ handler = "wait" /\ ~socket.closed
    /\ socket.kind = "ws" => listener = "on"
    /\ socket' = [socket EXCEPT !.closed = TRUE]
    /\ listener' = IF listener = "on" THEN "over" ELSE listener
    /\ UNCHANGED <<engine, yielded, feeder, handler, wire>>

\* listen_for_cancel looks at _closed once a second.
ListenerStops ==
    /\ listener = "on" /\ socket.closed
    /\ listener' = "over"
    /\ UNCHANGED <<engine, yielded, feeder, handler, socket, wire>>

\* send_cancelled sends only on a connection that is not closed.
CancelledFrame == IF socket.closed THEN wire
                                   ELSE Append(wire, [event |-> "cancelled"])

\* The handler resumes when the first of its two tasks has ended.  It stops
\* the feeder wherever it is, a frame just written included.
HandlerResumes ==
    /\ socket.kind = "ws" /\ handler = "wait"
    /\ listener = "over" \/ feeder.at = "finished"
    /\ wire' = IF socket.cancel THEN CancelledFrame ELSE wire
    /\ socket' = [socket EXCEPT !.closed = TRUE]
    /\ feeder' = [at |-> "finished"]
    /\ engine' = [engine EXCEPT !.at = "ended"]
    /\ listener' = "over"
    /\ handler' = "over"
    /\ UNCHANGED yielded

\* What the JSON response says of the events collected.
Answered ==
    IF \E i \in DOMAIN yielded : yielded[i].event = "error"
    THEN [event |-> "response", error |-> TRUE, citations |-> <<>>]
    ELSE [event |-> "response", error |-> FALSE,
          citations |-> Last(yielded).citations]

StreamEnds ==
    /\ socket.kind \in {"sse", "json"} /\ handler = "wait"
    /\ feeder.at = "finished" \/ socket.closed
    /\ wire' = IF socket.kind = "json" THEN Append(wire, Answered) ELSE wire
    /\ socket' = [socket EXCEPT !.closed = TRUE]
    /\ feeder' = [at |-> "finished"]
    /\ engine' = [engine EXCEPT !.at = "ended"]
    /\ handler' = "over"
    /\ UNCHANGED <<yielded, listener>>

AnswerNext ==
    \/ ConnectSocket
    \/ \E kind \in {"sse", "json"} : ConnectHttp(kind)
    \/ EngineStep
    \/ Exhausted
    \/ SendFrame
    \/ StopSending
    \/ AfterSend
    \/ Keepalive
    \/ Collect
    \/ ClientCancels
    \/ ClientLeaves
    \/ ListenerStops
    \/ HandlerResumes
    \/ StreamEnds

AnswerSpec == AnswerInit /\ [][AnswerNext]_answerVars

-----------------------------------------------------------------------------

AnswerTypeOK ==
    /\ engine.at \in {"unstarted", "streaming", "ended"}
    /\ engine.tokens \in 0..MaxTokens /\ engine.due \subseteq engine.found
    /\ engine.found \subseteq Sources
    /\ feeder.at \in {"off", "pull", "send", "sent", "finished"}
    /\ handler \in {"none", "wait", "over"}
    /\ listener \in {"off", "on", "over"}
    /\ socket.kind \in {"none", "ws", "sse", "json"}

\* The frames of some kinds in a sequence, by their places, and which of them
\* the one at place i is.
FramesOf(s, kinds) == {i \in DOMAIN s : s[i].event \in kinds}

Nth(i, s, kinds) == Cardinality({j \in FramesOf(s, kinds) : j <= i})

\* t begins with the frames of these kinds in s, in their order.
BeginsWith(t, s, kinds) ==
    \A i \in FramesOf(s, kinds) :
        Nth(i, s, kinds) \in DOMAIN t /\ t[Nth(i, s, kinds)] = s[i]

\* These are the citations in s, all of them and in order.
Cites(citations, s) ==
    /\ Len(citations) = Cardinality(FramesOf(s, {"citation"}))
    /\ BeginsWith(citations, s, {"citation"})

Data == {"token", "citation"} \cup Terminals

\* What a client of a stream sees, however a cancel, a disconnect and the last
\* event race: the events the engine yielded, in order and from the first one
\* (R6.1-R6.3); one done or error at most, and nothing of the answer after it;
\* a done that tells exactly the tokens and citations sent before it; and a
\* cancelled frame only last, only once and only for a client that asked.  A
\* JSON answer without an error has every citation.
AnswerWireSound ==
    /\ socket.kind \in {"ws", "sse"} =>
        /\ BeginsWith(yielded, wire, Data)
        /\ \A i \in FramesOf(wire, Terminals), j \in FramesOf(wire, Data) : j <= i
        /\ \A i \in FramesOf(wire, {"done"}) :
               /\ wire[i].tokens = Cardinality(FramesOf(wire, {"token"}))
               /\ Cites(wire[i].citations, wire)
        /\ \A i \in FramesOf(wire, {"cancelled"}) : i = Len(wire) /\ socket.cancel
    /\ socket.kind = "json" /\ wire # <<>> =>
        wire[1].error \/ Cites(wire[1].citations, yielded)

\* Nobody is between two steps.
AnswerQuiet == handler = "over" /\ listener # "on" /\ feeder.at \in {"off", "finished"}
=============================================================================
