------------------------------- MODULE Ingest -------------------------------
(* Documents on their way into the index through Kafka                     *)
(* (backend/indexer/kafka_ingest.py): a producer appends them to one       *)
(* partition of the topic, a consumer reads batches, hands each message to *)
(* the indexer, sends what the indexer refuses to the dead-letter topic    *)
(* and commits.  Consumers of the group come one after another: each       *)
(* starts from the committed offset, and the one before it may still be in *)
(* the middle of a batch, stopped or cut off.                              *)
EXTENDS Integers, Sequences, FiniteSets, SequencesExt

CONSTANTS
    IngestDocs,
    BatchSize,          \* max_records
    MaxMessages,        \* bound: messages in the topic
    MaxConsumers,       \* bound: consumers that ever start
    MaxFaults           \* bound: sends and commits that fail

ASSUME IngestAssumption ==
    /\ BatchSize \in Nat \ {0} /\ MaxMessages \in Nat /\ MaxConsumers \in Nat
    /\ MaxFaults \in Nat

VARIABLES
    topic,          \* the partition: the document of each message
    pending,        \* _pending_messages, kept when there is no broker
    answered,       \* documents a caller of publish was given an id for
    committed,      \* the group's committed offset
    consumers,      \* every consumer started so far, the last one the member
    handled,        \* [offsets -> how the message was dealt with] (history)
    deadTopic,      \* the dead-letter topic
    ingestFaults    \* failures so far

ingestVars == <<topic, pending, answered, committed, consumers, handled, deadTopic,
                ingestFaults>>

Offsets == 1..MaxMessages

\* What a batch ends with: the commit that follows its messages.
CommitMark == 0

IngestInit ==
    /\ topic = <<>> /\ pending = <<>> /\ answered = <<>>
    /\ committed = 0 /\ consumers = <<>>
    /\ handled = [o \in Offsets |-> {}]
    /\ deadTopic = <<>> /\ ingestFaults = 0

Fault == ingestFaults < MaxFaults /\ ingestFaults' = ingestFaults + 1

NoFault == UNCHANGED ingestFaults

\* publish: send_and_wait returns once the broker has the message.
PublishMessage(d) ==
    /\ Len(topic) < MaxMessages
    /\ topic' = Append(topic, d) /\ answered' = Append(answered, d)
    /\ NoFault
    /\ UNCHANGED <<pending, committed, consumers, handled, deadTopic>>

\* The send raises to the caller; the broker may have the message all the same.
PublishFails(d) ==
    /\ Len(topic) < MaxMessages /\ Fault
    /\ topic' \in {topic, Append(topic, d)}
    /\ UNCHANGED <<pending, answered, committed, consumers, handled, deadTopic>>

\* No broker is configured or it cannot be reached: the message waits in the
\* process, where nothing takes it up.
PublishPending(d) ==
    /\ Len(pending) + Len(topic) < MaxMessages /\ Fault
    /\ pending' = Append(pending, d) /\ answered' = Append(answered, d)
    /\ UNCHANGED <<topic, committed, consumers, handled, deadTopic>>

Member == Len(consumers)

\* start: a consumer joins and begins at the committed offset; the one before
\* it is no member any more.
StartConsumer ==
    /\ Member < MaxConsumers
    /\ consumers' = Append(consumers,
           [running |-> TRUE, position |-> committed, batch |-> <<>>, refused |-> FALSE])
    /\ NoFault
    /\ UNCHANGED <<topic, pending, answered, committed, handled, deadTopic>>

\* stop, while the loop is somewhere in a batch.
StopConsumer(c) ==
    /\ consumers[c].running
    /\ consumers' = [consumers EXCEPT ![c].running = FALSE]
    /\ NoFault
    /\ UNCHANGED <<topic, pending, answered, committed, handled, deadTopic>>

\* The process of a consumer dies with its batch.
ConsumerDies(c) ==
    /\ consumers[c].batch # <<>>
    /\ consumers' = [consumers EXCEPT ![c].running = FALSE, ![c].batch = <<>>,
                                      ![c].refused = FALSE]
    /\ NoFault
    /\ UNCHANGED <<topic, pending, answered, committed, handled, deadTopic>>

\* getmany: the position moves on at once, whatever becomes of the batch.
GetMany(c) ==
    /\ consumers[c].running /\ c = Member
    /\ consumers[c].batch = <<>>
    /\ consumers[c].position < Len(topic)
    /\ LET from == consumers[c].position
           to   == IF from + BatchSize < Len(topic) THEN from + BatchSize ELSE Len(topic)
       IN consumers' = [consumers EXCEPT ![c].position = to,
              ![c].batch = [i \in 1..(to - from) |-> from + i] \o <<CommitMark>>]
    /\ NoFault
    /\ UNCHANGED <<topic, pending, answered, committed, handled, deadTopic>>

Current(c) == consumers[c].batch # <<>> /\ Head(consumers[c].batch) # CommitMark

Tell(o, how) == handled' = [handled EXCEPT ![o] = @ \cup {how}]

\* _process_message: the handler returned.
HandlerDone(c) ==
    /\ Current(c) /\ ~consumers[c].refused
    /\ Tell(Head(consumers[c].batch), "indexed")
    /\ consumers' = [consumers EXCEPT ![c].batch = Tail(@)]
    /\ NoFault
    /\ UNCHANGED <<topic, pending, answered, committed, deadTopic>>

HandlerRaisedSkips(c) ==
    /\ Current(c) /\ ~consumers[c].refused
    /\ consumers' = [consumers EXCEPT ![c].batch = Tail(@)]
    /\ NoFault
    /\ UNCHANGED <<topic, pending, answered, committed, handled, deadTopic>>

HandlerRaised(c) ==
    /\ Current(c) /\ ~consumers[c].refused
    /\ consumers' = [consumers EXCEPT ![c].refused = TRUE]
    /\ NoFault
    /\ UNCHANGED <<topic, pending, answered, committed, handled, deadTopic>>

\* _route_to_dlq; a failure of it is swallowed and the message given up, though
\* the dead-letter topic may have it.
RouteMessage(c) ==
    /\ Current(c) /\ consumers[c].refused
    /\ LET o == Head(consumers[c].batch) IN
        \/ /\ deadTopic' = Append(deadTopic, o)
           /\ Tell(o, "dead") /\ NoFault
        \/ /\ Fault /\ Tell(o, "given up")
           /\ deadTopic' \in {deadTopic, Append(deadTopic, o)}
    /\ consumers' = [consumers EXCEPT ![c].batch = Tail(@), ![c].refused = FALSE]
    /\ UNCHANGED <<topic, pending, answered, committed>>

AtCommit(c) == consumers[c].batch = <<CommitMark>>

\* commit of the position: only the member's counts.
Commit(c) ==
    /\ AtCommit(c) /\ c = Member
    /\ committed' = consumers[c].position
    /\ consumers' = [consumers EXCEPT ![c].batch = <<>>]
    /\ NoFault
    /\ UNCHANGED <<topic, pending, answered, handled, deadTopic>>

\* A commit that raises (the broker, a stopped or replaced consumer) is slept
\* over: the loop goes on behind the batch.
CommitFails(c) ==
    /\ AtCommit(c)
    /\ IF consumers[c].running /\ c = Member THEN Fault ELSE NoFault
    /\ consumers' = [consumers EXCEPT ![c].batch = <<>>]
    /\ UNCHANGED <<topic, pending, answered, committed, handled, deadTopic>>

IngestNext ==
    \/ \E d \in IngestDocs : PublishMessage(d) \/ PublishFails(d) \/ PublishPending(d)
    \/ StartConsumer
    \/ \E c \in DOMAIN consumers :
           \/ StopConsumer(c) \/ ConsumerDies(c)
           \/ GetMany(c) \/ HandlerDone(c) \/ HandlerRaised(c)
           \/ RouteMessage(c) \/ Commit(c) \/ CommitFails(c)

IngestSpec == IngestInit /\ [][IngestNext]_ingestVars

-----------------------------------------------------------------------------

IngestTypeOK ==
    /\ Len(topic) <= MaxMessages /\ committed \in 0..Len(topic)
    /\ handled \in [Offsets -> SUBSET {"indexed", "dead", "given up"}]
    /\ \A c \in DOMAIN consumers : consumers[c].position \in 0..Len(topic)

\* At least once: whatever fails, stops or dies, every message below the
\* committed offset was indexed, dead-lettered, or given up after a dead-letter
\* write that failed; and every document publish answered for is in the topic
\* or in the process, in order.  So nothing read is forgotten by a commit
\* (kafka_ingest.py, "Offset commit after successful processing").
NothingSkipped ==
    /\ \A o \in 1..committed : handled[o] # {}
    /\ \A d \in IngestDocs :
           Cardinality({i \in DOMAIN answered : answered[i] = d})
               <= Cardinality({i \in DOMAIN topic : topic[i] = d})
                + Cardinality({i \in DOMAIN pending : pending[i] = d})

IngestQuiet ==
    \A c \in DOMAIN consumers : consumers[c].batch = <<>>
=============================================================================
