--------------------------- MODULE ServicesProofs ---------------------------
(* What the smaller services guarantee, for every value of their constants: *)
(* the Kafka ingest, the rate limiter, the crawler, the Python client, the  *)
(* books of the indexer and the stream of an answer.                        *)
EXTENDS Ingest, RateLimit, Crawl, RetryBook, SdkClient, AnswerStream,
        FiniteSetTheorems, SequenceTheorems, WellFoundedInduction, TLAPS

USE IngestAssumption, RateAssumption DEF IngestAssumption, RateAssumption

-----------------------------------------------------------------------------
(* Sequences.                                                              *)

LEMMA ToSetOfSeq ==
    ASSUME NEW S, NEW s \in Seq(S)
    PROVE  /\ ToSet(s) \subseteq S
           /\ \A x : x \in ToSet(s) <=> \E i \in 1..Len(s) : s[i] = x
<1>1. DOMAIN s = 1..Len(s) /\ \A i \in 1..Len(s) : s[i] \in S
  OBVIOUS
<1> QED
  BY <1>1 DEF ToSet

\* What is taken off the front of a sequence, and what stays.
LEMMA HeadOrTail ==
    ASSUME NEW S, NEW s \in Seq(S), s # <<>>
    PROVE  /\ Head(s) \in S /\ Tail(s) \in Seq(S)
           /\ ToSet(s) = {Head(s)} \cup ToSet(Tail(s))
<1> DEFINE t == Tail(s)
<1>1. /\ Head(s) \in S /\ t \in Seq(S) /\ Len(t) = Len(s) - 1
      /\ \A i \in 1..Len(t) : t[i] = s[i + 1]
      /\ Head(s) = s[1] /\ Len(s) \in Nat \ {0}
  BY HeadTailProperties, EmptySeq
<1> HIDE DEF t
<1>2. ASSUME NEW x PROVE x \in ToSet(s) <=> x \in {Head(s)} \cup ToSet(t)
  <2>1. ASSUME x \in ToSet(s) PROVE x \in {Head(s)} \cup ToSet(t)
    <3>1. PICK i \in 1..Len(s) : s[i] = x
      BY <2>1, ToSetOfSeq
    <3>2. CASE i = 1
      BY <1>1, <3>1, <3>2
    <3>3. CASE i # 1
      <4>1. i - 1 \in 1..Len(t) /\ t[i - 1] = x
        BY <1>1, <3>1, <3>3
      <4> QED
        BY <1>1, <4>1, ToSetOfSeq
    <3> QED
      BY <3>2, <3>3
  <2>2. ASSUME x \in {Head(s)} \cup ToSet(t) PROVE x \in ToSet(s)
    <3>1. CASE x = Head(s)
      <4>1. 1 \in 1..Len(s) /\ s[1] = x
        BY <1>1, <3>1
      <4> QED
        BY <4>1, ToSetOfSeq
    <3>2. CASE x \in ToSet(t)
      <4>1. PICK i \in 1..Len(t) : t[i] = x
        BY <1>1, <3>2, ToSetOfSeq
      <4>2. i + 1 \in 1..Len(s) /\ s[i + 1] = x
        BY <1>1, <4>1
      <4> QED
        BY <4>2, ToSetOfSeq
    <3> QED
      BY <2>2, <3>1, <3>2
  <2> QED
    BY <2>1, <2>2
<1> QED
  BY <1>1, <1>2 DEF t

LEMMA Appended ==
    ASSUME NEW S, NEW s \in Seq(S), NEW x \in S
    PROVE  /\ Append(s, x) \in Seq(S) /\ Len(Append(s, x)) = Len(s) + 1
           /\ Len(s) \in Nat /\ DOMAIN s = 1..Len(s)
           /\ DOMAIN Append(s, x) = 1..(Len(s) + 1)
           /\ \A i \in 1..Len(s) : Append(s, x)[i] = s[i]
           /\ Append(s, x)[Len(s) + 1] = x
  BY AppendProperties, LenProperties

\* How often x is in s.
Times(s, x) == Cardinality({i \in DOMAIN s : s[i] = x})

LEMMA TimesAppended ==
    ASSUME NEW S, NEW s \in Seq(S), NEW e \in S, NEW x
    PROVE  /\ Times(s, x) \in Nat
           /\ Times(Append(s, e), x) = Times(s, x) + IF e = x THEN 1 ELSE 0
<1> DEFINE t == Append(s, e)
           At == {i \in DOMAIN s : s[i] = x}
           AtT == {i \in DOMAIN t : t[i] = x}
<1>1. /\ Len(s) \in Nat /\ DOMAIN s = 1..Len(s)
      /\ DOMAIN t = 1..(Len(s) + 1)
      /\ \A i \in 1..Len(s) : t[i] = s[i]
      /\ t[Len(s) + 1] = e
  BY Appended
<1> HIDE DEF t
<1>2. IsFiniteSet(At)
  <2>1. IsFiniteSet(1..Len(s)) /\ At \subseteq 1..Len(s)
    BY <1>1, FS_Interval
  <2> QED
    BY <2>1, FS_Subset
<1>3. Len(s) + 1 \notin At
  BY <1>1
<1>4. Cardinality(At) \in Nat
  BY <1>2, FS_CardinalityType
<1>0. Times(s, x) = Cardinality(At) /\ Times(t, x) = Cardinality(AtT)
  BY DEF Times
<1>5. CASE e = x
  <2>1. AtT = At \cup {Len(s) + 1}
    BY <1>1, <1>5
  <2> HIDE DEF At, AtT
  <2>2. Cardinality(AtT) = Cardinality(At) + 1
    BY <1>2, <1>3, <2>1, FS_AddElement
  <2> QED
    BY <1>0, <1>4, <1>5, <2>2 DEF t
<1>6. CASE e # x
  <2>1. AtT = At
    BY <1>1, <1>6
  <2> HIDE DEF At, AtT
  <2>2. Cardinality(AtT) = Cardinality(At)
    BY <2>1
  <2> QED
    BY <1>0, <1>4, <1>6, <2>2 DEF t
<1> QED
  BY <1>5, <1>6

-----------------------------------------------------------------------------
(* Ingest: at least once.                                                  *)

How == {"indexed", "dead", "given up"}

Consumer == [running : BOOLEAN, position : Nat, batch : Seq(0..MaxMessages),
             refused : BOOLEAN]

IngestTypes ==
    /\ topic \in Seq(IngestDocs) /\ Len(topic) <= MaxMessages
    /\ pending \in Seq(IngestDocs) /\ answered \in Seq(IngestDocs)
    /\ committed \in Nat
    /\ consumers \in Seq(Consumer)
    /\ handled \in [Offsets -> SUBSET How]

\* Nobody has read behind the end of the topic.
Positions ==
    /\ committed <= Len(topic)
    /\ \A c \in DOMAIN consumers : consumers[c].position <= Len(topic)

\* A document is answered for once for each message of it.
Accounted ==
    \A d \in IngestDocs : Times(answered, d) <= Times(topic, d) + Times(pending, d)

Told(o) == handled[o] # {}

\* A consumer that may still commit has dealt with all it has read, or has it
\* in its batch: one that has died has lost its batch, and commits no more.
NothingLost(k) ==
    k.running \/ k.batch # <<>> =>
        \A o \in 1..k.position : Told(o) \/ o \in ToSet(k.batch)

IngestInv ==
    /\ IngestTypes
    /\ Positions
    /\ Accounted
    /\ \A o \in 1..committed : Told(o)
    /\ \A c \in DOMAIN consumers : NothingLost(consumers[c])

\* A step that gives documents to the topic, or to the process.
LEMMA ProducerStep ==
    ASSUME IngestInv,
           topic' \in Seq(IngestDocs), Len(topic') <= MaxMessages,
           Len(topic) <= Len(topic'),
           pending' \in Seq(IngestDocs), answered' \in Seq(IngestDocs),
           Accounted', UNCHANGED <<committed, consumers, handled>>
    PROVE  IngestInv'
<1>1. Len(topic) \in Nat /\ Len(topic') \in Nat
  BY LenProperties DEF IngestInv, IngestTypes
<1>2. IngestTypes'
  BY DEF IngestInv, IngestTypes
<1>3. \A c \in DOMAIN consumers : consumers[c] \in Consumer
  BY LenProperties, ElementOfSeq DEF IngestInv, IngestTypes
<1>4. Positions'
  BY <1>1, <1>3 DEF IngestInv, IngestTypes, Positions, Consumer
<1>5. \A o : Told(o)' <=> Told(o)
  BY DEF Told
<1>6. \A c \in DOMAIN consumers' : NothingLost(consumers[c])'
  BY <1>5 DEF IngestInv, NothingLost
<1>7. \A o \in 1..committed' : Told(o)'
  BY <1>5 DEF IngestInv
<1> QED
  BY <1>2, <1>4, <1>6, <1>7 DEF IngestInv

LEMMA PublishKeeps ==
    ASSUME IngestInv, NEW d \in IngestDocs, PublishMessage(d)
    PROVE  IngestInv'
<1>1. /\ topic \in Seq(IngestDocs) /\ answered \in Seq(IngestDocs)
      /\ pending \in Seq(IngestDocs) /\ Len(topic) < MaxMessages
      /\ topic' = Append(topic, d) /\ answered' = Append(answered, d)
      /\ UNCHANGED <<pending, committed, consumers, handled>>
  BY DEF PublishMessage, IngestInv, IngestTypes
<1>2. /\ topic' \in Seq(IngestDocs) /\ Len(topic') = Len(topic) + 1
      /\ Len(topic) \in Nat /\ answered' \in Seq(IngestDocs)
  BY <1>1, Appended
<1>3. ASSUME NEW e \in IngestDocs
      PROVE  Times(answered', e) <= Times(topic', e) + Times(pending', e)
  <2>1. /\ Times(answered, e) \in Nat /\ Times(topic, e) \in Nat
        /\ Times(answered', e) = Times(answered, e) + IF d = e THEN 1 ELSE 0
        /\ Times(topic', e) = Times(topic, e) + IF d = e THEN 1 ELSE 0
    BY <1>1, TimesAppended
  <2>2. Times(pending, e) \in Nat
    BY <1>1, TimesAppended
  <2>3. Times(answered, e) <= Times(topic, e) + Times(pending, e)
    BY DEF IngestInv, Accounted
  <2> QED
    BY <1>1, <2>1, <2>2, <2>3
<1>4. Accounted'
  BY <1>3 DEF Accounted
<1> QED
  BY <1>1, <1>2, <1>4, ProducerStep

LEMMA PublishFailsKeeps ==
    ASSUME IngestInv, NEW d \in IngestDocs, PublishFails(d)
    PROVE  IngestInv'
<1>1. /\ topic \in Seq(IngestDocs) /\ answered \in Seq(IngestDocs)
      /\ pending \in Seq(IngestDocs) /\ Len(topic) < MaxMessages
      /\ topic' = topic \/ topic' = Append(topic, d)
      /\ UNCHANGED <<pending, answered, committed, consumers, handled>>
  BY DEF PublishFails, IngestInv, IngestTypes
<1>2. /\ topic' \in Seq(IngestDocs) /\ Len(topic) \in Nat
      /\ Len(topic') \in {Len(topic), Len(topic) + 1}
  <2>1. /\ Append(topic, d) \in Seq(IngestDocs) /\ Len(topic) \in Nat
        /\ Len(Append(topic, d)) = Len(topic) + 1
    BY <1>1, Appended
  <2> QED
    BY <1>1, <2>1
<1>3. ASSUME NEW e \in IngestDocs
      PROVE  Times(answered', e) <= Times(topic', e) + Times(pending', e)
  <2>1. /\ Times(topic, e) \in Nat
        /\ \/ Times(topic', e) = Times(topic, e)
           \/ Times(topic', e) = Times(topic, e) + IF d = e THEN 1 ELSE 0
    <3>1. /\ Times(topic, e) \in Nat
          /\ Times(Append(topic, d), e) = Times(topic, e) + IF d = e THEN 1 ELSE 0
      BY <1>1, TimesAppended
    <3>2. CASE topic' = topic
      BY <3>1, <3>2
    <3>3. CASE topic' = Append(topic, d)
      BY <3>1, <3>3
    <3> QED
      BY <1>1, <3>2, <3>3
  <2>2. Times(pending, e) \in Nat /\ Times(answered, e) \in Nat
    BY <1>1, TimesAppended
  <2>3. Times(answered, e) <= Times(topic, e) + Times(pending, e)
    BY DEF IngestInv, Accounted
  <2> QED
    BY <1>1, <2>1, <2>2, <2>3
<1>4. Accounted'
  BY <1>3 DEF Accounted
<1> QED
  BY <1>1, <1>2, <1>4, ProducerStep

LEMMA PublishPendingKeeps ==
    ASSUME IngestInv, NEW d \in IngestDocs, PublishPending(d)
    PROVE  IngestInv'
<1>1. /\ topic \in Seq(IngestDocs) /\ answered \in Seq(IngestDocs)
      /\ pending \in Seq(IngestDocs) /\ Len(topic) <= MaxMessages
      /\ pending' = Append(pending, d) /\ answered' = Append(answered, d)
      /\ UNCHANGED <<topic, committed, consumers, handled>>
  BY DEF PublishPending, IngestInv, IngestTypes
<1>2. /\ pending' \in Seq(IngestDocs) /\ answered' \in Seq(IngestDocs)
      /\ Len(topic) \in Nat
  BY <1>1, Appended
<1>3. ASSUME NEW e \in IngestDocs
      PROVE  Times(answered', e) <= Times(topic', e) + Times(pending', e)
  <2>1. /\ Times(answered, e) \in Nat /\ Times(pending, e) \in Nat
        /\ Times(answered', e) = Times(answered, e) + IF d = e THEN 1 ELSE 0
        /\ Times(pending', e) = Times(pending, e) + IF d = e THEN 1 ELSE 0
    BY <1>1, TimesAppended
  <2>2. Times(topic, e) \in Nat
    BY <1>1, TimesAppended
  <2>3. Times(answered, e) <= Times(topic, e) + Times(pending, e)
    BY DEF IngestInv, Accounted
  <2> QED
    BY <1>1, <2>1, <2>2, <2>3
<1>4. Accounted'
  BY <1>3 DEF Accounted
<1> QED
  BY <1>1, <1>2, <1>4, ProducerStep

\* A step of consumer c, which becomes r; what was told of a message stays.
LEMMA ConsumerStep ==
    ASSUME IngestInv, NEW c \in DOMAIN consumers, NEW r \in Consumer,
           consumers' = [consumers EXCEPT ![c] = r],
           r.position <= Len(topic),
           UNCHANGED <<topic, pending, answered>>,
           handled' \in [Offsets -> SUBSET How],
           \A o : Told(o) => Told(o)',
           committed' \in Nat, committed' <= Len(topic),
           \A o \in 1..committed' : Told(o)',
           NothingLost(r)'
    PROVE  IngestInv'
<1>1. /\ consumers \in Seq(Consumer) /\ DOMAIN consumers = 1..Len(consumers)
  BY LenProperties DEF IngestInv, IngestTypes
<1>2. /\ consumers' \in Seq(Consumer) /\ Len(consumers') = Len(consumers)
      /\ \A j \in 1..Len(consumers) :
            consumers'[j] = IF j = c THEN r ELSE consumers[j]
  BY <1>1, ExceptSeq
<1>3. DOMAIN consumers' = DOMAIN consumers
  BY <1>1, <1>2, LenProperties
<1>4. IngestTypes'
  BY <1>2 DEF IngestInv, IngestTypes
<1>5. Positions'
  BY <1>1, <1>2, <1>3 DEF IngestInv, Positions
<1>6. Accounted'
  BY DEF IngestInv, Accounted
<1>7. ASSUME NEW j \in DOMAIN consumers' PROVE NothingLost(consumers[j])'
  <2>1. CASE j = c
    BY <1>1, <1>2, <1>3, <2>1 DEF NothingLost
  <2>2. CASE j # c
    <3>1. consumers'[j] = consumers[j] /\ NothingLost(consumers[j])
      BY <1>1, <1>2, <1>3, <2>2 DEF IngestInv
    <3> QED
      BY <3>1 DEF NothingLost
  <2> QED
    BY <2>1, <2>2
<1> QED
  BY <1>4, <1>5, <1>6, <1>7 DEF IngestInv

LEMMA ConsumerTyped ==
    ASSUME IngestInv, NEW c \in DOMAIN consumers
    PROVE  /\ consumers[c] \in Consumer /\ consumers[c].position <= Len(topic)
           /\ Len(topic) \in Nat /\ Len(topic) <= MaxMessages
           /\ committed \in Nat /\ committed <= Len(topic)
           /\ handled \in [Offsets -> SUBSET How]
           /\ \A o \in 1..committed : Told(o)
           /\ NothingLost(consumers[c])
<1>1. consumers[c] \in Consumer
  BY LenProperties, ElementOfSeq DEF IngestInv, IngestTypes
<1> QED
  BY <1>1, LenProperties DEF IngestInv, IngestTypes, Positions

\* Steps of a consumer that are nothing but its own.
LEMMA OwnStep ==
    ASSUME IngestInv, NEW c \in DOMAIN consumers, NEW r \in Consumer,
           consumers' = [consumers EXCEPT ![c] = r],
           r.position <= Len(topic), NothingLost(r),
           UNCHANGED <<topic, pending, answered, committed, handled>>
    PROVE  IngestInv'
<1>1. \A o : Told(o)' <=> Told(o)
  BY DEF Told
<1>2. NothingLost(r)'
  BY <1>1 DEF NothingLost
<1> QED
  BY <1>1, <1>2, ConsumerTyped, ConsumerStep

LEMMA StartKeeps ==
    ASSUME IngestInv, StartConsumer
    PROVE  IngestInv'
<1>1. PICK r : r = [running |-> TRUE, position |-> committed, batch |-> <<>>,
                    refused |-> FALSE]
  OBVIOUS
<1>2. /\ consumers' = Append(consumers, r)
      /\ UNCHANGED <<topic, pending, answered, committed, handled>>
      /\ consumers \in Seq(Consumer) /\ committed \in Nat
  BY <1>1 DEF StartConsumer, IngestInv, IngestTypes
<1>3. r \in Consumer /\ r.position = committed
  BY <1>1, <1>2, EmptySeq DEF Consumer
<1>4. /\ consumers' \in Seq(Consumer) /\ Len(consumers) \in Nat
      /\ DOMAIN consumers = 1..Len(consumers)
      /\ DOMAIN consumers' = 1..(Len(consumers) + 1)
      /\ \A i \in 1..Len(consumers) : consumers'[i] = consumers[i]
      /\ consumers'[Len(consumers) + 1] = r
  BY <1>2, <1>3, Appended
<1>5. IngestTypes'
  BY <1>2, <1>4 DEF IngestInv, IngestTypes
<1>6. ASSUME NEW c \in DOMAIN consumers'
      PROVE  \/ consumers'[c] = r
             \/ c \in DOMAIN consumers /\ consumers'[c] = consumers[c]
  <2>1. CASE c = Len(consumers) + 1
    BY <1>4, <2>1
  <2>2. CASE c # Len(consumers) + 1
    <3>1. c \in 1..Len(consumers)
      BY <1>4, <2>2
    <3>2. consumers'[c] = consumers[c]
      BY <1>4, <3>1
    <3> QED
      BY <1>4, <3>1, <3>2
  <2> QED
    BY <2>1, <2>2
<1>7. Positions'
  BY <1>2, <1>3, <1>6 DEF IngestInv, Positions
<1>8. Accounted'
  BY <1>2 DEF IngestInv, Accounted
<1>9. \A o : Told(o)' <=> Told(o)
  BY <1>2 DEF Told
<1>10. \A o \in 1..committed' : Told(o)'
  BY <1>2, <1>9 DEF IngestInv
<1>11. ASSUME NEW c \in DOMAIN consumers' PROVE NothingLost(consumers[c])'
  <2>1. CASE consumers'[c] = r
    BY <1>3, <1>9, <2>1 DEF IngestInv, NothingLost
  <2>2. CASE c \in DOMAIN consumers /\ consumers'[c] = consumers[c]
    BY <1>9, <2>2 DEF IngestInv, NothingLost
  <2> QED
    BY <1>6, <2>1, <2>2
<1> QED
  BY <1>5, <1>7, <1>8, <1>10, <1>11 DEF IngestInv

LEMMA StopKeeps ==
    ASSUME IngestInv, NEW c \in DOMAIN consumers, StopConsumer(c)
    PROVE  IngestInv'
<1>1. PICK r : r = [consumers[c] EXCEPT !.running = FALSE]
  OBVIOUS
<1>2. /\ consumers' = [consumers EXCEPT ![c] = r]
      /\ UNCHANGED <<topic, pending, answered, committed, handled>>
  BY <1>1 DEF StopConsumer
<1>3. /\ r \in Consumer /\ r.position = consumers[c].position
      /\ r.batch = consumers[c].batch /\ ~r.running
  BY <1>1, ConsumerTyped DEF Consumer
<1>4. NothingLost(r)
  BY <1>3, ConsumerTyped DEF NothingLost
<1> QED
  BY <1>2, <1>3, <1>4, ConsumerTyped, OwnStep

LEMMA DieKeeps ==
    ASSUME IngestInv, NEW c \in DOMAIN consumers, ConsumerDies(c)
    PROVE  IngestInv'
<1>1. PICK r : r = [consumers[c] EXCEPT !.running = FALSE, !.batch = <<>>,
                                        !.refused = FALSE]
  OBVIOUS
<1>2. /\ consumers' = [consumers EXCEPT ![c] = r]
      /\ UNCHANGED <<topic, pending, answered, committed, handled>>
  BY <1>1 DEF ConsumerDies
<1>3. /\ r \in Consumer /\ r.position = consumers[c].position
      /\ r.batch = <<>> /\ ~r.running
  BY <1>1, ConsumerTyped, EmptySeq DEF Consumer
<1>4. NothingLost(r)
  BY <1>3 DEF NothingLost
<1> QED
  BY <1>2, <1>3, <1>4, ConsumerTyped, OwnStep

\* What getmany reads: everything between the old position and the new one.
LEMMA Batch ==
    ASSUME NEW from \in Nat, NEW to \in Nat, from < to, to <= MaxMessages,
           NEW b, b = [i \in 1..(to - from) |-> from + i] \o <<CommitMark>>
    PROVE  /\ b \in Seq(0..MaxMessages) /\ b # <<>>
           /\ \A o \in (from + 1)..to : o \in ToSet(b)
<1> DEFINE s == [i \in 1..(to - from) |-> from + i]
           m == <<CommitMark>>
<1>1. s \in Seq(0..MaxMessages)
  <2>1. s \in [1..(to - from) -> 0..MaxMessages]
    OBVIOUS
  <2>2. to - from \in Nat
    OBVIOUS
  <2> HIDE DEF s
  <2> QED
    BY <2>1, <2>2, SeqDef
<1>2. /\ DOMAIN s = 1..(to - from)
      /\ \A i \in 1..(to - from) : s[i] = from + i
  OBVIOUS
<1>3. m \in Seq(0..MaxMessages) /\ Len(m) = 1
  BY DEF CommitMark
<1> HIDE DEF s, m
<1>4. DOMAIN s = 1..Len(s) /\ Len(s) \in Nat
  BY <1>1, LenProperties
<1>5. Len(s) = to - from
  BY <1>1, <1>2, <1>4
<1>6. /\ s \o m \in Seq(0..MaxMessages) /\ Len(s \o m) = Len(s) + Len(m)
      /\ \A i \in 1..Len(s) + Len(m) :
            (s \o m)[i] = IF i <= Len(s) THEN s[i] ELSE m[i - Len(s)]
  BY <1>1, <1>3, ConcatProperties
<1>7. b = s \o m
  BY DEF s, m
<1>8. b \in Seq(0..MaxMessages) /\ Len(b) = (to - from) + 1
  BY <1>3, <1>5, <1>6, <1>7
<1>9. b # <<>>
  BY <1>8, EmptySeq
<1>10. ASSUME NEW o \in (from + 1)..to PROVE o \in ToSet(b)
  <2>1. o - from \in 1..(to - from) /\ from + (o - from) = o
    OBVIOUS
  <2>2. b[o - from] = o
    BY <1>2, <1>3, <1>5, <1>6, <1>7, <2>1
  <2>3. o - from \in 1..Len(b)
    BY <1>8, <2>1
  <2> QED
    <3>1. \E i \in 1..Len(b) : b[i] = o
      BY <2>2, <2>3
    <3>2. b \in Seq(0..MaxMessages)
      BY <1>8
    <3> QED
      BY ONLY <3>1, <3>2, ToSetOfSeq
<1> QED
  BY <1>8, <1>9, <1>10

LEMMA GetManyKeeps ==
    ASSUME IngestInv, NEW c \in DOMAIN consumers, GetMany(c)
    PROVE  IngestInv'
<1>1. PICK from : from = consumers[c].position
  OBVIOUS
<1>2. PICK to : to = IF from + BatchSize < Len(topic) THEN from + BatchSize
                     ELSE Len(topic)
  OBVIOUS
<1>3. PICK b : b = [i \in 1..(to - from) |-> from + i] \o <<CommitMark>>
  OBVIOUS
<1>4. PICK r : r = [consumers[c] EXCEPT !.position = to, !.batch = b]
  OBVIOUS
<1>5. /\ consumers[c] \in Consumer /\ from \in Nat /\ Len(topic) \in Nat
      /\ Len(topic) <= MaxMessages
  BY <1>1, ConsumerTyped DEF Consumer
<1>6. from < Len(topic) /\ consumers[c].running /\ consumers[c].batch = <<>>
  BY <1>1 DEF GetMany
<1>7. to \in Nat /\ from < to /\ to <= Len(topic)
  BY <1>2, <1>5, <1>6
<1>8. /\ b \in Seq(0..MaxMessages) /\ b # <<>>
      /\ \A o \in (from + 1)..to : o \in ToSet(b)
  <2>1. from \in Nat /\ to \in Nat /\ from < to /\ to <= MaxMessages
    BY <1>5, <1>7
  <2> QED
    BY ONLY <1>3, <2>1, Batch
<1>9. /\ consumers' = [consumers EXCEPT ![c] = r]
      /\ UNCHANGED <<topic, pending, answered, committed, handled>>
  BY <1>1, <1>2, <1>3, <1>4 DEF GetMany
<1>10. r \in Consumer /\ r.position = to /\ r.batch = b
  BY <1>4, <1>5, <1>7, <1>8 DEF Consumer
<1>11. \A o \in 1..from : Told(o)
  <2>1. ToSet(<<>>) = {}
    BY DEF ToSet
  <2> QED
    BY <1>1, <1>6, <2>1, ConsumerTyped DEF NothingLost
<1>12. NothingLost(r)
  BY <1>5, <1>7, <1>8, <1>10, <1>11 DEF NothingLost
<1> QED
  BY <1>7, <1>9, <1>10, <1>12, OwnStep

\* The message at the head of a batch is told of, and leaves the batch.
LEMMA MessageTold ==
    ASSUME IngestInv, NEW c \in DOMAIN consumers, Current(c),
           NEW how \in How, Tell(Head(consumers[c].batch), how),
           NEW b \in BOOLEAN, NEW r,
           r = [consumers[c] EXCEPT !.batch = Tail(@), !.refused = b],
           consumers' = [consumers EXCEPT ![c] = r],
           UNCHANGED <<topic, pending, answered, committed>>
    PROVE  IngestInv'
<1>1. PICK k : k = consumers[c]
  OBVIOUS
<1>2. PICK o : o = Head(k.batch)
  OBVIOUS
<1>3. /\ k \in Consumer /\ k.batch \in Seq(0..MaxMessages) /\ k.batch # <<>>
      /\ o # 0 /\ k.position <= Len(topic)
  BY <1>1, <1>2, ConsumerTyped DEF Consumer, Current, CommitMark
<1>4. /\ Tail(k.batch) \in Seq(0..MaxMessages) /\ o \in Offsets
      /\ ToSet(k.batch) = {o} \cup ToSet(Tail(k.batch))
  <2>1. /\ o \in 0..MaxMessages /\ Tail(k.batch) \in Seq(0..MaxMessages)
        /\ ToSet(k.batch) = {o} \cup ToSet(Tail(k.batch))
    BY <1>2, <1>3, HeadOrTail
  <2> QED
    BY <1>3, <2>1 DEF Offsets
<1>5. /\ handled \in [Offsets -> SUBSET How]
      /\ handled' = [handled EXCEPT ![o] = @ \cup {how}]
  BY <1>1, <1>2, ConsumerTyped DEF Tell
<1>6. /\ handled' \in [Offsets -> SUBSET How] /\ handled'[o] # {}
      /\ \A p \in Offsets : handled[p] # {} => handled'[p] # {}
      /\ \A p : p \notin Offsets => handled'[p] = handled[p]
  BY <1>4, <1>5
<1>7. Told(o)' /\ \A p : Told(p) => Told(p)'
  BY <1>6 DEF Told
<1>8. /\ r \in Consumer /\ r.position = k.position
      /\ r.batch = Tail(k.batch) /\ r.running = k.running
  BY <1>1, <1>3, <1>4 DEF Consumer
<1>9. NothingLost(r)'
  <2>1. \A p \in 1..k.position : Told(p) \/ p \in ToSet(k.batch)
    BY <1>1, <1>3, ConsumerTyped DEF NothingLost
  <2> QED
    BY <1>4, <1>7, <1>8, <2>1 DEF NothingLost
<1> QED
  BY <1>3, <1>6, <1>7, <1>8, <1>9, ConsumerTyped, ConsumerStep

LEMMA DoneKeeps ==
    ASSUME IngestInv, NEW c \in DOMAIN consumers, HandlerDone(c)
    PROVE  IngestInv'
<1>1. consumers[c] \in Consumer /\ consumers[c].refused = FALSE
  BY ConsumerTyped DEF HandlerDone, Consumer
<1>2. PICK r : r = [consumers[c] EXCEPT !.batch = Tail(@), !.refused = FALSE]
  OBVIOUS
<1>3. [consumers[c] EXCEPT !.batch = Tail(@)] = r
  BY <1>1, <1>2 DEF Consumer
<1>4. consumers' = [consumers EXCEPT ![c] = r]
  BY <1>3 DEF HandlerDone
<1>5. /\ Current(c) /\ Tell(Head(consumers[c].batch), "indexed")
      /\ UNCHANGED <<topic, pending, answered, committed>>
      /\ "indexed" \in How
  BY DEF HandlerDone, How
<1> QED
  BY <1>2, <1>4, <1>5, MessageTold

LEMMA RaisedKeeps ==
    ASSUME IngestInv, NEW c \in DOMAIN consumers, HandlerRaised(c)
    PROVE  IngestInv'
<1>1. PICK r : r = [consumers[c] EXCEPT !.refused = TRUE]
  OBVIOUS
<1>2. /\ consumers' = [consumers EXCEPT ![c] = r]
      /\ UNCHANGED <<topic, pending, answered, committed, handled>>
  BY <1>1 DEF HandlerRaised
<1>3. /\ r \in Consumer /\ r.position = consumers[c].position
      /\ r.batch = consumers[c].batch /\ r.running = consumers[c].running
  BY <1>1, ConsumerTyped DEF Consumer
<1>4. NothingLost(r)
  BY <1>3, ConsumerTyped DEF NothingLost
<1> QED
  BY <1>2, <1>3, <1>4, ConsumerTyped, OwnStep

LEMMA RouteKeeps ==
    ASSUME IngestInv, NEW c \in DOMAIN consumers, RouteMessage(c)
    PROVE  IngestInv'
<1>1. PICK r : r = [consumers[c] EXCEPT !.batch = Tail(@), !.refused = FALSE]
  OBVIOUS
<1>2. /\ Current(c) /\ consumers' = [consumers EXCEPT ![c] = r]
      /\ UNCHANGED <<topic, pending, answered, committed>>
  BY <1>1 DEF RouteMessage
<1>3. PICK how \in How : Tell(Head(consumers[c].batch), how)
  BY DEF RouteMessage, How
<1> QED
  BY <1>1, <1>2, <1>3, MessageTold

\* At the commit the batch is through: everything below the position is told of.
LEMMA BatchThrough ==
    ASSUME IngestInv, NEW c \in DOMAIN consumers, AtCommit(c)
    PROVE  \A o \in 1..consumers[c].position : Told(o)
<1>1. consumers[c].batch # <<>> /\ ToSet(consumers[c].batch) = {0}
  BY DEF AtCommit, CommitMark, ToSet
<1> QED
  BY <1>1, ConsumerTyped DEF NothingLost

LEMMA CommitKeeps ==
    ASSUME IngestInv, NEW c \in DOMAIN consumers, Commit(c)
    PROVE  IngestInv'
<1>1. PICK r : r = [consumers[c] EXCEPT !.batch = <<>>]
  OBVIOUS
<1>2. /\ consumers' = [consumers EXCEPT ![c] = r] /\ AtCommit(c)
      /\ committed' = consumers[c].position
      /\ UNCHANGED <<topic, pending, answered, handled>>
  BY <1>1 DEF Commit
<1>3. /\ consumers[c] \in Consumer /\ r \in Consumer
      /\ r.position = consumers[c].position /\ committed' \in Nat
  BY <1>1, <1>2, ConsumerTyped, EmptySeq DEF Consumer
<1>4. \A o : Told(o)' <=> Told(o)
  BY <1>2 DEF Told
<1>5. \A o \in 1..consumers[c].position : Told(o)'
  BY <1>2, <1>4, BatchThrough
<1>6. NothingLost(r)'
  BY <1>3, <1>5 DEF NothingLost
<1> QED
  BY <1>2, <1>3, <1>4, <1>5, <1>6, ConsumerTyped, ConsumerStep

LEMMA CommitFailsKeeps ==
    ASSUME IngestInv, NEW c \in DOMAIN consumers, CommitFails(c)
    PROVE  IngestInv'
<1>1. PICK r : r = [consumers[c] EXCEPT !.batch = <<>>]
  OBVIOUS
<1>2. /\ consumers' = [consumers EXCEPT ![c] = r] /\ AtCommit(c)
      /\ UNCHANGED <<topic, pending, answered, committed, handled>>
  BY <1>1 DEF CommitFails
<1>3. r \in Consumer /\ r.position = consumers[c].position
  BY <1>1, ConsumerTyped, EmptySeq DEF Consumer
<1>4. NothingLost(r)
  BY <1>2, <1>3, BatchThrough DEF NothingLost
<1> QED
  BY <1>2, <1>3, <1>4, ConsumerTyped, OwnStep

LEMMA IngestInvInit == IngestInit => IngestInv
<1> SUFFICES ASSUME IngestInit PROVE IngestInv
  OBVIOUS
<1>1. /\ IngestTypes /\ Len(topic) = 0 /\ committed = 0
      /\ DOMAIN consumers = {}
  BY EmptySeq DEF IngestInit, IngestTypes
<1>2. Accounted
  <2>1. \A d \in IngestDocs : Times(<<>>, d) \in Nat
    BY EmptySeq, TimesAppended
  <2> QED
    BY <2>1 DEF IngestInit, Accounted
<1> QED
  BY <1>1, <1>2 DEF IngestInv, Positions

LEMMA IngestInvStep == IngestInv /\ [IngestNext]_ingestVars => IngestInv'
<1> SUFFICES ASSUME IngestInv, [IngestNext]_ingestVars PROVE IngestInv'
  OBVIOUS
<1>1. ASSUME NEW d \in IngestDocs,
             PublishMessage(d) \/ PublishFails(d) \/ PublishPending(d)
      PROVE  IngestInv'
  BY <1>1, PublishKeeps, PublishFailsKeeps, PublishPendingKeeps
<1>2. CASE StartConsumer
  BY <1>2, StartKeeps
<1>3. ASSUME NEW c \in DOMAIN consumers,
             \/ StopConsumer(c) \/ ConsumerDies(c)
             \/ GetMany(c) \/ HandlerDone(c) \/ HandlerRaised(c)
             \/ RouteMessage(c) \/ Commit(c) \/ CommitFails(c)
      PROVE  IngestInv'
  BY <1>3, StopKeeps, DieKeeps, GetManyKeeps, DoneKeeps, RaisedKeeps,
     RouteKeeps, CommitKeeps, CommitFailsKeeps
<1>4. CASE UNCHANGED ingestVars
  <2>1. UNCHANGED <<topic, pending, answered, committed, consumers, handled>>
    BY <1>4 DEF ingestVars
  <2>2. /\ topic' \in Seq(IngestDocs) /\ Len(topic') <= MaxMessages
        /\ Len(topic) \in Nat
        /\ pending' \in Seq(IngestDocs) /\ answered' \in Seq(IngestDocs)
        /\ Accounted'
    BY <2>1, LenProperties DEF IngestInv, IngestTypes, Accounted
  <2> QED
    BY <2>1, <2>2, ProducerStep
<1> QED
  BY <1>1, <1>2, <1>3, <1>4 DEF IngestNext

THEOREM IngestInvCorrect == IngestSpec => []IngestInv
  BY IngestInvInit, IngestInvStep, PTL DEF IngestSpec

\* Types: no offset lies behind the end of the topic.
THEOREM IngestTypeCorrect == IngestSpec => []IngestTypeOK
<1>1. IngestInv => IngestTypeOK
  <2> SUFFICES ASSUME IngestInv PROVE IngestTypeOK
    OBVIOUS
  <2>1. Len(topic) \in Nat
    BY LenProperties DEF IngestInv, IngestTypes
  <2>2. \A c \in DOMAIN consumers : consumers[c].position \in 0..Len(topic)
    BY <2>1, ConsumerTyped DEF Consumer
  <2> QED
    <3>1. Len(topic) <= MaxMessages /\ committed \in 0..Len(topic)
      BY <2>1 DEF IngestInv, IngestTypes, Positions
    <3>2. handled \in [Offsets -> SUBSET {"indexed", "dead", "given up"}]
      BY DEF IngestInv, IngestTypes, How
    <3> QED
      BY <2>2, <3>1, <3>2 DEF IngestTypeOK
<1> QED
  BY <1>1, IngestInvCorrect, PTL

\* At least once, with any number of consumers one after the other, stopped,
\* dead or replaced in the middle of a batch: no message below the committed
\* offset is forgotten, and every document publish answered for is in the topic
\* or in the process.
THEOREM NothingSkippedCorrect == IngestSpec => []NothingSkipped
<1>1. IngestInv => NothingSkipped
  BY DEF IngestInv, Accounted, Told, Times, NothingSkipped
<1> QED
  BY <1>1, IngestInvCorrect, PTL

-----------------------------------------------------------------------------
(* The rate limiter: windows.                                              *)

Bucket == [tokens : 0..Full, last : Nat, expires : Nat]

Sending == {NoRequest} \cup [at : {"sent"}, now : Nat]

RateTypes ==
    /\ bucket \in {Absent} \cup Bucket
    /\ request \in [Workers -> Sending]
    /\ letThrough \in [0..LastTick -> Nat]
    /\ tick \in 0..LastTick

\* The clock of a request is behind by MaxDelay at most, and never ahead.
ClocksLag ==
    \A w \in Workers : request[w].at = "sent" =>
        request[w].now <= tick /\ tick <= request[w].now + MaxDelay

\* Nothing has been let through after the present tick.
Flat == \A k \in tick..LastTick : letThrough[k] = letThrough[tick]

\* The bucket was used KeyTtl ticks before it expires, and not by a clock that
\* was ahead of that.
Used ==
    bucket # Absent => bucket.last + KeyTtl <= bucket.expires
                       /\ bucket.expires <= tick + KeyTtl

\* What the window that began at from and is still open has let through, and
\* what the bucket still holds, came from a full bucket and the refills since;
\* once the bucket is gone, the time since has made up for a full one.
Covered(from, n) ==
    \/ n = 0
    \/ /\ bucket # Absent /\ bucket.last >= from - MaxDelay
       /\ n * Minute + bucket.tokens
              <= Full + (bucket.last - from + MaxDelay) * Limit
    \/ bucket = Absent /\ n * Minute <= (tick - from) * Limit

Open(from) == Covered(from, InWindow(from, tick))

RateInv ==
    /\ RateTypes /\ ClocksLag /\ Flat /\ Used
    /\ \A from \in 0..tick : Open(from)
    /\ RateBounded

LEMMA Scaled ==
    ASSUME NEW a \in Int, NEW b \in Int, NEW l \in Nat, a <= b
    PROVE  a * l <= b * l /\ a * l \in Int /\ b * l \in Int
  OBVIOUS

LEMMA Distributed ==
    ASSUME NEW a \in Int, NEW b \in Int, NEW l \in Int
    PROVE  (a + b) * l = a * l + b * l /\ (a - b) * l = a * l - b * l
  OBVIOUS

LEMMA FullNat == Full \in Nat /\ Full = Minute * Limit
  BY DEF Full

LEMMA BucketTyped ==
    ASSUME RateInv
    PROVE  /\ bucket # Absent =>
                /\ bucket \in Bucket /\ bucket.tokens \in 0..Full
                /\ bucket.tokens \in Nat
                /\ bucket.last \in Nat /\ bucket.expires \in Nat
                /\ bucket.last <= tick
           /\ tick \in Nat /\ tick <= LastTick
           /\ \A from \in 0..tick : \A to \in from..tick :
                InWindow(from, to) \in Int
<1>1. /\ tick \in Nat /\ tick <= LastTick
      /\ letThrough \in [0..LastTick -> Nat]
  BY DEF RateInv, RateTypes
<1>2. ASSUME bucket # Absent
      PROVE  /\ bucket \in Bucket /\ bucket.tokens \in 0..Full
             /\ bucket.tokens \in Nat
             /\ bucket.last \in Nat /\ bucket.expires \in Nat
             /\ bucket.last <= tick
  <2>1. bucket \in Bucket
    BY <1>2 DEF RateInv, RateTypes
  <2>2. /\ bucket.tokens \in 0..Full /\ bucket.last \in Nat /\ bucket.expires \in Nat
    BY <2>1 DEF Bucket
  <2>3. bucket.last + KeyTtl <= bucket.expires /\ bucket.expires <= tick + KeyTtl
    BY <1>2 DEF RateInv, Used
  <2> QED
    BY <1>1, <2>1, <2>2, <2>3, FullNat
<1>3. ASSUME NEW from \in 0..tick, NEW to \in from..tick
      PROVE  InWindow(from, to) \in Int
  <2>1. letThrough[to] \in Nat
    BY <1>1
  <2>2. from # 0 => letThrough[from - 1] \in Nat
    BY <1>1
  <2> QED
    BY <2>1, <2>2 DEF InWindow
<1> QED
  BY <1>1, <1>2, <1>3

\* An open window keeps to the limit.
LEMMA OpenBounded ==
    ASSUME NEW from \in 0..tick, tick \in Nat, NEW n \in Int, Covered(from, n),
           bucket # Absent => /\ bucket.tokens \in Nat /\ bucket.last \in Nat
                              /\ bucket.last <= tick
    PROVE  n * Minute <= Full + (tick - from + MaxDelay) * Limit
<1>1. (tick - from + MaxDelay) * Limit \in Nat /\ Full \in Nat
  <2>1. tick - from + MaxDelay \in Nat
    OBVIOUS
  <2> QED
    BY <2>1, FullNat
<1>2. CASE n = 0
  BY <1>1, <1>2
<1>3. CASE /\ bucket # Absent /\ bucket.last >= from - MaxDelay
           /\ n * Minute + bucket.tokens
                  <= Full + (bucket.last - from + MaxDelay) * Limit
  <2>1. (bucket.last - from + MaxDelay) * Limit <= (tick - from + MaxDelay) * Limit
    BY <1>3, Scaled
  <2>2. bucket.tokens \in Nat /\ n * Minute \in Int
        /\ (bucket.last - from + MaxDelay) * Limit \in Int
    BY <1>3
  <2> QED
    BY <1>1, <1>3, <2>1, <2>2
<1>4. CASE bucket = Absent /\ n * Minute <= (tick - from) * Limit
  <2>1. (tick - from) * Limit <= (tick - from + MaxDelay) * Limit
    BY Scaled
  <2>2. (tick - from) * Limit \in Int /\ n * Minute \in Int
    OBVIOUS
  <2> QED
    BY <1>1, <1>4, <2>1, <2>2
<1> QED
  BY <1>2, <1>3, <1>4 DEF Covered

\* The refill of a bucket that is there, by a clock that is no more than
\* MaxDelay behind: what it holds grows by no more than its clock is moved on.
LEMMA RefillBounded ==
    ASSUME RateInv, NEW now \in Nat, now <= tick, tick <= now + MaxDelay,
           NEW b, b = Refilled(now)
    PROVE  /\ b.tokens \in 0..Full /\ b.last \in Nat /\ b.last <= tick
           /\ b.last >= now
           /\ bucket # Absent =>
                 /\ b.last >= bucket.last
                 /\ b.tokens <= bucket.tokens + (b.last - bucket.last) * Limit
           /\ bucket = Absent => b.tokens = Full /\ b.last = now
<1>1. Full \in Nat
  BY FullNat
<1>2. CASE bucket = Absent
  BY <1>1, <1>2, BucketTyped DEF Refilled
<1>3. CASE bucket # Absent
  <2>1. /\ bucket.tokens \in Nat /\ bucket.tokens <= Full
        /\ bucket.last \in Nat /\ bucket.last <= tick /\ tick \in Nat
    BY <1>1, <1>3, BucketTyped
  <2>2. CASE now > bucket.last
    <3>1. b = [tokens |-> LesserOf(Full, bucket.tokens + (now - bucket.last) * Limit),
               last |-> now]
      BY <1>3, <2>2 DEF Refilled
    <3>2. (now - bucket.last) * Limit \in Nat
      <4>1. now - bucket.last \in Nat
        BY <2>1, <2>2
      <4> QED
        BY <4>1
    <3>3. /\ b.last = now
          /\ b.tokens = LesserOf(Full, bucket.tokens + (now - bucket.last) * Limit)
      BY <3>1
    <3>4. /\ b.tokens \in 0..Full
          /\ b.tokens <= bucket.tokens + (now - bucket.last) * Limit
      BY <1>1, <2>1, <3>2, <3>3 DEF LesserOf
    <3> QED
      BY <1>3, <2>1, <2>2, <3>3, <3>4
  <2>3. CASE ~(now > bucket.last)
    <3>1. b = [tokens |-> bucket.tokens, last |-> bucket.last]
      BY <1>3, <2>3 DEF Refilled
    <3>2. b.tokens = bucket.tokens /\ b.last = bucket.last
      BY <3>1
    <3>3. (b.last - bucket.last) * Limit = 0
      BY <2>1, <3>2
    <3> QED
      BY <1>1, <1>3, <2>1, <2>3, <3>2, <3>3
  <2> QED
    BY <2>2, <2>3
<1> QED
  BY <1>2, <1>3

LEMMA RefillCovered ==
    ASSUME RateInv, NEW now \in Nat, now <= tick, tick <= now + MaxDelay,
           NEW b, b = Refilled(now),
           NEW from \in 0..tick, NEW n \in Int, Covered(from, n)
    PROVE  /\ b.last >= from - MaxDelay
           /\ n * Minute + b.tokens <= Full + (b.last - from + MaxDelay) * Limit
<1>1. /\ b.tokens \in 0..Full /\ b.tokens \in Nat /\ b.last \in Nat
      /\ b.last <= tick /\ b.last >= now
      /\ bucket # Absent =>
            /\ b.last >= bucket.last
            /\ b.tokens <= bucket.tokens + (b.last - bucket.last) * Limit
      /\ bucket = Absent => b.tokens = Full /\ b.last = now
  BY RefillBounded, FullNat
<1>2. tick \in Nat /\ Full \in Nat
  BY BucketTyped, FullNat
<1>3. b.last >= from - MaxDelay
  BY <1>1, <1>2
<1>4. CASE n = 0
  <2>1. (b.last - from + MaxDelay) * Limit \in Nat
    <3>1. b.last - from + MaxDelay \in Nat
      BY <1>1, <1>2, <1>3
    <3> QED
      BY <3>1
  <2>2. n * Minute = 0 /\ b.tokens <= Full
    BY <1>1, <1>2, <1>4
  <2> QED
    BY <1>1, <1>2, <1>3, <2>1, <2>2
<1>5. CASE /\ bucket # Absent /\ bucket.last >= from - MaxDelay
           /\ n * Minute + bucket.tokens
                  <= Full + (bucket.last - from + MaxDelay) * Limit
  <2>1. bucket.tokens \in Nat /\ bucket.last \in Nat
    BY <1>5, BucketTyped
  <2> DEFINE x == (b.last - bucket.last) * Limit
             y == (bucket.last - from + MaxDelay) * Limit
             z == (b.last - from + MaxDelay) * Limit
  <2>2. x \in Int /\ y \in Int /\ z \in Int /\ n * Minute \in Int
    BY <1>1, <1>2, <2>1
  <2>3. z = x + y
    <3>1. b.last - from + MaxDelay
             = (b.last - bucket.last) + (bucket.last - from + MaxDelay)
      BY <1>1, <1>2, <2>1
    <3>2. /\ b.last - bucket.last \in Int
          /\ bucket.last - from + MaxDelay \in Int
      BY <1>1, <1>2, <2>1
    <3> QED
      BY <3>1, <3>2, Distributed
  <2>4. b.tokens <= bucket.tokens + x /\ n * Minute + bucket.tokens <= Full + y
    BY <1>1, <1>5
  <2> HIDE DEF x, y, z
  <2>5. n * Minute + b.tokens <= Full + z
    BY <1>1, <1>2, <2>1, <2>2, <2>3, <2>4
  <2> QED
    BY <1>3, <2>5 DEF z
<1>6. CASE bucket = Absent /\ n * Minute <= (tick - from) * Limit
  <2>1. tick - from <= b.last - from + MaxDelay
    BY <1>1, <1>2, <1>6
  <2>2. (tick - from) * Limit <= (b.last - from + MaxDelay) * Limit
    BY <1>1, <1>2, <2>1, Scaled
  <2>3. /\ (tick - from) * Limit \in Int /\ n * Minute \in Int
        /\ (b.last - from + MaxDelay) * Limit \in Int
    BY <1>1, <1>2
  <2>4. b.tokens = Full
    BY <1>1, <1>6
  <2> HIDE DEF Full
  <2> QED
    BY <1>2, <1>3, <1>6, <2>2, <2>3, <2>4
<1> QED
  BY <1>4, <1>5, <1>6 DEF Covered

\* What a script lets through counts for every window that is open.
LEMMA WindowGrows ==
    ASSUME RateInv, NEW k \in {0, 1},
           letThrough' = [j \in 0..LastTick |->
                             letThrough[j] + IF j < tick THEN 0 ELSE k],
           tick' = tick
    PROVE  /\ letThrough' \in [0..LastTick -> Nat] /\ Flat'
           /\ \A from \in 0..tick : \A to \in from..tick :
                InWindow(from, to)' =
                    InWindow(from, to) + IF to = tick THEN k ELSE 0
<1>1. /\ letThrough \in [0..LastTick -> Nat] /\ tick \in 0..LastTick /\ LastTick \in Nat
  BY DEF RateInv, RateTypes
<1>2. /\ letThrough' \in [0..LastTick -> Nat]
      /\ \A j \in 0..LastTick :
            letThrough'[j] = letThrough[j] + IF j < tick THEN 0 ELSE k
  BY <1>1
<1>3. Flat'
  <2>1. \A j \in tick..LastTick : letThrough'[j] = letThrough[tick] + k
    BY <1>1, <1>2 DEF RateInv, Flat
  <2>2. tick \in tick..LastTick /\ tick' = tick
    BY <1>1
  <2>3. \A j \in tick..LastTick : letThrough'[j] = letThrough'[tick]
    BY <2>1, <2>2
  <2> QED
    BY <2>2, <2>3 DEF Flat
<1>4. ASSUME NEW from \in 0..tick, NEW to \in from..tick
      PROVE  InWindow(from, to)' = InWindow(from, to) + IF to = tick THEN k ELSE 0
  <2>1. /\ letThrough'[to] = letThrough[to] + IF to = tick THEN k ELSE 0
        /\ letThrough[to] \in Nat
    BY <1>1, <1>2
  <2>2. CASE from = 0
    BY <2>1, <2>2 DEF InWindow
  <2>3. CASE from # 0
    <3>1. /\ letThrough'[from - 1] = letThrough[from - 1]
          /\ letThrough[from - 1] \in Nat
      BY <1>1, <1>2, <2>3
    <3> QED
      BY <2>1, <2>3, <3>1 DEF InWindow
  <2> QED
    BY <2>2, <2>3
<1> QED
  BY <1>2, <1>3, <1>4

LEMMA ReadClockKeeps ==
    ASSUME RateInv, NEW w \in Workers, ReadClock(w)
    PROVE  RateInv'
<1>1. /\ request' = [request EXCEPT ![w] = [at |-> "sent", now |-> tick]]
      /\ UNCHANGED <<bucket, letThrough, tick>>
      /\ request \in [Workers -> Sending] /\ tick \in Nat
  BY BucketTyped DEF ReadClock, RateInv, RateTypes
<1>2. RateTypes'
  BY <1>1 DEF RateInv, RateTypes, Sending
<1>3. ClocksLag'
  <2>1. ASSUME NEW v \in Workers, request'[v].at = "sent"
        PROVE  request'[v].now <= tick /\ tick <= request'[v].now + MaxDelay
    <3>1. CASE v = w
      <4>1. request'[v] = [at |-> "sent", now |-> tick]
        BY <1>1, <3>1
      <4>2. request'[v].now = tick
        BY <4>1
      <4> QED
        BY <1>1, <4>2
    <3>2. CASE v # w
      <4>1. request'[v] = request[v]
        BY <1>1, <3>2
      <4> QED
        BY <2>1, <4>1 DEF RateInv, ClocksLag
    <3> QED
      BY <3>1, <3>2
  <2> QED
    BY <1>1, <2>1 DEF ClocksLag
<1>4. Flat' /\ Used'
  BY <1>1 DEF RateInv, Flat, Used
<1>5. \A from \in 0..tick' : Open(from)'
  BY <1>1 DEF RateInv, Open, Covered, InWindow
<1>6. RateBounded'
  BY <1>1 DEF RateInv, RateBounded, InWindow
<1> QED
  BY <1>2, <1>3, <1>4, <1>5, <1>6 DEF RateInv

\* What a run of the script does: it takes a token of the refilled bucket and
\* lets the request through, or does neither.
LEMMA ScriptRuns ==
    ASSUME RateInv, NEW w \in Workers, RunScript(w)
    PROVE  \E now \in Nat, k \in {0, 1} :
             /\ now <= tick /\ tick <= now + MaxDelay
             /\ bucket'.tokens \in 0..Full
             /\ bucket'.tokens + k * Minute = Refilled(now).tokens
             /\ bucket' = [tokens |-> bucket'.tokens, last |-> Refilled(now).last,
                           expires |-> tick + KeyTtl]
             /\ letThrough' = [j \in 0..LastTick |->
                                  letThrough[j] + IF j < tick THEN 0 ELSE k]
<1>1. /\ request[w] \in Sending /\ request[w].at = "sent"
      /\ letThrough \in [0..LastTick -> Nat]
  BY DEF RunScript, RateInv, RateTypes
<1>2. PICK now : now = request[w].now
  OBVIOUS
<1>3. now \in Nat /\ now <= tick /\ tick <= now + MaxDelay
  <2>1. now <= tick /\ tick <= now + MaxDelay
    BY <1>1, <1>2 DEF RateInv, ClocksLag
  <2>2. request[w].now \in Nat
    BY <1>1 DEF Sending, NoRequest
  <2> QED
    BY <1>2, <2>1, <2>2
<1>4. PICK b : b = Refilled(now)
  OBVIOUS
<1>5. b.tokens \in 0..Full /\ b.tokens \in Nat /\ Full \in Nat
  BY <1>3, <1>4, RefillBounded, FullNat
<1>6. CASE b.tokens >= Minute
  <2>1. /\ bucket' = [tokens |-> b.tokens - Minute, last |-> b.last,
                      expires |-> tick + KeyTtl]
        /\ letThrough' = [j \in 0..LastTick |->
                             letThrough[j] + IF j < tick THEN 0 ELSE 1]
    BY <1>2, <1>4, <1>6 DEF RunScript
  <2>2. bucket'.tokens = b.tokens - Minute
    BY <2>1
  <2>3. bucket'.tokens \in 0..Full /\ bucket'.tokens + 1 * Minute = b.tokens
    BY <1>5, <1>6, <2>2
  <2> QED
    BY <1>3, <1>4, <2>1, <2>2, <2>3
<1>7. CASE ~(b.tokens >= Minute)
  <2>1. /\ bucket' = [tokens |-> b.tokens, last |-> b.last,
                      expires |-> tick + KeyTtl]
        /\ letThrough' = letThrough
    BY <1>2, <1>4, <1>7 DEF RunScript
  <2>2. bucket'.tokens = b.tokens
    BY <2>1
  <2>3. bucket'.tokens \in 0..Full /\ bucket'.tokens + 0 * Minute = b.tokens
    BY <1>5, <2>2
  <2>4. \A j \in 0..LastTick : letThrough[j] + (IF j < tick THEN 0 ELSE 0) = letThrough[j]
    BY <1>1
  <2>5. letThrough' = [j \in 0..LastTick |->
                          letThrough[j] + IF j < tick THEN 0 ELSE 0]
    BY <1>1, <2>1, <2>4
  <2> QED
    BY <1>3, <1>4, <2>1, <2>2, <2>3, <2>5
<1> QED
  BY <1>6, <1>7

LEMMA RunScriptKeeps ==
    ASSUME RateInv, NEW w \in Workers, RunScript(w)
    PROVE  RateInv'
<1>1. PICK now \in Nat, k \in {0, 1} :
             /\ now <= tick /\ tick <= now + MaxDelay
             /\ bucket'.tokens \in 0..Full
             /\ bucket'.tokens + k * Minute = Refilled(now).tokens
             /\ bucket' = [tokens |-> bucket'.tokens, last |-> Refilled(now).last,
                           expires |-> tick + KeyTtl]
             /\ letThrough' = [j \in 0..LastTick |->
                                  letThrough[j] + IF j < tick THEN 0 ELSE k]
  BY ScriptRuns
<1>2. tick' = tick /\ request' = [request EXCEPT ![w] = NoRequest]
  BY DEF RunScript
<1>3. PICK b : b = Refilled(now)
  OBVIOUS
<1>4. b.tokens \in 0..Full /\ b.last \in Nat /\ b.last <= tick
  BY <1>1, <1>3, RefillBounded
<1>5. /\ tick \in Nat /\ tick <= LastTick /\ Full \in Nat
      /\ request \in [Workers -> Sending]
  BY BucketTyped, FullNat DEF RateInv, RateTypes
<1>6. /\ bucket'.tokens \in 0..Full /\ bucket'.tokens \in Nat
      /\ bucket'.tokens + k * Minute = b.tokens
      /\ bucket'.last = b.last /\ bucket'.expires = tick + KeyTtl
  BY <1>1, <1>3, <1>5
<1>7. bucket' # Absent
  BY <1>5, <1>6 DEF Absent
<1>8. /\ letThrough' \in [0..LastTick -> Nat] /\ Flat'
      /\ \A from \in 0..tick : \A to \in from..tick :
           InWindow(from, to)' = InWindow(from, to) + IF to = tick THEN k ELSE 0
  BY <1>1, <1>2, WindowGrows
<1>9. RateTypes'
  <2>1. bucket' \in Bucket
    <3>1. PICK n \in 0..Full, l \in Nat, e \in Nat :
                bucket' = [tokens |-> n, last |-> l, expires |-> e]
      <4>1. RateAssumption
        BY RateAssumption
      <4>2. bucket'.tokens \in 0..Full /\ Refilled(now).last \in Nat /\ tick + KeyTtl \in Nat
        BY <1>3, <1>4, <1>5, <1>6, <4>1 DEF RateAssumption
      <4> QED
        BY ONLY <1>1, <4>2
    <3> QED
      BY ONLY <3>1 DEF Bucket
  <2>2. request' \in [Workers -> Sending]
    BY <1>2, <1>5 DEF Sending
  <2> QED
    BY <1>2, <1>5, <1>8, <2>1, <2>2 DEF RateTypes
<1>10. ClocksLag'
  <2>1. ASSUME NEW v \in Workers, request'[v].at = "sent"
        PROVE  request'[v].now <= tick /\ tick <= request'[v].now + MaxDelay
    <3>1. v # w
      BY <1>2, <1>5, <2>1 DEF NoRequest
    <3>2. request'[v] = request[v]
      BY <1>2, <1>5, <3>1
    <3> QED
      BY <2>1, <3>2 DEF RateInv, ClocksLag
  <2> QED
    BY <1>2, <2>1 DEF ClocksLag
<1>11. Used'
  BY <1>2, <1>4, <1>5, <1>6 DEF Used
<1>12. ASSUME NEW from \in 0..tick
       PROVE  /\ b.last >= from - MaxDelay
              /\ InWindow(from, tick)' * Minute + bucket'.tokens
                     <= Full + (b.last - from + MaxDelay) * Limit
  <2>1. PICK n : n = InWindow(from, tick)
    OBVIOUS
  <2>2. n \in Int /\ Covered(from, n)
    BY <1>5, <2>1, BucketTyped DEF RateInv, Open
  <2>3. /\ b.last >= from - MaxDelay
        /\ n * Minute + b.tokens <= Full + (b.last - from + MaxDelay) * Limit
    BY <1>1, <1>3, <2>2, RefillCovered
  <2>4. InWindow(from, tick)' = n + k
    BY <1>2, <1>5, <1>8, <2>1
  <2>5. (n + k) * Minute = n * Minute + k * Minute
    BY <2>2, Distributed
  <2> QED
    BY <1>6, <2>2, <2>3, <2>4, <2>5
<1>13. \A from \in 0..tick' : Open(from)'
  <2>1. ASSUME NEW from \in 0..tick
        PROVE  Open(from)'
    BY <1>2, <1>6, <1>7, <1>12 DEF Open, Covered
  <2> QED
    BY <1>2, <2>1
<1>14. RateBounded'
  <2>1. ASSUME NEW from \in 0..tick, NEW to \in from..tick
        PROVE  InWindow(from, to)' * Minute <= Full + (to - from + MaxDelay) * Limit
    <3>1. CASE to = tick
      <4>1. (b.last - from + MaxDelay) * Limit <= (tick - from + MaxDelay) * Limit
        BY <1>4, <1>5, Scaled
      <4>2. PICK n : n = InWindow(from, tick)'
        OBVIOUS
      <4>3. n \in Int
        BY <1>2, <1>5, <1>8, <4>2, BucketTyped
      <4>4. /\ (b.last - from + MaxDelay) * Limit \in Int
            /\ (tick - from + MaxDelay) * Limit \in Int
            /\ n * Minute \in Int
        BY <1>4, <1>5, <4>3
      <4>5. n * Minute <= Full + (tick - from + MaxDelay) * Limit
        BY <1>5, <1>6, <1>12, <4>1, <4>2, <4>4
      <4> QED
        BY <1>2, <3>1, <4>2, <4>5
    <3>2. CASE to # tick
      <4>1. InWindow(from, to)' = InWindow(from, to)
        BY <1>5, <1>8, <3>2, BucketTyped
      <4> QED
        BY <4>1 DEF RateInv, RateBounded
    <3> QED
      BY <3>1, <3>2
  <2> QED
    BY <1>2, <2>1 DEF RateBounded
<1> QED
  BY <1>8, <1>9, <1>10, <1>11, <1>13, <1>14 DEF RateInv

\* A bucket that Redis drops had KeyTtl ticks to become full.
LEMMA ExpiredCovered ==
    ASSUME RateInv, KeyTtl >= Minute + MaxDelay,
           bucket # Absent, tick + 1 >= bucket.expires,
           NEW from \in 0..tick, NEW n \in Int, Covered(from, n)
    PROVE  n = 0 \/ n * Minute <= (tick + 1 - from) * Limit
<1>1. /\ bucket.tokens \in Nat /\ bucket.last \in Nat /\ bucket.expires \in Nat
      /\ bucket.last + KeyTtl <= bucket.expires /\ tick \in Nat
  BY BucketTyped DEF RateInv, Used
<1>2. CASE n * Minute + bucket.tokens
               <= Full + (bucket.last - from + MaxDelay) * Limit
  <2>1. bucket.last - from + MaxDelay + Minute <= tick + 1 - from
    BY <1>1
  <2>2. (bucket.last - from + MaxDelay + Minute) * Limit <= (tick + 1 - from) * Limit
    BY <1>1, <2>1, Scaled
  <2>3. (bucket.last - from + MaxDelay + Minute) * Limit
            = (bucket.last - from + MaxDelay) * Limit + Minute * Limit
    <3>1. bucket.last - from + MaxDelay \in Int
      BY <1>1
    <3> QED
      BY <3>1, Distributed
  <2>4. /\ (bucket.last - from + MaxDelay) * Limit \in Int
        /\ (tick + 1 - from) * Limit \in Int
        /\ n * Minute \in Int /\ Full \in Nat /\ Full = Minute * Limit
    BY <1>1, FullNat
  <2> QED
    BY <1>1, <1>2, <2>2, <2>3, <2>4
<1> QED
  BY <1>2 DEF Covered

LEMMA TickKeeps ==
    ASSUME RateInv, KeyTtl >= Minute + MaxDelay, TickPasses
    PROVE  RateInv'
<1>1. /\ tick < LastTick /\ tick' = tick + 1
      /\ UNCHANGED <<request, letThrough>>
      /\ bucket' = IF bucket # Absent /\ tick + 1 >= bucket.expires
                   THEN Absent ELSE bucket
      /\ \A w \in Workers : request[w].at = "sent" => tick - request[w].now < MaxDelay
  BY DEF TickPasses
<1>2. /\ tick \in Nat /\ LastTick \in Nat
      /\ letThrough \in [0..LastTick -> Nat] /\ request \in [Workers -> Sending]
  BY BucketTyped DEF RateInv, RateTypes
<1>3. RateTypes'
  BY <1>1, <1>2 DEF RateInv, RateTypes, Bucket, Sending
<1>4. ClocksLag'
  <2>1. ASSUME NEW w \in Workers, request[w].at = "sent"
        PROVE  request[w].now <= tick + 1 /\ tick + 1 <= request[w].now + MaxDelay
    <3>1. request[w].now \in Nat
      <4>1. request[w] \in Sending
        BY <1>2
      <4> QED
        BY <2>1, <4>1 DEF Sending, NoRequest
    <3>2. request[w].now <= tick /\ tick - request[w].now < MaxDelay
      BY <1>1, <2>1 DEF RateInv, ClocksLag
    <3> QED
      BY <1>2, <3>1, <3>2
  <2> QED
    BY <1>1, <2>1 DEF ClocksLag
<1>5. Flat'
  <2>1. \A k \in tick..LastTick : letThrough[k] = letThrough[tick]
    BY DEF RateInv, Flat
  <2>2. tick + 1 \in tick..LastTick
    BY <1>1, <1>2
  <2>3. \A k \in (tick + 1)..LastTick : letThrough[k] = letThrough[tick + 1]
    BY <1>2, <2>1, <2>2
  <2> QED
    BY <1>1, <2>3 DEF Flat
<1>6. Used'
  <2>1. ASSUME bucket' # Absent
        PROVE  bucket'.last + KeyTtl <= bucket'.expires
               /\ bucket'.expires <= tick + 1 + KeyTtl
    <3>1. bucket' = bucket
      BY <1>1, <2>1
    <3>2. /\ bucket.last + KeyTtl <= bucket.expires
          /\ bucket.expires <= tick + KeyTtl /\ bucket.expires \in Nat
      BY <2>1, <3>1, BucketTyped DEF RateInv, Used
    <3> QED
      BY <1>2, <3>1, <3>2
  <2> QED
    BY <1>1, <2>1 DEF Used
<1>7. ASSUME NEW from \in 0..tick
      PROVE  InWindow(from, tick)' = InWindow(from, tick)
  <2>1. letThrough[tick + 1] = letThrough[tick]
    BY <1>1, <1>2 DEF RateInv, Flat
  <2> QED
    BY <1>1, <2>1 DEF InWindow
<1>8. ASSUME NEW from, from = tick + 1
      PROVE  InWindow(from, tick)' = 0
  <2>1. letThrough[tick + 1] = letThrough[tick] /\ letThrough[tick] \in Nat
    BY <1>1, <1>2 DEF RateInv, Flat
  <2>2. InWindow(from, tick)' = letThrough[tick + 1] - letThrough[tick]
    BY <1>1, <1>2, <1>8 DEF InWindow
  <2> QED
    BY <2>1, <2>2
<1>9. ASSUME NEW from \in 0..(tick + 1)
      PROVE  Open(from)'
  <2>1. CASE from = tick + 1
    BY <1>8, <2>1 DEF Open, Covered
  <2>2. CASE from # tick + 1
    <3>1. from \in 0..tick
      BY <1>2, <2>2
    <3>2. PICK n : n = InWindow(from, tick)
      OBVIOUS
    <3>3. n \in Int /\ Covered(from, n)
      BY <1>2, <3>1, <3>2, BucketTyped DEF RateInv, Open
    <3>4. InWindow(from, tick)' = n
      BY <1>7, <3>1, <3>2
    <3>5. CASE bucket # Absent /\ tick + 1 >= bucket.expires
      <4>1. n = 0 \/ n * Minute <= (tick + 1 - from) * Limit
        BY <3>1, <3>3, <3>5, ExpiredCovered
      <4>2. bucket' = Absent /\ tick' = tick + 1
        BY <1>1, <3>5
      <4>3. \/ InWindow(from, tick)' = 0
            \/ InWindow(from, tick)' * Minute <= (tick' - from) * Limit
        BY <1>2, <3>3, <3>4, <4>1, <4>2
      <4>4. Covered(from, InWindow(from, tick))'
        BY <4>2, <4>3 DEF Covered
      <4> QED
        BY <4>4 DEF Open
    <3>6. CASE ~(bucket # Absent /\ tick + 1 >= bucket.expires)
      <4>1. bucket' = bucket
        BY <1>1, <3>6
      <4>2. /\ (tick - from) * Limit <= (tick + 1 - from) * Limit
            /\ (tick - from) * Limit \in Int /\ (tick + 1 - from) * Limit \in Int
            /\ n * Minute \in Int
        BY <1>2, <3>1, <3>3, Scaled
      <4>3. bucket = Absent /\ n * Minute <= (tick - from) * Limit
                => n * Minute <= (tick + 1 - from) * Limit
        BY <4>2
      <4>4. Covered(from, n)'
        BY <1>1, <1>2, <3>3, <4>1, <4>3 DEF Covered
      <4>5. Covered(from, InWindow(from, tick))'
        BY <1>2, <3>3, <3>4, <4>4 DEF Covered
      <4> QED
        BY <4>5 DEF Open
    <3> QED
      BY <3>5, <3>6
  <2> QED
    BY <2>1, <2>2
<1>10. RateBounded'
  <2>1. ASSUME NEW from \in 0..(tick + 1), NEW to \in from..(tick + 1)
        PROVE  InWindow(from, to)' * Minute <= Full + (to - from + MaxDelay) * Limit
    <3>1. CASE from = tick + 1
      <4>1. to = tick + 1
        BY <1>2, <3>1
      <4>2. InWindow(from, to)' = 0
        BY <1>1, <1>2, <1>8, <3>1, <4>1 DEF InWindow
      <4>3. (to - from + MaxDelay) * Limit \in Nat
        BY <3>1, <4>1
      <4> QED
        BY <4>2, <4>3, FullNat
    <3>2. CASE from # tick + 1 /\ to # tick + 1
      <4>1. from \in 0..tick /\ to \in from..tick
        BY <1>2, <3>2
      <4>2. InWindow(from, to)' = InWindow(from, to)
        BY <1>1 DEF InWindow
      <4> QED
        BY <4>1, <4>2 DEF RateInv, RateBounded
    <3>3. CASE from # tick + 1 /\ to = tick + 1
      <4>1. from \in 0..tick /\ tick \in from..tick
        BY <1>2, <3>3
      <4>2. PICK n : n = InWindow(from, tick)
        OBVIOUS
      <4>3. n \in Int /\ n * Minute <= Full + (tick - from + MaxDelay) * Limit
        BY <4>1, <4>2, BucketTyped DEF RateInv, RateBounded
      <4>4. /\ (tick - from + MaxDelay) * Limit <= (tick + 1 - from + MaxDelay) * Limit
            /\ (tick - from + MaxDelay) * Limit \in Int
            /\ (tick + 1 - from + MaxDelay) * Limit \in Int
            /\ n * Minute \in Int /\ Full \in Nat
        BY <1>2, <4>1, <4>3, Scaled, FullNat
      <4>5. n * Minute <= Full + (tick + 1 - from + MaxDelay) * Limit
        BY <4>3, <4>4
      <4>6. InWindow(from, to)' = n
        BY <1>1, <1>7, <3>3, <4>1, <4>2 DEF InWindow
      <4> QED
        BY <1>2, <3>3, <4>3, <4>5, <4>6
    <3> QED
      BY <3>1, <3>2, <3>3
  <2> QED
    BY <1>1, <2>1 DEF RateBounded
<1>11. \A from \in 0..tick' : Open(from)'
  BY <1>1, <1>9
<1> QED
  BY <1>3, <1>4, <1>5, <1>6, <1>10, <1>11 DEF RateInv

LEMMA RateInvInit == RateInit => RateInv
<1> SUFFICES ASSUME RateInit
             PROVE  RateInv
  OBVIOUS
<1>1. /\ bucket = Absent /\ tick = 0 /\ LastTick \in Nat
      /\ request = [w \in Workers |-> NoRequest]
      /\ letThrough = [k \in 0..LastTick |-> 0]
  BY DEF RateInit
<1>2. RateTypes
  BY <1>1 DEF RateTypes, Sending
<1>3. ClocksLag /\ Flat /\ Used
  BY <1>1 DEF ClocksLag, Flat, Used, NoRequest
<1>4. InWindow(0, 0) = 0
  BY <1>1 DEF InWindow
<1>5. \A from \in 0..tick : Open(from)
  BY <1>1, <1>4 DEF Open, Covered
<1>6. RateBounded
  <2>1. MaxDelay * Limit \in Nat
    OBVIOUS
  <2>2. (0 - 0 + MaxDelay) * Limit = MaxDelay * Limit
    OBVIOUS
  <2>3. InWindow(0, 0) * Minute <= Full + (0 - 0 + MaxDelay) * Limit
    BY <1>4, <2>1, <2>2, FullNat
  <2> QED
    BY <1>1, <2>3 DEF RateBounded
<1> QED
  BY <1>2, <1>3, <1>5, <1>6 DEF RateInv

LEMMA RateInvStep ==
    ASSUME KeyTtl >= Minute + MaxDelay
    PROVE  RateInv /\ [RateNext]_rateVars => RateInv'
<1> SUFFICES ASSUME RateInv, [RateNext]_rateVars
             PROVE  RateInv'
  OBVIOUS
<1>1. ASSUME NEW w \in Workers, ReadClock(w)
      PROVE  RateInv'
  BY <1>1, ReadClockKeeps
<1>2. ASSUME NEW w \in Workers, RunScript(w)
      PROVE  RateInv'
  BY <1>2, RunScriptKeeps
<1>3. CASE TickPasses
  BY <1>3, TickKeeps
<1>4. CASE UNCHANGED rateVars
  BY <1>4 DEF rateVars, RateInv, RateTypes, ClocksLag, Flat, Used, Open, Covered,
     InWindow, RateBounded
<1> QED
  BY <1>1, <1>2, <1>3, <1>4 DEF RateNext

\* The state has its types (backend/rate_limiter/token_bucket.py), when a
\* script is late by no more than the expiry of a bucket leaves beyond the
\* minute that refills it: the code's two minutes, a minute late at most.
THEOREM RateTypeCorrect ==
    ASSUME KeyTtl >= Minute + MaxDelay
    PROVE  RateSpec => []RateTypeOK
<1>1. RateInv => RateTypeOK
  <2> SUFFICES ASSUME RateInv
               PROVE  RateTypeOK
    OBVIOUS
  <2>1. /\ request \in [Workers -> Sending]
        /\ letThrough \in [0..LastTick -> Nat] /\ tick \in 0..LastTick
    BY DEF RateInv, RateTypes
  <2>2. bucket # Absent =>
           /\ bucket.tokens \in 0..Full /\ bucket.last \in 0..LastTick
           /\ bucket.expires \in Nat
    BY BucketTyped
  <2>3. \A w \in Workers : request[w].at \in {"none", "sent"}
    BY <2>1 DEF Sending, NoRequest
  <2> QED
    BY <2>1, <2>2, <2>3 DEF RateTypeOK
<1> QED
  BY <1>1, RateInvInit, RateInvStep, PTL DEF RateSpec

\* The limit (R14.1) on every window of time, whatever the workers and however
\* their scripts overtake one another (Decision.allowed,
\* backend/rate_limiter/token_bucket.py), under the same condition: a script
\* later than that finds the bucket dropped, and fills it, with a clock so old
\* that the time since is given a second time.
THEOREM RateBoundedCorrect ==
    ASSUME KeyTtl >= Minute + MaxDelay
    PROVE  RateSpec => []RateBounded
<1>1. RateInv => RateBounded
  BY DEF RateInv
<1> QED
  BY <1>1, RateInvInit, RateInvStep, PTL DEF RateSpec

-----------------------------------------------------------------------------
(* The crawler.                                                            *)

Files == RobotsFiles \cup {Unavailable}

Asking == [at : {"queue"}, asked : Nat]

Querying == [at : {"fetching"}, asked : Nat, from : Nat \ {0}]

Answering == [at : {"answered"}, asked : Nat, from : Nat \ {0}, file : Files]

Allowed == [at : {"slot", "pace"}, asked : Nat, decided : Nat, file : Files]

Sleeping == [at : {"sleep"}, asked : Nat, decided : Nat, file : Files, granted : Nat,
             delay : Nat, wake : Nat]

Getting == [at : {"get"}, number : Nat]

Crawling == {Idling} \cup Asking \cup Querying \cup Answering \cup Allowed
                \cup Sleeping \cup Getting

Get == [start : Nat, end : Nat, granted : Nat, delay : Nat, asked : Nat,
        decided : Nat, file : Files, redirects : Seq(Paths)]

RobotsCached == [at : Nat \ {0}, result : Files]

RobotsReply == [from : Nat \ {0}, at : Nat \ {0}, file : Files]

HostState == [free : Nat, last : Nat, delay : Nat, lock : SUBSET Crawlers]

CrawlTypes ==
    /\ slots \in Nat /\ instant \in Instants /\ optOut \in Nat
    /\ site \in [file : RobotsFiles, changes : Nat]
    /\ siteAt \in [Instants -> SUBSET RobotsFiles]
    /\ robotsCache \in {[at |-> NotYet]} \cup RobotsCached
    /\ robotsFetched \in Seq(RobotsReply)
    /\ throttle \in HostState
    /\ throttle.delay >= DefaultDelay /\ throttle.last <= instant
    /\ crawler \in [Crawlers -> Crawling]
    /\ gets \in Seq(Get)
    /\ cancelled \in [times : Nat, lost : Nat]

\* The fetches that have a slot, but no get yet.
Holding == {f \in Crawlers : crawler[f].at \in {"pace", "sleep"}}

Ongoing == {i \in DOMAIN gets : gets[i].end = NotYet}

\* Every slot is free, or held, or in use by a get of its own, or lost.
SlotsInv ==
    /\ IsFiniteSet(Holding) /\ IsFiniteSet(Ongoing)
    /\ Cardinality(Holding) + Cardinality(Ongoing) + throttle.free + cancelled.lost = slots
    /\ \A f \in Crawlers : crawler[f].at = "get" => crawler[f].number \in Ongoing
    /\ \A f, g \in Crawlers :
           (crawler[f].at = "get" /\ crawler[g].at = "get" /\ f # g)
               => crawler[f].number # crawler[g].number

\* A get that starts at start, and whose turn was granted, is polite to get j.
Turn(j, granted, start, delay) ==
    /\ gets[j].end \in 1..(granted - 1) => start >= gets[j].end + delay
    /\ slots = 1 => gets[j].end # NotYet /\ start >= gets[j].end + delay

AskedInTime(a) == a <= instant /\ (optOut # NotYet => a < optOut + OptOutWindow)

\* A decision at d may rest on file r: it arrived within a lifetime before.
OnFile(d, r) == \E k \in AnswersFor(d, d) : robotsFetched[k].file = r

\* A decision at d is to get the page, and rests on file r.
Permitted(d, r) ==
    /\ d <= instant /\ OnFile(d, r)
    /\ r.available /\ PageAsked \notin r.forbids

\* A recent robots.txt asks for the delay.
Recent(d, t, delay) ==
    \E k \in AnswersFor(d, t) : /\ robotsFetched[k].file.delay # NoDelay
                                /\ delay = DelayOf(robotsFetched[k].file)

Paced(r, d, t, delay) == r.delay # NoDelay => Recent(d, t, delay)

\* A fetch under way has what its page will need to be polite and permitted.
Fetching(c) ==
    /\ c.at \notin {"idle", "get"} => AskedInTime(c.asked)
    /\ c.at \in {"slot", "pace", "sleep"} => Permitted(c.decided, c.file)
    /\ c.at \in {"slot", "pace"} => Paced(c.file, c.decided, instant, throttle.delay)
    /\ c.at = "sleep" =>
           /\ c.granted <= instant /\ Paced(c.file, c.decided, c.granted, c.delay)
           /\ \A j \in DOMAIN gets : Turn(j, c.granted, c.wake, c.delay)

Got(i) ==
    /\ AskedInTime(gets[i].asked) /\ Permitted(gets[i].decided, gets[i].file)
    /\ gets[i].granted <= instant /\ gets[i].end <= throttle.last
    /\ Paced(gets[i].file, gets[i].decided, gets[i].granted, gets[i].delay)
    /\ \A j \in Under(i) : Turn(j, gets[i].granted, gets[i].start, gets[i].delay)

\* Whoever asks for robots.txt has the lock, found the cache out of date, and is
\* answered with what the host serves meanwhile.
Questioning(c) ==
    /\ c.from \in 1..instant
    /\ robotsCache.at # NotYet => c.from >= robotsCache.at + RobotsTtl
    /\ (c.at = "answered" /\ c.file.available) => c.file \in ServedBetween(c.from, instant)

\* Reply k was asked for a lifetime after the last one, and was served since.
Replied(k) ==
    /\ k > 1 => robotsFetched[k].from >= robotsFetched[k - 1].at + RobotsTtl
    /\ robotsFetched[k].file.available =>
           robotsFetched[k].file \in
               ServedBetween(robotsFetched[k].from, robotsFetched[k].at)

\* The cache holds the last reply.
RobotsInv ==
    /\ robotsCache.at <= instant /\ site.file \in siteAt[instant]
    /\ robotsCache.at = IF robotsFetched = <<>> THEN NotYet
                        ELSE robotsFetched[Len(robotsFetched)].at
    /\ robotsFetched # <<>> =>
           robotsCache.result = robotsFetched[Len(robotsFetched)].file
    /\ \A f \in Crawlers : crawler[f].at \in {"fetching", "answered"} =>
           robotsLock = {f} /\ Questioning(crawler[f])
    /\ \A k \in DOMAIN robotsFetched : robotsFetched[k].at <= instant /\ Replied(k)

CrawlInv ==
    /\ CrawlTypes /\ SlotsInv /\ RobotsInv
    /\ \A f \in Crawlers : Fetching(crawler[f])
    /\ \A i \in DOMAIN gets : Got(i)

LEMMA CrawlConstants ==
    /\ \A r \in Files : r.delay = NoDelay \/ r.delay \in Nat
    /\ ~Unavailable.available /\ MaxSlots \in Nat \ {0} /\ DefaultDelay \in Nat \ {0}
    /\ RobotsTtl \in Nat \ {0} /\ OptOutWindow \in Nat \ {0}
    /\ LastInstant \in Nat \ {0}
<1>1. ~Unavailable.available /\ Unavailable.delay = NoDelay
  BY DEF Unavailable
<1>2. \A r \in RobotsFiles : r.delay = NoDelay \/ r.delay \in Nat
  BY CrawlAssumption DEF CrawlAssumption
<1>3. \A r \in Files : r.delay = NoDelay \/ r.delay \in Nat
  BY <1>1, <1>2 DEF Files
<1> QED
  BY <1>1, <1>3, CrawlAssumption DEF CrawlAssumption

LEMMA CrawlFacts ==
    ASSUME CrawlTypes
    PROVE  /\ slots \in Nat /\ instant \in Nat /\ instant >= 1
           /\ instant <= LastInstant /\ optOut \in Nat
           /\ throttle.free \in Nat /\ throttle.last \in Nat
           /\ throttle.delay \in Nat /\ throttle.lock \in SUBSET Crawlers
           /\ cancelled.times \in Nat /\ cancelled.lost \in Nat
           /\ Len(gets) \in Nat /\ DOMAIN gets = 1..Len(gets)
           /\ \A j \in DOMAIN gets :
                 /\ gets[j] \in Get /\ gets[j].file \in Files
                 /\ gets[j].start \in Nat /\ gets[j].end \in Nat
                 /\ gets[j].granted \in Nat /\ gets[j].delay \in Nat
                 /\ gets[j].asked \in Nat /\ gets[j].decided \in Nat
<1>1. /\ slots \in Nat /\ instant \in Instants /\ optOut \in Nat
      /\ throttle \in HostState /\ cancelled \in [times : Nat, lost : Nat]
      /\ gets \in Seq(Get)
  BY DEF CrawlTypes
<1>2. Len(gets) \in Nat /\ DOMAIN gets = 1..Len(gets)
  BY <1>1
<1>3. \A j \in DOMAIN gets : gets[j] \in Get
  BY <1>1
<1>4. instant \in Nat /\ instant >= 1 /\ instant <= LastInstant
  BY <1>1, CrawlConstants DEF Instants
<1>5. \A j \in DOMAIN gets :
         /\ gets[j].file \in Files
         /\ gets[j].start \in Nat /\ gets[j].end \in Nat
         /\ gets[j].granted \in Nat /\ gets[j].delay \in Nat
         /\ gets[j].asked \in Nat /\ gets[j].decided \in Nat
  BY <1>3 DEF Get
<1>6. /\ throttle.free \in Nat /\ throttle.last \in Nat
      /\ throttle.delay \in Nat /\ throttle.lock \in SUBSET Crawlers
      /\ cancelled.times \in Nat /\ cancelled.lost \in Nat
  BY <1>1 DEF HostState
<1> QED
  BY <1>1, <1>2, <1>3, <1>4, <1>5, <1>6

LEMMA RepliesTyped ==
    ASSUME CrawlTypes
    PROVE  /\ robotsFetched \in Seq(RobotsReply)
           /\ DOMAIN robotsFetched = 1..Len(robotsFetched) /\ Len(robotsFetched) \in Nat
           /\ \A k \in DOMAIN robotsFetched :
                 /\ robotsFetched[k].from \in Nat \ {0} /\ robotsFetched[k].at \in Nat \ {0}
                 /\ robotsFetched[k].file \in Files
<1>1. robotsFetched \in Seq(RobotsReply)
  BY DEF CrawlTypes
<1>2. \A k \in DOMAIN robotsFetched : robotsFetched[k] \in RobotsReply
  BY <1>1
<1>3. DOMAIN robotsFetched = 1..Len(robotsFetched) /\ Len(robotsFetched) \in Nat
  BY <1>1
<1> QED
  BY <1>1, <1>2, <1>3 DEF RobotsReply

LEMMA CrawlerAt ==
    ASSUME CrawlTypes, NEW f \in Crawlers
    PROVE  /\ crawler[f].at = "queue" => crawler[f] \in Asking
           /\ crawler[f].at = "fetching" => crawler[f] \in Querying
           /\ crawler[f].at = "answered" => crawler[f] \in Answering
           /\ crawler[f].at \in {"slot", "pace"} => crawler[f] \in Allowed
           /\ crawler[f].at = "sleep" => crawler[f] \in Sleeping
           /\ crawler[f].at = "get" => crawler[f] \in Getting
           /\ crawler[f].at = "idle" => crawler[f] = Idling
           /\ crawler[f].at \in {"idle", "queue", "fetching", "answered", "slot",
                                 "pace", "sleep", "get"}
<1>1. crawler[f] \in Crawling
  BY DEF CrawlTypes
<1> QED
  BY <1>1 DEF Crawling, Idling, Asking, Querying, Answering, Allowed, Sleeping, Getting

\* The last reply is what the cache has.
LEMMA CacheKnown ==
    ASSUME CrawlInv, RobotsFresh
    PROVE  /\ robotsCache.result \in Files /\ OnFile(instant, robotsCache.result)
<1>1. robotsCache \in RobotsCached /\ RobotsInv /\ CrawlTypes
  BY DEF RobotsFresh, CrawlInv, CrawlTypes, NotYet
<1>2. robotsFetched # <<>>
  BY <1>1 DEF RobotsFresh, RobotsInv, NotYet
<1>3. PICK n : n = Len(robotsFetched)
  OBVIOUS
<1>4. /\ n \in DOMAIN robotsFetched /\ robotsCache.at = robotsFetched[n].at
      /\ robotsCache.result = robotsFetched[n].file
  BY <1>1, <1>2, <1>3, RepliesTyped DEF RobotsInv
<1>5. instant - robotsCache.at < RobotsTtl /\ robotsCache.at <= instant
  BY <1>1 DEF RobotsFresh, RobotsInv
<1>6. instant - RobotsTtl < robotsFetched[n].at
  BY <1>1, <1>4, <1>5, CrawlFacts, CrawlConstants DEF RobotsCached
<1> QED
  BY <1>1, <1>4, <1>5, <1>6 DEF OnFile, AnswersFor, RobotsCached

\* How a step changes the pages got.
GetsStep ==
    \/ gets' = gets
    \/ \E f \in Holding, start, granted, delay, asked, decided \in Nat, r \in Files :
          gets' = Append(gets, [start |-> start, end |-> NotYet, granted |-> granted,
                                delay |-> delay, asked |-> asked, decided |-> decided,
                                file |-> r, redirects |-> <<>>])
    \/ \E n \in Ongoing : gets' = [gets EXCEPT ![n].end = instant]
    \/ \E n \in Ongoing, h \in Seq(Paths) : gets' = [gets EXCEPT ![n].redirects = h]

SiteGrows == \A n \in Instants : n <= instant => siteAt[n] \subseteq siteAt'[n]

OptOutStep == optOut' = optOut \/ (optOut = NotYet /\ optOut' = instant)

\* Replies are not forgotten.
RepliesGrow ==
    /\ robotsFetched' \in Seq(RobotsReply)
    /\ DOMAIN robotsFetched \subseteq DOMAIN robotsFetched'
    /\ \A k \in DOMAIN robotsFetched : robotsFetched'[k] = robotsFetched[k]

\* The delay of the host changes to what a recent reply asks for.
DelayStep ==
    \/ throttle'.delay = throttle.delay
    \/ instant' = instant /\ Recent(instant, instant, throttle.delay)'

\* A decision on a file that is known sets the delay that file asks for.
LEMMA DecisionPaces ==
    ASSUME CrawlInv, NEW f \in Crawlers, NEW a, NEW r \in Files, Decide(f, a, r),
           instant' = instant, OnFile(instant, r)'
    PROVE  /\ throttle' \in HostState /\ throttle'.delay >= DefaultDelay
           /\ throttle'.last = throttle.last /\ throttle'.free = throttle.free
           /\ DelayStep
           /\ (r.available /\ PageAsked \notin r.forbids)
                  => Paced(r, instant, instant, throttle.delay)'
<1>1. /\ throttle \in HostState /\ throttle.delay >= DefaultDelay
      /\ r.delay = NoDelay \/ r.delay \in Nat
      /\ DefaultDelay \in Nat
  BY CrawlConstants DEF CrawlInv, CrawlTypes
<1>2. CASE throttle' = throttle /\ ((r.available /\ PageAsked \notin r.forbids) => r.delay = NoDelay)
  BY <1>1, <1>2 DEF DelayStep, Paced
<1>3. CASE /\ throttle' = [throttle EXCEPT !.delay = Greater(r.delay, DefaultDelay)]
           /\ r.delay # NoDelay
  <2>1. PICK d : d = Greater(r.delay, DefaultDelay)
    OBVIOUS
  <2>2. d \in Nat /\ d >= DefaultDelay
    BY <1>1, <1>3, <2>1 DEF Greater
  <2>3. throttle' = [throttle EXCEPT !.delay = d]
    BY <1>3, <2>1
  <2>4. /\ throttle' \in HostState /\ throttle'.delay = d
        /\ throttle'.last = throttle.last /\ throttle'.free = throttle.free
    BY <1>1, <2>2, <2>3 DEF HostState
  <2>5. PICK k \in AnswersFor(instant, instant)' : robotsFetched'[k].file = r
    BY DEF OnFile
  <2>6. d = DelayOf(r)
    BY <2>1 DEF DelayOf
  <2>7. Recent(instant, instant, throttle.delay)'
    BY <1>3, <2>4, <2>5, <2>6 DEF Recent
  <2> QED
    BY <2>2, <2>4, <2>7 DEF DelayStep, Paced
<1> QED
  BY <1>2, <1>3 DEF Decide

\* The reply that arrives is the last one from now on.
LEMMA ReplyArrives ==
    ASSUME CrawlInv, NEW f \in Crawlers, RobotsAnswered(f), NEW r, r = crawler[f].file
    PROVE  /\ crawler[f] \in Answering /\ r \in Files
           /\ RepliesGrow /\ OnFile(instant, r)'
           /\ Len(robotsFetched') = Len(robotsFetched) + 1
           /\ DOMAIN robotsFetched' = 1..(Len(robotsFetched) + 1)
           /\ robotsFetched'[Len(robotsFetched) + 1] =
                 [from |-> crawler[f].from, at |-> instant, file |-> crawler[f].file]
<1>1. /\ crawler[f].at = "answered" /\ instant' = instant
      /\ robotsFetched' = Append(robotsFetched,
             [from |-> crawler[f].from, at |-> instant, file |-> crawler[f].file])
      /\ crawler[f] \in Answering
  BY CrawlerAt DEF RobotsAnswered, CrawlInv
<1>2. PICK q : q = [from |-> crawler[f].from, at |-> instant, file |-> crawler[f].file]
  OBVIOUS
<1>3. q \in RobotsReply /\ q.at = instant /\ q.file = crawler[f].file
  BY <1>1, <1>2, CrawlFacts DEF RobotsReply, Answering, CrawlInv
<1>4. PICK n \in Nat : n = Len(robotsFetched)
  BY RepliesTyped DEF CrawlInv
<1>5. /\ robotsFetched' \in Seq(RobotsReply) /\ Len(robotsFetched') = n + 1
      /\ DOMAIN robotsFetched' = 1..(n + 1) /\ DOMAIN robotsFetched = 1..n
      /\ robotsFetched'[n + 1] = q
      /\ \A k \in 1..n : robotsFetched'[k] = robotsFetched[k]
  <2>1. robotsFetched \in Seq(RobotsReply) /\ robotsFetched' = Append(robotsFetched, q)
    BY <1>1, <1>2, RepliesTyped DEF CrawlInv
  <2> QED
    BY <1>3, <1>4, <2>1
<1>6. RepliesGrow
  BY <1>5 DEF RepliesGrow
<1>7. n + 1 \in AnswersFor(instant, instant)'
  BY <1>1, <1>3, <1>4, <1>5, CrawlFacts, CrawlConstants DEF AnswersFor, CrawlInv
<1>8. OnFile(instant, r)'
  <2>1. robotsFetched'[n + 1].file = r
    BY <1>3, <1>5
  <2> QED
    BY <1>7, <2>1 DEF OnFile
<1> QED
  BY <1>1, <1>2, <1>4, <1>5, <1>6, <1>8 DEF Answering

\* One step of the crawler, whoever takes it.
CrawlStep ==
    /\ slots' = slots /\ instant' \in Nat /\ instant <= instant'
    /\ OptOutStep /\ SiteGrows /\ GetsStep /\ RepliesGrow /\ DelayStep

LEMMA CrawlSteps ==
    ASSUME CrawlInv, CrawlNext
    PROVE  CrawlStep
<1> DEFINE Frame ==
        /\ slots' = slots /\ optOut' = optOut /\ instant' = instant
        /\ siteAt' = siteAt
             Quiet == gets' = gets /\ robotsFetched' = robotsFetched
                      /\ throttle'.delay = throttle.delay
<1>1. /\ instant \in Nat /\ instant \in Instants /\ optOut \in Nat
      /\ siteAt \in [Instants -> SUBSET RobotsFiles]
      /\ robotsFetched \in Seq(RobotsReply) /\ throttle \in HostState
  BY CrawlFacts DEF CrawlInv, CrawlTypes
<1>2. ASSUME Frame, GetsStep, RepliesGrow, DelayStep
      PROVE  CrawlStep
  BY <1>1, <1>2 DEF OptOutStep, SiteGrows, CrawlStep
<1>3. robotsFetched' = robotsFetched => RepliesGrow
  BY <1>1 DEF RepliesGrow
<1>4. gets' = gets => GetsStep
  BY DEF GetsStep
<1>5. throttle'.delay = throttle.delay => DelayStep
  BY DEF DelayStep
<1> DEFINE Goal == Frame /\ GetsStep /\ RepliesGrow /\ DelayStep
<1>6. ASSUME NEW f \in Crawlers,
             FetchRobots(f) \/ RobotsServed(f) \/ TakeSlot(f) \/ Cancel(f)
      PROVE  Goal
  <2>1. Frame /\ Quiet
    BY <1>1, <1>6 DEF FetchRobots, AskForRobots, RobotsServed, TakeSlot, Cancel, HostState
  <2> QED
    BY <1>3, <1>4, <1>5, <2>1
<1>7. ASSUME NEW f \in Crawlers, BeginFetch(f) \/ CachedRobots(f)
      PROVE  Goal
  <2>1. Frame /\ gets' = gets /\ robotsFetched' = robotsFetched
    BY <1>7 DEF BeginFetch, CachedRobots
  <2>2. CASE throttle' = throttle
    BY <1>3, <1>4, <1>5, <2>1, <2>2
  <2>3. CASE throttle' # throttle
    <3>1. PICK r, a : r = robotsCache.result /\ Decide(f, a, r) /\ RobotsFresh
      BY <1>7, <2>3 DEF BeginFetch, CachedRobots
    <3>2. r \in Files /\ OnFile(instant, r)
      BY <3>1, CacheKnown
    <3>3. OnFile(instant, r)'
      BY <2>1, <3>2 DEF OnFile, AnswersFor
    <3>4. DelayStep
      BY <2>1, <3>1, <3>2, <3>3, DecisionPaces
    <3> QED
      BY <1>3, <1>4, <2>1, <3>4
  <2> QED
    BY <2>2, <2>3
<1>8. ASSUME NEW f \in Crawlers, RobotsAnswered(f)
      PROVE  Goal
  <2>1. PICK r, a : r = crawler[f].file /\ Decide(f, a, r)
    BY <1>8 DEF RobotsAnswered
  <2>2. Frame /\ gets' = gets
    BY <1>8 DEF RobotsAnswered
  <2>3. r \in Files /\ RepliesGrow /\ OnFile(instant, r)'
    BY <1>8, <2>1, ReplyArrives
  <2>4. DelayStep
    BY <2>1, <2>2, <2>3, DecisionPaces
  <2> QED
    BY <1>4, <2>2, <2>3, <2>4
<1>9. ASSUME NEW f \in Holding, NEW granted \in Nat, NEW delay \in Nat,
             crawler[f] \in Allowed \cup Sleeping, StartGet(f, granted, delay)
      PROVE  GetsStep
  <2>1. /\ crawler[f].asked \in Nat /\ crawler[f].decided \in Nat
        /\ crawler[f].file \in Files
    BY <1>9 DEF Allowed, Sleeping
  <2> QED
    BY <1>1, <1>9, <2>1 DEF StartGet, GetsStep
<1>10. ASSUME NEW f \in Crawlers, Pace(f)
       PROVE  Goal
  <2>1. /\ crawler[f].at = "pace" /\ Frame /\ robotsFetched' = robotsFetched
        /\ throttle'.delay = throttle.delay
    BY <1>1, <1>10 DEF Pace, HostState
  <2>2. f \in Holding
    BY <2>1 DEF Holding
  <2>3. crawler[f] \in Allowed /\ throttle.delay \in Nat
    BY <2>1, CrawlerAt, CrawlFacts DEF CrawlInv
  <2>4. gets' = gets \/ StartGet(f, instant, throttle.delay)
    BY <1>10 DEF Pace
  <2>5. GetsStep
    BY <1>1, <1>4, <1>9, <2>2, <2>3, <2>4
  <2> QED
    BY <1>3, <1>5, <2>1, <2>5
<1>11. ASSUME NEW f \in Crawlers, Wake(f)
       PROVE  Goal
  <2>1. /\ crawler[f].at = "sleep" /\ Frame /\ robotsFetched' = robotsFetched
        /\ throttle'.delay = throttle.delay
    BY <1>1, <1>11 DEF Wake, HostState
  <2>2. f \in Holding
    BY <2>1 DEF Holding
  <2>3. crawler[f] \in Sleeping
    BY <2>1, CrawlerAt DEF CrawlInv
  <2>4. crawler[f].granted \in Nat /\ crawler[f].delay \in Nat
    BY <2>3 DEF Sleeping
  <2>5. StartGet(f, crawler[f].granted, crawler[f].delay)
    BY <1>11 DEF Wake
  <2>6. GetsStep
    BY <1>9, <2>2, <2>3, <2>4, <2>5
  <2> QED
    BY <1>3, <1>5, <2>1, <2>6
<1>12. ASSUME NEW f \in Crawlers, GetOver(f) \/ Redirected(f)
       PROVE  Goal
  <2>1. /\ crawler[f].at = "get" /\ Frame /\ robotsFetched' = robotsFetched
        /\ throttle'.delay = throttle.delay
    BY <1>1, <1>12 DEF GetOver, Redirected, HostState
  <2>2. PICK n \in Ongoing : n = crawler[f].number
    BY <2>1 DEF CrawlInv, SlotsInv
  <2>3. CASE GetOver(f)
    <3>1. gets' = [gets EXCEPT ![n].end = instant]
      BY <2>2, <2>3 DEF GetOver
    <3> QED
      BY <1>3, <1>5, <2>1, <3>1 DEF GetsStep
  <2>4. CASE Redirected(f)
    <3>1. PICK p \in Paths : gets' = [gets EXCEPT ![n].redirects = Append(@, p)]
      BY <2>2, <2>4 DEF Redirected
    <3>2. n \in DOMAIN gets /\ gets[n] \in Get
      BY <2>2, CrawlFacts DEF Ongoing, CrawlInv
    <3>3. gets[n].redirects \in Seq(Paths)
      BY <3>2 DEF Get
    <3>4. PICK q, h : q = gets[n].redirects /\ h = Append(q, p)
      OBVIOUS
    <3>5. h \in Seq(Paths)
      BY <3>3, <3>4
    <3>6. gets' = [gets EXCEPT ![n].redirects = h]
      BY <3>1, <3>4
    <3>7. GetsStep
      BY <2>2, <3>5, <3>6 DEF GetsStep
    <3> QED
      BY <1>3, <1>5, <2>1, <3>7
  <2> QED
    BY <1>12, <2>3, <2>4
<1>13. ASSUME RegisterOptOut
       PROVE  CrawlStep
  <2>1. /\ slots' = slots /\ instant' = instant /\ siteAt' = siteAt /\ gets' = gets
        /\ optOut = NotYet /\ optOut' = instant /\ robotsFetched' = robotsFetched
        /\ throttle' = throttle
    BY <1>13 DEF RegisterOptOut
  <2> QED
    BY <1>1, <1>3, <1>4, <1>5, <2>1 DEF OptOutStep, SiteGrows, CrawlStep
<1>14. ASSUME SiteChanges
       PROVE  CrawlStep
  <2>1. /\ slots' = slots /\ instant' = instant /\ optOut' = optOut /\ gets' = gets
        /\ robotsFetched' = robotsFetched /\ throttle' = throttle
    BY <1>14 DEF SiteChanges
  <2>2. PICK r \in RobotsFiles : siteAt' = [siteAt EXCEPT ![instant] = @ \cup {r}]
    BY <1>14 DEF SiteChanges
  <2>3. SiteGrows
    BY <1>1, <2>2 DEF SiteGrows
  <2> QED
    BY <1>1, <1>3, <1>4, <1>5, <2>1, <2>3 DEF OptOutStep, CrawlStep
<1>15. ASSUME InstantPasses
       PROVE  CrawlStep
  <2>1. /\ slots' = slots /\ optOut' = optOut /\ gets' = gets
        /\ siteAt' = [siteAt EXCEPT ![instant + 1] = {site.file}]
        /\ instant' = instant + 1
        /\ robotsFetched' = robotsFetched /\ throttle' = throttle
    BY <1>15 DEF InstantPasses
  <2>2. \A n \in Instants : n <= instant => siteAt'[n] = siteAt[n]
    BY <1>1, <2>1
  <2>3. SiteGrows
    BY <2>2 DEF SiteGrows
  <2> QED
    BY <1>1, <1>3, <1>4, <1>5, <2>1, <2>3 DEF OptOutStep, CrawlStep
<1>16. CASE \E f \in Crawlers :
           \/ BeginFetch(f) \/ CachedRobots(f) \/ FetchRobots(f)
           \/ RobotsServed(f) \/ RobotsAnswered(f)
           \/ TakeSlot(f) \/ Pace(f) \/ Wake(f) \/ Redirected(f) \/ GetOver(f)
           \/ Cancel(f)
  <2>1. Goal
    BY <1>6, <1>7, <1>8, <1>10, <1>11, <1>12, <1>16
  <2> HIDE DEF Frame
  <2>2. Frame /\ GetsStep /\ RepliesGrow /\ DelayStep
    BY <2>1
  <2> HIDE DEF Goal
  <2> QED
    BY <1>2, <2>2
<1> QED
  BY <1>13, <1>14, <1>15, <1>16 DEF CrawlNext

\* The gets there are stay as they are, but that one may end now, or be sent on.
LEMMA GetsKept ==
    ASSUME CrawlInv, GetsStep
    PROVE  /\ gets' \in Seq(Get)
           /\ DOMAIN gets \subseteq DOMAIN gets'
           /\ \A j \in DOMAIN gets :
                 /\ gets'[j].start = gets[j].start /\ gets'[j].granted = gets[j].granted
                 /\ gets'[j].delay = gets[j].delay /\ gets'[j].asked = gets[j].asked
                 /\ gets'[j].decided = gets[j].decided /\ gets'[j].file = gets[j].file
                 /\ \/ gets'[j].end = gets[j].end
                    \/ gets[j].end = NotYet /\ gets'[j].end = instant
<1>1. /\ gets \in Seq(Get) /\ instant \in Nat
      /\ \A j \in DOMAIN gets : gets[j] \in Get
  BY CrawlFacts DEF CrawlInv, CrawlTypes
<1>2. CASE gets' = gets
  BY <1>1, <1>2
<1>3. ASSUME NEW start \in Nat, NEW granted \in Nat, NEW delay \in Nat,
             NEW asked \in Nat, NEW decided \in Nat, NEW r \in Files, NEW g,
             g = [start |-> start, end |-> NotYet, granted |-> granted,
                  delay |-> delay, asked |-> asked, decided |-> decided,
                  file |-> r, redirects |-> <<>>],
             gets' = Append(gets, g)
      PROVE  /\ gets' \in Seq(Get) /\ DOMAIN gets \subseteq DOMAIN gets'
             /\ \A j \in DOMAIN gets : gets'[j] = gets[j]
  <2>1. g \in Get
    BY <1>3 DEF Get, NotYet
  <2> HIDE <1>3
  <2> QED
    BY <1>1, <1>3, <2>1
<1>4. ASSUME NEW n \in Ongoing, NEW x \in Get, gets' = [gets EXCEPT ![n] = x]
      PROVE  /\ gets' \in Seq(Get) /\ DOMAIN gets' = DOMAIN gets
             /\ gets'[n] = x /\ \A j \in DOMAIN gets \ {n} : gets'[j] = gets[j]
  <2>1. n \in DOMAIN gets
    BY DEF Ongoing
  <2> QED
    BY <1>1, <1>4, <2>1
<1>5. ASSUME NEW n \in Ongoing
      PROVE  n \in DOMAIN gets /\ gets[n].end = NotYet /\ gets[n] \in Get
  BY <1>1 DEF Ongoing
<1>6. CASE \E n \in Ongoing : gets' = [gets EXCEPT ![n].end = instant]
  <2>1. PICK n \in Ongoing : gets' = [gets EXCEPT ![n].end = instant]
    BY <1>6
  <2>2. PICK x : x = [gets[n] EXCEPT !.end = instant]
    OBVIOUS
  <2>3. /\ x \in Get /\ x.end = instant /\ x.start = gets[n].start
        /\ x.granted = gets[n].granted /\ x.delay = gets[n].delay
        /\ x.asked = gets[n].asked /\ x.decided = gets[n].decided
        /\ x.file = gets[n].file
    BY <1>1, <1>5, <2>2 DEF Get
  <2>4. gets' = [gets EXCEPT ![n] = x]
    BY <2>1, <2>2
  <2> QED
    BY <1>4, <1>5, <2>3, <2>4
<1>7. CASE \E n \in Ongoing, h \in Seq(Paths) : gets' = [gets EXCEPT ![n].redirects = h]
  <2>1. PICK n \in Ongoing, h \in Seq(Paths) : gets' = [gets EXCEPT ![n].redirects = h]
    BY <1>7
  <2>2. PICK x : x = [gets[n] EXCEPT !.redirects = h]
    OBVIOUS
  <2>3. /\ x \in Get /\ x.end = gets[n].end /\ x.start = gets[n].start
        /\ x.granted = gets[n].granted /\ x.delay = gets[n].delay
        /\ x.asked = gets[n].asked /\ x.decided = gets[n].decided
        /\ x.file = gets[n].file
    BY <1>1, <1>5, <2>2 DEF Get
  <2>4. gets' = [gets EXCEPT ![n] = x]
    BY <2>1, <2>2
  <2> QED
    BY <1>4, <1>5, <2>3, <2>4
<1> QED
  BY <1>2, <1>3, <1>6, <1>7 DEF GetsStep

\* What has been polite, permitted, paced and asked in time stays so.
LEMMA TurnKept ==
    ASSUME CrawlInv, CrawlNext, NEW j \in DOMAIN gets,
           NEW granted \in Nat, granted <= instant,
           NEW start \in Nat, NEW delay \in Nat, Turn(j, granted, start, delay)
    PROVE  j \in DOMAIN gets' /\ Turn(j, granted, start, delay)'
<1>1. /\ j \in DOMAIN gets'
      /\ \/ gets'[j].end = gets[j].end
         \/ gets[j].end = NotYet /\ gets'[j].end = instant
      /\ slots' = slots
  BY CrawlSteps, GetsKept DEF CrawlStep
<1>2. gets[j].end \in Nat /\ instant \in Nat /\ slots \in Nat
  BY CrawlFacts DEF CrawlInv
<1>3. CASE gets'[j].end = gets[j].end
  BY <1>1, <1>3 DEF Turn
<1>4. CASE gets[j].end = NotYet /\ gets'[j].end = instant
  <2>1. slots # 1
    BY <1>4 DEF Turn
  <2>2. ~(gets'[j].end \in 1..(granted - 1))
    BY <1>2, <1>4
  <2> QED
    BY <1>1, <2>1, <2>2 DEF Turn
<1> QED
  BY <1>1, <1>3, <1>4

LEMMA AskedKept ==
    ASSUME CrawlInv, CrawlNext, NEW a \in Nat, AskedInTime(a)
    PROVE  AskedInTime(a)'
<1>1. instant \in Nat /\ instant' \in Nat /\ instant <= instant' /\ OptOutStep
  BY CrawlSteps, CrawlFacts DEF CrawlInv, CrawlStep
<1>2. OptOutWindow \in Nat \ {0}
  BY CrawlConstants
<1>3. CASE optOut' = optOut
  BY <1>1, <1>3 DEF AskedInTime
<1>4. CASE optOut = NotYet /\ optOut' = instant
  BY <1>1, <1>2, <1>4 DEF AskedInTime
<1> QED
  BY <1>1, <1>3, <1>4 DEF OptOutStep

LEMMA PermittedKept ==
    ASSUME CrawlInv, CrawlNext, NEW d \in Nat, NEW r, Permitted(d, r)
    PROVE  Permitted(d, r)'
<1>1. /\ instant \in Nat /\ instant' \in Nat /\ instant <= instant' /\ RepliesGrow
  BY CrawlSteps, CrawlFacts DEF CrawlInv, CrawlStep
<1>2. PICK k \in AnswersFor(d, d) : robotsFetched[k].file = r
  BY DEF Permitted, OnFile
<1>3. k \in AnswersFor(d, d)' /\ robotsFetched'[k].file = r
  BY <1>1, <1>2 DEF AnswersFor, RepliesGrow
<1>4. OnFile(d, r)'
  BY <1>3 DEF OnFile
<1>5. d <= instant'
  BY <1>1 DEF Permitted
<1> QED
  BY <1>4, <1>5 DEF Permitted

LEMMA PacedKept ==
    ASSUME CrawlInv, CrawlNext, NEW r, NEW d \in Nat, NEW t \in Nat, NEW u \in Nat,
           t <= u, NEW delay, Paced(r, d, t, delay)
    PROVE  Paced(r, d, u, delay)'
<1>1. SUFFICES ASSUME r.delay # NoDelay
               PROVE  Recent(d, u, delay)'
  BY DEF Paced
<1>2. PICK k \in AnswersFor(d, t) : /\ robotsFetched[k].file.delay # NoDelay
                                    /\ delay = DelayOf(robotsFetched[k].file)
  BY <1>1 DEF Paced, Recent
<1>3. RepliesGrow
  BY CrawlSteps DEF CrawlStep
<1>4. robotsFetched[k].at \in Nat
  BY <1>2, RepliesTyped DEF AnswersFor, CrawlInv
<1>5. k \in AnswersFor(d, u)' /\ robotsFetched'[k] = robotsFetched[k]
  BY <1>2, <1>3, <1>4 DEF AnswersFor, RepliesGrow
<1> QED
  BY <1>2, <1>5 DEF Recent

\* The delay of the host stays what a recent reply asks for.
LEMMA DelayKept ==
    ASSUME CrawlInv, CrawlNext, NEW r, NEW d \in Nat, d <= instant,
           Paced(r, d, instant, throttle.delay)
    PROVE  Paced(r, d, instant, throttle.delay)'
<1>1. /\ instant \in Nat /\ instant' \in Nat /\ instant <= instant' /\ DelayStep
      /\ robotsFetched' \in Seq(RobotsReply)
  BY CrawlSteps, CrawlFacts DEF CrawlInv, CrawlStep, RepliesGrow
<1>2. CASE throttle'.delay = throttle.delay
  <2>1. PICK delay, t, u : delay = throttle.delay /\ t = instant /\ u = instant'
    OBVIOUS
  <2>2. Paced(r, d, u, delay)'
    <3>1. t \in Nat /\ u \in Nat /\ t <= u /\ Paced(r, d, t, delay)
      BY <1>1, <2>1
    <3> QED
      BY <3>1, PacedKept
  <2> QED
    BY <1>2, <2>1, <2>2 DEF Paced
<1>3. CASE instant' = instant /\ Recent(instant, instant, throttle.delay)'
  <2>1. PICK k \in AnswersFor(instant, instant)' :
           /\ robotsFetched'[k].file.delay # NoDelay
           /\ throttle'.delay = DelayOf(robotsFetched'[k].file)
    BY <1>3 DEF Recent
  <2>2. robotsFetched'[k].at \in Nat /\ RobotsTtl \in Nat
    <3>1. k \in DOMAIN robotsFetched'
      BY <2>1 DEF AnswersFor
    <3>2. robotsFetched'[k] \in RobotsReply
      BY <1>1, <3>1
    <3> QED
      BY <3>2, CrawlConstants DEF RobotsReply
  <2>3. k \in AnswersFor(d, instant)'
    BY <1>1, <1>3, <2>1, <2>2 DEF AnswersFor
  <2> QED
    BY <2>1, <2>3 DEF Paced, Recent
<1> QED
  BY <1>1, <1>2, <1>3 DEF DelayStep

\* A get that was polite and permitted stays so, though others start and end.
LEMMA GotKept ==
    ASSUME CrawlInv, CrawlNext, throttle'.last \in Nat, throttle.last <= throttle'.last,
           \/ throttle'.last = instant
           \/ \A j \in DOMAIN gets : gets'[j].end = gets[j].end,
           NEW i \in DOMAIN gets
    PROVE  i \in DOMAIN gets' /\ Got(i)'
<1>1. /\ i \in DOMAIN gets' /\ DOMAIN gets \subseteq DOMAIN gets'
      /\ gets'[i].start = gets[i].start /\ gets'[i].granted = gets[i].granted
      /\ gets'[i].delay = gets[i].delay /\ gets'[i].asked = gets[i].asked
      /\ gets'[i].decided = gets[i].decided /\ gets'[i].file = gets[i].file
      /\ \/ gets'[i].end = gets[i].end
         \/ gets[i].end = NotYet /\ gets'[i].end = instant
  BY CrawlSteps, GetsKept DEF CrawlStep
<1>2. /\ gets[i].start \in Nat /\ gets[i].end \in Nat /\ gets[i].granted \in Nat
      /\ gets[i].delay \in Nat /\ gets[i].asked \in Nat /\ gets[i].decided \in Nat
      /\ instant \in Nat /\ throttle.last \in Nat
      /\ instant' \in Nat /\ instant <= instant'
  BY CrawlFacts, CrawlSteps DEF CrawlInv, CrawlStep
<1>3. Got(i)
  BY DEF CrawlInv
<1>4. PICK a \in Nat, d \in Nat, g \in Nat, s \in Nat, delay \in Nat, r \in {gets[i].file} :
         /\ a = gets[i].asked /\ d = gets[i].decided /\ g = gets[i].granted
         /\ s = gets[i].start /\ delay = gets[i].delay /\ r = gets[i].file
  BY <1>2
<1>5. AskedInTime(a)' /\ Permitted(d, r)' /\ Paced(r, d, g, delay)'
  <2>1. AskedInTime(a) /\ Permitted(d, r) /\ Paced(r, d, g, delay) /\ g <= g
    BY <1>3, <1>4 DEF Got
  <2> QED
    BY <2>1, AskedKept, PermittedKept, PacedKept
<1>6. gets'[i].granted <= instant'
  BY <1>1, <1>2, <1>3 DEF Got
<1>7. gets'[i].end <= throttle'.last
  BY <1>1, <1>2, <1>3 DEF Got, NotYet
<1>8. ASSUME NEW j \in Under(i)'
      PROVE  Turn(j, g, s, delay)'
  <2>1. j \in Under(i)
    <3>1. /\ DOMAIN gets = 1..Len(gets) /\ Len(gets) \in Nat
          /\ DOMAIN gets' = 1..Len(gets') /\ Len(gets') \in Nat
      BY CrawlFacts, CrawlSteps, GetsKept DEF CrawlInv, CrawlStep
    <3> QED
      BY <3>1 DEF Under
  <2>2. j \in DOMAIN gets
    BY <2>1 DEF Under
  <2>3. g <= instant /\ Turn(j, g, s, delay)
    BY <1>3, <1>4, <2>1 DEF Got
  <2> QED
    BY <2>2, <2>3, TurnKept
<1> QED
  BY <1>1, <1>4, <1>5, <1>6, <1>7, <1>8 DEF Got

\* A fetch that does not move keeps what it has; a get that starts meanwhile
\* has not ended, and needs a second slot if the fetch is asleep with one.
LEMMA FetchKept ==
    ASSUME CrawlInv, CrawlNext, NEW f \in Crawlers, NEW c, c = crawler[f],
           c.at = "sleep" => \A j \in DOMAIN gets' \ DOMAIN gets :
                                 slots # 1 /\ gets'[j].end = NotYet
    PROVE  Fetching(c)'
<1>1. Fetching(c) /\ CrawlTypes
  BY DEF CrawlInv
<1>2. instant \in Nat /\ instant' \in Nat /\ instant <= instant' /\ slots' = slots
  BY <1>1, CrawlSteps, CrawlFacts DEF CrawlStep
<1>3. c.at \notin {"idle", "get"} => AskedInTime(c.asked)'
  <2>1. c.at \notin {"idle", "get"} => c.asked \in Nat /\ AskedInTime(c.asked)
    BY <1>1, CrawlerAt DEF Fetching, Asking, Querying, Answering, Allowed, Sleeping
  <2> QED
    BY <2>1, AskedKept
<1>4. c.at \in {"slot", "pace", "sleep"} => c.decided \in Nat /\ Permitted(c.decided, c.file)
  BY <1>1, CrawlerAt DEF Fetching, Allowed, Sleeping
<1>5. c.at \in {"slot", "pace", "sleep"} => Permitted(c.decided, c.file)'
  BY <1>4, PermittedKept
<1>6. c.at \in {"slot", "pace"} => Paced(c.file, c.decided, instant, throttle.delay)'
  <2>1. c.at \in {"slot", "pace"} => Paced(c.file, c.decided, instant, throttle.delay)
    BY <1>1 DEF Fetching
  <2>2. c.at \in {"slot", "pace"} => c.decided \in Nat /\ c.decided <= instant
    BY <1>4 DEF Permitted
  <2> QED
    BY <2>1, <2>2, DelayKept
<1>7. ASSUME c.at = "sleep"
      PROVE  /\ c.granted <= instant' /\ Paced(c.file, c.decided, c.granted, c.delay)'
             /\ \A j \in DOMAIN gets' : Turn(j, c.granted, c.wake, c.delay)'
  <2>1. /\ c.granted \in Nat /\ c.wake \in Nat /\ c.delay \in Nat /\ c.decided \in Nat
        /\ c.granted <= instant /\ Paced(c.file, c.decided, c.granted, c.delay)
        /\ \A j \in DOMAIN gets : Turn(j, c.granted, c.wake, c.delay)
    BY <1>1, <1>7, CrawlerAt DEF Fetching, Sleeping
  <2>2. ASSUME NEW j \in DOMAIN gets
        PROVE  Turn(j, c.granted, c.wake, c.delay)'
    BY <2>1, TurnKept
  <2>3. ASSUME NEW j \in DOMAIN gets', j \notin DOMAIN gets
        PROVE  Turn(j, c.granted, c.wake, c.delay)'
    <3>1. slots' # 1 /\ gets'[j].end = 0
      BY <1>2, <1>7, <2>3 DEF NotYet
    <3>2. ~(gets'[j].end \in 1..(c.granted - 1))
      BY <2>1, <3>1
    <3> QED
      BY <3>1, <3>2 DEF Turn
  <2>4. c.granted <= c.granted
    BY <2>1
  <2>5. Paced(c.file, c.decided, c.granted, c.delay)'
    BY <2>1, <2>4, PacedKept
  <2> QED
    BY <1>2, <2>1, <2>2, <2>3, <2>5
<1> QED
  BY <1>3, <1>5, <1>6, <1>7 DEF Fetching

\* One fetch moves and the pages got are the same.
LEMMA ActorKeeps ==
    ASSUME CrawlInv, CrawlNext, NEW f \in Crawlers, NEW c,
           crawler' = [crawler EXCEPT ![f] = c], Fetching(c)',
           gets' = gets, throttle'.last = throttle.last,
           CrawlTypes', SlotsInv', RobotsInv'
    PROVE  CrawlInv'
<1>1. crawler \in [Crawlers -> Crawling]
  BY DEF CrawlInv, CrawlTypes
<1>2. ASSUME NEW g \in Crawlers
      PROVE  Fetching(crawler[g])'
  <2>1. CASE g = f
    BY <1>1, <2>1
  <2>2. CASE g # f
    <3>1. PICK d : d = crawler[g]
      OBVIOUS
    <3>2. Fetching(d)'
      BY <3>1, FetchKept
    <3>3. crawler'[g] = d
      BY <1>1, <2>2, <3>1
    <3> QED
      BY <3>2, <3>3
  <2> QED
    BY <2>1, <2>2
<1>3. ASSUME NEW i \in DOMAIN gets
      PROVE  Got(i)'
  <2>1. throttle'.last \in Nat /\ throttle.last <= throttle'.last
    BY CrawlFacts DEF CrawlInv
  <2> QED
    BY <2>1, GotKept
<1> QED
  BY <1>2, <1>3 DEF CrawlInv

LEMMA SlotsSame ==
    ASSUME CrawlInv, NEW f \in Crawlers, NEW c,
           crawler' = [crawler EXCEPT ![f] = c], crawler[f].at # "get", c.at # "get",
           f \in Holding <=> c.at \in {"pace", "sleep"},
           gets' = gets, slots' = slots, throttle'.free = throttle.free,
           cancelled'.lost = cancelled.lost
    PROVE  SlotsInv'
<1>1. crawler \in [Crawlers -> Crawling]
  BY DEF CrawlInv, CrawlTypes
<1>2. /\ crawler'[f] = c
      /\ \A g \in Crawlers : g # f => crawler'[g] = crawler[g]
  BY <1>1
<1>3. Holding' = Holding
  BY <1>2 DEF Holding
<1>4. Ongoing' = Ongoing
  BY DEF Ongoing
<1>5. /\ IsFiniteSet(Holding') /\ IsFiniteSet(Ongoing')
      /\ Cardinality(Holding') + Cardinality(Ongoing') + throttle'.free + cancelled'.lost
             = slots'
  BY <1>3, <1>4 DEF CrawlInv, SlotsInv
<1>6. \A g \in Crawlers : crawler'[g].at = "get" => /\ crawler'[g] = crawler[g]
                                                    /\ crawler[g].at = "get"
  BY <1>2
<1>7. /\ \A g \in Crawlers : crawler[g].at = "get" => crawler[g].number \in Ongoing
      /\ \A g, h \in Crawlers :
            (crawler[g].at = "get" /\ crawler[h].at = "get" /\ g # h)
                => crawler[g].number # crawler[h].number
  BY DEF CrawlInv, SlotsInv
<1>8. \A g \in Crawlers : crawler'[g].at = "get" => crawler'[g].number \in Ongoing'
  BY <1>4, <1>6, <1>7
<1>9. \A g, h \in Crawlers :
            (crawler'[g].at = "get" /\ crawler'[h].at = "get" /\ g # h)
                => crawler'[g].number # crawler'[h].number
  BY <1>6, <1>7
<1> QED
  BY <1>5, <1>8, <1>9 DEF SlotsInv

LEMMA RobotsSame ==
    ASSUME CrawlInv, NEW f \in Crawlers, NEW c,
           crawler' = [crawler EXCEPT ![f] = c], c.at \notin {"fetching", "answered"},
           robotsLock' \in {robotsLock, robotsLock \ {f}},
           UNCHANGED <<site, siteAt, robotsCache, robotsFetched, instant>>
    PROVE  RobotsInv'
<1>1. crawler \in [Crawlers -> Crawling]
  BY DEF CrawlInv, CrawlTypes
<1>2. ASSUME NEW g \in Crawlers, crawler'[g].at \in {"fetching", "answered"}
      PROVE  robotsLock' = {g} /\ Questioning(crawler[g])'
  <2>1. crawler'[g] = crawler[g] /\ g # f
    BY <1>1, <1>2
  <2>2. robotsLock = {g} /\ Questioning(crawler[g])
    BY <1>2, <2>1 DEF CrawlInv, RobotsInv
  <2> QED
    BY <2>1, <2>2 DEF Questioning, ServedBetween
<1>3. RobotsInv
  BY DEF CrawlInv
<1>4. \A k \in DOMAIN robotsFetched : robotsFetched[k].at <= instant /\ Replied(k)'
  BY <1>3 DEF RobotsInv, Replied, ServedBetween
<1> QED
  BY <1>2, <1>3, <1>4 DEF RobotsInv

\* What changes when a fetch moves and robots.txt is not fetched.
LEMMA TypesKept ==
    ASSUME CrawlInv, NEW f \in Crawlers, NEW c \in Crawling,
           crawler' = [crawler EXCEPT ![f] = c],
           UNCHANGED <<slots, site, siteAt, optOut, robotsCache, robotsFetched, instant>>,
           throttle' \in HostState, cancelled' \in [times : Nat, lost : Nat],
           throttle'.delay >= DefaultDelay, throttle'.last <= instant,
           gets' \in Seq(Get)
    PROVE  CrawlTypes'
  BY DEF CrawlInv, CrawlTypes

\* What a fetch does with an answer: it gives up, or goes on with a permission.
LEMMA Decided ==
    ASSUME CrawlInv, CrawlNext, NEW f \in Crawlers, NEW a \in Nat, AskedInTime(a),
           NEW r \in Files, Decide(f, a, r), instant' = instant, OnFile(instant, r)'
    PROVE  \E c \in {Idling} \cup Allowed :
              /\ c.at \in {"idle", "slot"}
              /\ crawler' = [crawler EXCEPT ![f] = c] /\ Fetching(c)'
<1>1. CASE r.available /\ PageAsked \notin r.forbids
  <2>1. PICK t \in Nat : t = instant
    BY CrawlFacts DEF CrawlInv
  <2>2. PICK c : c = [at |-> "slot", asked |-> a, decided |-> t, file |-> r]
    OBVIOUS
  <2>3. /\ c \in Allowed /\ c.at = "slot" /\ c.asked = a /\ c.decided = t
        /\ c.file = r
    BY <2>2 DEF Allowed
  <2>4. crawler' = [crawler EXCEPT ![f] = c]
    BY <1>1, <2>1, <2>2 DEF Decide
  <2>5. AskedInTime(a)'
    BY AskedKept
  <2>6. Permitted(t, r)'
    BY <1>1, <2>1 DEF Permitted
  <2>7. Paced(r, t, instant, throttle.delay)'
    BY <1>1, <2>1, DecisionPaces DEF Paced
  <2>8. Fetching(c)'
    BY <2>3, <2>5, <2>6, <2>7 DEF Fetching
  <2> QED
    BY <2>3, <2>4, <2>8
<1>2. CASE ~(r.available /\ PageAsked \notin r.forbids)
  <2>1. crawler' = [crawler EXCEPT ![f] = Idling]
    BY <1>2 DEF Decide
  <2>2. Idling.at = "idle" /\ Fetching(Idling)'
    BY DEF Idling, Fetching
  <2> QED
    BY <2>1, <2>2
<1> QED
  BY <1>1, <1>2

LEMMA BeginCachedKeeps ==
    ASSUME CrawlInv, NEW f \in Crawlers, NEW a \in Nat, CrawlNext,
           crawler[f].at \in {"idle", "queue"}, AskedInTime(a),
           RobotsFresh, Decide(f, a, robotsCache.result),
           UNCHANGED <<slots, site, siteAt, optOut, robotsCache, robotsLock, robotsFetched,
                       gets, cancelled, instant>>
    PROVE  CrawlInv'
<1>1. PICK r : r = robotsCache.result
  OBVIOUS
<1>2. r \in Files /\ OnFile(instant, r)
  BY <1>1, CacheKnown
<1>3. OnFile(instant, r)'
  BY <1>2 DEF OnFile, AnswersFor
<1>4. f \notin Holding /\ instant \in Nat
  BY CrawlFacts DEF Holding, CrawlInv
<1>5. PICK c \in {Idling} \cup Allowed :
         /\ c.at \in {"idle", "slot"}
         /\ crawler' = [crawler EXCEPT ![f] = c] /\ Fetching(c)'
  BY <1>1, <1>2, <1>3, Decided
<1>6. /\ throttle' \in HostState /\ throttle'.delay >= DefaultDelay
      /\ throttle'.last = throttle.last /\ throttle'.free = throttle.free
  BY <1>1, <1>2, <1>3, DecisionPaces
<1>7. c \in Crawling
  BY DEF Crawling
<1>8. CrawlTypes'
  BY <1>5, <1>6, <1>7, TypesKept DEF CrawlInv, CrawlTypes
<1>9. SlotsInv'
  BY <1>4, <1>5, <1>6, SlotsSame
<1>10. RobotsInv'
  BY <1>5, RobotsSame
<1> QED
  BY <1>5, <1>6, <1>8, <1>9, <1>10, ActorKeeps

\* A fetch waits on, or gives up, and holds no slot: its state is c from now on.
LEMMA MovesOn ==
    ASSUME CrawlInv, CrawlNext, NEW f \in Crawlers, NEW c \in Crawling,
           crawler' = [crawler EXCEPT ![f] = c], f \notin Holding,
           crawler[f].at # "get", c.at \in {"idle", "queue", "fetching", "answered"},
           c.at # "idle" => c.asked \in Nat /\ AskedInTime(c.asked),
           UNCHANGED <<slots, site, siteAt, optOut, robotsCache, robotsFetched, gets, instant>>,
           cancelled' \in [times : Nat, lost : Nat], cancelled'.lost = cancelled.lost,
           throttle' \in HostState, throttle'.delay = throttle.delay,
           throttle'.last = throttle.last, throttle'.free = throttle.free,
           RobotsInv'
    PROVE  CrawlInv'
<1>1. CrawlTypes'
  BY TypesKept DEF CrawlInv, CrawlTypes
<1>2. Fetching(c)'
  <2>1. c.at # "idle" => AskedInTime(c.asked)'
    BY AskedKept
  <2> QED
    BY <2>1 DEF Fetching
<1>3. SlotsInv'
  BY SlotsSame
<1> QED
  BY <1>1, <1>2, <1>3, ActorKeeps

LEMMA BeginFetchKeeps ==
    ASSUME CrawlInv, NEW f \in Crawlers, BeginFetch(f)
    PROVE  CrawlInv'
<1>1. PICK t \in Nat : t = instant
  BY CrawlFacts DEF CrawlInv
<1>2. /\ crawler[f].at = "idle" /\ ~OptedOut
      /\ UNCHANGED <<slots, site, siteAt, optOut, robotsCache, robotsLock, robotsFetched,
                     gets, cancelled, instant>>
  BY DEF BeginFetch, MayFetch
<1>3. CrawlNext
  BY DEF CrawlNext
<1>4. AskedInTime(t)
  BY <1>1, <1>2, CrawlFacts, CrawlConstants DEF AskedInTime, OptedOut, CrawlInv
<1>5. CASE RobotsFresh
  <2>1. Decide(f, t, robotsCache.result)
    BY <1>1, <1>5 DEF BeginFetch
  <2> QED
    BY <1>2, <1>3, <1>4, <1>5, <2>1, BeginCachedKeeps
<1>6. CASE ~RobotsFresh
  <2>1. PICK c : c = [at |-> "queue", asked |-> t]
    OBVIOUS
  <2>2. c \in Crawling /\ c.at = "queue" /\ c.asked = t
    BY <2>1 DEF Crawling, Asking
  <2>3. crawler' = [crawler EXCEPT ![f] = c] /\ throttle' = throttle
    BY <1>1, <1>6, <2>1 DEF BeginFetch
  <2>4. f \notin Holding
    BY <1>2 DEF Holding
  <2>5. RobotsInv'
    BY <1>2, <2>2, <2>3, RobotsSame
  <2>6. throttle \in HostState /\ cancelled \in [times : Nat, lost : Nat]
    BY DEF CrawlInv, CrawlTypes
  <2> QED
    BY <1>2, <1>3, <1>4, <2>2, <2>3, <2>4, <2>5, <2>6, MovesOn
<1> QED
  BY <1>5, <1>6

LEMMA CachedRobotsKeeps ==
    ASSUME CrawlInv, NEW f \in Crawlers, CachedRobots(f)
    PROVE  CrawlInv'
<1>1. crawler[f] \in Asking /\ crawler[f].at = "queue"
  BY CrawlerAt DEF CachedRobots, CrawlInv
<1>2. PICK a \in Nat : a = crawler[f].asked
  BY <1>1 DEF Asking
<1>3. AskedInTime(a)
  BY <1>1, <1>2 DEF CrawlInv, Fetching
<1>4. CrawlNext
  BY DEF CrawlNext
<1>5. /\ RobotsFresh /\ Decide(f, a, robotsCache.result)
      /\ UNCHANGED <<slots, site, siteAt, optOut, robotsCache, robotsLock, robotsFetched,
                     gets, cancelled, instant>>
  BY <1>2 DEF CachedRobots
<1> QED
  BY <1>1, <1>3, <1>4, <1>5, BeginCachedKeeps

LEMMA FetchRobotsKeeps ==
    ASSUME CrawlInv, NEW f \in Crawlers, FetchRobots(f)
    PROVE  CrawlInv'
<1>1. /\ crawler[f].at = "queue" /\ crawler[f] \in Asking
      /\ robotsLock = {} /\ robotsLock' = {f} /\ ~RobotsFresh
      /\ crawler' = [crawler EXCEPT ![f] =
             [at |-> "fetching", asked |-> crawler[f].asked, from |-> instant]]
      /\ UNCHANGED <<slots, site, siteAt, optOut, robotsCache, robotsFetched,
                     throttle, gets, cancelled, instant>>
      /\ crawler \in [Crawlers -> Crawling]
      /\ throttle \in HostState /\ cancelled \in [times : Nat, lost : Nat]
  <2>1. crawler \in [Crawlers -> Crawling]
    BY DEF CrawlInv, CrawlTypes
  <2> QED
    BY <2>1, CrawlerAt DEF FetchRobots, AskForRobots, CrawlInv, CrawlTypes
<1>2. PICK t \in Nat : t = instant /\ t >= 1
  BY CrawlFacts DEF CrawlInv
<1>3. PICK c : c = [at |-> "fetching", asked |-> crawler[f].asked, from |-> t]
  OBVIOUS
<1>4. /\ c \in Crawling /\ c.at = "fetching" /\ c.asked \in Nat /\ c.from = t
      /\ AskedInTime(c.asked)
  BY <1>1, <1>2, <1>3 DEF Crawling, Asking, Querying, CrawlInv, Fetching
<1>5. crawler' = [crawler EXCEPT ![f] = c] /\ f \notin Holding
  BY <1>1, <1>2, <1>3 DEF Holding
<1>6. CrawlNext
  BY DEF CrawlNext
<1>7. RobotsInv'
  <2>1. RobotsInv
    BY DEF CrawlInv
  <2>2. Questioning(c)'
    <3>1. robotsCache.at \in Nat /\ RobotsTtl \in Nat
      BY CrawlConstants DEF CrawlInv, CrawlTypes, RobotsCached, NotYet
    <3>2. robotsCache.at # NotYet => t >= robotsCache.at + RobotsTtl
      BY <1>1, <1>2, <3>1 DEF RobotsFresh
    <3> QED
      BY <1>1, <1>2, <1>4, <3>2 DEF Questioning
  <2>3. ASSUME NEW g \in Crawlers, crawler'[g].at \in {"fetching", "answered"}
        PROVE  robotsLock' = {g} /\ Questioning(crawler[g])'
    <3>1. g = f
      <4>1. SUFFICES ASSUME g # f
                     PROVE  FALSE
        OBVIOUS
      <4>2. crawler[g].at \in {"fetching", "answered"}
        BY <1>1, <1>5, <2>3, <4>1
      <4>3. robotsLock = {g}
        BY <2>1, <4>2 DEF RobotsInv
      <4> QED
        BY <1>1, <4>3
    <3>2. crawler'[g] = c
      BY <1>1, <1>5, <3>1
    <3> QED
      BY <1>1, <2>2, <3>1, <3>2
  <2>4. \A k \in DOMAIN robotsFetched : robotsFetched[k].at <= instant /\ Replied(k)'
    BY <1>1, <2>1 DEF RobotsInv, Replied, ServedBetween
  <2> QED
    BY <1>1, <2>1, <2>3, <2>4 DEF RobotsInv
<1> QED
  BY <1>1, <1>4, <1>5, <1>6, <1>7, MovesOn

LEMMA RobotsServedKeeps ==
    ASSUME CrawlInv, NEW f \in Crawlers, RobotsServed(f)
    PROVE  CrawlInv'
<1>1. PICK r \in {site.file, Unavailable} : crawler' = [crawler EXCEPT ![f] =
          [at |-> "answered", asked |-> crawler[f].asked, from |-> crawler[f].from,
           file |-> r]]
  BY DEF RobotsServed, CrawlInv, CrawlTypes
<1>2. /\ crawler[f].at = "fetching" /\ crawler[f] \in Querying
      /\ UNCHANGED <<slots, site, siteAt, optOut, robotsCache, robotsLock, robotsFetched,
                     throttle, gets, cancelled, instant>>
      /\ crawler \in [Crawlers -> Crawling]
      /\ throttle \in HostState /\ cancelled \in [times : Nat, lost : Nat]
      /\ site \in [file : RobotsFiles, changes : Nat]
  <2>1. crawler \in [Crawlers -> Crawling]
    BY DEF CrawlInv, CrawlTypes
  <2> QED
    BY <2>1, CrawlerAt DEF RobotsServed, CrawlInv, CrawlTypes
<1>3. PICK c : c = [at |-> "answered", asked |-> crawler[f].asked, from |-> crawler[f].from,
                    file |-> r]
  OBVIOUS
<1>4. r \in Files
  BY <1>2 DEF Files
<1>5. /\ c \in Crawling /\ c.at = "answered" /\ c.asked \in Nat /\ c.from = crawler[f].from
      /\ c.file = r /\ AskedInTime(c.asked)
  BY <1>2, <1>3, <1>4 DEF Crawling, Querying, Answering, CrawlInv, Fetching
<1>6. crawler' = [crawler EXCEPT ![f] = c] /\ f \notin Holding
  BY <1>1, <1>2, <1>3 DEF Holding
<1>7. CrawlNext
  BY DEF CrawlNext
<1>8. RobotsInv'
  <2>1. RobotsInv /\ robotsLock = {f} /\ Questioning(crawler[f])
    BY <1>2 DEF CrawlInv, RobotsInv
  <2>2. r.available => r \in ServedBetween(c.from, instant)
    <3>1. r.available => r \in siteAt[instant]
      BY <2>1, CrawlConstants DEF RobotsInv
    <3>2. instant \in c.from..instant
      BY <1>5, <2>1, CrawlFacts DEF Questioning, CrawlInv
    <3> QED
      BY <3>1, <3>2 DEF ServedBetween
  <2>3. Questioning(c)'
    BY <1>2, <1>5, <2>1, <2>2 DEF Questioning, ServedBetween
  <2>4. ASSUME NEW g \in Crawlers, crawler'[g].at \in {"fetching", "answered"}
        PROVE  robotsLock' = {g} /\ Questioning(crawler[g])'
    <3>1. CASE g = f
      <4>1. crawler'[g] = c
        BY <1>2, <1>6, <3>1
      <4> QED
        BY <1>2, <2>1, <2>3, <3>1, <4>1
    <3>2. CASE g # f
      <4>1. crawler[g].at \in {"fetching", "answered"}
        BY <1>2, <1>6, <2>4, <3>2
      <4>2. robotsLock = {g}
        BY <2>1, <4>1 DEF RobotsInv
      <4> QED
        BY <2>1, <3>2, <4>2
    <3> QED
      BY <3>1, <3>2
  <2>5. ASSUME NEW k \in DOMAIN robotsFetched
        PROVE  robotsFetched[k].at <= instant /\ Replied(k)'
    <3>1. robotsFetched[k].at <= instant /\ Replied(k)
      BY <2>1 DEF RobotsInv
    <3>2. robotsFetched' = robotsFetched /\ siteAt' = siteAt
      BY <1>2
    <3>3. Replied(k)'
      BY ONLY <3>1, <3>2 DEF Replied, ServedBetween
    <3> QED
      BY <3>1, <3>3
  <2> QED
    BY <1>2, <2>1, <2>4, <2>5 DEF RobotsInv
<1> QED
  BY <1>2, <1>5, <1>6, <1>7, <1>8, MovesOn

LEMMA RobotsAnsweredKeeps ==
    ASSUME CrawlInv, NEW f \in Crawlers, RobotsAnswered(f)
    PROVE  CrawlInv'
<1>1. PICK r : r = crawler[f].file
  OBVIOUS
<1>2. /\ crawler[f].at = "answered" /\ robotsLock' = {}
      /\ robotsCache' = [at |-> instant, result |-> r]
      /\ Decide(f, crawler[f].asked, r)
      /\ UNCHANGED <<slots, site, siteAt, optOut, gets, cancelled, instant>>
  BY <1>1 DEF RobotsAnswered
<1>3. CrawlNext
  BY DEF CrawlNext
<1>4. /\ crawler[f] \in Answering /\ r \in Files
      /\ RepliesGrow /\ OnFile(instant, r)'
  BY <1>1, ReplyArrives
<1>5. PICK n \in Nat : n = Len(robotsFetched)
  BY RepliesTyped DEF CrawlInv
<1>6. PICK q : q = [from |-> crawler[f].from, at |-> instant, file |-> r]
  OBVIOUS
<1>7. /\ Len(robotsFetched') = n + 1 /\ DOMAIN robotsFetched' = 1..(n + 1)
      /\ robotsFetched'[n + 1] = q
      /\ \A k \in 1..n : robotsFetched'[k] = robotsFetched[k]
      /\ robotsFetched' \in Seq(RobotsReply) /\ DOMAIN robotsFetched = 1..n
  <2>1. DOMAIN robotsFetched = 1..n
    BY <1>5, RepliesTyped DEF CrawlInv
  <2> QED
    BY <1>1, <1>4, <1>5, <1>6, <2>1, ReplyArrives DEF RepliesGrow
<1>8. PICK a \in Nat : a = crawler[f].asked
  BY <1>4 DEF Answering
<1>9. AskedInTime(a) /\ f \notin Holding
  BY <1>2, <1>8 DEF CrawlInv, Fetching, Holding
<1>10. PICK c \in {Idling} \cup Allowed :
         /\ c.at \in {"idle", "slot"}
         /\ crawler' = [crawler EXCEPT ![f] = c] /\ Fetching(c)'
  BY <1>2, <1>3, <1>4, <1>8, <1>9, Decided
<1>11. /\ throttle' \in HostState /\ throttle'.delay >= DefaultDelay
       /\ throttle'.last = throttle.last /\ throttle'.free = throttle.free
  BY <1>2, <1>4, DecisionPaces
<1>12. instant \in Nat /\ instant >= 1 /\ RobotsTtl \in Nat \ {0}
  BY CrawlFacts, CrawlConstants DEF CrawlInv
<1>13. CrawlTypes'
  <2>1. c \in Crawling
    BY DEF Crawling
  <2>2. crawler' \in [Crawlers -> Crawling]
    BY <1>10, <2>1 DEF CrawlInv, CrawlTypes
  <2>3. robotsCache' \in RobotsCached
    BY <1>2, <1>4, <1>12 DEF RobotsCached
  <2>4. throttle'.last <= instant
    BY <1>11 DEF CrawlInv, CrawlTypes
  <2> QED
    BY <1>2, <1>7, <1>11, <2>2, <2>3, <2>4 DEF CrawlInv, CrawlTypes
<1>14. SlotsInv'
  BY <1>2, <1>9, <1>10, <1>11, SlotsSame
<1>15. RobotsInv'
  <2>1. /\ RobotsInv /\ robotsLock = {f} /\ Questioning(crawler[f])
    BY <1>2 DEF CrawlInv, RobotsInv
  <2>2. ASSUME NEW g \in Crawlers
        PROVE  crawler'[g].at \notin {"fetching", "answered"}
    <3>1. crawler'[g] = IF g = f THEN c ELSE crawler[g]
      BY <1>10 DEF CrawlInv, CrawlTypes
    <3>2. g # f => crawler[g].at \notin {"fetching", "answered"}
      BY <2>1 DEF RobotsInv
    <3> QED
      BY <1>10, <3>1, <3>2
  <2>3. q.from = crawler[f].from /\ q.at = instant /\ q.file = r
    BY <1>6
  <2>4. ASSUME NEW k \in 1..n
        PROVE  robotsFetched'[k].at <= instant /\ Replied(k)'
    <3>1. k \in DOMAIN robotsFetched /\ robotsFetched[k].at <= instant /\ Replied(k)
      BY <1>7, <2>1 DEF RobotsInv
    <3>2. robotsFetched'[k] = robotsFetched[k]
      BY <1>7
    <3>3. k > 1 => robotsFetched'[k - 1] = robotsFetched[k - 1]
      BY <1>7
    <3> QED
      BY <1>2, <3>1, <3>2, <3>3 DEF Replied, ServedBetween
  <2>5. Replied(n + 1)'
    <3>1. n + 1 > 1 => /\ robotsFetched'[n] = robotsFetched[n]
                       /\ robotsCache.at = robotsFetched[n].at
                       /\ robotsFetched[n].at # NotYet
      <4>1. ASSUME n >= 1
            PROVE  /\ robotsFetched'[n] = robotsFetched[n]
                   /\ robotsCache.at = robotsFetched[n].at
                   /\ robotsFetched[n].at # NotYet
        <5>1. n \in DOMAIN robotsFetched /\ robotsFetched # <<>>
          BY <1>7, <4>1
        <5>2. robotsFetched[n].at \in Nat \ {0}
          BY <5>1, RepliesTyped DEF CrawlInv
        <5> QED
          BY <1>5, <1>7, <2>1, <4>1, <5>1, <5>2 DEF RobotsInv, NotYet
      <4> QED
        BY <4>1
    <3>2. n + 1 > 1 => q.from >= robotsFetched[n].at + RobotsTtl
      BY <2>1, <2>3, <3>1 DEF Questioning
    <3>3. r.available => r \in ServedBetween(q.from, instant)
      BY <1>1, <1>2, <2>1, <2>3 DEF Questioning
    <3>4. n + 1 - 1 = n
      OBVIOUS
    <3> QED
      BY <1>2, <1>7, <2>3, <3>1, <3>2, <3>3, <3>4 DEF Replied, ServedBetween
  <2>6. \A k \in DOMAIN robotsFetched' : robotsFetched'[k].at <= instant' /\ Replied(k)'
    BY <1>2, <1>7, <1>12, <2>3, <2>4, <2>5
  <2>7. robotsFetched' # <<>> /\ robotsFetched'[Len(robotsFetched')] = q
    BY <1>7
  <2>8. robotsCache'.at = instant /\ robotsCache'.result = r
    BY <1>2
  <2>9. robotsCache'.at <= instant' /\ site'.file \in siteAt'[instant']
    BY <1>2, <1>12, <2>1, <2>8 DEF RobotsInv
  <2> QED
    BY <2>2, <2>3, <2>6, <2>7, <2>8, <2>9 DEF RobotsInv
<1> QED
  BY <1>2, <1>3, <1>10, <1>11, <1>13, <1>14, <1>15, ActorKeeps

LEMMA OneSlot ==
    ASSUME CrawlInv, slots = 1, NEW f \in Holding
    PROVE  /\ \A g \in Holding : g = f
           /\ \A j \in DOMAIN gets : gets[j].end # NotYet
<1>1. /\ IsFiniteSet(Holding) /\ IsFiniteSet(Ongoing) /\ throttle.free \in Nat
      /\ cancelled.lost \in Nat
      /\ Cardinality(Holding) + Cardinality(Ongoing) + throttle.free + cancelled.lost = 1
  BY CrawlFacts DEF CrawlInv, SlotsInv
<1>2. /\ IsFiniteSet(Holding \ {f}) /\ Cardinality(Holding \ {f}) = Cardinality(Holding) - 1
  BY <1>1, FS_RemoveElement
<1>3. /\ Cardinality(Holding) \in Nat /\ Cardinality(Ongoing) \in Nat
      /\ Cardinality(Holding \ {f}) \in Nat
  BY <1>1, <1>2, FS_CardinalityType
<1>4. Cardinality(Holding \ {f}) = 0 /\ Cardinality(Ongoing) = 0
  <2>1. PICK h, i, j, k \in Nat : /\ h = Cardinality(Holding \ {f}) /\ i = Cardinality(Ongoing)
                                 /\ j = throttle.free /\ k = cancelled.lost
    BY <1>1, <1>3
  <2>2. Cardinality(Holding) = h + 1
    BY <1>2, <1>3, <2>1
  <2>3. h + 1 + i + j + k = 1
    BY <1>1, <2>1, <2>2
  <2>4. h = 0 /\ i = 0
    BY ONLY <2>3
  <2> QED
    BY <2>1, <2>4
<1>5. Holding \ {f} = {} /\ Ongoing = {}
  BY <1>1, <1>2, <1>4, FS_EmptySet
<1> QED
  BY <1>5 DEF Ongoing

\* What the slots owe to the numbers in the tasks that are getting a page.
GetsApart ==
    /\ \A g \in Crawlers : crawler[g].at = "get" => crawler[g].number \in Ongoing
    /\ \A g, h \in Crawlers :
           (crawler[g].at = "get" /\ crawler[h].at = "get" /\ g # h)
               => crawler[g].number # crawler[h].number

LEMMA SlotsSum ==
    ASSUME CrawlInv
    PROVE  /\ IsFiniteSet(Holding) /\ IsFiniteSet(Ongoing)
           /\ Cardinality(Holding) \in Nat /\ Cardinality(Ongoing) \in Nat
           /\ throttle.free \in Nat /\ cancelled.lost \in Nat /\ slots \in Nat
           /\ Cardinality(Holding) + Cardinality(Ongoing) + throttle.free
                  + cancelled.lost = slots
           /\ GetsApart
<1>1. SlotsInv
  BY DEF CrawlInv
<1> QED
  BY <1>1, CrawlFacts, FS_CardinalityType DEF CrawlInv, SlotsInv, GetsApart

LEMMA TakeSlotKeeps ==
    ASSUME CrawlInv, NEW f \in Crawlers, TakeSlot(f)
    PROVE  CrawlInv'
<1>1. /\ crawler[f].at = "slot" /\ crawler' = [crawler EXCEPT ![f].at = "pace"]
      /\ throttle.free > 0 /\ throttle' = [throttle EXCEPT !.free = throttle.free - 1]
      /\ UNCHANGED <<slots, site, siteAt, optOut, robotsCache, robotsLock, robotsFetched,
                     gets, cancelled, instant>>
      /\ crawler[f] \in Allowed /\ crawler \in [Crawlers -> Crawling]
      /\ throttle \in HostState /\ cancelled \in [times : Nat, lost : Nat]
      /\ throttle.delay >= DefaultDelay /\ throttle.last <= instant
  <2>1. crawler \in [Crawlers -> Crawling]
    BY DEF CrawlInv, CrawlTypes
  <2> QED
    BY <2>1, CrawlerAt DEF TakeSlot, CrawlInv, CrawlTypes
<1>2. PICK c : c = [crawler[f] EXCEPT !.at = "pace"]
  OBVIOUS
<1>3. /\ c \in Allowed /\ c.at = "pace" /\ c.asked = crawler[f].asked
      /\ c.decided = crawler[f].decided /\ c.file = crawler[f].file
      /\ c.asked \in Nat /\ c.decided \in Nat
  BY <1>1, <1>2 DEF Allowed
<1>4. crawler' = [crawler EXCEPT ![f] = c]
  BY <1>1, <1>2
<1>5. CrawlNext
  BY DEF CrawlNext
<1>6. /\ throttle' \in HostState
      /\ throttle'.delay = throttle.delay /\ throttle'.last = throttle.last
      /\ throttle'.free = throttle.free - 1
  <2>1. PICK n : n = throttle.free - 1
    OBVIOUS
  <2>2. n \in Nat
    BY <1>1, <2>1 DEF HostState
  <2>3. throttle' = [throttle EXCEPT !.free = n]
    BY <1>1, <2>1
  <2>4. /\ throttle' \in HostState /\ throttle'.delay = throttle.delay
        /\ throttle'.last = throttle.last /\ throttle'.free = n
    BY ONLY <1>1, <2>2, <2>3 DEF HostState
  <2> QED
    BY <2>1, <2>4
<1>7. CrawlTypes'
  <2>1. c \in Crawling
    BY <1>3 DEF Crawling
  <2> QED
    BY <1>1, <1>4, <1>6, <2>1, TypesKept DEF CrawlInv, CrawlTypes
<1>8. Fetching(c)'
  <2>1. /\ AskedInTime(c.asked) /\ Permitted(c.decided, c.file)
        /\ Paced(c.file, c.decided, instant, throttle.delay)
    BY <1>1, <1>3 DEF CrawlInv, Fetching
  <2>2. c.decided <= instant
    BY <2>1 DEF Permitted
  <2>3. /\ AskedInTime(c.asked)' /\ Permitted(c.decided, c.file)'
        /\ Paced(c.file, c.decided, instant, throttle.delay)'
    BY <1>3, <1>5, <2>1, <2>2, AskedKept, PermittedKept, DelayKept
  <2> QED
    BY <1>3, <2>3 DEF Fetching
<1>9. SlotsInv'
  <2>1. f \notin Holding
    BY <1>1 DEF Holding
  <2>2. \A g \in Crawlers : crawler'[g] = IF g = f THEN c ELSE crawler[g]
    BY <1>1, <1>4
  <2>3. Holding' = Holding \cup {f}
    BY <1>3, <2>2 DEF Holding
  <2>4. Ongoing' = Ongoing
    BY <1>1 DEF Ongoing
  <2>5. /\ IsFiniteSet(Holding \cup {f})
        /\ Cardinality(Holding \cup {f}) = Cardinality(Holding) + 1
    BY <2>1, SlotsSum, FS_AddElement
  <2>6. /\ IsFiniteSet(Holding') /\ IsFiniteSet(Ongoing')
        /\ Cardinality(Holding') + Cardinality(Ongoing') + throttle'.free
               + cancelled'.lost = slots'
    BY <1>1, <1>6, <2>3, <2>4, <2>5, SlotsSum
  <2>7. \A g \in Crawlers : crawler'[g].at = "get" => /\ crawler'[g] = crawler[g]
                                                      /\ crawler[g].at = "get"
    BY <1>3, <2>2
  <2>8. /\ \A g \in Crawlers : crawler'[g].at = "get" => crawler'[g].number \in Ongoing'
        /\ \A g, h \in Crawlers :
              (crawler'[g].at = "get" /\ crawler'[h].at = "get" /\ g # h)
                  => crawler'[g].number # crawler'[h].number
    BY <2>4, <2>7, SlotsSum DEF GetsApart
  <2> QED
    BY <2>6, <2>8 DEF SlotsInv
<1>10. RobotsInv'
  BY <1>1, <1>3, <1>4, RobotsSame
<1> QED
  BY <1>1, <1>4, <1>5, <1>6, <1>7, <1>8, <1>9, <1>10, ActorKeeps

\* A fetch that holds a slot starts its get.
LEMMA GetStarts ==
    ASSUME CrawlInv, CrawlNext, NEW f \in Holding, NEW g \in Get, g.end = NotYet,
           gets' = Append(gets, g), NEW c, c = [at |-> "get", number |-> Len(gets) + 1],
           crawler' = [crawler EXCEPT ![f] = c],
           throttle' \in HostState,
           throttle'.delay = throttle.delay, throttle'.last = throttle.last,
           throttle'.free = throttle.free,
           UNCHANGED <<slots, site, siteAt, optOut, robotsCache, robotsLock,
                       robotsFetched, cancelled, instant>>,
           AskedInTime(g.asked), Permitted(g.decided, g.file), g.granted <= instant,
           Paced(g.file, g.decided, g.granted, g.delay),
           \A j \in DOMAIN gets : Turn(j, g.granted, g.start, g.delay)
    PROVE  CrawlInv'
<1>1. /\ crawler \in [Crawlers -> Crawling]
      /\ f \in Crawlers /\ crawler[f].at \in {"pace", "sleep"}
      /\ gets \in Seq(Get) /\ throttle.delay >= DefaultDelay
      /\ throttle.last <= instant /\ throttle.last \in Nat
      /\ cancelled \in [times : Nat, lost : Nat]
  BY CrawlFacts DEF CrawlInv, CrawlTypes, Holding
<1>2. PICK n \in Nat : n = Len(gets)
  BY <1>1
<1>3. /\ gets' \in Seq(Get) /\ DOMAIN gets' = 1..(n + 1) /\ DOMAIN gets = 1..n
      /\ gets'[n + 1] = g /\ \A i \in 1..n : gets'[i] = gets[i]
  BY <1>1, <1>2
<1>4. c \in Crawling /\ c.at = "get" /\ c.number = n + 1
  BY <1>2 DEF Crawling, Getting
<1>5. \A h \in Crawlers : crawler'[h] = IF h = f THEN c ELSE crawler[h]
  BY <1>1
<1>6. CrawlTypes'
  BY <1>1, <1>3, <1>4, TypesKept
<1>7. SlotsInv'
  <2>1. Holding' = Holding \ {f}
    BY <1>4, <1>5 DEF Holding
  <2>2. Ongoing' = Ongoing \cup {n + 1} /\ n + 1 \notin Ongoing
    BY <1>3 DEF Ongoing
  <2>3. /\ IsFiniteSet(Holding \ {f}) /\ Cardinality(Holding \ {f}) = Cardinality(Holding) - 1
    BY SlotsSum, FS_RemoveElement
  <2>4. /\ IsFiniteSet(Ongoing \cup {n + 1})
        /\ Cardinality(Ongoing \cup {n + 1}) = Cardinality(Ongoing) + 1
    BY <2>2, SlotsSum, FS_AddElement
  <2>5. /\ IsFiniteSet(Holding') /\ IsFiniteSet(Ongoing')
        /\ Cardinality(Holding') + Cardinality(Ongoing') + throttle'.free
               + cancelled'.lost = slots'
    BY <2>1, <2>2, <2>3, <2>4, SlotsSum
  <2>6. \A h \in Crawlers \ {f} : crawler'[h] = crawler[h]
    BY <1>5
  <2>7. \A h \in Crawlers \ {f} : crawler[h].at = "get" => crawler[h].number \in Ongoing
    BY SlotsSum DEF GetsApart
  <2>8. \A h \in Crawlers : crawler'[h].at = "get" => crawler'[h].number \in Ongoing'
    BY <1>4, <1>5, <2>2, <2>6, <2>7
  <2>9. \A h, k \in Crawlers :
             (crawler'[h].at = "get" /\ crawler'[k].at = "get" /\ h # k)
                 => crawler'[h].number # crawler'[k].number
    BY <1>4, <1>5, <2>2, <2>6, <2>7, SlotsSum DEF GetsApart
  <2> QED
    BY <2>5, <2>8, <2>9 DEF SlotsInv
<1>8. RobotsInv'
  BY <1>1, <1>4, RobotsSame
<1>9. ASSUME NEW h \in Crawlers
      PROVE  Fetching(crawler[h])'
  <2>1. CASE h = f
    <3>1. Fetching(c)'
      BY <1>4 DEF Fetching
    <3> QED
      BY <1>5, <2>1, <3>1
  <2>2. CASE h # f
    <3>1. PICK d : d = crawler[h]
      OBVIOUS
    <3>2. ASSUME d.at = "sleep", NEW j \in DOMAIN gets' \ DOMAIN gets
          PROVE  slots # 1 /\ gets'[j].end = NotYet
      <4>1. h \in Holding
        BY <3>1, <3>2 DEF Holding
      <4>2. slots # 1
        BY <2>2, <4>1, OneSlot
      <4>3. j = n + 1
        BY <1>3
      <4> QED
        BY <1>3, <4>2, <4>3
    <3>3. Fetching(d)'
      BY <3>1, <3>2, FetchKept
    <3> QED
      BY <1>5, <2>2, <3>1, <3>3
  <2> QED
    BY <2>1, <2>2
<1>10. ASSUME NEW i \in DOMAIN gets'
       PROVE  Got(i)'
  <2>1. CASE i \in DOMAIN gets
    <3>1. throttle'.last \in Nat /\ throttle.last <= throttle'.last
      BY <1>1
    <3>2. \A j \in DOMAIN gets : gets'[j].end = gets[j].end
      BY <1>3
    <3> QED
      BY <2>1, <3>1, <3>2, GotKept
  <2>2. CASE i = n + 1
    <3>1. /\ g.asked \in Nat /\ g.decided \in Nat /\ g.granted \in Nat
          /\ g.start \in Nat /\ g.delay \in Nat /\ g.granted <= g.granted
      BY DEF Get
    <3>2. /\ AskedInTime(g.asked)' /\ Permitted(g.decided, g.file)'
          /\ Paced(g.file, g.decided, g.granted, g.delay)'
      BY <3>1, AskedKept, PermittedKept, PacedKept
    <3>3. gets'[i] = g /\ g.granted <= instant' /\ gets'[i].end <= throttle'.last
      BY <1>1, <1>3, <2>2 DEF NotYet
    <3>4. ASSUME NEW j \in Under(i)'
          PROVE  Turn(j, g.granted, g.start, g.delay)'
      <4>1. j \in DOMAIN gets
        BY <1>2, <1>3, <2>2 DEF Under
      <4> QED
        BY <3>1, <4>1, TurnKept
    <3> QED
      BY <3>2, <3>3, <3>4 DEF Got
  <2> QED
    BY <1>3, <2>1, <2>2
<1> QED
  BY <1>6, <1>7, <1>8, <1>9, <1>10 DEF CrawlInv

\* A turn granted now is polite if the start waits for the delay that remains
\* since the last completion.
LEMMA TurnPolite ==
    ASSUME CrawlInv, NEW f \in Holding, NEW j \in DOMAIN gets, NEW start \in Nat,
           throttle.last # NotYet => start >= throttle.last + throttle.delay
    PROVE  Turn(j, instant, start, throttle.delay)
<1>1. /\ gets[j].end \in Nat /\ throttle.last \in Nat /\ throttle.delay \in Nat
      /\ gets[j].end <= throttle.last /\ instant \in Nat
  BY CrawlFacts DEF CrawlInv, Got, CrawlTypes
<1>2. ASSUME gets[j].end # NotYet
      PROVE  start >= gets[j].end + throttle.delay
  BY <1>1, <1>2 DEF NotYet
<1>3. slots = 1 => gets[j].end # NotYet
  BY OneSlot
<1>4. gets[j].end \in 1..(instant - 1) => start >= gets[j].end + throttle.delay
  BY <1>1, <1>2 DEF NotYet
<1> QED
  BY <1>2, <1>3, <1>4 DEF Turn

LEMMA PaceKeeps ==
    ASSUME CrawlInv, NEW f \in Crawlers, Pace(f)
    PROVE  CrawlInv'
<1>1. /\ crawler[f].at = "pace" /\ crawler[f] \in Allowed /\ f \in Holding
      /\ UNCHANGED <<slots, site, siteAt, optOut, robotsCache, robotsLock, robotsFetched,
                     cancelled, instant>>
      /\ throttle \in HostState /\ cancelled \in [times : Nat, lost : Nat]
      /\ throttle.delay >= DefaultDelay /\ throttle.last <= instant
      /\ throttle.last \in Nat /\ throttle.delay \in Nat
  BY CrawlerAt, CrawlFacts DEF Pace, CrawlInv, CrawlTypes, Holding
<1>2. CrawlNext
  BY DEF CrawlNext
<1>3. PICK t \in Nat, a \in Nat, d \in Nat, delay \in Nat, r \in Files :
         /\ t = instant /\ a = crawler[f].asked /\ d = crawler[f].decided
         /\ delay = throttle.delay /\ r = crawler[f].file
  BY <1>1, CrawlFacts DEF CrawlInv, Allowed
<1>4. AskedInTime(a) /\ Permitted(d, r) /\ Paced(r, d, t, delay) /\ t <= t
  BY <1>1, <1>3 DEF CrawlInv, Fetching
<1>5. CASE throttle.last # NotYet /\ instant - throttle.last < throttle.delay
  <2>1. PICK wake \in Nat : wake = throttle.last + throttle.delay
    BY <1>1
  <2>2. PICK c : c = [at |-> "sleep", asked |-> a, decided |-> d, file |-> r,
                      granted |-> t, delay |-> delay, wake |-> wake]
    OBVIOUS
  <2>3. /\ crawler' = [crawler EXCEPT ![f] = c]
        /\ throttle' = [throttle EXCEPT !.lock = {f}] /\ gets' = gets
    <3>1. crawler' = [crawler EXCEPT ![f] =
                 [at |-> "sleep", asked |-> @.asked, decided |-> @.decided,
                  file |-> @.file, granted |-> instant, delay |-> throttle.delay,
                  wake |-> throttle.last + throttle.delay]]
      BY <1>5 DEF Pace
    <3>2. crawler' = [crawler EXCEPT ![f] = c]
      BY <1>3, <2>1, <2>2, <3>1
    <3> QED
      BY <1>5, <3>2 DEF Pace
  <2>4. c \in Sleeping /\ c \in Crawling /\ c.at = "sleep"
    BY <2>2 DEF Sleeping, Crawling
  <2>5. /\ throttle' \in HostState
        /\ throttle'.delay = throttle.delay /\ throttle'.last = throttle.last
        /\ throttle'.free = throttle.free
    BY <1>1, <2>3 DEF HostState
  <2>6. CrawlTypes'
    BY <1>1, <2>3, <2>4, <2>5, TypesKept DEF CrawlInv, CrawlTypes
  <2>7. AskedInTime(a)' /\ Permitted(d, r)' /\ Paced(r, d, t, delay)'
    BY <1>2, <1>4, AskedKept, PermittedKept, PacedKept
  <2>8. ASSUME NEW j \in DOMAIN gets
        PROVE  Turn(j, t, wake, delay)'
    <3>1. Turn(j, t, wake, delay)
      BY <1>1, <1>3, <2>1, TurnPolite
    <3>2. t <= instant
      BY <1>3
    <3> QED
      BY <1>2, <3>1, <3>2, TurnKept
  <2>9. Fetching(c)'
    BY <1>1, <1>3, <2>2, <2>3, <2>7, <2>8 DEF Fetching
  <2>10. SlotsInv'
    BY <1>1, <2>3, <2>4, <2>5, SlotsSame
  <2>11. RobotsInv'
    BY <1>1, <2>3, <2>4, RobotsSame
  <2> QED
    BY <1>2, <2>3, <2>5, <2>6, <2>9, <2>10, <2>11, ActorKeeps
<1>6. CASE ~(throttle.last # NotYet /\ instant - throttle.last < throttle.delay)
  <2>1. PICK g : g = [start |-> t, end |-> NotYet, granted |-> t, delay |-> delay,
                      asked |-> a, decided |-> d, file |-> r, redirects |-> <<>>]
    OBVIOUS
  <2>2. g \in Get /\ g.end = NotYet
    BY <2>1 DEF Get, NotYet
  <2>3. StartGet(f, instant, throttle.delay) /\ throttle' = throttle
    BY <1>6 DEF Pace
  <2>4. /\ gets' = Append(gets, g)
        /\ crawler' = [crawler EXCEPT ![f] = [at |-> "get", number |-> Len(gets) + 1]]
    BY <1>3, <2>1, <2>3 DEF StartGet
  <2>5. throttle.last # NotYet => instant >= throttle.last + throttle.delay
    BY <1>1, <1>3, <1>6
  <2>6. \A j \in DOMAIN gets : Turn(j, g.granted, g.start, g.delay)
    BY <1>1, <1>3, <2>1, <2>5, TurnPolite
  <2>7. /\ AskedInTime(g.asked) /\ Permitted(g.decided, g.file) /\ g.granted <= instant
        /\ Paced(g.file, g.decided, g.granted, g.delay)
    BY <1>3, <1>4, <2>1
  <2> QED
    BY <1>1, <1>2, <2>2, <2>3, <2>4, <2>6, <2>7, GetStarts
<1> QED
  BY <1>5, <1>6

LEMMA WakeKeeps ==
    ASSUME CrawlInv, NEW f \in Crawlers, Wake(f)
    PROVE  CrawlInv'
<1>1. /\ crawler[f].at = "sleep" /\ crawler[f] \in Sleeping /\ f \in Holding
      /\ instant >= crawler[f].wake
      /\ StartGet(f, crawler[f].granted, crawler[f].delay)
      /\ UNCHANGED <<slots, site, siteAt, optOut, robotsCache, robotsLock, robotsFetched,
                     cancelled, instant>>
      /\ throttle \in HostState
      /\ throttle' = [throttle EXCEPT !.lock = {}]
  BY CrawlerAt DEF Wake, CrawlInv, CrawlTypes, Holding
<1>2. CrawlNext
  BY DEF CrawlNext
<1>3. PICK g : g = [start |-> instant, end |-> NotYet, granted |-> crawler[f].granted,
                    delay |-> crawler[f].delay, asked |-> crawler[f].asked,
                    decided |-> crawler[f].decided, file |-> crawler[f].file,
                    redirects |-> <<>>]
  OBVIOUS
<1>4. /\ gets' = Append(gets, g)
      /\ crawler' = [crawler EXCEPT ![f] = [at |-> "get", number |-> Len(gets) + 1]]
  BY <1>1, <1>3 DEF StartGet
<1>5. instant \in Nat
  BY CrawlFacts DEF CrawlInv
<1>6. /\ g \in Get /\ g.end = NotYet
      /\ g.start = instant /\ g.granted = crawler[f].granted
      /\ g.delay = crawler[f].delay /\ g.asked = crawler[f].asked
      /\ g.decided = crawler[f].decided /\ g.file = crawler[f].file
  BY <1>1, <1>3, <1>5 DEF Get, NotYet, Sleeping
<1>7. /\ throttle' \in HostState
      /\ throttle'.delay = throttle.delay /\ throttle'.last = throttle.last
      /\ throttle'.free = throttle.free
  BY <1>1 DEF HostState
<1>8. /\ AskedInTime(g.asked) /\ Permitted(g.decided, g.file) /\ g.granted <= instant
      /\ Paced(g.file, g.decided, g.granted, g.delay)
      /\ \A j \in DOMAIN gets : Turn(j, g.granted, crawler[f].wake, g.delay)
  BY <1>1, <1>6 DEF CrawlInv, Fetching
<1>9. ASSUME NEW j \in DOMAIN gets
      PROVE  Turn(j, g.granted, g.start, g.delay)
  <2>1. gets[j].end \in Nat /\ crawler[f].wake \in Nat /\ g.delay \in Nat
    BY <1>1, <1>6, CrawlFacts DEF CrawlInv, Sleeping
  <2>2. g.start >= crawler[f].wake /\ g.start \in Nat
    BY <1>1, <1>5, <1>6
  <2> QED
    BY <1>8, <2>1, <2>2 DEF Turn
<1> QED
  BY <1>1, <1>2, <1>4, <1>6, <1>7, <1>8, <1>9, GetStarts

LEMMA RedirectedKeeps ==
    ASSUME CrawlInv, NEW f \in Crawlers, Redirected(f)
    PROVE  CrawlInv'
<1>1. /\ crawler[f].at = "get"
      /\ UNCHANGED <<slots, site, siteAt, optOut, robotsCache, robotsLock, robotsFetched,
                     throttle, crawler, cancelled, instant>>
      /\ throttle.last \in Nat /\ gets \in Seq(Get)
  BY CrawlFacts DEF Redirected, CrawlInv, CrawlTypes
<1>2. CrawlNext
  BY DEF CrawlNext
<1>3. PICK n \in Ongoing : n = crawler[f].number
  BY <1>1 DEF CrawlInv, SlotsInv
<1>4. PICK p \in Paths : gets' = [gets EXCEPT ![n].redirects = Append(@, p)]
  BY <1>3 DEF Redirected
<1>5. n \in DOMAIN gets /\ gets[n] \in Get
  BY <1>1, <1>3 DEF Ongoing
<1>6. PICK x : x = [gets[n] EXCEPT !.redirects = Append(gets[n].redirects, p)]
  OBVIOUS
<1>7. x.end = gets[n].end
  BY <1>5, <1>6 DEF Get
<1>8. gets' = [gets EXCEPT ![n] = x]
  BY <1>4, <1>6
<1>9. DOMAIN gets' = DOMAIN gets /\ \A j \in DOMAIN gets : gets'[j].end = gets[j].end
  BY <1>1, <1>5, <1>7, <1>8
<1>10. gets' \in Seq(Get)
  BY <1>2, CrawlSteps, GetsKept DEF CrawlStep
<1>11. CrawlTypes'
  BY <1>1, <1>10 DEF CrawlInv, CrawlTypes
<1>12. SlotsInv'
  <2>1. Ongoing' = Ongoing /\ Holding' = Holding
    BY <1>1, <1>9 DEF Ongoing, Holding
  <2> QED
    BY <1>1, <2>1 DEF CrawlInv, SlotsInv
<1>13. RobotsInv'
  BY <1>1 DEF CrawlInv, RobotsInv, Questioning, Replied, ServedBetween
<1>14. ASSUME NEW h \in Crawlers
       PROVE  Fetching(crawler[h])'
  <2>1. PICK c : c = crawler[h]
    OBVIOUS
  <2>2. Fetching(c)'
    BY <1>2, <1>9, <2>1, FetchKept
  <2> QED
    BY <1>1, <2>1, <2>2
<1>15. ASSUME NEW i \in DOMAIN gets
       PROVE  Got(i)'
  BY <1>1, <1>2, <1>9, GotKept
<1> QED
  BY <1>9, <1>11, <1>12, <1>13, <1>14, <1>15 DEF CrawlInv

LEMMA GetOverKeeps ==
    ASSUME CrawlInv, NEW f \in Crawlers, GetOver(f)
    PROVE  CrawlInv'
<1>1. /\ crawler[f].at = "get"
      /\ throttle' = [throttle EXCEPT !.last = instant, !.free = @ + 1]
      /\ crawler' = [crawler EXCEPT ![f] = Idling]
      /\ UNCHANGED <<slots, site, siteAt, optOut, robotsCache, robotsLock, robotsFetched,
                     cancelled, instant>>
      /\ throttle \in HostState /\ cancelled \in [times : Nat, lost : Nat]
      /\ throttle.delay >= DefaultDelay /\ throttle.last <= instant
      /\ throttle.last \in Nat /\ instant \in Nat /\ instant >= 1
      /\ gets \in Seq(Get)
      /\ crawler \in [Crawlers -> Crawling]
  <2>1. crawler \in [Crawlers -> Crawling]
    BY DEF CrawlInv, CrawlTypes
  <2> QED
    BY <2>1, CrawlFacts DEF GetOver, CrawlInv, CrawlTypes
<1>2. CrawlNext
  BY DEF CrawlNext
<1>3. PICK n \in Ongoing : n = crawler[f].number
  BY <1>1 DEF CrawlInv, SlotsInv
<1>4. gets' = [gets EXCEPT ![n].end = instant]
  BY <1>3 DEF GetOver
<1>5. /\ n \in DOMAIN gets /\ DOMAIN gets' = DOMAIN gets
      /\ gets'[n].end = instant
      /\ \A i \in DOMAIN gets : i # n => gets'[i] = gets[i]
  <2>1. n \in DOMAIN gets
    BY DEF Ongoing
  <2>2. gets[n] \in Get
    BY <1>1, <2>1
  <2>3. gets' = [gets EXCEPT ![n] = [gets[n] EXCEPT !.end = instant]]
    BY <1>4
  <2>4. [gets[n] EXCEPT !.end = instant].end = instant
    BY <2>2 DEF Get
  <2> QED
    BY <1>1, <2>1, <2>3, <2>4
<1>6. gets' \in Seq(Get)
  BY <1>2, CrawlSteps, GetsKept DEF CrawlStep
<1>7. /\ throttle' \in HostState
      /\ throttle'.delay = throttle.delay /\ throttle'.last = instant
      /\ throttle'.free = throttle.free + 1 /\ throttle'.last <= instant
      /\ throttle'.delay >= DefaultDelay
  <2>1. PICK t : t = [throttle EXCEPT !.last = instant]
    OBVIOUS
  <2>2. /\ t \in HostState
        /\ t.delay = throttle.delay /\ t.last = instant /\ t.free = throttle.free
    BY <1>1, <2>1 DEF HostState
  <2>3. throttle' = [t EXCEPT !.free = t.free + 1]
    BY <1>1, <2>1, <2>2
  <2>4. t.free + 1 \in Nat
    BY <2>2 DEF HostState
  <2>5. /\ throttle' \in HostState
        /\ throttle'.delay = t.delay /\ throttle'.last = t.last
        /\ throttle'.free = t.free + 1
    BY ONLY <2>2, <2>3, <2>4 DEF HostState
  <2> QED
    BY <1>1, <2>2, <2>5
<1>8. CrawlTypes'
  <2>1. Idling \in Crawling
    BY DEF Crawling
  <2> QED
    BY <1>1, <1>6, <1>7, <2>1, TypesKept
<1>9. \A h \in Crawlers : crawler'[h] = IF h = f THEN Idling ELSE crawler[h]
  BY <1>1
<1>10. SlotsInv'
  <2>1. Holding' = Holding
    BY <1>1, <1>9 DEF Holding, Idling
  <2>2. Ongoing' = Ongoing \ {n}
    BY <1>1, <1>5 DEF Ongoing, NotYet
  <2>3. /\ IsFiniteSet(Ongoing \ {n})
        /\ Cardinality(Ongoing \ {n}) = Cardinality(Ongoing) - 1
    <3>1. n \in Ongoing /\ IsFiniteSet(Ongoing)
      BY SlotsSum
    <3> QED
      BY ONLY <3>1, FS_RemoveElement
  <2>4. /\ IsFiniteSet(Holding') /\ IsFiniteSet(Ongoing')
        /\ Cardinality(Holding') + Cardinality(Ongoing') + throttle'.free
               + cancelled'.lost = slots'
    <3>1. Cardinality(Holding') = Cardinality(Holding) /\ IsFiniteSet(Holding')
      BY <2>1, SlotsSum
    <3>2. Cardinality(Ongoing') = Cardinality(Ongoing) - 1 /\ IsFiniteSet(Ongoing')
      BY <2>2, <2>3
    <3>3. slots' = slots /\ throttle'.free = throttle.free + 1
          /\ cancelled'.lost = cancelled.lost
      BY <1>1, <1>7
    <3> QED
      BY <3>1, <3>2, <3>3, SlotsSum
  <2>5. \A h \in Crawlers : crawler'[h].at = "get" => /\ crawler'[h] = crawler[h]
                                                      /\ crawler[h].at = "get" /\ h # f
    BY <1>9 DEF Idling
  <2>6. \A h \in Crawlers : crawler[h].at = "get" /\ h # f =>
            crawler[h].number \in Ongoing \ {n}
    BY <1>1, <1>3, SlotsSum DEF GetsApart
  <2>7. /\ \A h \in Crawlers : crawler'[h].at = "get" => crawler'[h].number \in Ongoing'
        /\ \A h, k \in Crawlers :
              (crawler'[h].at = "get" /\ crawler'[k].at = "get" /\ h # k)
                  => crawler'[h].number # crawler'[k].number
    BY <2>2, <2>5, <2>6, SlotsSum DEF GetsApart
  <2> QED
    BY <2>4, <2>7 DEF SlotsInv
<1>11. RobotsInv'
  <2>1. Idling.at \notin {"fetching", "answered"}
    BY DEF Idling
  <2> QED
    BY <1>1, <2>1, RobotsSame
<1>12. ASSUME NEW h \in Crawlers
       PROVE  Fetching(crawler[h])'
  <2>1. CASE h = f
    BY <1>9, <2>1 DEF Fetching, Idling
  <2>2. CASE h # f
    <3>1. PICK d : d = crawler[h]
      OBVIOUS
    <3>2. Fetching(d)'
      BY <1>2, <1>5, <3>1, FetchKept
    <3> QED
      BY <1>9, <2>2, <3>1, <3>2
  <2> QED
    BY <2>1, <2>2
<1>13. ASSUME NEW i \in DOMAIN gets
       PROVE  Got(i)'
  BY <1>1, <1>2, <1>7, GotKept
<1> QED
  BY <1>5, <1>8, <1>10, <1>11, <1>12, <1>13 DEF CrawlInv

\* A fetch that is cancelled before its get: a slot it held is lost.
LEMMA CancelKeeps ==
    ASSUME CrawlInv, NEW f \in Crawlers, Cancel(f)
    PROVE  CrawlInv'
<1>1. PICK l : l = IF crawler[f].at \in {"pace", "sleep"} THEN 1 ELSE 0
  OBVIOUS
<1>2. /\ crawler[f].at \notin {"get", "idle"}
      /\ crawler' = [crawler EXCEPT ![f] = Idling]
      /\ robotsLock' = robotsLock \ {f}
      /\ throttle' = [throttle EXCEPT !.lock = throttle.lock \ {f}]
      /\ cancelled' = [times |-> cancelled.times + 1, lost |-> cancelled.lost + l]
      /\ UNCHANGED <<slots, site, siteAt, optOut, robotsCache, robotsFetched, gets, instant>>
      /\ throttle \in HostState /\ gets \in Seq(Get)
      /\ throttle.delay >= DefaultDelay /\ throttle.last <= instant
      /\ crawler \in [Crawlers -> Crawling]
  BY <1>1 DEF Cancel, CrawlInv, CrawlTypes
<1>3. CrawlNext
  BY DEF CrawlNext
<1>4. /\ throttle' \in HostState /\ throttle'.delay = throttle.delay
      /\ throttle'.last = throttle.last /\ throttle'.free = throttle.free
  BY <1>2 DEF HostState
<1>5. cancelled.times + 1 \in Nat /\ cancelled.lost + l \in Nat /\ l \in {0, 1}
  BY <1>1, CrawlFacts DEF CrawlInv
<1>6. cancelled' \in [times : Nat, lost : Nat] /\ cancelled'.lost = cancelled.lost + l
  BY <1>2, <1>5
<1>7. Idling \in Crawling /\ Idling.at = "idle" /\ Fetching(Idling)'
  BY DEF Crawling, Idling, Fetching
<1>8. CrawlTypes'
  BY <1>2, <1>4, <1>6, <1>7, TypesKept
<1>9. RobotsInv'
  BY <1>2, <1>7, RobotsSame
<1>10. CASE f \notin Holding
  <2>1. l = 0
    BY <1>1, <1>10 DEF Holding
  <2>2. cancelled'.lost = cancelled.lost
    BY <1>6, <2>1, SlotsSum
  <2>3. SlotsInv'
    BY <1>2, <1>4, <1>7, <1>10, <2>2, SlotsSame
  <2> QED
    BY <1>2, <1>3, <1>4, <1>7, <1>8, <1>9, <2>3, ActorKeeps
<1>11. CASE f \in Holding
  <2>1. l = 1
    BY <1>1, <1>11 DEF Holding
  <2>2. \A h \in Crawlers : crawler'[h] = IF h = f THEN Idling ELSE crawler[h]
    BY <1>2
  <2>3. Holding' = Holding \ {f} /\ Ongoing' = Ongoing
    BY <1>2, <1>7, <2>2 DEF Holding, Ongoing
  <2>4. /\ IsFiniteSet(Holding \ {f}) /\ Cardinality(Holding \ {f}) = Cardinality(Holding) - 1
    BY <1>11, SlotsSum, FS_RemoveElement
  <2>5. /\ IsFiniteSet(Holding') /\ IsFiniteSet(Ongoing')
        /\ Cardinality(Holding') + Cardinality(Ongoing') + throttle'.free
               + cancelled'.lost = slots'
    <3>1. Cardinality(Holding') = Cardinality(Holding) - 1 /\ IsFiniteSet(Holding')
      BY <2>3, <2>4
    <3>2. Cardinality(Ongoing') = Cardinality(Ongoing) /\ IsFiniteSet(Ongoing')
      BY <2>3, SlotsSum
    <3>3. /\ slots' = slots /\ throttle'.free = throttle.free
          /\ cancelled'.lost = cancelled.lost + 1
      BY <1>2, <1>4, <1>6, <2>1
    <3> QED
      BY <3>1, <3>2, <3>3, SlotsSum
  <2>6. \A h \in Crawlers : crawler'[h].at = "get" => /\ crawler'[h] = crawler[h]
                                                      /\ crawler[h].at = "get"
    BY <1>7, <2>2
  <2>7. /\ \A h \in Crawlers : crawler'[h].at = "get" => crawler'[h].number \in Ongoing'
        /\ \A h, k \in Crawlers :
              (crawler'[h].at = "get" /\ crawler'[k].at = "get" /\ h # k)
                  => crawler'[h].number # crawler'[k].number
    BY <2>3, <2>6, SlotsSum DEF GetsApart
  <2>8. SlotsInv'
    BY <2>5, <2>7 DEF SlotsInv
  <2> QED
    BY <1>2, <1>3, <1>4, <1>7, <1>8, <1>9, <2>8, ActorKeeps
<1> QED
  BY <1>10, <1>11

\* A step of the host, of the registry or of the clock: no fetch moves.
LEMMA HostKeeps ==
    ASSUME CrawlInv, RegisterOptOut \/ SiteChanges \/ InstantPasses
    PROVE  CrawlInv'
<1>1. /\ UNCHANGED <<slots, robotsCache, robotsLock, robotsFetched, throttle, crawler,
                     gets, cancelled>>
      /\ CrawlNext
  BY DEF RegisterOptOut, SiteChanges, InstantPasses, CrawlNext
<1>2. /\ instant \in Nat /\ instant >= 1 /\ instant <= LastInstant /\ optOut \in Nat
      /\ LastInstant \in Nat /\ instant \in Instants
      /\ siteAt \in [Instants -> SUBSET RobotsFiles]
      /\ site \in [file : RobotsFiles, changes : Nat]
      /\ throttle.last <= instant /\ throttle.last \in Nat
      /\ RobotsInv /\ SlotsInv
  BY CrawlFacts, CrawlConstants DEF CrawlInv, CrawlTypes
<1>3. /\ site' \in [file : RobotsFiles, changes : Nat]
      /\ siteAt' \in [Instants -> SUBSET RobotsFiles]
      /\ optOut' \in Nat /\ instant' \in Instants
      /\ site'.file \in siteAt'[instant']
  <2>1. CASE RegisterOptOut
    BY <1>2, <2>1 DEF RegisterOptOut, RobotsInv
  <2>2. CASE SiteChanges
    <3>1. PICK r \in RobotsFiles :
             /\ site' = [file |-> r, changes |-> site.changes + 1]
             /\ siteAt' = [siteAt EXCEPT ![instant] = @ \cup {r}]
      BY <2>2 DEF SiteChanges
    <3>2. optOut' = optOut /\ instant' = instant
      BY <2>2 DEF SiteChanges
    <3>3. /\ site' \in [file : RobotsFiles, changes : Nat] /\ site'.file = r
      BY <1>2, <3>1
    <3>4. siteAt' \in [Instants -> SUBSET RobotsFiles] /\ r \in siteAt'[instant]
      BY <1>2, <3>1
    <3> QED
      BY <1>2, <3>2, <3>3, <3>4
  <2>3. CASE InstantPasses
    <3>1. /\ instant' = instant + 1 /\ instant < LastInstant
          /\ siteAt' = [siteAt EXCEPT ![instant + 1] = {site.file}]
          /\ optOut' = optOut /\ site' = site
      BY <2>3 DEF InstantPasses
    <3>2. instant + 1 \in Instants
      BY <1>2, <3>1 DEF Instants
    <3>3. site.file \in RobotsFiles
      BY <1>2
    <3>4. siteAt' \in [Instants -> SUBSET RobotsFiles] /\ siteAt'[instant + 1] = {site.file}
      BY <1>2, <3>1, <3>2, <3>3
    <3> QED
      BY <1>2, <3>1, <3>2, <3>4
  <2> QED
    BY <2>1, <2>2, <2>3
<1>4. instant' \in Nat /\ instant <= instant' /\ SiteGrows
  BY <1>1, CrawlSteps DEF CrawlStep
<1>5. CrawlTypes'
  BY <1>1, <1>2, <1>3, <1>4 DEF CrawlInv, CrawlTypes
<1>6. SlotsInv'
  BY <1>1, <1>2 DEF SlotsInv, Holding, Ongoing
<1>7. RobotsInv'
  <2>1. robotsCache.at \in Nat /\ robotsCache.at <= instant
    BY <1>2 DEF CrawlInv, CrawlTypes, RobotsInv, RobotsCached, NotYet
  <2>2. ASSUME NEW from \in Nat, from >= 1, NEW to \in Nat, to <= instant,
               NEW up \in Nat, to <= up
        PROVE  ServedBetween(from, to) \subseteq ServedBetween(from, up)'
    <3>1. ASSUME NEW n \in from..to
          PROVE  siteAt[n] \subseteq siteAt'[n] /\ n \in from..up
      <4>1. n \in Instants /\ n <= instant
        BY <1>2, <2>2 DEF Instants
      <4> QED
        BY <1>4, <2>2, <4>1 DEF SiteGrows
    <3> QED
      BY <3>1 DEF ServedBetween
  <2>3. ASSUME NEW f \in Crawlers, crawler[f].at \in {"fetching", "answered"}
        PROVE  robotsLock = {f} /\ Questioning(crawler[f])'
    <3>1. robotsLock = {f} /\ Questioning(crawler[f])
      BY <1>2, <2>3 DEF RobotsInv
    <3>2. PICK c : c = crawler[f]
      OBVIOUS
    <3>3. PICK t \in Nat, u \in Nat : t = instant /\ u = instant'
      BY <1>2, <1>4
    <3>4. c.from \in Nat /\ c.from >= 1 /\ c.from <= u /\ t <= t /\ t <= u
      BY <1>2, <1>4, <3>1, <3>2, <3>3 DEF Questioning
    <3>5. ServedBetween(c.from, t) \subseteq ServedBetween(c.from, u)'
      BY <2>2, <3>3, <3>4
    <3>6. (c.at = "answered" /\ c.file.available) => c.file \in ServedBetween(c.from, t)
      BY <3>1, <3>2, <3>3 DEF Questioning
    <3>7. (c.at = "answered" /\ c.file.available) => c.file \in ServedBetween(c.from, u)'
      BY <3>5, <3>6
    <3>8. c.from \in 1..instant' /\ (robotsCache'.at # NotYet => c.from >= robotsCache'.at + RobotsTtl)
      BY <1>1, <3>1, <3>2, <3>3, <3>4 DEF Questioning
    <3>9. Questioning(c)'
      BY <3>3, <3>7, <3>8 DEF Questioning, ServedBetween
    <3> QED
      BY <1>1, <3>1, <3>2, <3>9
  <2>4. ASSUME NEW k \in DOMAIN robotsFetched
        PROVE  robotsFetched[k].at <= instant' /\ Replied(k)'
    <3>1. PICK q : q = robotsFetched[k]
      OBVIOUS
    <3>2. /\ q.from \in Nat \ {0} /\ q.at \in Nat /\ q.at <= instant /\ Replied(k)
      BY <1>2, <3>1, RepliesTyped DEF RobotsInv, CrawlInv
    <3>3. ASSUME q.file.available
          PROVE  q.file \in ServedBetween(q.from, q.at)'
      <4>1. q.file \in ServedBetween(q.from, q.at)
        BY <3>1, <3>2, <3>3 DEF Replied
      <4>2. PICK n \in q.from..q.at : q.file \in siteAt[n]
        BY <4>1 DEF ServedBetween
      <4>3. n \in Instants /\ n <= instant
        BY <1>2, <3>2, <4>2 DEF Instants
      <4>4. q.file \in siteAt'[n]
        BY <1>4, <4>2, <4>3 DEF SiteGrows
      <4> QED
        BY <4>2, <4>4 DEF ServedBetween
    <3> QED
      BY <1>1, <1>2, <1>4, <3>1, <3>2, <3>3 DEF Replied
  <2>5. robotsCache'.at <= instant'
    BY <1>1, <1>2, <1>4, <2>1
  <2> QED
    BY <1>1, <1>2, <1>3, <2>3, <2>4, <2>5 DEF RobotsInv
<1>8. ASSUME NEW f \in Crawlers
      PROVE  Fetching(crawler[f])'
  <2>1. PICK c : c = crawler[f]
    OBVIOUS
  <2>2. Fetching(c)'
    BY <1>1, <2>1, FetchKept
  <2> QED
    BY <1>1, <2>1, <2>2
<1>9. ASSUME NEW i \in DOMAIN gets
      PROVE  Got(i)'
  BY <1>1, <1>2, GotKept
<1> QED
  BY <1>1, <1>5, <1>6, <1>7, <1>8, <1>9 DEF CrawlInv

LEMMA CrawlInvInit == CrawlInit => CrawlInv
<1> SUFFICES ASSUME CrawlInit
             PROVE  CrawlInv
  OBVIOUS
<1>1. PICK r \in RobotsFiles : /\ site = [file |-> r, changes |-> 0]
                               /\ siteAt = [n \in Instants |-> IF n = 1 THEN {r} ELSE {}]
  BY DEF CrawlInit
<1>2. /\ slots \in Nat /\ optOut = NotYet /\ robotsCache = [at |-> NotYet]
      /\ robotsFetched = <<>> /\ gets = <<>> /\ instant = 1
      /\ cancelled = [times |-> 0, lost |-> 0]
      /\ throttle = [free |-> slots, last |-> NotYet, delay |-> DefaultDelay, lock |-> {}]
      /\ crawler = [f \in Crawlers |-> Idling]
      /\ DefaultDelay \in Nat
  BY CrawlConstants DEF CrawlInit
<1>3. 1 \in Instants
  BY CrawlConstants DEF Instants
<1>4. CrawlTypes
  <2>1. site \in [file : RobotsFiles, changes : Nat] /\ siteAt \in [Instants -> SUBSET RobotsFiles]
    BY <1>1
  <2>2. /\ throttle \in HostState
        /\ throttle.delay >= DefaultDelay /\ throttle.last <= instant
    BY <1>2 DEF NotYet, HostState
  <2>3. crawler \in [Crawlers -> Crawling] /\ cancelled \in [times : Nat, lost : Nat]
    BY <1>2 DEF Crawling
  <2> QED
    BY <1>2, <1>3, <2>1, <2>2, <2>3 DEF CrawlTypes, NotYet
<1>5. \A f \in Crawlers : crawler[f].at = "idle"
  BY <1>2 DEF Idling
<1>6. Holding = {} /\ Ongoing = {}
  BY <1>2, <1>5 DEF Holding, Ongoing
<1>7. SlotsInv
  BY <1>2, <1>5, <1>6, FS_EmptySet DEF SlotsInv
<1>8. RobotsInv
  <2>1. site.file \in siteAt[instant]
    BY <1>1, <1>2, <1>3
  <2> QED
    BY <1>2, <1>5, <2>1 DEF RobotsInv, NotYet
<1>9. \A f \in Crawlers : Fetching(crawler[f])
  BY <1>5 DEF Fetching
<1>10. DOMAIN gets = {}
  BY <1>2
<1> QED
  BY <1>4, <1>7, <1>8, <1>9, <1>10 DEF CrawlInv

LEMMA CrawlInvStep == CrawlInv /\ [CrawlNext]_crawlVars => CrawlInv'
<1> SUFFICES ASSUME CrawlInv, [CrawlNext]_crawlVars
             PROVE  CrawlInv'
  OBVIOUS
<1>1. ASSUME NEW f \in Crawlers,
             \/ BeginFetch(f) \/ CachedRobots(f) \/ FetchRobots(f)
             \/ RobotsServed(f) \/ RobotsAnswered(f)
             \/ TakeSlot(f) \/ Pace(f) \/ Wake(f) \/ Redirected(f) \/ GetOver(f)
             \/ Cancel(f)
      PROVE  CrawlInv'
  BY <1>1, BeginFetchKeeps, CachedRobotsKeeps, FetchRobotsKeeps, RobotsServedKeeps,
     RobotsAnsweredKeeps, TakeSlotKeeps, PaceKeeps, WakeKeeps, RedirectedKeeps,
     GetOverKeeps, CancelKeeps
<1>2. CASE RegisterOptOut \/ SiteChanges \/ InstantPasses
  BY <1>2, HostKeeps
<1>3. CASE UNCHANGED crawlVars
  <2> USE <1>3 DEF crawlVars
  <2>1. CrawlTypes'
    BY DEF CrawlInv, CrawlTypes
  <2>2. SlotsInv'
    BY DEF CrawlInv, SlotsInv, Holding, Ongoing
  <2>3. RobotsInv'
    BY DEF CrawlInv, RobotsInv, Questioning, Replied, ServedBetween
  <2>4. ASSUME NEW f \in Crawlers
        PROVE  Fetching(crawler[f])'
    BY DEF CrawlInv, Fetching, AskedInTime, Permitted, OnFile, AnswersFor, Recent, Paced, Turn
  <2>5. ASSUME NEW i \in DOMAIN gets
        PROVE  Got(i)'
    BY DEF CrawlInv, Got, Under, AskedInTime, Permitted, OnFile, AnswersFor, Recent, Paced, Turn
  <2> QED
    BY <2>1, <2>2, <2>3, <2>4, <2>5 DEF CrawlInv
<1> QED
  BY <1>1, <1>2, <1>3 DEF CrawlNext

\* Politeness (R1.4, R1.5; HostThrottle.acquire and release,
\* backend/crawler/throttle.py), for any number of fetches of a host, whatever
\* the slots, the delays its robots.txt asks for, who is cancelled and the order
\* they run in.
THEOREM CrawlPoliteCorrect == CrawlSpec => []CrawlPolite
<1>1. CrawlInv => CrawlPolite
  <2> SUFFICES ASSUME CrawlInv
               PROVE  CrawlPolite
    OBVIOUS
  <2>1. Cardinality(Ongoing) + cancelled.lost <= slots
    BY SlotsSum
  <2>2. ASSUME NEW i \in DOMAIN gets, NEW j \in Under(i)
        PROVE  Turn(j, gets[i].granted, gets[i].start, gets[i].delay)
    BY DEF CrawlInv, Got
  <2>3. \A i \in DOMAIN gets :
            Paced(gets[i].file, gets[i].decided, gets[i].granted, gets[i].delay)
    BY DEF CrawlInv, Got
  <2> QED
    BY <2>1, <2>2, <2>3 DEF CrawlPolite, Ongoing, Turn, Paced, Recent
<1> QED
  BY <1>1, CrawlInvInit, CrawlInvStep, PTL DEF CrawlSpec

\* robots.txt and opt-outs are respected (R1.1-R1.3, R1.6; RobotsCache.get,
\* backend/crawler/robots.py, and OptOutRegistry.is_opted_out, opt_out.py),
\* however often the host changes its mind while fetches wait, and whatever
\* becomes of the fetch that asked for robots.txt.
THEOREM RobotsRespectedCorrect == CrawlSpec => []RobotsRespected
<1>1. CrawlInv => RobotsRespected
  <2> SUFFICES ASSUME CrawlInv
               PROVE  RobotsRespected
    OBVIOUS
  <2>1. \A i \in DOMAIN gets :
            /\ AskedInTime(gets[i].asked) /\ Permitted(gets[i].decided, gets[i].file)
    BY DEF CrawlInv, Got
  <2>2. \A k \in DOMAIN robotsFetched : Replied(k)
    BY DEF CrawlInv, RobotsInv
  <2> QED
    BY <2>1, <2>2 DEF RobotsRespected, AskedInTime, Permitted, OnFile, Replied
<1> QED
  BY <1>1, CrawlInvInit, CrawlInvStep, PTL DEF CrawlSpec

-----------------------------------------------------------------------------
(* The Python client.                                                      *)

Online == connection.at = "open"

Parsed(type, id, data) == [type |-> type, id |-> id, data |-> data]

\* What is left of the lines of an event, from the last to the first.
LastLine(e) == << Line("blank", e) >>

AfterData(e, r) ==
    IF e \in Separated THEN << Line(r, -e), Line("blank", e) >> ELSE LastLine(e)

AfterEvent(e, r) ==
    IF e \in Separated
    THEN << Line("data", -e), Line(r, -e), Line("blank", e) >>
    ELSE << Line("data", e), Line("blank", e) >>

AfterId(e, r) ==
    IF e \in Separated
    THEN << Line("event", e), Line("data", -e), Line(r, -e), Line("blank", e) >>
    ELSE << Line("event", e), Line("data", e), Line("blank", e) >>

Whole(e) == Parsed(e, e, DataOf(e))

\* The parser and the lines it has not read, when n events are delivered:
\* between two of them, within the next one, in a comment, or in what is left
\* of one that ended early.
Within(n, r, lines) ==
    \/ lines = EventLines(n + 1, r) /\ parser = Nothing
    \/ lines = AfterId(n + 1, r) /\ parser = Parsed(0, n + 1, 0)
    \/ lines = AfterEvent(n + 1, r) /\ parser = Parsed(n + 1, n + 1, 0)
    \/ lines = AfterData(n + 1, r) /\ parser = Whole(n + 1)
    \/ lines = LastLine(n + 1) /\ parser = Whole(n + 1)

Between(lines) ==
    /\ parser = Nothing
    /\ \/ lines = <<>>
       \/ lines = CommentLines
       \/ \E m \in Nat : lines = LastLine(m)

Unread(n, lines, next) ==
    \/ Between(lines) /\ next = n + 1
    \/ (\E r \in Remainders : Within(n, r, lines)) /\ next = n + 2

AnsweredCall ==
    /\ call.reply \in Replies
    /\ \/ /\ call.endpoint \in DOMAIN Expected
          /\ call.outcome = Outcome(call.endpoint, call.reply)
       \/ /\ call.endpoint \in {"delete_session", "delete_pipeline"}
          /\ call.outcome = DeleteOutcome(call.reply)

LineType == [line : Lines, of : Int]

EventType == [type : Int, id : Int, data : Int]

Connection(at) == [at : {at}, next : Nat, lines : Seq(LineType)]

SdkInv ==
    /\ delivered \in Seq(EventType)
    /\ connection \in {Disconnected} \cup Connection("open") \cup Connection("closing")
    /\ \A i \in DOMAIN delivered : delivered[i] = Whole(i)
    /\ Online => Unread(Len(delivered), connection.lines, connection.next)
    /\ call.at = "over" => AnsweredCall

LEMMA WholeIs ==
    ASSUME NEW e \in Nat
    PROVE  /\ DataOf(e) \in Int /\ (e # 0 => DataOf(e) # 0)
           /\ Whole(e) \in EventType
           /\ (e \in Separated => DataOf(e) = -e) /\ (e \notin Separated => DataOf(e) = e)
<1>1. DataOf(e) \in Int /\ (e # 0 => DataOf(e) # 0)
  BY DEF DataOf
<1> QED
  BY <1>1 DEF Whole, Parsed, EventType, DataOf

LEMMA TuplesRead ==
    ASSUME NEW a, NEW b, NEW c, NEW d, NEW e
    PROVE  /\ Head(<<a, b, c, d, e>>) = a /\ Tail(<<a, b, c, d, e>>) = <<b, c, d, e>>
           /\ Head(<<b, c, d, e>>) = b /\ Tail(<<b, c, d, e>>) = <<c, d, e>>
           /\ Head(<<c, d, e>>) = c /\ Tail(<<c, d, e>>) = <<d, e>>
           /\ Head(<<d, e>>) = d /\ Tail(<<d, e>>) = <<e>>
           /\ Head(<<e>>) = e /\ Tail(<<e>>) = <<>>
  OBVIOUS

LEMMA LinesRead ==
    ASSUME NEW e, NEW r
    PROVE  /\ Head(EventLines(e, r)) = Line("id", e)
           /\ Tail(EventLines(e, r)) = AfterId(e, r)
           /\ Head(AfterId(e, r)) = Line("event", e)
           /\ Tail(AfterId(e, r)) = AfterEvent(e, r)
           /\ Head(AfterEvent(e, r)) = Line("data", DataOf(e))
           /\ Tail(AfterEvent(e, r)) = AfterData(e, r)
           /\ e \in Separated =>
                  /\ Head(AfterData(e, r)) = Line(r, -e)
                  /\ Tail(AfterData(e, r)) = LastLine(e)
           /\ e \notin Separated => AfterData(e, r) = LastLine(e)
           /\ Head(LastLine(e)) = Line("blank", e)
           /\ Tail(LastLine(e)) = <<>>
           /\ Head(CommentLines) = Line("comment", 0)
           /\ Tail(CommentLines) = LastLine(0)
<1>1. /\ Head(LastLine(e)) = Line("blank", e) /\ Tail(LastLine(e)) = <<>>
      /\ Head(CommentLines) = Line("comment", 0) /\ Tail(CommentLines) = LastLine(0)
  BY TuplesRead DEF LastLine, CommentLines
<1>2. CASE e \in Separated
  BY <1>1, <1>2, TuplesRead DEF EventLines, AfterId, AfterEvent, AfterData, LastLine, DataOf
<1>3. CASE e \notin Separated
  BY <1>1, <1>3, TuplesRead DEF EventLines, AfterId, AfterEvent, AfterData, LastLine, DataOf
<1> QED
  BY <1>2, <1>3

LEMMA TuplesTyped ==
    ASSUME NEW S, NEW a \in S, NEW b \in S, NEW c \in S, NEW d \in S, NEW e \in S
    PROVE  /\ <<a, b, c, d, e>> \in Seq(S) /\ <<a, b, c, d>> \in Seq(S)
           /\ <<a, b>> \in Seq(S) /\ <<>> \in Seq(S)
  OBVIOUS

LEMMA LinesTyped ==
    ASSUME NEW e \in Nat, NEW r \in Remainders
    PROVE  /\ EventLines(e, r) \in Seq(LineType)
           /\ CommentLines \in Seq(LineType)
           /\ <<>> \in Seq(LineType)
<1>1. -e \in Int /\ e \in Int /\ 0 \in Int
  OBVIOUS
<1>2. \A l \in Lines, n \in Int : Line(l, n) \in LineType
  BY DEF Line, LineType
<1>3. Remainders \subseteq Lines /\ {"id", "event", "data", "blank", "comment"} \subseteq Lines
  BY DEF Remainders, Lines
<1>4. /\ Line("id", e) \in LineType /\ Line("event", e) \in LineType
      /\ Line("data", -e) \in LineType /\ Line("data", e) \in LineType
      /\ Line(r, -e) \in LineType /\ Line("blank", e) \in LineType
      /\ Line("comment", 0) \in LineType /\ Line("blank", 0) \in LineType
  BY <1>1, <1>2, <1>3
<1>5. << Line("id", e), Line("event", e), Line("data", -e), Line(r, -e),
          Line("blank", e) >> \in Seq(LineType)
  BY ONLY <1>4, TuplesTyped
<1>6. << Line("id", e), Line("event", e), Line("data", e), Line("blank", e) >> \in Seq(LineType)
  BY ONLY <1>4, TuplesTyped
<1>7. EventLines(e, r) \in Seq(LineType)
  BY ONLY <1>5, <1>6, Zenon DEF EventLines
<1>8. CommentLines \in Seq(LineType) /\ <<>> \in Seq(LineType)
  BY ONLY <1>4, TuplesTyped DEF CommentLines
<1> QED
  BY <1>7, <1>8

LEMMA OnlineTyped ==
    ASSUME SdkInv, Online
    PROVE  /\ connection \in Connection("open") /\ connection.next \in Nat
           /\ connection.lines \in Seq(LineType)
           /\ Unread(Len(delivered), connection.lines, connection.next)
           /\ Len(delivered) \in Nat /\ DOMAIN delivered = 1..Len(delivered)
  BY DEF SdkInv, Online, Connection, Disconnected

LEMMA OpenStreamKeeps ==
    ASSUME SdkInv, OpenStream
    PROVE  SdkInv'
<1>1. PICK ok \in BOOLEAN :
         connection' = [at |-> IF ok THEN "open" ELSE "closing",
                        next |-> LastSeen + 1, lines |-> <<>>]
  BY DEF OpenStream
<1>2. parser' = Nothing /\ UNCHANGED <<delivered, call>>
  BY DEF OpenStream
<1>3. delivered \in Seq(EventType) /\ Len(delivered) \in Nat
  BY DEF SdkInv
<1>4. LastSeen = Len(delivered)
  <2>1. CASE delivered = <<>>
    BY <2>1 DEF LastSeen
  <2>2. CASE delivered # <<>>
    <3>1. Len(delivered) \in DOMAIN delivered
      BY <1>3, <2>2
    <3>2. delivered[Len(delivered)].id = Len(delivered)
      BY <3>1 DEF SdkInv, Whole, Parsed
    <3> QED
      BY <2>2, <3>2 DEF LastSeen, Last
  <2> QED
    BY <2>1, <2>2
<1>5. /\ connection'.next = Len(delivered) + 1 /\ connection'.lines = <<>>
      /\ connection' \in Connection("open") \cup Connection("closing")
  <2>1. <<>> \in Seq(LineType) /\ Len(delivered) + 1 \in Nat
    BY <1>3
  <2> QED
    BY <1>1, <1>4, <2>1 DEF Connection
<1>6. Unread(Len(delivered), connection.lines, connection.next)'
  BY <1>2, <1>5 DEF Unread, Between
<1>7. call'.at = "over" => AnsweredCall'
  BY <1>2 DEF SdkInv, AnsweredCall
<1> QED
  BY <1>2, <1>5, <1>6, <1>7 DEF SdkInv

LEMMA SendKeeps ==
    ASSUME SdkInv, SendEvent \/ SendComment
    PROVE  SdkInv'
<1>1. /\ Online /\ connection.lines = <<>>
      /\ UNCHANGED <<parser, delivered, call>>
  BY DEF SendEvent, SendComment, Online
<1>2. /\ connection \in Connection("open") /\ Len(delivered) \in Nat
      /\ connection.next \in Nat
      /\ Unread(Len(delivered), connection.lines, connection.next)
  BY <1>1, OnlineTyped
<1>3. \A e, r : EventLines(e, r) # <<>> /\ AfterId(e, r) # <<>> /\ AfterEvent(e, r) # <<>>
                /\ AfterData(e, r) # <<>> /\ LastLine(e) # <<>>
  BY DEF EventLines, AfterId, AfterEvent, AfterData, LastLine
<1>4. parser = Nothing /\ connection.next = Len(delivered) + 1
  BY <1>1, <1>2, <1>3 DEF Unread, Within, Between
<1>5. PICK n \in Nat : n = Len(delivered)
  BY <1>2
<1>6. call'.at = "over" => AnsweredCall'
  BY <1>1 DEF SdkInv, AnsweredCall
<1>7. CASE SendEvent
  <2>1. PICK r \in Remainders :
            connection' = [connection EXCEPT !.next = n + 2, !.lines = EventLines(n + 1, r)]
    <3>1. connection.next = n + 1 /\ connection.next + 1 = n + 2
      BY <1>4, <1>5
    <3> QED
      BY <1>7, <3>1 DEF SendEvent
  <2>2. EventLines(n + 1, r) \in Seq(LineType)
    <3>1. n + 1 \in Nat
      OBVIOUS
    <3> QED
      BY <3>1, LinesTyped
  <2>3. /\ connection' \in Connection("open") /\ connection'.at = "open"
        /\ connection'.next = n + 2 /\ connection'.lines = EventLines(n + 1, r)
    <3>1. PICK d : d = [connection EXCEPT !.next = n + 2]
      OBVIOUS
    <3>2. d \in Connection("open") /\ d.next = n + 2
      <4>1. PICK m \in Nat : m = n + 2
        OBVIOUS
      <4>2. d = [connection EXCEPT !.next = m]
        BY <3>1, <4>1
      <4> QED
        BY <1>2, <4>1, <4>2 DEF Connection
    <3>3. connection' = [d EXCEPT !.lines = EventLines(n + 1, r)]
      BY <2>1, <3>1
    <3> QED
      BY <2>2, <3>2, <3>3 DEF Connection
  <2>4. (\E q \in Remainders : Within(n, q, connection.lines))'
    BY <1>1, <1>4, <2>3 DEF Within
  <2>5. Unread(Len(delivered), connection.lines, connection.next)'
    BY <1>1, <1>5, <2>3, <2>4 DEF Unread
  <2> QED
    BY <1>1, <1>6, <2>3, <2>5 DEF SdkInv
<1>8. CASE SendComment
  <2>1. connection' = [connection EXCEPT !.lines = CommentLines]
    BY <1>8 DEF SendComment
  <2>2. CommentLines \in Seq(LineType)
    BY LinesTyped DEF Remainders
  <2>3. /\ connection' \in Connection("open") /\ connection'.at = "open"
        /\ connection'.next = n + 1 /\ connection'.lines = CommentLines
    BY <1>2, <1>4, <1>5, <2>1, <2>2 DEF Connection
  <2>4. Between(connection.lines)'
    BY <1>1, <1>4, <2>3 DEF Between
  <2>5. Unread(Len(delivered), connection.lines, connection.next)'
    BY <1>1, <1>5, <2>3, <2>4 DEF Unread
  <2> QED
    BY <1>1, <1>6, <2>3, <2>5 DEF SdkInv
<1> QED
  BY <1>7, <1>8

\* A line that ends no event is read.
LEMMA FieldRead ==
    ASSUME SdkInv, Online, NEW l, NEW rest,
           l = Head(connection.lines), rest = Tail(connection.lines),
           ~(l.line = "blank" /\ Pending), ReadLine,
           rest \in Seq(LineType)
    PROVE  /\ delivered' = delivered /\ parser' = ParsedLine(l) /\ call' = call
           /\ connection' \in Connection("open") /\ connection'.at = "open"
           /\ connection'.next = connection.next /\ connection'.lines = rest
<1>1. delivered' = DeliveredBy(l) /\ DeliveredBy(l) = delivered /\ parser' = ParsedLine(l)
  BY DEF ReadLine, DeliveredBy
<1>2. connection' = [connection EXCEPT !.lines = rest] /\ call' = call
  BY <1>1 DEF ReadLine
<1>3. connection \in Connection("open")
  BY OnlineTyped
<1> QED
  BY <1>1, <1>2, <1>3 DEF Connection

\* What a line makes of the parser.
LEMMA LineMeans ==
    ASSUME NEW n, NEW of
    PROVE  /\ parser = Nothing => ParsedLine(Line("id", n)) = Parsed(0, n, 0)
           /\ parser = Parsed(0, n, 0) => ParsedLine(Line("event", n)) = Parsed(n, n, 0)
           /\ \A d : parser = Parsed(n, n, d) =>
                  ParsedLine(Line("data", of)) = Parsed(n, n, of)
           /\ ParsedLine(Line("text", of)) = parser
           /\ ParsedLine(Line("comment", of)) = parser
           /\ ~Pending => ParsedLine(Line("blank", of)) = parser
           /\ Pending => /\ ParsedLine(Line("blank", of)) = Nothing
                         /\ DeliveredBy(Line("blank", of)) = Append(delivered, parser)
<1>1. parser = Nothing => ParsedLine(Line("id", n)) = Parsed(0, n, 0)
  BY DEF ParsedLine, Line, Parsed, Nothing
<1>2. parser = Parsed(0, n, 0) => ParsedLine(Line("event", n)) = Parsed(n, n, 0)
  BY DEF ParsedLine, Line, Parsed
<1>3. \A d : parser = Parsed(n, n, d) => ParsedLine(Line("data", of)) = Parsed(n, n, of)
  BY DEF ParsedLine, Line, Parsed
<1>4. ParsedLine(Line("text", of)) = parser /\ ParsedLine(Line("comment", of)) = parser
  BY DEF ParsedLine, Line
<1>5. ~Pending => ParsedLine(Line("blank", of)) = parser
  BY DEF ParsedLine, Line
<1>6. Pending => /\ ParsedLine(Line("blank", of)) = Nothing
                 /\ DeliveredBy(Line("blank", of)) = Append(delivered, parser)
  BY DEF ParsedLine, DeliveredBy, Line
<1> QED
  BY <1>1, <1>2, <1>3, <1>4, <1>5, <1>6

LEMMA LineNames ==
    ASSUME NEW of
    PROVE  /\ Line("blank", of).line = "blank"
           /\ \A k \in {"id", "event", "data", "text", "comment"} : Line(k, of).line # "blank"
  BY DEF Line

\* Reading within an event, short of its end.
LEMMA WithinKeeps ==
    ASSUME SdkInv, ReadLine, Online,
           NEW n \in Nat, n = Len(delivered), NEW r \in Remainders,
           NEW ls, ls = connection.lines, NEW rest, rest = Tail(ls),
           Within(n, r, ls), ~(Head(ls).line = "blank" /\ Pending),
           parser' = ParsedLine(Head(ls))
    PROVE  Within(n, r, rest)'
<1>1. n + 1 \in Nat /\ n + 1 # 0 /\ DataOf(n + 1) # 0
  <2>1. n + 1 \in Nat /\ n + 1 # 0
    OBVIOUS
  <2> QED
    BY <2>1, WholeIs
<1>2. CASE ls = EventLines(n + 1, r) /\ parser = Nothing
  <2>1. Head(ls) = Line("id", n + 1) /\ rest = AfterId(n + 1, r)
    BY <1>2, LinesRead
  <2>2. parser' = Parsed(0, n + 1, 0)
    BY <1>2, <2>1, LineMeans
  <2> QED
    BY <2>1, <2>2 DEF Within
<1>3. CASE ls = AfterId(n + 1, r) /\ parser = Parsed(0, n + 1, 0)
  <2>1. Head(ls) = Line("event", n + 1) /\ rest = AfterEvent(n + 1, r)
    BY <1>3, LinesRead
  <2>2. parser' = Parsed(n + 1, n + 1, 0)
    BY <1>3, <2>1, LineMeans
  <2> QED
    BY <2>1, <2>2 DEF Within
<1>4. CASE ls = AfterEvent(n + 1, r) /\ parser = Parsed(n + 1, n + 1, 0)
  <2>1. Head(ls) = Line("data", DataOf(n + 1)) /\ rest = AfterData(n + 1, r)
    BY <1>4, LinesRead
  <2>2. parser' = Whole(n + 1)
    BY <1>4, <2>1, LineMeans DEF Whole
  <2> QED
    BY <2>1, <2>2 DEF Within
<1>5. ASSUME parser = Whole(n + 1) PROVE Pending
  BY <1>1, <1>5 DEF Pending, Whole, Parsed
<1>6. CASE ls = LastLine(n + 1) /\ parser = Whole(n + 1)
  <2>1. Head(ls) = Line("blank", n + 1)
    BY <1>6, LinesRead
  <2> QED
    BY <1>5, <1>6, <2>1, LineNames
<1>7. CASE ls = AfterData(n + 1, r) /\ parser = Whole(n + 1) /\ n + 1 \notin Separated
  <2>1. ls = LastLine(n + 1)
    BY <1>7, LinesRead
  <2> QED
    BY <1>6, <1>7, <2>1
<1>8. CASE ls = AfterData(n + 1, r) /\ parser = Whole(n + 1) /\ n + 1 \in Separated
  <2>1. Head(ls) = Line(r, -(n + 1)) /\ rest = LastLine(n + 1)
    BY <1>8, LinesRead
  <2>2. DataOf(n + 1) = -(n + 1)
    BY <1>8 DEF DataOf
  <2>3. r \in {"text", "data"}
    BY <1>5, <1>8, <2>1, LineNames DEF Remainders
  <2>4. parser' = Whole(n + 1)
    <3>1. CASE r = "text"
      BY <1>8, <2>1, <3>1, LineMeans
    <3>2. CASE r = "data"
      BY <1>8, <2>1, <2>2, <3>2, LineMeans DEF Whole
    <3> QED
      BY <2>3, <3>1, <3>2
  <2> QED
    BY <2>1, <2>4 DEF Within
<1> QED
  BY <1>2, <1>3, <1>4, <1>6, <1>7, <1>8 DEF Within

\* Reading between two events.
LEMMA BetweenKeeps ==
    ASSUME SdkInv, ReadLine, Online,
           NEW ls, ls = connection.lines, NEW rest, rest = Tail(ls),
           Between(ls), parser' = ParsedLine(Head(ls))
    PROVE  Between(rest)'
<1>1. ls # <<>> /\ parser = Nothing
  BY DEF ReadLine, Between
<1>2. ~Pending
  BY <1>1 DEF Pending, Nothing
<1>3. CASE ls = CommentLines
  <2>1. Head(ls) = Line("comment", 0) /\ rest = LastLine(0)
    BY <1>3, LinesRead
  <2>2. parser' = Nothing
    BY <1>1, <2>1, LineMeans
  <2> QED
    BY <2>1, <2>2 DEF Between
<1>4. ASSUME NEW m \in Nat, ls = LastLine(m)
      PROVE  Between(rest)'
  <2>1. Head(ls) = Line("blank", m) /\ rest = <<>>
    BY <1>4, LinesRead
  <2>2. parser' = Nothing
    BY <1>1, <1>2, <2>1, LineMeans
  <2> QED
    BY <2>1, <2>2 DEF Between
<1> QED
  BY <1>1, <1>3, <1>4 DEF Between

\* The line that ends an event.
LEMMA EventEnds ==
    ASSUME SdkInv, ReadLine, Online, NEW n \in Nat, n = Len(delivered),
           Head(connection.lines).line = "blank", Pending
    PROVE  /\ connection.next = n + 2
           /\ parser = Whole(n + 1)
           /\ \E m \in Nat : Tail(connection.lines) \in {<<>>, LastLine(m)}
<1>1. PICK ls : ls = connection.lines
  OBVIOUS
<1>2. Unread(n, ls, connection.next)
  BY <1>1, OnlineTyped
<1>3. parser # Nothing
  BY DEF Pending, Nothing
<1>4. PICK r \in Remainders : Within(n, r, ls) /\ connection.next = n + 2
  BY <1>2, <1>3 DEF Unread, Between
<1>5. Head(ls).line = "blank"
  BY <1>1
<1>6. ls # EventLines(n + 1, r)
  BY <1>3, <1>5, LinesRead, LineNames
<1>7. ls # AfterId(n + 1, r)
  BY <1>5, LinesRead, LineNames
<1>8. ls # AfterEvent(n + 1, r)
  BY <1>5, LinesRead, LineNames
<1>9. parser = Whole(n + 1) /\ ls \in {AfterData(n + 1, r), LastLine(n + 1)}
  BY <1>4, <1>6, <1>7, <1>8 DEF Within
<1>10. Tail(ls) \in {<<>>, LastLine(n + 1)}
  BY <1>9, LinesRead
<1>11. n + 1 \in Nat
  OBVIOUS
<1> QED
  BY <1>1, <1>4, <1>9, <1>10, <1>11

LEMMA ReadLineKeeps ==
    ASSUME SdkInv, ReadLine
    PROVE  SdkInv'
<1>1. Online /\ connection.lines # <<>> /\ call' = call
  BY DEF ReadLine, Online
<1>2. /\ connection \in Connection("open") /\ connection.next \in Nat
      /\ connection.lines \in Seq(LineType)
      /\ Unread(Len(delivered), connection.lines, connection.next)
      /\ delivered \in Seq(EventType)
      /\ Len(delivered) \in Nat /\ DOMAIN delivered = 1..Len(delivered)
      /\ \A i \in DOMAIN delivered : delivered[i] = Whole(i)
  BY <1>1, OnlineTyped DEF SdkInv
<1>3. PICK n \in Nat : n = Len(delivered)
  BY <1>2
<1>4. PICK l, rest : l = Head(connection.lines) /\ rest = Tail(connection.lines)
  OBVIOUS
<1>5. rest \in Seq(LineType)
  BY <1>1, <1>2, <1>4
<1>6. call'.at = "over" => AnsweredCall'
  BY <1>1 DEF SdkInv, AnsweredCall
<1>7. CASE ~(l.line = "blank" /\ Pending)
  <2>1. /\ delivered' = delivered /\ parser' = ParsedLine(l)
        /\ connection' \in Connection("open") /\ connection'.at = "open"
        /\ connection'.next = connection.next /\ connection'.lines = rest
    BY <1>1, <1>4, <1>5, <1>7, FieldRead
  <2>2. CASE Between(connection.lines) /\ connection.next = n + 1
    <3>1. Between(rest)'
      BY <1>1, <1>4, <2>1, <2>2, BetweenKeeps
    <3>2. Between(connection.lines)'
      BY <2>1, <3>1 DEF Between
    <3>3. Unread(Len(delivered), connection.lines, connection.next)'
      BY <1>3, <2>1, <2>2, <3>2 DEF Unread
    <3> QED
      BY <1>2, <1>6, <2>1, <3>3 DEF SdkInv
  <2>3. CASE (\E r \in Remainders : Within(n, r, connection.lines)) /\ connection.next = n + 2
    <3>1. PICK r \in Remainders : Within(n, r, connection.lines)
      BY <2>3
    <3>2. Within(n, r, rest)'
      BY <1>1, <1>3, <1>4, <1>7, <2>1, <3>1, WithinKeeps
    <3>3. (\E q \in Remainders : Within(n, q, connection.lines))'
      BY <2>1, <3>2 DEF Within
    <3>4. Unread(Len(delivered), connection.lines, connection.next)'
      BY <1>3, <2>1, <2>3, <3>3 DEF Unread
    <3> QED
      BY <1>2, <1>6, <2>1, <3>4 DEF SdkInv
  <2> QED
    BY <1>2, <1>3, <2>2, <2>3 DEF Unread
<1>8. CASE l.line = "blank" /\ Pending
  <2>1. /\ connection.next = n + 2 /\ parser = Whole(n + 1)
        /\ \E m \in Nat : rest \in {<<>>, LastLine(m)}
    BY <1>1, <1>3, <1>4, <1>8, EventEnds
  <2>2. ParsedLine(l) = Nothing /\ DeliveredBy(l) = Append(delivered, parser)
    BY <1>8 DEF ParsedLine, DeliveredBy
  <2>3. /\ delivered' = Append(delivered, Whole(n + 1))
        /\ parser' = Nothing
        /\ \/ connection' = Disconnected
           \/ connection' = [connection EXCEPT !.lines = rest]
    BY <1>4, <2>1, <2>2 DEF ReadLine
  <2>4. Whole(n + 1) \in EventType
    <3>1. n + 1 \in Nat
      OBVIOUS
    <3> QED
      BY <3>1, WholeIs
  <2>5. /\ delivered' \in Seq(EventType) /\ Len(delivered') = n + 1
        /\ \A i \in DOMAIN delivered' : delivered'[i] = Whole(i)
    <3>1. /\ delivered' \in Seq(EventType)
          /\ Len(delivered') = n + 1 /\ DOMAIN delivered' = 1..(n + 1)
          /\ delivered'[n + 1] = Whole(n + 1)
          /\ \A i \in 1..n : delivered'[i] = delivered[i]
      BY <1>2, <1>3, <2>3, <2>4
    <3>2. ASSUME NEW i \in 1..(n + 1)
          PROVE  delivered'[i] = Whole(i)
      <4>1. CASE i = n + 1
        BY <3>1, <4>1
      <4>2. CASE i # n + 1
        <5>1. i \in 1..n
          BY <4>2
        <5> QED
          BY <1>2, <1>3, <3>1, <5>1
      <4> QED
        BY <4>1, <4>2
    <3> QED
      BY <3>1, <3>2
  <2>6. CASE connection' = Disconnected
    BY <1>6, <2>5, <2>6 DEF SdkInv, Online, Disconnected
  <2>7. CASE connection' = [connection EXCEPT !.lines = rest]
    <3>1. /\ connection' \in Connection("open") /\ connection'.next = n + 2
          /\ connection'.lines = rest
      BY <1>2, <1>5, <2>1, <2>7 DEF Connection
    <3>2. Between(connection.lines)'
      BY <2>1, <2>3, <3>1 DEF Between
    <3>3. connection'.next = Len(delivered') + 1
      <4>1. Len(delivered') + 1 = n + 2
        BY <2>5, n \in Nat
      <4> QED
        BY <3>1, <4>1
    <3>4. Unread(Len(delivered), connection.lines, connection.next)'
      BY ONLY <3>2, <3>3 DEF Unread
    <3> QED
      BY <1>6, <2>5, <3>1, <3>4 DEF SdkInv
  <2> QED
    BY <2>3, <2>6, <2>7
<1> QED
  BY <1>7, <1>8

LEMMA CutStreamKeeps ==
    ASSUME SdkInv, CutStream
    PROVE  SdkInv'
<1>1. connection' = Disconnected /\ UNCHANGED <<delivered, call>>
  BY DEF CutStream
<1> QED
  BY <1>1 DEF SdkInv, Online, Disconnected, AnsweredCall

LEMMA CallKeeps ==
    ASSUME SdkInv, UNCHANGED <<connection, parser, delivered>>,
           call'.at = "over" => AnsweredCall'
    PROVE  SdkInv'
  BY DEF SdkInv, Online, Unread, Within, Between

LEMMA SdkInvInit == SdkInit => SdkInv
  BY DEF SdkInit, SdkInv, Online, Disconnected

LEMMA SdkInvStep == SdkInv /\ [SdkNext]_sdkVars => SdkInv'
<1> SUFFICES ASSUME SdkInv, [SdkNext]_sdkVars
             PROVE  SdkInv'
  OBVIOUS
<1>1. CASE OpenStream
  BY <1>1, OpenStreamKeeps
<1>2. CASE SendEvent \/ SendComment
  BY <1>2, SendKeeps
<1>3. CASE ReadLine
  BY <1>3, ReadLineKeeps
<1>4. CASE CutStream
  BY <1>4, CutStreamKeeps
<1>5. ASSUME NEW reply \in Replies, NEW endpoint \in DOMAIN Expected,
             Request(endpoint, reply)
      PROVE  SdkInv'
  <2>1. call'.reply = reply /\ call'.endpoint = endpoint
        /\ call'.outcome = Outcome(endpoint, reply)
    BY <1>5 DEF Request
  <2>2. AnsweredCall'
    BY <2>1 DEF AnsweredCall
  <2> QED
    BY <1>5, <2>2, CallKeeps DEF Request
<1>6. ASSUME NEW reply \in Replies, NEW endpoint \in {"delete_session", "delete_pipeline"},
             DeleteRequest(endpoint, reply)
      PROVE  SdkInv'
  <2>1. call'.reply = reply /\ call'.endpoint = endpoint
        /\ call'.outcome = DeleteOutcome(reply)
    BY <1>6 DEF DeleteRequest
  <2>2. AnsweredCall'
    BY <2>1 DEF AnsweredCall
  <2> QED
    BY <1>6, <2>2, CallKeeps DEF DeleteRequest
<1>7. CASE NextRequest
  BY <1>7, CallKeeps DEF NextRequest
<1>8. CASE UNCHANGED sdkVars
  <2>1. call'.at = "over" => AnsweredCall'
    BY <1>8 DEF sdkVars, SdkInv, AnsweredCall
  <2> QED
    BY <1>8, <2>1, CallKeeps DEF sdkVars
<1> QED
  BY <1>1, <1>2, <1>3, <1>4, <1>5, <1>6, <1>7, <1>8 DEF SdkNext

LEMMA ExpectedStatuses ==
    /\ \A e \in DOMAIN Expected : Expected[e] \in {200, 201}
    /\ "delete_session" \notin DOMAIN Expected /\ "delete_pipeline" \notin DOMAIN Expected
<1>1. /\ DOMAIN QueryEndpoints = {"search", "find_similar", "contents"}
      /\ DOMAIN ResearchEndpoints = {"create_research", "get_research_job"}
      /\ DOMAIN SessionEndpoints = {"create_session"}
      /\ DOMAIN PipelineEndpoints = {"create_pipeline", "get_pipeline"}
  BY DEF QueryEndpoints, ResearchEndpoints, SessionEndpoints, PipelineEndpoints
<1>2. /\ \A e \in DOMAIN QueryEndpoints : QueryEndpoints[e] \in {200, 201}
      /\ \A e \in DOMAIN ResearchEndpoints : ResearchEndpoints[e] \in {200, 201}
      /\ \A e \in DOMAIN SessionEndpoints : SessionEndpoints[e] \in {200, 201}
      /\ \A e \in DOMAIN PipelineEndpoints : PipelineEndpoints[e] \in {200, 201}
  BY DEF QueryEndpoints, ResearchEndpoints, SessionEndpoints, PipelineEndpoints
<1>3. \A e \in DOMAIN Expected : Expected[e] \in {200, 201}
  BY <1>2 DEF Expected
<1> QED
  BY <1>1, <1>3 DEF Expected

LEMMA TransportFails ==
    ASSUME NEW reply \in Replies, reply.kind # "response"
    PROVE  /\ Transport(reply) # "value"
           /\ reply.kind = "timeout" => Transport(reply) = "TimeoutError"
           /\ reply.kind = "connect" => Transport(reply) = "ConnectionError"
           /\ Transport(reply) \notin SdkOutcomes => reply.kind = "broken"
<1>1. reply.kind \in {"timeout", "connect", "broken"}
  BY DEF Replies
<1> QED
  BY <1>1 DEF Transport, SdkOutcomes

LEMMA BodiesRead ==
    ASSUME NEW endpoint \in DOMAIN Expected, NEW body \in Bodies, body # "unreadable"
    PROVE  /\ body = "complete" => ValueOf(endpoint, body) = "value"
           /\ body = "partial" /\ endpoint # "contents" => ValueOf(endpoint, body) = "KeyError"
           /\ ValueOf(endpoint, body) # "APIError"
           /\ ValueOf(endpoint, body) \notin SdkOutcomes =>
                  body \in {"partial", "empty", "no object"}
<1>1. CASE body = "complete"
  BY <1>1 DEF ValueOf, SdkOutcomes
<1>2. CASE body = "partial"
  BY <1>2 DEF ValueOf, SdkOutcomes
<1>3. CASE body = "empty"
  BY <1>3 DEF ValueOf, SdkOutcomes
<1>4. CASE body = "no object"
  BY <1>4 DEF ValueOf, SdkOutcomes
<1> QED
  BY <1>1, <1>2, <1>3, <1>4 DEF Bodies

\* What SdkFaithful says of a plain request.
CallFaithful(endpoint, reply, outcome) ==
    LET success == reply.kind = "response" /\ reply.status \in TwoHundreds
        parsed == success /\ endpoint \in DOMAIN Expected
    IN
    /\ outcome = "value" => success
    /\ reply.kind = "response" /\ ~success => outcome = "APIError"
    /\ reply.kind = "timeout" => outcome = "TimeoutError"
    /\ reply.kind = "connect" => outcome = "ConnectionError"
    /\ parsed /\ reply.body = "unreadable" => outcome = "ParseError"
    /\ parsed /\ reply.body = "complete" => outcome = "value"
    /\ parsed /\ reply.body = "partial" /\ endpoint # "contents" => outcome = "KeyError"
    /\ outcome \notin SdkOutcomes =>
           \/ reply.kind = "broken"
           \/ parsed /\ reply.body \in {"partial", "empty", "no object"}

LEMMA CallsFaithful ==
    ASSUME NEW reply \in Replies, NEW endpoint, NEW outcome,
           \/ endpoint \in DOMAIN Expected /\ outcome = Outcome(endpoint, reply)
           \/ /\ endpoint \in {"delete_session", "delete_pipeline"}
              /\ outcome = DeleteOutcome(reply)
    PROVE  CallFaithful(endpoint, reply, outcome)
<1>1. {200, 201, 204} \subseteq TwoHundreds
  BY DEF TwoHundreds
<1>2. CASE reply.kind # "response"
  <2>1. outcome = Transport(reply)
    BY <1>2 DEF Outcome, DeleteOutcome
  <2> QED
    BY <1>2, <2>1, TransportFails DEF CallFaithful
<1>3. CASE /\ reply.kind = "response"
           /\ endpoint \in DOMAIN Expected /\ outcome = Outcome(endpoint, reply)
  <2>1. Expected[endpoint] \in TwoHundreds
    BY <1>1, <1>3, ExpectedStatuses
  <2>2. reply.body \in Bodies
    BY <1>3 DEF Replies
  <2>3. CASE reply.status \notin TwoHundreds
    <3>1. outcome = "APIError"
      BY <1>3, <2>1, <2>3 DEF Outcome
    <3> QED
      BY <1>3, <2>3, <3>1 DEF CallFaithful, SdkOutcomes
  <2>4. CASE reply.status \in TwoHundreds /\ reply.body = "unreadable"
    <3>1. outcome = "ParseError"
      BY <1>3, <2>4 DEF Outcome
    <3> QED
      BY <1>3, <2>4, <3>1 DEF CallFaithful, SdkOutcomes
  <2>5. CASE reply.status \in TwoHundreds /\ reply.body # "unreadable"
    <3>1. outcome = ValueOf(endpoint, reply.body)
      BY <1>3, <2>5 DEF Outcome
    <3>2. PICK body \in Bodies : body = reply.body
      BY <2>2
    <3>3. /\ body = "complete" => outcome = "value"
          /\ body = "partial" /\ endpoint # "contents" => outcome = "KeyError"
          /\ outcome \notin SdkOutcomes => body \in {"partial", "empty", "no object"}
      <4>1. endpoint \in DOMAIN Expected /\ body # "unreadable" /\ outcome = ValueOf(endpoint, body)
        BY <1>3, <2>5, <3>1, <3>2
      <4> QED
        BY ONLY <4>1, body \in Bodies, BodiesRead
    <3> QED
      BY <1>3, <2>5, <3>2, <3>3 DEF CallFaithful
  <2> QED
    BY <2>3, <2>4, <2>5
<1>4. CASE /\ reply.kind = "response"
           /\ endpoint \in {"delete_session", "delete_pipeline"}
           /\ outcome = DeleteOutcome(reply)
  <2>1. endpoint \notin DOMAIN Expected
    BY <1>4, ExpectedStatuses
  <2>2. outcome = IF reply.status \in {200, 204} THEN "value" ELSE "APIError"
    BY <1>4 DEF DeleteOutcome
  <2> QED
    BY <1>1, <1>4, <2>1, <2>2 DEF CallFaithful, SdkOutcomes
<1> QED
  BY <1>2, <1>3, <1>4

\* Streams resumed and requests answered (R16.2, R16.3;
\* src/sdks/python, _parse_sse_stream and _request): for streams of any length,
\* with separators in any of their events, cut anywhere and any number of times,
\* and every status a server answers.
THEOREM SdkFaithfulCorrect == SdkSpec => []SdkFaithful
<1>1. SdkInv => SdkFaithful
  <2> SUFFICES ASSUME SdkInv
               PROVE  SdkFaithful
    OBVIOUS
  <2>1. \A i \in DOMAIN delivered :
            delivered[i] = [type |-> i, id |-> i, data |-> DataOf(i)]
    BY DEF SdkInv, Whole, Parsed
  <2>2. Online => connection.next > Len(delivered)
    <3>1. Online => /\ Unread(Len(delivered), connection.lines, connection.next)
                    /\ Len(delivered) \in Nat
      BY OnlineTyped
    <3>2. Online => \/ connection.next = Len(delivered) + 1
                    \/ connection.next = Len(delivered) + 2
      BY <3>1 DEF Unread
    <3> QED
      BY <3>1, <3>2
  <2>3. call.at = "over" => CallFaithful(call.endpoint, call.reply, call.outcome)
    <3>1. call.at = "over" => AnsweredCall
      BY DEF SdkInv
    <3> QED
      BY <3>1, CallsFaithful DEF AnsweredCall
  <2> QED
    BY <2>1, <2>2, <2>3 DEF SdkFaithful, CallFaithful, Online
<1> QED
  BY <1>1, SdkInvInit, SdkInvStep, PTL DEF SdkSpec


-----------------------------------------------------------------------------
(* The books of the indexer.                                               *)

\* Induction over the naturals, for a property given as a set.
LEMMA Least ==
    ASSUME NEW T \in SUBSET Nat, T # {}
    PROVE  \E n \in T : \A m \in T : n <= m
<1> DEFINE Less == {p \in Nat \X Nat : p[1] < p[2]}
<1>1. IsWellFoundedOn(Less, Nat)
  BY NatLessThanWellFounded DEF OpToRel
<1> HIDE DEF Less
<1>2. PICK n \in T : \A m \in T : ~ (<<m, n>> \in Less)
  BY <1>1, WFMin
<1>3. \A m \in T : ~ (m < n)
  BY <1>2 DEF Less
<1> QED
  BY <1>3

LEMMA Induction ==
    ASSUME NEW T, 0 \in T, \A n \in Nat : n \in T => n + 1 \in T
    PROVE  Nat \subseteq T
<1> DEFINE R == Nat \ T
<1>1. SUFFICES ASSUME R # {} PROVE FALSE
  OBVIOUS
<1>2. PICK n \in R : \A m \in R : n <= m
  BY <1>1, Least
<1>3. n # 0 /\ n - 1 \in Nat
  OBVIOUS
<1>4. n - 1 \in T
  BY <1>2, <1>3
<1> QED
  BY <1>3, <1>4

\* What should_route_to_dlq asks of neighbours bounds the whole stretch.
LEMMA SpacedStretch ==
    ASSUME NEW times \in Seq(Nat), ShouldRoute(times)
    PROVE  times[Len(times)] - times[Len(times) - MaxAttempts + 1]
               >= (MaxAttempts - 1) * RetrySpacing
<1> DEFINE n == Len(times)
<1> DEFINE T == {k \in Nat : k <= MaxAttempts - 1 =>
                     times[n] - times[n - k] >= k * RetrySpacing}
<1>1. /\ MaxAttempts \in Nat \ {0} /\ RetrySpacing \in Nat
      /\ n \in Nat /\ n >= MaxAttempts
      /\ \A i \in 1..n : times[i] \in Nat
      /\ \A i \in (n - MaxAttempts + 1)..(n - 1) : times[i + 1] - times[i] >= RetrySpacing
  BY BookAssumption DEF ShouldRoute, BookAssumption
<1> HIDE DEF n
<1>2. 0 \in T
  <2>1. n \in 1..n /\ n - 0 = n /\ 0 * RetrySpacing = 0
    BY <1>1
  <2> QED
    BY <1>1, <2>1
<1>3. \A k \in Nat : k \in T => k + 1 \in T
  <2> SUFFICES ASSUME NEW k \in Nat, k \in T, k + 1 <= MaxAttempts - 1
               PROVE  times[n] - times[n - (k + 1)] >= (k + 1) * RetrySpacing
    OBVIOUS
  <2>1. times[n] - times[n - k] >= k * RetrySpacing
    BY <1>1
  <2>2. PICK i \in Int : i = n - (k + 1)
    BY <1>1
  <2>3. i \in (n - MaxAttempts + 1)..(n - 1) /\ i + 1 = n - k
    BY <1>1, <2>2
  <2>4. i \in 1..n /\ i + 1 \in 1..n /\ n \in 1..n
    BY <1>1, <2>3
  <2>5. times[n - k] - times[i] >= RetrySpacing
    BY <1>1, <2>3
  <2>6. times[n] \in Nat /\ times[n - k] \in Nat /\ times[i] \in Nat
    BY <1>1, <2>3, <2>4
  <2>7. (k + 1) * RetrySpacing = k * RetrySpacing + RetrySpacing
    BY <1>1
  <2>8. k * RetrySpacing \in Nat
    BY <1>1
  <2>9. PICK a \in Nat : a = k * RetrySpacing
    BY <2>8
  <2>10. times[n] - times[i] >= a + RetrySpacing
    <3>1. RetrySpacing \in Nat
      BY <1>1
    <3>2. times[n] - times[n - k] >= a
      BY ONLY <2>1, <2>9
    <3>3. PICK x \in Nat, y \in Nat, z \in Nat :
              x = times[n] /\ y = times[n - k] /\ z = times[i]
      BY ONLY <2>6
    <3>4. x - y >= a /\ y - z >= RetrySpacing
      BY ONLY <2>5, <3>2, <3>3
    <3>5. x - z >= a + RetrySpacing
      BY ONLY <3>1, <3>4, a \in Nat, x \in Nat, y \in Nat, z \in Nat
    <3> QED
      BY ONLY <3>3, <3>5
  <2>11. (k + 1) * RetrySpacing = a + RetrySpacing
    BY ONLY <2>7, <2>9
  <2> QED
    BY ONLY <2>2, <2>10, <2>11
<1> HIDE DEF T
<1>4. MaxAttempts - 1 \in Nat /\ n - (MaxAttempts - 1) = n - MaxAttempts + 1
  BY <1>1
<1>5. MaxAttempts - 1 \in T
  BY <1>2, <1>3, <1>4, Induction
<1> QED
  BY <1>4, <1>5 DEF T, n

BookTypes ==
    /\ failures \in [BookSources -> Seq(Nat)]
    /\ failuresEver \in [BookSources -> Seq(Nat)]
    /\ deadEntries \in Seq([source : BookSources, attempts : Nat, failed : Nat])
    /\ beat \in Nat

\* A letter of a source tells failures that happened, from where the one before
\* it ended.
LetterSound(s, i) ==
    /\ deadEntries[i].attempts >= MaxAttempts
    /\ deadEntries[i].attempts <= deadEntries[i].failed
    /\ deadEntries[i].failed <= Len(failuresEver[s])
    /\ ToldUpTo({j \in LettersOf(s) : j < i},
                deadEntries[i].failed - deadEntries[i].attempts)
    /\ failuresEver[s][deadEntries[i].failed]
           - failuresEver[s][deadEntries[i].failed - MaxAttempts + 1]
               >= (MaxAttempts - 1) * RetrySpacing

\* The book of a source holds the last of its failures, and its letters the rest.
BookHolds(s) ==
    /\ Len(failures[s]) <= Len(failuresEver[s])
    /\ \A k \in 1..Len(failures[s]) :
           failures[s][k] = failuresEver[s][Len(failuresEver[s]) - Len(failures[s]) + k]
    /\ ToldUpTo(LettersOf(s), Len(failuresEver[s]) - Len(failures[s]))

BookInv ==
    /\ BookTypes
    /\ \A s \in BookSources :
           BookHolds(s) /\ \A i \in LettersOf(s) : LetterSound(s, i)

LEMMA BookTyped ==
    ASSUME BookTypes
    PROVE  /\ \A s \in BookSources :
                  /\ failures[s] \in Seq(Nat) /\ Len(failures[s]) \in Nat
                  /\ failuresEver[s] \in Seq(Nat) /\ Len(failuresEver[s]) \in Nat
           /\ Len(deadEntries) \in Nat /\ DOMAIN deadEntries = 1..Len(deadEntries)
           /\ \A i \in DOMAIN deadEntries :
                  /\ deadEntries[i] \in [source : BookSources, attempts : Nat, failed : Nat]
                  /\ deadEntries[i].attempts \in Nat /\ deadEntries[i].failed \in Nat
           /\ \A s \in BookSources : LettersOf(s) \subseteq DOMAIN deadEntries
<1>1. \A s \in BookSources : failures[s] \in Seq(Nat) /\ failuresEver[s] \in Seq(Nat)
  BY DEF BookTypes
<1>2. \A s \in BookSources : Len(failures[s]) \in Nat /\ Len(failuresEver[s]) \in Nat
  BY <1>1, LenProperties
<1>3. Len(deadEntries) \in Nat /\ DOMAIN deadEntries = 1..Len(deadEntries)
  BY LenProperties DEF BookTypes
<1>4. \A i \in DOMAIN deadEntries :
          deadEntries[i] \in [source : BookSources, attempts : Nat, failed : Nat]
  BY <1>3, ElementOfSeq DEF BookTypes
<1>5. \A i \in DOMAIN deadEntries :
          deadEntries[i].attempts \in Nat /\ deadEntries[i].failed \in Nat
  BY <1>4
<1> QED
  BY <1>1, <1>2, <1>3, <1>4, <1>5 DEF LettersOf

\* A letter stays sound while its source's failures only grow.
LEMMA LettersKept ==
    ASSUME NEW s \in BookSources, BookTypes,
           \A i \in LettersOf(s) : LetterSound(s, i),
           LettersOf(s) \subseteq LettersOf(s)',
           \A i \in LettersOf(s), j \in LettersOf(s)' : j < i => j \in LettersOf(s),
           \A i \in LettersOf(s) : deadEntries'[i] = deadEntries[i],
           Len(failuresEver'[s]) \in Nat,
           Len(failuresEver[s]) <= Len(failuresEver'[s]),
           \A k \in 1..Len(failuresEver[s]) : failuresEver'[s][k] = failuresEver[s][k]
    PROVE  \A i \in LettersOf(s) : LetterSound(s, i)'
<1> SUFFICES ASSUME NEW i \in LettersOf(s) PROVE LetterSound(s, i)'
  OBVIOUS
<1>1. PICK e : e = deadEntries[i]
  OBVIOUS
<1>2. PICK E : E = failuresEver[s]
  OBVIOUS
<1>3. PICK G : G = failuresEver'[s]
  OBVIOUS
<1>4. /\ e = deadEntries'[i]
      /\ e.attempts \in Nat /\ e.failed \in Nat
      /\ Len(E) \in Nat /\ Len(G) \in Nat /\ Len(E) <= Len(G)
      /\ \A k \in 1..Len(E) : G[k] = E[k]
      /\ MaxAttempts \in Nat \ {0}
  BY <1>1, <1>2, <1>3, BookTyped, BookAssumption DEF BookAssumption
<1>5. /\ e.attempts >= MaxAttempts /\ e.attempts <= e.failed /\ e.failed <= Len(E)
      /\ ToldUpTo({j \in LettersOf(s) : j < i}, e.failed - e.attempts)
      /\ E[e.failed] - E[e.failed - MaxAttempts + 1] >= (MaxAttempts - 1) * RetrySpacing
  BY <1>1, <1>2 DEF LetterSound
<1>6. PICK a \in Nat : a = e.failed
  BY <1>4
<1>7. a \in 1..Len(E) /\ a - MaxAttempts + 1 \in 1..Len(E)
  <2>1. PICK n \in Nat, w \in Nat : n = Len(E) /\ w = e.attempts
    BY <1>4
  <2>2. w >= MaxAttempts /\ w <= a /\ a <= n
    BY ONLY <1>5, <1>6, <2>1
  <2>3. a \in 1..n /\ a - MaxAttempts + 1 \in 1..n
    BY ONLY <1>4, <2>2, a \in Nat, n \in Nat, w \in Nat
  <2> QED
    BY <2>1, <2>3
<1>8. G[e.failed] = E[e.failed]
      /\ G[e.failed - MaxAttempts + 1] = E[e.failed - MaxAttempts + 1]
  BY <1>4, <1>6, <1>7
<1>9. ToldUpTo({j \in LettersOf(s) : j < i}, e.failed - e.attempts)'
  <2>1. PICK n : n = e.failed - e.attempts
    OBVIOUS
  <2>2. {j \in LettersOf(s)' : j < i} = {j \in LettersOf(s) : j < i}
    OBVIOUS
  <2>3. /\ \A j \in {j \in LettersOf(s) : j < i} : deadEntries[j].failed <= n
        /\ \/ n = 0
           \/ \E j \in {j \in LettersOf(s) : j < i} : deadEntries[j].failed = n
    BY <1>5, <2>1 DEF ToldUpTo
  <2>4. \A j \in {j \in LettersOf(s) : j < i} : deadEntries'[j] = deadEntries[j]
    OBVIOUS
  <2>5. /\ \A j \in {j \in LettersOf(s)' : j < i} : deadEntries'[j].failed <= n
        /\ \/ n = 0
           \/ \E j \in {j \in LettersOf(s)' : j < i} : deadEntries'[j].failed = n
    BY <2>2, <2>3, <2>4
  <2> QED
    BY <1>1, <1>4, <2>1, <2>5 DEF ToldUpTo
<1>10. e.failed <= Len(G)
  BY <1>4, <1>5
<1> QED
  BY <1>3, <1>4, <1>5, <1>8, <1>9, <1>10, <1>1 DEF LetterSound

\* Nothing happened to the source.
LEMMA BookUntouched ==
    ASSUME NEW s \in BookSources, BookTypes,
           BookHolds(s) /\ \A i \in LettersOf(s) : LetterSound(s, i),
           failures'[s] = failures[s], failuresEver'[s] = failuresEver[s],
           LettersOf(s)' = LettersOf(s),
           \A i \in LettersOf(s) : deadEntries'[i] = deadEntries[i]
    PROVE  /\ BookHolds(s)'
           /\ \A i \in LettersOf(s)' : LetterSound(s, i)'
<1>1. Len(failuresEver[s]) \in Nat
  BY BookTyped
<1>2. \A i \in LettersOf(s)' : LetterSound(s, i)'
  BY <1>1, LettersKept
<1>3. PICK n : n = Len(failuresEver[s]) - Len(failures[s])
  OBVIOUS
<1>4. ToldUpTo(LettersOf(s), n)
  BY <1>3 DEF BookHolds
<1>5. ToldUpTo(LettersOf(s), n)'
  BY <1>4 DEF ToldUpTo
<1> QED
  BY <1>2, <1>3, <1>5 DEF BookHolds

\* The book of a source after one more failure: still the last failures.
LEMMA OneMoreFailure ==
    ASSUME NEW F \in Seq(Nat), NEW E \in Seq(Nat), NEW b \in Nat,
           Len(F) <= Len(E),
           \A k \in 1..Len(F) : F[k] = E[Len(E) - Len(F) + k]
    PROVE  LET R == Append(F, b)
               G == Append(E, b)
           IN  /\ R \in Seq(Nat) /\ G \in Seq(Nat)
               /\ Len(R) = Len(F) + 1 /\ Len(G) = Len(E) + 1
               /\ \A k \in 1..Len(E) : G[k] = E[k]
               /\ \A k \in 1..Len(R) : R[k] = G[Len(G) - Len(R) + k]
<1> DEFINE R == Append(F, b)
<1> DEFINE G == Append(E, b)
<1>1. /\ R \in Seq(Nat) /\ Len(R) = Len(F) + 1 /\ R[Len(F) + 1] = b
      /\ \A k \in 1..Len(F) : R[k] = F[k]
  BY AppendProperties
<1>2. /\ G \in Seq(Nat) /\ Len(G) = Len(E) + 1 /\ G[Len(E) + 1] = b
      /\ \A k \in 1..Len(E) : G[k] = E[k]
  BY AppendProperties
<1>3. Len(F) \in Nat /\ Len(E) \in Nat
  BY LenProperties
<1> HIDE DEF R, G
<1>4. ASSUME NEW k \in 1..Len(R) PROVE R[k] = G[Len(G) - Len(R) + k]
  <2>0. k \in Int /\ Len(E) - Len(F) + k \in Int
    BY <1>3
  <2>1. PICK q \in Int : q = Len(E) - Len(F) + k
    BY <2>0
  <2>2. Len(G) - Len(R) + k = q
    BY <1>1, <1>2, <1>3, <2>1
  <2>3. CASE k = Len(F) + 1
    <3>1. q = Len(E) + 1
      BY <1>3, <2>1, <2>3
    <3> QED
      BY <1>1, <1>2, <2>2, <2>3, <3>1
  <2>4. CASE k # Len(F) + 1
    <3>1. k \in 1..Len(F) /\ q \in 1..Len(E)
      BY <1>1, <1>3, <2>1, <2>4
    <3> QED
      BY <1>1, <1>2, <2>1, <2>2, <3>1
  <2> QED
    BY <2>3, <2>4
<1> QED
  BY <1>1, <1>2, <1>4 DEF R, G

LEMMA BookInitial == BookInit => BookInv
<1> SUFFICES ASSUME BookInit PROVE BookInv
  OBVIOUS
<1>1. BookTypes
  BY DEF BookInit, BookTypes
<1>2. \A s \in BookSources : LettersOf(s) = {}
  BY DEF BookInit, LettersOf
<1>3. \A s \in BookSources : failures[s] = <<>> /\ failuresEver[s] = <<>>
  BY DEF BookInit
<1>4. ASSUME NEW s \in BookSources PROVE BookHolds(s)
  <2>1. Len(failures[s]) = 0 /\ Len(failuresEver[s]) = 0
    BY <1>3
  <2>2. ToldUpTo({}, 0)
    BY DEF ToldUpTo
  <2>3. 0 <= 0 /\ 0 - 0 = 0 /\ \A k \in 1..0 : FALSE
    OBVIOUS
  <2> QED
    BY <1>2, <2>1, <2>2, <2>3 DEF BookHolds
<1> QED
  BY <1>1, <1>2, <1>4 DEF BookInv

\* The failure that fills the book of a source becomes a letter.
LEMMA BookRouted ==
    ASSUME BookInv, BookTypes', NEW s \in BookSources, IndexFailed(s),
           ShouldRoute(RecordAttempt(s))
    PROVE  \A q \in BookSources :
               /\ BookHolds(q)'
               /\ \A i \in LettersOf(q)' : LetterSound(q, i)'
<1>0. BookTypes
  BY DEF BookInv
<1>1. PICK F \in Seq(Nat) : F = failures[s]
  BY <1>0, BookTyped
<1>2. PICK E \in Seq(Nat) : E = failuresEver[s]
  BY <1>0, BookTyped
<1>3. PICK R : R = Append(F, beat)
  OBVIOUS
<1>4. PICK G : G = Append(E, beat)
  OBVIOUS
<1>5. PICK last \in Nat : last = Len(deadEntries) + 1
  BY <1>0, BookTyped
<1>6. PICK e : e = [source |-> s, attempts |-> Len(R), failed |-> Len(E) + 1]
  OBVIOUS
<1>7. RecordAttempt(s) = R
  BY <1>1, <1>3 DEF RecordAttempt
<1>8. /\ failures' = [failures EXCEPT ![s] = <<>>]
      /\ failuresEver' = [failuresEver EXCEPT ![s] = G]
      /\ deadEntries' = Append(deadEntries, e)
  BY <1>2, <1>4, <1>6, <1>7 DEF IndexFailed, RouteToDlq
<1>9. /\ Len(F) \in Nat /\ Len(E) \in Nat /\ Len(F) <= Len(E)
      /\ \A k \in 1..Len(F) : F[k] = E[Len(E) - Len(F) + k]
      /\ ToldUpTo(LettersOf(s), Len(E) - Len(F))
      /\ beat \in Nat
  BY <1>0, <1>1, <1>2, BookTyped DEF BookInv, BookHolds, BookTypes
<1>10. /\ R \in Seq(Nat) /\ G \in Seq(Nat)
       /\ Len(R) = Len(F) + 1 /\ Len(G) = Len(E) + 1
       /\ \A k \in 1..Len(E) : G[k] = E[k]
       /\ \A k \in 1..Len(R) : R[k] = G[Len(G) - Len(R) + k]
  <2>1. /\ beat \in Nat /\ Len(F) <= Len(E)
        /\ \A k \in 1..Len(F) : F[k] = E[Len(E) - Len(F) + k]
    BY <1>9
  <2> QED
    BY ONLY <1>3, <1>4, <2>1, F \in Seq(Nat), E \in Seq(Nat), OneMoreFailure
<1>11. e \in [source : BookSources, attempts : Nat, failed : Nat]
       /\ e.source = s /\ e.attempts = Len(R) /\ e.failed = Len(G)
  BY <1>6, <1>9, <1>10
<1>12. /\ DOMAIN deadEntries = 1..Len(deadEntries)
       /\ last \notin DOMAIN deadEntries
       /\ DOMAIN deadEntries' = DOMAIN deadEntries \cup {last}
       /\ \A i \in DOMAIN deadEntries : i < last /\ deadEntries'[i] = deadEntries[i]
       /\ deadEntries'[last] = e
  <2>1. deadEntries \in Seq([source : BookSources, attempts : Nat, failed : Nat])
        /\ Len(deadEntries) \in Nat
    BY <1>0, BookTyped DEF BookTypes
  <2>2. /\ deadEntries' \in Seq([source : BookSources, attempts : Nat, failed : Nat])
        /\ Len(deadEntries') = last
        /\ deadEntries'[last] = e
        /\ \A i \in 1..Len(deadEntries) : deadEntries'[i] = deadEntries[i]
    BY <1>5, <1>8, <1>11, <2>1, AppendProperties
  <2>3. DOMAIN deadEntries = 1..Len(deadEntries) /\ DOMAIN deadEntries' = 1..last
    BY <2>1, <2>2, LenProperties
  <2>4. 1..last = 1..Len(deadEntries) \cup {last}
        /\ \A i \in 1..Len(deadEntries) : i < last
    BY <1>5, <2>1
  <2> QED
    BY <2>2, <2>3, <2>4
<1>13. /\ LettersOf(s)' = LettersOf(s) \cup {last}
       /\ \A q \in BookSources \ {s} : LettersOf(q)' = LettersOf(q)
       /\ \A q \in BookSources : LettersOf(q) \subseteq DOMAIN deadEntries
  BY <1>11, <1>12 DEF LettersOf
<1>14. /\ \A q \in BookSources \ {s} :
              failures'[q] = failures[q] /\ failuresEver'[q] = failuresEver[q]
       /\ failures'[s] = <<>> /\ failuresEver'[s] = G
  BY <1>0, <1>8 DEF BookTypes
<1>15. ASSUME NEW q \in BookSources \ {s}
       PROVE  BookHolds(q)' /\ \A i \in LettersOf(q)' : LetterSound(q, i)'
  <2>1. BookHolds(q) /\ \A i \in LettersOf(q) : LetterSound(q, i)
    BY DEF BookInv
  <2>2. \A i \in LettersOf(q) : deadEntries'[i] = deadEntries[i]
    BY <1>12, <1>13
  <2> QED
    BY <1>0, <1>13, <1>14, <2>1, <2>2, BookUntouched
<1>16. \A i \in LettersOf(s) : LetterSound(s, i)'
  <2>1. \A i \in LettersOf(s) : LetterSound(s, i)
    BY DEF BookInv
  <2>2. LettersOf(s) \subseteq LettersOf(s)'
        /\ \A i \in LettersOf(s) : deadEntries'[i] = deadEntries[i]
    BY <1>12, <1>13
  <2>3. \A i \in LettersOf(s), j \in LettersOf(s)' : j < i => j \in LettersOf(s)
    <3>1. \A i \in LettersOf(s) : i \in Int /\ i < last
      BY <1>12, <1>13
    <3> QED
      BY <1>13, <3>1
  <2>4. /\ Len(failuresEver'[s]) \in Nat
        /\ Len(failuresEver[s]) <= Len(failuresEver'[s])
        /\ \A k \in 1..Len(failuresEver[s]) : failuresEver'[s][k] = failuresEver[s][k]
    BY <1>2, <1>9, <1>10, <1>14
  <2> QED
    BY <1>0, <2>1, <2>2, <2>3, <2>4, LettersKept
<1>17. BookHolds(s)'
  <2>1. Len(failures'[s]) = 0 /\ failuresEver'[s] = G /\ Len(G) \in Nat
    BY <1>9, <1>10, <1>14
  <2>2. \A j \in LettersOf(s) : deadEntries'[j].failed <= Len(G)
    <3>1. \A j \in LettersOf(s) :
              deadEntries'[j] = deadEntries[j] /\ deadEntries[j].failed \in Nat
      BY <1>0, <1>12, <1>13, BookTyped
    <3>2. \A j \in LettersOf(s) : deadEntries[j].failed <= Len(E) - Len(F)
      BY <1>9 DEF ToldUpTo
    <3>3. PICK n \in Nat, g \in Nat, f \in Nat : n = Len(E) /\ g = Len(G) /\ f = Len(F)
      BY <1>9, <2>1
    <3>4. g = n + 1 /\ \A d \in Nat : d <= n - f => d <= g
      BY <1>10, <3>3
    <3> QED
      BY <3>1, <3>2, <3>3, <3>4
  <2>3. ToldUpTo(LettersOf(s), Len(G) - 0)'
    <3>1. deadEntries'[last].failed = Len(G)
      BY <1>11, <1>12
    <3>2. Len(G) - 0 = Len(G) /\ Len(G) <= Len(G)
      BY <2>1
    <3>3. \A j \in LettersOf(s)' : deadEntries'[j].failed <= Len(G)
      BY <1>13, <2>2, <3>1, <3>2
    <3>4. last \in LettersOf(s)'
      BY <1>13
    <3> QED
      BY <3>1, <3>2, <3>3, <3>4 DEF ToldUpTo
  <2>4. Len(failures'[s]) <= Len(failuresEver'[s])
    BY <2>1
  <2>5. \A k \in 1..Len(failures'[s]) : FALSE
    BY <2>1
  <2> QED
    BY <2>1, <2>3, <2>4, <2>5 DEF BookHolds
<1>18. LetterSound(s, last)'
  <2>1. PICK m \in Nat, n \in Nat, k \in Nat : m = Len(R) /\ n = Len(G) /\ k = MaxAttempts
    BY <1>9, <1>10, BookAssumption DEF BookAssumption
  <2>2. ShouldRoute(R)
    BY <1>7
  <2>3. m >= k /\ m <= n /\ k >= 1
    BY <1>9, <1>10, <2>1, <2>2, BookAssumption DEF ShouldRoute, BookAssumption
  <2>4. R[m] - R[m - k + 1] >= (MaxAttempts - 1) * RetrySpacing
    BY <1>10, <2>1, <2>2, SpacedStretch
  <2>5. R[m] = G[n] /\ R[m - k + 1] = G[n - k + 1]
    <3>1. m \in 1..m /\ m - k + 1 \in 1..m
      BY <2>3
    <3>2. n - m + m = n /\ n - m + (m - k + 1) = n - k + 1
      OBVIOUS
    <3> QED
      BY <1>10, <2>1, <3>1, <3>2
  <2>6. {j \in LettersOf(s)' : j < last} = LettersOf(s)
    <3>1. \A i \in LettersOf(s) : i \in Int /\ i < last
      BY <1>12, <1>13
    <3>2. ~ (last < last)
      OBVIOUS
    <3> QED
      BY <1>13, <3>1, <3>2
  <2>7. ToldUpTo(LettersOf(s), n - m)
    <3>1. n - m = Len(E) - Len(F)
      BY <1>9, <1>10, <2>1
    <3> QED
      BY <1>9, <3>1
  <2>8. ToldUpTo({j \in LettersOf(s) : j < last},
                 deadEntries[last].failed - deadEntries[last].attempts)'
    <3>1. deadEntries'[last].failed = n /\ deadEntries'[last].attempts = m
      BY <1>11, <1>12, <2>1
    <3>2. PICK d : d = n - m
      OBVIOUS
    <3>3. /\ \A j \in LettersOf(s) : deadEntries[j].failed <= d
          /\ d = 0 \/ \E j \in LettersOf(s) : deadEntries[j].failed = d
      BY <2>7, <3>2 DEF ToldUpTo
    <3>4. \A j \in LettersOf(s) : deadEntries'[j] = deadEntries[j]
      BY <1>12, <1>13
    <3>5. /\ \A j \in LettersOf(s) : deadEntries'[j].failed <= d
          /\ d = 0 \/ \E j \in LettersOf(s) : deadEntries'[j].failed = d
      BY <3>3, <3>4
    <3> QED
      BY <2>6, <3>1, <3>2, <3>5 DEF ToldUpTo
  <2>9. deadEntries'[last].failed = n /\ deadEntries'[last].attempts = m
        /\ failuresEver'[s] = G
    BY <1>11, <1>12, <1>14, <2>1
  <2> QED
    BY <2>1, <2>3, <2>4, <2>5, <2>8, <2>9 DEF LetterSound
<1>19. BookHolds(s)' /\ \A i \in LettersOf(s)' : LetterSound(s, i)'
  BY <1>13, <1>16, <1>17, <1>18
<1> QED
  BY <1>15, <1>19

\* Any other failure is added to the book.
LEMMA BookRecorded ==
    ASSUME BookInv, BookTypes', NEW s \in BookSources, IndexFailed(s),
           ~ ShouldRoute(RecordAttempt(s))
    PROVE  \A q \in BookSources :
               /\ BookHolds(q)'
               /\ \A i \in LettersOf(q)' : LetterSound(q, i)'
<1>0. BookTypes
  BY DEF BookInv
<1>1. PICK F \in Seq(Nat) : F = failures[s]
  BY <1>0, BookTyped
<1>2. PICK E \in Seq(Nat) : E = failuresEver[s]
  BY <1>0, BookTyped
<1>3. PICK R : R = Append(F, beat)
  OBVIOUS
<1>4. PICK G : G = Append(E, beat)
  OBVIOUS
<1>5. /\ failures' = [failures EXCEPT ![s] = R]
      /\ failuresEver' = [failuresEver EXCEPT ![s] = G]
      /\ deadEntries' = deadEntries
  BY <1>1, <1>2, <1>3, <1>4 DEF IndexFailed, RecordAttempt
<1>6. /\ Len(F) \in Nat /\ Len(E) \in Nat /\ Len(F) <= Len(E)
      /\ \A k \in 1..Len(F) : F[k] = E[Len(E) - Len(F) + k]
      /\ ToldUpTo(LettersOf(s), Len(E) - Len(F))
      /\ beat \in Nat
  BY <1>0, <1>1, <1>2, BookTyped DEF BookInv, BookHolds, BookTypes
<1>7. /\ R \in Seq(Nat) /\ G \in Seq(Nat)
      /\ Len(R) = Len(F) + 1 /\ Len(G) = Len(E) + 1
      /\ \A k \in 1..Len(E) : G[k] = E[k]
      /\ \A k \in 1..Len(R) : R[k] = G[Len(G) - Len(R) + k]
  <2>1. /\ Len(F) <= Len(E) /\ beat \in Nat
        /\ \A k \in 1..Len(F) : F[k] = E[Len(E) - Len(F) + k]
    BY ONLY <1>6
  <2> QED
    BY ONLY <1>3, <1>4, <2>1, F \in Seq(Nat), E \in Seq(Nat), OneMoreFailure
<1>8. /\ \A q \in BookSources \ {s} :
             failures'[q] = failures[q] /\ failuresEver'[q] = failuresEver[q]
      /\ failures'[s] = R /\ failuresEver'[s] = G
      /\ \A q \in BookSources : LettersOf(q)' = LettersOf(q)
      /\ \A i : deadEntries'[i] = deadEntries[i]
  BY <1>0, <1>5 DEF BookTypes, LettersOf
<1>9. ASSUME NEW q \in BookSources \ {s}
      PROVE  BookHolds(q)' /\ \A i \in LettersOf(q)' : LetterSound(q, i)'
  <2>1. BookHolds(q) /\ \A i \in LettersOf(q) : LetterSound(q, i)
    BY DEF BookInv
  <2> QED
    BY <1>0, <1>8, <2>1, BookUntouched
<1>10. \A i \in LettersOf(s) : LetterSound(s, i)'
  <2>1. \A i \in LettersOf(s) : LetterSound(s, i)
    BY DEF BookInv
  <2>2. /\ Len(failuresEver'[s]) \in Nat
        /\ Len(failuresEver[s]) <= Len(failuresEver'[s])
        /\ \A k \in 1..Len(failuresEver[s]) : failuresEver'[s][k] = failuresEver[s][k]
    BY <1>2, <1>6, <1>7, <1>8
  <2> QED
    BY <1>0, <1>8, <2>1, <2>2, LettersKept
<1>11. BookHolds(s)'
  <2>1. PICK d : d = Len(E) - Len(F)
    OBVIOUS
  <2>2. d = Len(G) - Len(R) /\ Len(R) <= Len(G)
    BY <1>6, <1>7, <2>1
  <2>3. ToldUpTo(LettersOf(s), d)
    BY <1>6, <2>1
  <2>4. ToldUpTo(LettersOf(s), d)'
    BY <1>8, <2>3 DEF ToldUpTo
  <2> QED
    BY <1>7, <1>8, <2>2, <2>4 DEF BookHolds
<1>12. BookHolds(s)' /\ \A i \in LettersOf(s)' : LetterSound(s, i)'
  BY <1>8, <1>10, <1>11
<1> QED
  BY <1>9, <1>12

LEMMA BookTypesStep == BookTypes /\ [BookNext]_bookVars => BookTypes'
<1> SUFFICES ASSUME BookTypes, [BookNext]_bookVars PROVE BookTypes'
  OBVIOUS
<1>1. ASSUME NEW s \in BookSources, IndexFailed(s) PROVE BookTypes'
  <2>1. PICK F \in Seq(Nat) : F = failures[s]
    BY BookTyped
  <2>2. PICK E \in Seq(Nat) : E = failuresEver[s]
    BY BookTyped
  <2>3. PICK R, G : R = Append(F, beat) /\ G = Append(E, beat)
    OBVIOUS
  <2>4. R \in Seq(Nat) /\ G \in Seq(Nat) /\ Len(R) \in Nat /\ Len(E) + 1 \in Nat
    BY <2>3, AppendProperties, LenProperties DEF BookTypes
  <2>5. beat' = beat /\ failuresEver' = [failuresEver EXCEPT ![s] = G]
    BY <1>1, <2>2, <2>3 DEF IndexFailed
  <2>6. CASE ShouldRoute(RecordAttempt(s))
    <3>1. PICK e : e = [source |-> s, attempts |-> Len(R), failed |-> Len(E) + 1]
      OBVIOUS
    <3>2. /\ failures' = [failures EXCEPT ![s] = <<>>]
          /\ deadEntries' = Append(deadEntries, e)
      BY <1>1, <2>1, <2>2, <2>3, <2>6, <3>1 DEF IndexFailed, RouteToDlq, RecordAttempt
    <3>3. e \in [source : BookSources, attempts : Nat, failed : Nat]
      BY <2>4, <3>1
    <3>4. deadEntries' \in Seq([source : BookSources, attempts : Nat, failed : Nat])
      BY <3>2, <3>3, AppendProperties DEF BookTypes
    <3>5. <<>> \in Seq(Nat)
      OBVIOUS
    <3> QED
      BY <2>4, <2>5, <3>2, <3>4, <3>5 DEF BookTypes
  <2>7. CASE ~ ShouldRoute(RecordAttempt(s))
    <3>1. failures' = [failures EXCEPT ![s] = R] /\ deadEntries' = deadEntries
      BY <1>1, <2>1, <2>3, <2>7 DEF IndexFailed, RecordAttempt
    <3> QED
      BY <2>4, <2>5, <3>1 DEF BookTypes
  <2> QED
    BY <2>6, <2>7
<1>2. ASSUME NEW s \in BookSources, AddSource(s) \/ RemoveSource(s) \/ RecordCrawl(s)
      PROVE  BookTypes'
  BY <1>2 DEF BookTypes, AddSource, RemoveSource, RecordCrawl
<1>3. CASE BeatPasses
  BY <1>3 DEF BookTypes, BeatPasses
<1>4. CASE UNCHANGED bookVars
  BY <1>4 DEF BookTypes, bookVars
<1> QED
  BY <1>1, <1>2, <1>3, <1>4 DEF BookNext

LEMMA BookStep == BookInv /\ [BookNext]_bookVars => BookInv'
<1> SUFFICES ASSUME BookInv, [BookNext]_bookVars PROVE BookInv'
  OBVIOUS
<1>1. BookTypes /\ BookTypes'
  BY BookTypesStep DEF BookInv
<1>2. ASSUME NEW s \in BookSources, IndexFailed(s) PROVE BookInv'
  <2>1. CASE ShouldRoute(RecordAttempt(s))
    BY <1>1, <1>2, <2>1, BookRouted DEF BookInv
  <2>2. CASE ~ ShouldRoute(RecordAttempt(s))
    BY <1>1, <1>2, <2>2, BookRecorded DEF BookInv
  <2> QED
    BY <2>1, <2>2
<1>3. CASE UNCHANGED <<failures, failuresEver, deadEntries>>
  <2>1. ASSUME NEW s \in BookSources
        PROVE  BookHolds(s)' /\ \A i \in LettersOf(s)' : LetterSound(s, i)'
    <3>1. BookHolds(s) /\ \A i \in LettersOf(s) : LetterSound(s, i)
      BY DEF BookInv
    <3>2. LettersOf(s)' = LettersOf(s)
      BY <1>3 DEF LettersOf
    <3> QED
      BY <1>1, <1>3, <3>1, <3>2, BookUntouched
  <2> QED
    BY <1>1, <2>1 DEF BookInv
<1>4. ASSUME NEW s \in BookSources, AddSource(s) \/ RemoveSource(s) \/ RecordCrawl(s)
      PROVE  BookInv'
  BY <1>3, <1>4 DEF AddSource, RemoveSource, RecordCrawl
<1>5. CASE BeatPasses
  BY <1>3, <1>5 DEF BeatPasses
<1>6. CASE UNCHANGED bookVars
  BY <1>3, <1>6 DEF bookVars
<1> QED
  BY <1>2, <1>4, <1>5, <1>6 DEF BookNext

LEMMA BookInvRouted == BookInv => RoutedAfterRetries
<1> SUFFICES ASSUME BookInv, NEW s \in BookSources
             PROVE  LET ever == failuresEver[s]
                        told == Len(ever) - Len(failures[s])
                    IN  /\ \A i \in LettersOf(s) :
                               LET e == deadEntries[i] IN
                               /\ ToldUpTo({j \in LettersOf(s) : j < i},
                                           e.failed - e.attempts)
                               /\ e.attempts >= MaxAttempts
                               /\ ever[e.failed] - ever[e.failed - MaxAttempts + 1]
                                      >= (MaxAttempts - 1) * RetrySpacing
                        /\ ToldUpTo(LettersOf(s), told)
                        /\ failures[s] = SubSeq(ever, told + 1, Len(ever))
  BY DEF RoutedAfterRetries
<1>1. PICK F \in Seq(Nat), E \in Seq(Nat) : F = failures[s] /\ E = failuresEver[s]
  BY BookTyped DEF BookInv
<1>2. /\ \A i \in LettersOf(s) : LetterSound(s, i)
      /\ Len(F) <= Len(E)
      /\ \A k \in 1..Len(F) : F[k] = E[Len(E) - Len(F) + k]
      /\ ToldUpTo(LettersOf(s), Len(E) - Len(F))
  BY <1>1 DEF BookInv, BookHolds
<1>3. F = SubSeq(E, Len(E) - Len(F) + 1, Len(E))
  <2>1. PICK f \in Nat, n \in Nat : f = Len(F) /\ n = Len(E)
    BY LenProperties
  <2>2. PICK t \in Nat : t = n - f
    BY <1>2, <2>1
  <2>3. PICK S : S = SubSeq(E, t + 1, n)
    OBVIOUS
  <2>4. t + 1 \in 1..(n + 1) /\ n \in t..n /\ n = t + f
    BY <1>2, <2>1, <2>2
  <2>5. S = [k \in 1..f |-> E[t + k]]
    <3>1. S = [k \in 1..(n - (t + 1) + 1) |-> E[k + (t + 1) - 1]]
      BY <2>3, <2>4
    <3>2. n - (t + 1) + 1 = f /\ \A k \in 1..f : k + (t + 1) - 1 = t + k
      BY <2>4
    <3> QED
      BY <3>1, <3>2
  <2>6. F = [k \in 1..f |-> F[k]]
    BY <2>1
  <2> QED
    BY <1>2, <2>1, <2>2, <2>3, <2>5, <2>6
<1> QED
  BY <1>1, <1>2, <1>3 DEF LetterSound

\* However many failures, workers and sources: what a source's dead letters tell
\* and its book holds are, one after the other, exactly its failures, and no
\* letter is written before MaxAttempts of them, the last ones spaced.
THEOREM RoutedAfterRetriesCorrect == BookSpec => []RoutedAfterRetries
<1>1. BookInit => BookInv
  BY BookInitial
<1>2. BookInv /\ [BookNext]_bookVars => BookInv'
  BY BookStep
<1>3. BookInv => RoutedAfterRetries
  BY BookInvRouted
<1> QED
  BY <1>1, <1>2, <1>3, PTL DEF BookSpec

-----------------------------------------------------------------------------
(* The answer stream.                                                      *)

\* One more frame, whatever it is.
LEMMA FramesAppend ==
    ASSUME NEW S, NEW s \in Seq(S), NEW e \in S, NEW kinds
    PROVE  LET t == Append(s, e) IN
           /\ IsFiniteSet(FramesOf(s, kinds)) /\ Cardinality(FramesOf(s, kinds)) \in Nat
           /\ FramesOf(s, kinds) \subseteq 1..Len(s)
           /\ FramesOf(t, kinds) =
                  IF e.event \in kinds THEN FramesOf(s, kinds) \cup {Len(s) + 1}
                                       ELSE FramesOf(s, kinds)
           /\ Cardinality(FramesOf(t, kinds)) =
                  IF e.event \in kinds THEN Cardinality(FramesOf(s, kinds)) + 1
                                       ELSE Cardinality(FramesOf(s, kinds))
           /\ \A i \in FramesOf(s, kinds) : Nth(i, t, kinds) = Nth(i, s, kinds)
           /\ e.event \in kinds =>
                  Nth(Len(s) + 1, t, kinds) = Cardinality(FramesOf(s, kinds)) + 1
<1> DEFINE t == Append(s, e)
<1>1. PICK n \in Nat : n = Len(s)
  BY LenProperties
<1>2. DOMAIN s = 1..n /\ DOMAIN t = 1..(n + 1) /\ 1..(n + 1) = 1..n \cup {n + 1}
      /\ \A i \in 1..n : t[i] = s[i] /\ i < n + 1
  BY <1>1, AppendProperties, LenProperties
<1>3. t[n + 1] = e
  BY <1>1, AppendProperties
<1> HIDE DEF t
<1>4. PICK F : F = FramesOf(s, kinds)
  OBVIOUS
<1>5. F \subseteq 1..n
  BY <1>2, <1>4 DEF FramesOf
<1>6. IsFiniteSet(F) /\ Cardinality(F) \in Nat
  <2>1. IsFiniteSet(1..n)
    BY FS_Interval
  <2>2. IsFiniteSet(F)
    BY <1>5, <2>1, FS_Subset
  <2> QED
    BY <2>2, FS_CardinalityType
<1>7. /\ IsFiniteSet(F \cup {n + 1})
      /\ n + 1 \notin F
      /\ Cardinality(F \cup {n + 1}) = Cardinality(F) + 1
  <2>1. n + 1 \notin F
    BY <1>2, <1>5
  <2> QED
    BY <1>6, <2>1, FS_AddElement
<1>8. FramesOf(t, kinds) = IF e.event \in kinds THEN F \cup {n + 1} ELSE F
  <2>1. \A i \in 1..n : i \in FramesOf(t, kinds) <=> i \in F
    BY <1>2, <1>4 DEF FramesOf
  <2>2. n + 1 \in FramesOf(t, kinds) <=> e.event \in kinds
    BY <1>2, <1>3 DEF FramesOf
  <2>3. FramesOf(t, kinds) \subseteq 1..n \cup {n + 1}
    BY <1>2 DEF FramesOf
  <2>4. \A i : i \in FramesOf(t, kinds) <=>
                 i \in F \/ (i = n + 1 /\ e.event \in kinds)
    BY <1>5, <1>7, <2>1, <2>2, <2>3
  <2>5. CASE e.event \in kinds
    BY <2>4, <2>5
  <2>6. CASE e.event \notin kinds
    BY <2>4, <2>6
  <2> QED
    BY <2>5, <2>6
<1>9. ASSUME NEW i \in F PROVE Nth(i, t, kinds) = Nth(i, s, kinds)
  <2>1. {j \in FramesOf(t, kinds) : j <= i} = {j \in F : j <= i}
    <3>1. i \in 1..n
      BY <1>5
    <3>2. ~ (n + 1 <= i)
      BY <3>1
    <3> QED
      BY <1>8, <3>2
  <2> QED
    BY <1>4, <2>1 DEF Nth
<1>10. ASSUME e.event \in kinds PROVE Nth(n + 1, t, kinds) = Cardinality(F) + 1
  <2>1. {j \in FramesOf(t, kinds) : j <= n + 1} = F \cup {n + 1}
    <3>1. \A j \in F \cup {n + 1} : j <= n + 1
      BY <1>5
    <3> QED
      BY <1>8, <1>10, <3>1
  <2> QED
    BY <1>7, <2>1 DEF Nth
<1> QED
  BY <1>1, <1>4, <1>5, <1>6, <1>7, <1>8, <1>9, <1>10 DEF t

LEMMA FramesOfNothing ==
    ASSUME NEW kinds
    PROVE  FramesOf(<<>>, kinds) = {} /\ Cardinality(FramesOf(<<>>, kinds)) = 0
           /\ \A t : BeginsWith(t, <<>>, kinds)
<1>1. FramesOf(<<>>, kinds) = {}
  BY DEF FramesOf
<1>2. Cardinality(FramesOf(<<>>, kinds)) = 0
  BY <1>1, FS_EmptySet
<1> QED
  BY <1>1, <1>2 DEF BeginsWith

\* A frame that is of another kind, or that comes next in t.
LEMMA BeginsAppend ==
    ASSUME NEW S, NEW s \in Seq(S), NEW e \in S, NEW kinds, NEW t,
           BeginsWith(t, s, kinds),
           \/ e.event \notin kinds
           \/ /\ Cardinality(FramesOf(s, kinds)) + 1 \in DOMAIN t
              /\ t[Cardinality(FramesOf(s, kinds)) + 1] = e
    PROVE  BeginsWith(t, Append(s, e), kinds)
<1> DEFINE u == Append(s, e)
<1>1. PICK F : F = FramesOf(s, kinds)
  OBVIOUS
<1>2. PICK n \in Nat : n = Len(s)
  BY LenProperties
<1>3. /\ F \subseteq 1..n
      /\ FramesOf(u, kinds) = IF e.event \in kinds THEN F \cup {n + 1} ELSE F
      /\ \A i \in F : Nth(i, u, kinds) = Nth(i, s, kinds)
      /\ e.event \in kinds => Nth(n + 1, u, kinds) = Cardinality(F) + 1
  BY <1>1, <1>2, FramesAppend
<1>4. /\ \A i \in 1..n : u[i] = s[i]
      /\ u[n + 1] = e
  BY <1>2, AppendProperties
<1> HIDE DEF u
<1>5. ASSUME NEW i \in F PROVE Nth(i, u, kinds) \in DOMAIN t /\ t[Nth(i, u, kinds)] = u[i]
  <2>1. Nth(i, s, kinds) \in DOMAIN t /\ t[Nth(i, s, kinds)] = s[i]
    BY <1>1 DEF BeginsWith
  <2> QED
    BY <1>3, <1>4, <2>1
<1>6. ASSUME e.event \in kinds
      PROVE  Nth(n + 1, u, kinds) \in DOMAIN t /\ t[Nth(n + 1, u, kinds)] = u[n + 1]
  BY <1>1, <1>3, <1>4, <1>6
<1>7. BeginsWith(t, u, kinds)
  BY <1>3, <1>5, <1>6 DEF BeginsWith
<1> QED
  BY <1>7 DEF u

\* The longer sequence begins as the shorter.
LEMMA BeginsLonger ==
    ASSUME NEW s, NEW kinds, NEW T, NEW t \in Seq(T), NEW e \in T,
           BeginsWith(t, s, kinds)
    PROVE  BeginsWith(Append(t, e), s, kinds)
<1>1. DOMAIN t = 1..Len(t) /\ DOMAIN Append(t, e) = 1..(Len(t) + 1) /\ Len(t) \in Nat
      /\ \A i \in 1..Len(t) : Append(t, e)[i] = t[i]
  BY AppendProperties, LenProperties
<1>2. 1..Len(t) \subseteq 1..(Len(t) + 1)
  BY <1>1
<1> QED
  BY <1>1, <1>2 DEF BeginsWith

\* What citations tell of frames, after one more frame.
LEMMA CitesAppend ==
    ASSUME NEW S, NEW s \in Seq(S), NEW e \in S, NEW T, NEW c \in Seq(T), Cites(c, s)
    PROVE  /\ e.event # "citation" => Cites(c, Append(s, e))
           /\ e.event = "citation" /\ e \in T => Cites(Append(c, e), Append(s, e))
<1>1. PICK n \in Nat : n = Cardinality(FramesOf(s, {"citation"})) /\ Len(c) = n
  BY FramesAppend DEF Cites
<1>2. BeginsWith(c, s, {"citation"})
  BY DEF Cites
<1>3. ASSUME e.event # "citation" PROVE Cites(c, Append(s, e))
  <2>1. Cardinality(FramesOf(Append(s, e), {"citation"})) = n
    BY <1>1, <1>3, FramesAppend
  <2>2. BeginsWith(c, Append(s, e), {"citation"})
    BY <1>2, <1>3, BeginsAppend
  <2> QED
    BY <1>1, <2>1, <2>2 DEF Cites
<1>4. ASSUME e.event = "citation", e \in T PROVE Cites(Append(c, e), Append(s, e))
  <2>1. PICK d : d = Append(c, e)
    OBVIOUS
  <2>2. d \in Seq(T) /\ Len(d) = n + 1 /\ d[n + 1] = e /\ DOMAIN d = 1..(n + 1)
    BY <1>1, <1>4, <2>1, AppendProperties, LenProperties
  <2>3. Cardinality(FramesOf(Append(s, e), {"citation"})) = n + 1
    BY <1>1, <1>4, FramesAppend
  <2>4. BeginsWith(d, s, {"citation"})
    BY <1>2, <1>4, <2>1, BeginsLonger
  <2>5. n + 1 \in 1..(n + 1)
    OBVIOUS
  <2>6. BeginsWith(d, Append(s, e), {"citation"})
    BY <1>1, <2>2, <2>4, <2>5, BeginsAppend
  <2> QED
    BY <2>1, <2>2, <2>3, <2>6 DEF Cites
<1> QED
  BY <1>3, <1>4

Tokens == [event : {"token"}, index : Nat]
Citations == [event : {"citation"}, doc : Sources, upto : Nat]
Dones == [event : {"done"}, tokens : Nat, citations : Seq(Citations)]
ErrorCodes == {"no_sources_available", "stream_timeout", "model_error", "internal_error"}
Errors == [event : {"error"}, code : ErrorCodes]
Events == Tokens \cup Citations \cup Dones \cup Errors

Others == [event : {"keepalive", "cancelled"}]
Responses == [event : {"response"}, error : BOOLEAN, citations : Seq(Citations)]
Frames == Events \cup Others \cup Responses

Engines == [at : {"unstarted", "streaming", "ended"}, found : SUBSET Sources,
            tokens : Nat, cited : Seq(Citations), due : SUBSET Sources]

AnswerTypes ==
    /\ engine \in Engines
    /\ yielded \in Seq(Events)
    /\ feeder \in [at : {"off", "pull", "finished"}]
                      \cup [at : {"send", "sent"}, event : Events]
    /\ socket \in [kind : {"none", "ws", "sse", "json"}, closed : BOOLEAN, cancel : BOOLEAN]
    /\ wire \in Seq(Frames)

Going == {"pull", "send", "sent"}

\* Before a client connects, and which transport it uses then.
Unconnected ==
    /\ handler \in {"none", "wait", "over"}
    /\ handler = "none" <=> socket.kind = "none"
    /\ handler = "none" =>
           feeder.at = "off" /\ ~socket.closed /\ engine.at = "unstarted"
    /\ handler = "over" => feeder.at \in {"off", "finished"}
    /\ feeder.at = "off" => yielded = <<>> /\ wire = <<>>
    /\ handler = "wait" => feeder.at # "off"

\* What the engine knows of what it yielded.
EngineSound ==
    /\ engine.tokens = Cardinality(FramesOf(yielded, {"token"}))
    /\ Cites(engine.cited, yielded)
    /\ \A i \in FramesOf(yielded, Terminals) : i = Len(yielded) /\ engine.at = "ended"
    /\ \A i \in FramesOf(yielded, {"done"}) :
           yielded[i].tokens = engine.tokens /\ yielded[i].citations = engine.cited
    /\ engine.at = "unstarted" => engine.due = {}
    /\ engine.at = "ended" /\ feeder.at \in Going => engine.due = {}

\* The wire tells the engine's tokens and citations.
Level == engine.tokens = Cardinality(FramesOf(wire, {"token"})) /\ Cites(engine.cited, wire)

\* The event that the feeder holds is all the wire lacks.
Lacks(e) ==
    CASE e.event = "token" ->
            /\ engine.tokens = Cardinality(FramesOf(wire, {"token"})) + 1
            /\ Cites(engine.cited, wire)
      [] e.event = "citation" ->
            /\ engine.tokens = Cardinality(FramesOf(wire, {"token"}))
            /\ \E c \in Seq(Citations) : Cites(c, wire) /\ engine.cited = Append(c, e)
      [] OTHER -> Level

StreamSound ==
    socket.kind \in {"ws", "sse"} =>
        /\ BeginsWith(yielded, wire, Data)
        /\ feeder.at \in {"pull", "sent"} =>
               Len(yielded) = Cardinality(FramesOf(wire, Data)) /\ Level
        /\ feeder.at = "send" =>
               /\ Len(yielded) = Cardinality(FramesOf(wire, Data)) + 1
               /\ feeder.event = yielded[Len(yielded)]
               /\ Lacks(feeder.event)
        /\ \A i \in FramesOf(wire, Terminals), j \in FramesOf(wire, Data) : j <= i
        /\ \A i \in FramesOf(wire, {"done"}) :
               /\ wire[i].tokens = Cardinality(FramesOf(wire, {"token"}))
               /\ Cites(wire[i].citations, wire)
        /\ \A i \in FramesOf(wire, {"cancelled"}) :
               i = Len(wire) /\ socket.cancel /\ handler = "over"

JsonSound ==
    socket.kind = "json" =>
        /\ handler = "wait" => wire = <<>> /\ ~socket.closed
        /\ handler = "wait" /\ feeder.at = "finished" => engine.at = "ended"
        /\ handler = "wait" /\ engine.at = "ended" => FramesOf(yielded, Terminals) # {}
        /\ feeder.at # "sent"
        /\ wire # <<>> => wire[1].error \/ Cites(wire[1].citations, yielded)

AnswerInv == AnswerTypes /\ Unconnected /\ EngineSound /\ StreamSound /\ JsonSound

LEMMA NthBounded ==
    ASSUME NEW S, NEW s \in Seq(S), NEW kinds, NEW i \in FramesOf(s, kinds)
    PROVE  /\ Nth(i, s, kinds) \in Nat
           /\ Nth(i, s, kinds) <= Cardinality(FramesOf(s, kinds))
<1>1. FramesOf(s, kinds) \subseteq 1..Len(s) /\ Len(s) \in Nat
  BY LenProperties DEF FramesOf
<1>2. IsFiniteSet(1..Len(s))
  BY <1>1, FS_Interval
<1>3. IsFiniteSet(FramesOf(s, kinds))
  BY <1>1, <1>2, FS_Subset
<1> DEFINE T == {j \in FramesOf(s, kinds) : j <= i}
<1>4. IsFiniteSet(T) /\ Cardinality(T) <= Cardinality(FramesOf(s, kinds))
  BY <1>3, FS_Subset
<1> QED
  BY <1>4, FS_CardinalityType DEF Nth

\* A frame that is not of the answer changes nothing that is said of the answer.
LEMMA SideFrame ==
    ASSUME NEW S, NEW s \in Seq(S), NEW e \in S, e.event \notin Data
    PROVE  LET w == Append(s, e) IN
           /\ \A kinds \in SUBSET Data :
                  /\ FramesOf(w, kinds) = FramesOf(s, kinds)
                  /\ \A i \in FramesOf(s, kinds) : w[i] = s[i]
                  /\ \A t : BeginsWith(t, s, kinds) => BeginsWith(t, w, kinds)
           /\ \A c : Cites(c, s) => Cites(c, w)
<1> DEFINE w == Append(s, e)
<1>1. ASSUME NEW kinds \in SUBSET Data
      PROVE  /\ FramesOf(w, kinds) = FramesOf(s, kinds)
             /\ \A i \in FramesOf(s, kinds) : w[i] = s[i]
             /\ \A t : BeginsWith(t, s, kinds) => BeginsWith(t, w, kinds)
  <2>1. e.event \notin kinds
    OBVIOUS
  <2>2. FramesOf(w, kinds) = FramesOf(s, kinds) /\ FramesOf(s, kinds) \subseteq 1..Len(s)
    BY <2>1, FramesAppend
  <2>3. \A i \in 1..Len(s) : w[i] = s[i]
    BY AppendProperties
  <2>4. \A t : BeginsWith(t, s, kinds) => BeginsWith(t, w, kinds)
    BY <2>1, BeginsAppend
  <2> QED
    BY <2>2, <2>3, <2>4
<1>2. {"citation"} \in SUBSET Data
  BY DEF Data
<1>3. \A c : Cites(c, s) => Cites(c, w)
  BY <1>1, <1>2 DEF Cites
<1> QED
  BY <1>1, <1>3

LEMMA AnswerTyped ==
    ASSUME AnswerTypes
    PROVE  /\ engine.at \in {"unstarted", "streaming", "ended"}
           /\ engine.tokens \in Nat /\ engine.cited \in Seq(Citations)
           /\ engine.found \in SUBSET Sources /\ engine.due \in SUBSET Sources
           /\ feeder.at \in {"off", "pull", "finished", "send", "sent"}
           /\ feeder.at \in {"send", "sent"} => feeder.event \in Events
           /\ socket.kind \in {"none", "ws", "sse", "json"}
           /\ socket.closed \in BOOLEAN /\ socket.cancel \in BOOLEAN
           /\ yielded \in Seq(Events) /\ Len(yielded) \in Nat
           /\ wire \in Seq(Frames) /\ Len(wire) \in Nat
<1>1. Len(yielded) \in Nat /\ Len(wire) \in Nat
  BY LenProperties DEF AnswerTypes
<1>2. /\ engine.at \in {"unstarted", "streaming", "ended"}
      /\ engine.tokens \in Nat /\ engine.cited \in Seq(Citations)
      /\ engine.found \in SUBSET Sources /\ engine.due \in SUBSET Sources
  BY DEF AnswerTypes, Engines
<1>3. /\ socket.kind \in {"none", "ws", "sse", "json"}
      /\ socket.closed \in BOOLEAN /\ socket.cancel \in BOOLEAN
  BY DEF AnswerTypes
<1>4. /\ feeder.at \in {"off", "pull", "finished", "send", "sent"}
      /\ feeder.at \in {"send", "sent"} => feeder.event \in Events
  BY DEF AnswerTypes
<1> QED
  BY <1>1, <1>2, <1>3, <1>4 DEF AnswerTypes

LEMMA EventsTyped ==
    ASSUME NEW e \in Events
    PROVE  /\ e \in Frames
           /\ e.event \in Data
           /\ e.event = "token" => e \in Tokens
           /\ e.event = "citation" => e \in Citations
           /\ e.event = "done" => e \in Dones /\ e.citations \in Seq(Citations)
                                      /\ e.tokens \in Nat
           /\ e.event \in Terminals => e.event \in {"done", "error"}
<1>1. CASE e \in Tokens
  BY <1>1 DEF Tokens, Frames, Data, Terminals
<1>2. CASE e \in Citations
  BY <1>2 DEF Citations, Frames, Data, Terminals
<1>3. CASE e \in Dones
  BY <1>3 DEF Dones, Frames, Data, Terminals
<1>4. CASE e \in Errors
  BY <1>4 DEF Errors, Frames, Data, Terminals
<1> QED
  BY <1>1, <1>2, <1>3, <1>4 DEF Events

\* The engine yields e, and knows of it.
Knows(e) ==
    \/ /\ e.event = "token" /\ engine'.at = "streaming"
       /\ engine'.tokens = engine.tokens + 1 /\ engine'.cited = engine.cited
    \/ /\ e.event = "citation" /\ engine'.at = "streaming"
       /\ engine'.tokens = engine.tokens /\ engine'.cited = Append(engine.cited, e)
    \/ /\ e.event \in Terminals /\ engine'.at = "ended" /\ engine'.due = {}
       /\ engine'.tokens = engine.tokens /\ engine'.cited = engine.cited
       /\ e.event = "done" => e.tokens = engine.tokens /\ e.citations = engine.cited

Yielding(e) ==
    /\ feeder.at = "pull" /\ engine.at # "ended"
    /\ yielded' = Append(yielded, e)
    /\ feeder' = [at |-> "send", event |-> e]
    /\ UNCHANGED <<handler, listener, socket, wire>>
    /\ engine' \in Engines
    /\ Knows(e)

\* Whatever the engine does is to yield one event.
LEMMA EngineYields ==
    ASSUME AnswerInv, EngineStep
    PROVE  \E e \in Events : Yielding(e)
<1>1. AnswerTypes /\ EngineSound
  BY DEF AnswerInv
<1>2. /\ engine \in Engines
      /\ engine.at \in {"unstarted", "streaming", "ended"}
      /\ UNCHANGED <<handler, listener, socket, wire>>
      /\ engine.cited \in Seq(Citations) /\ engine.tokens \in Nat
      /\ engine.due \in SUBSET Sources
  BY <1>1, AnswerTyped DEF AnswerTypes, EngineStep
<1>3. engine.due # {} /\ feeder.at = "pull" => engine.at = "streaming"
  BY <1>1, <1>2 DEF EngineSound, Going
<1>4. ASSUME NEW code \in ErrorCodes, feeder.at = "pull", engine.due = {},
             engine.at # "ended",
             Yields(Error(code)), engine' = [engine EXCEPT !.at = "ended"]
      PROVE  \E e \in Events : Yielding(e)
  <2>1. PICK e : e = Error(code)
    OBVIOUS
  <2>2. e \in Events /\ e.event = "error"
    BY <2>1 DEF Error, Events, Errors
  <2>3. /\ engine' \in Engines /\ engine'.at = "ended" /\ engine'.due = {}
        /\ engine'.tokens = engine.tokens /\ engine'.cited = engine.cited
    BY <1>2, <1>4 DEF Engines
  <2>4. Knows(e)
    BY <2>2, <2>3 DEF Knows, Terminals
  <2> QED
    BY <1>2, <1>4, <2>1, <2>2, <2>3, <2>4 DEF Yields, Yielding
<1>5. ASSUME NEW code \in ErrorCodes, Fail(code)
      PROVE  \E e \in Events : Yielding(e)
  BY <1>4, <1>5 DEF Fail, Asked
<1>6. CASE NoSources
  <2>1. /\ "no_sources_available" \in ErrorCodes
        /\ feeder.at = "pull" /\ engine.due = {} /\ engine.at # "ended"
        /\ Yields(Error("no_sources_available"))
        /\ engine' = [engine EXCEPT !.at = "ended"]
    BY <1>1, <1>6 DEF NoSources, Asked, ErrorCodes, EngineSound
  <2> QED
    BY <1>4, <2>1
<1>7. CASE NextToken
  <2>1. PICK e : e = Token(engine.tokens)
    OBVIOUS
  <2>2. e \in Events /\ e.event = "token"
    BY <1>2, <2>1 DEF Token, Events, Tokens
  <2>3. PICK matched \in SUBSET engine.found :
            engine' = [engine EXCEPT !.at = "streaming", !.tokens = @ + 1, !.due = matched]
    BY <1>7 DEF NextToken
  <2>4. matched \in SUBSET Sources
    BY <1>2, <2>3 DEF Engines
  <2>5. engine'.at = "streaming" /\ engine'.tokens = engine.tokens + 1
        /\ engine'.cited = engine.cited /\ engine'.due = matched
        /\ engine'.found = engine.found
    BY <1>2, <2>3 DEF Engines
  <2>6. engine' = [at |-> "streaming", found |-> engine.found, tokens |-> engine.tokens + 1,
                   cited |-> engine.cited, due |-> matched]
    BY <1>2, <2>3 DEF Engines
  <2>7. engine.found \in SUBSET Sources /\ engine.tokens + 1 \in Nat
    BY <1>2 DEF Engines
  <2>8. engine' \in Engines
    BY <1>2, <2>4, <2>6, <2>7 DEF Engines
  <2>9. Knows(e)
    BY <2>2, <2>5 DEF Knows
  <2>10. feeder.at = "pull" /\ engine.at # "ended" /\ Yields(e)
    BY <1>7, <2>1 DEF NextToken, Asked
  <2> QED
    BY <1>2, <2>2, <2>8, <2>9, <2>10 DEF Yields, Yielding
<1>8. ASSUME NEW d \in Sources, EmitCitation(d)
      PROVE  \E e \in Events : Yielding(e)
  <2>1. PICK e : e = Citation(d, engine.tokens)
    OBVIOUS
  <2>2. e \in Events /\ e \in Citations /\ e.event = "citation"
    BY <1>2, <2>1 DEF Citation, Events, Citations
  <2>3. /\ feeder.at = "pull" /\ d \in engine.due /\ Yields(e)
        /\ engine' = [engine EXCEPT !.due = @ \ {d}, !.cited = Append(@, e)]
    BY <1>8, <2>1 DEF EmitCitation, Asked
  <2>4. engine.at = "streaming"
    BY <1>3, <2>3
  <2>5. PICK c : c = Append(engine.cited, e)
    OBVIOUS
  <2>6. c \in Seq(Citations)
    BY <1>2, <2>2, <2>5, AppendProperties
  <2>7. engine' = [at |-> engine.at, found |-> engine.found, tokens |-> engine.tokens,
                   cited |-> c, due |-> engine.due \ {d}]
    BY <1>2, <2>3, <2>5 DEF Engines
  <2>8. engine.found \in SUBSET Sources /\ engine.due \ {d} \in SUBSET Sources
    BY <1>2 DEF Engines
  <2>9. engine' \in Engines
    BY <1>2, <2>6, <2>7, <2>8 DEF Engines
  <2>10. Knows(e)
    BY <2>2, <2>4, <2>5, <2>7 DEF Knows
  <2>11. engine.at # "ended"
    BY <2>4
  <2> QED
    BY <1>2, <2>2, <2>3, <2>9, <2>10, <2>11 DEF Yields, Yielding
<1>9. CASE Complete
  <2>1. PICK e : e = Done(engine.tokens, engine.cited)
    OBVIOUS
  <2>2. /\ e \in Events /\ e.event = "done"
        /\ e.tokens = engine.tokens /\ e.citations = engine.cited
    BY <1>2, <2>1 DEF Done, Events, Dones
  <2>3. /\ feeder.at = "pull" /\ engine.at # "ended" /\ engine.due = {} /\ Yields(e)
        /\ engine' = [engine EXCEPT !.at = "ended"]
    BY <1>9, <2>1 DEF Complete, Asked
  <2>4. /\ engine' \in Engines /\ engine'.at = "ended" /\ engine'.due = {}
        /\ engine'.tokens = engine.tokens /\ engine'.cited = engine.cited
    BY <1>2, <2>3 DEF Engines
  <2>5. Knows(e)
    BY <2>2, <2>4 DEF Knows, Terminals
  <2> QED
    BY <1>2, <2>2, <2>3, <2>4, <2>5 DEF Yields, Yielding
<1>10. CASE StreamTimesOut \/ ModelFails \/ InternalError
  BY <1>5, <1>10 DEF StreamTimesOut, ModelFails, InternalError, ErrorCodes
<1> QED
  BY <1>6, <1>7, <1>8, <1>9, <1>10 DEF EngineStep

LEMMA YieldedEngineSound ==
    ASSUME AnswerInv, NEW e \in Events, Yielding(e)
    PROVE  EngineSound'
<1>0. /\ EngineSound /\ yielded \in Seq(Events) /\ Len(yielded) \in Nat
      /\ engine.cited \in Seq(Citations) /\ engine.tokens \in Nat
  BY AnswerTyped DEF AnswerInv
<1>1. PICK y : y = Append(yielded, e)
  OBVIOUS
<1>2. PICK n \in Nat : n = Len(yielded)
  BY <1>0
<1>3. /\ yielded' = y /\ engine.at # "ended" /\ feeder' = [at |-> "send", event |-> e]
      /\ Knows(e)
  BY <1>1 DEF Yielding
<1>4. y \in Seq(Events) /\ Len(y) = n + 1 /\ y[n + 1] = e
  BY <1>0, <1>1, <1>2, AppendProperties
<1>5. /\ e.event \in Data
      /\ e.event = "citation" => e \in Citations
      /\ e.event \in Terminals => e.event \in {"done", "error"}
  BY EventsTyped
<1>6. FramesOf(yielded, Terminals) = {}
  BY <1>0, <1>3 DEF EngineSound
<1>7. FramesOf(yielded, {"done"}) = {}
  BY <1>6 DEF FramesOf, Terminals
<1>8. \A kinds : /\ Cardinality(FramesOf(yielded, kinds)) \in Nat
                 /\ FramesOf(y, kinds) =
                        IF e.event \in kinds THEN FramesOf(yielded, kinds) \cup {n + 1}
                                             ELSE FramesOf(yielded, kinds)
                 /\ Cardinality(FramesOf(y, kinds)) =
                        IF e.event \in kinds THEN Cardinality(FramesOf(yielded, kinds)) + 1
                                             ELSE Cardinality(FramesOf(yielded, kinds))
  BY <1>0, <1>1, <1>2, FramesAppend
<1>9. engine.tokens = Cardinality(FramesOf(yielded, {"token"}))
      /\ Cites(engine.cited, yielded)
  BY <1>0 DEF EngineSound
<1>10. engine'.tokens = Cardinality(FramesOf(y, {"token"}))
  <2>1. CASE e.event = "token"
    BY <1>3, <1>8, <1>9, <2>1 DEF Knows, Terminals
  <2>2. CASE e.event # "token"
    BY <1>3, <1>8, <1>9, <2>2 DEF Knows, Terminals
  <2> QED
    BY <2>1, <2>2
<1>11. Cites(engine'.cited, y)
  <2>1. CASE e.event = "citation"
    <3>1. engine'.cited = Append(engine.cited, e)
      BY <1>3, <2>1 DEF Knows, Terminals
    <3> QED
      BY <1>0, <1>1, <1>5, <1>9, <2>1, <3>1, CitesAppend
  <2>2. CASE e.event # "citation"
    <3>1. engine'.cited = engine.cited
      BY <1>3, <2>2 DEF Knows, Terminals
    <3> QED
      BY <1>0, <1>1, <1>9, <2>2, <3>1, CitesAppend
  <2> QED
    BY <2>1, <2>2
<1>12. \A i \in FramesOf(y, Terminals) : i = Len(y) /\ engine'.at = "ended"
  <2>1. CASE e.event \in Terminals
    <3>1. FramesOf(y, Terminals) = {n + 1}
      BY <1>6, <1>8, <2>1
    <3>2. engine'.at = "ended"
      BY <1>3, <2>1 DEF Knows, Terminals
    <3> QED
      BY <1>4, <3>1, <3>2
  <2>2. CASE e.event \notin Terminals
    BY <1>6, <1>8, <2>2
  <2> QED
    BY <2>1, <2>2
<1>13. \A i \in FramesOf(y, {"done"}) :
           y[i].tokens = engine'.tokens /\ y[i].citations = engine'.cited
  <2>1. CASE e.event = "done"
    <3>1. FramesOf(y, {"done"}) = {n + 1}
      BY <1>7, <1>8, <2>1
    <3>2. e.tokens = engine'.tokens /\ e.citations = engine'.cited
      BY <1>3, <2>1 DEF Knows, Terminals
    <3> QED
      BY <1>4, <3>1, <3>2
  <2>2. CASE e.event # "done"
    BY <1>7, <1>8, <2>2
  <2> QED
    BY <2>1, <2>2
<1>14. engine'.at # "unstarted" /\ (engine'.at = "ended" => engine'.due = {})
  BY <1>3 DEF Knows
<1> QED
  BY <1>3, <1>10, <1>11, <1>12, <1>13, <1>14 DEF EngineSound

LEMMA YieldedStreamSound ==
    ASSUME AnswerInv, NEW e \in Events, Yielding(e)
    PROVE  StreamSound'
<1> SUFFICES ASSUME socket'.kind \in {"ws", "sse"}
             PROVE  StreamSound'
  BY DEF StreamSound
<1>0. /\ yielded \in Seq(Events) /\ Len(yielded) \in Nat
      /\ wire \in Seq(Frames)
      /\ engine.cited \in Seq(Citations) /\ engine.tokens \in Nat
  BY AnswerTyped DEF AnswerInv
<1>1. PICK y : y = Append(yielded, e)
  OBVIOUS
<1>2. PICK n \in Nat : n = Len(yielded)
  BY <1>0
<1>3. /\ yielded' = y /\ feeder' = [at |-> "send", event |-> e] /\ wire' = wire
      /\ feeder.at = "pull" /\ socket' = socket /\ handler' = handler
      /\ Knows(e)
  BY <1>1 DEF Yielding
<1>4. y \in Seq(Events) /\ Len(y) = n + 1 /\ y[n + 1] = e
  BY <1>0, <1>1, <1>2, AppendProperties
<1>5. /\ BeginsWith(yielded, wire, Data)
      /\ n = Cardinality(FramesOf(wire, Data))
      /\ engine.tokens = Cardinality(FramesOf(wire, {"token"})) /\ Cites(engine.cited, wire)
      /\ \A i \in FramesOf(wire, Terminals), j \in FramesOf(wire, Data) : j <= i
      /\ \A i \in FramesOf(wire, {"done"}) :
             /\ wire[i].tokens = Cardinality(FramesOf(wire, {"token"}))
             /\ Cites(wire[i].citations, wire)
      /\ \A i \in FramesOf(wire, {"cancelled"}) :
             i = Len(wire) /\ socket.cancel /\ handler = "over"
  BY <1>2, <1>3 DEF AnswerInv, StreamSound, Level
<1>6. BeginsWith(y, wire, Data)
  BY <1>0, <1>1, <1>5, BeginsLonger
<1>7. Lacks(e)'
  <2>1. CASE e.event = "token"
    <3>1. engine'.tokens = engine.tokens + 1 /\ engine'.cited = engine.cited
      BY <1>3, <2>1 DEF Knows, Terminals
    <3> QED
      BY <1>3, <1>5, <2>1, <3>1 DEF Lacks
  <2>2. CASE e.event = "citation"
    <3>1. engine'.tokens = engine.tokens /\ engine'.cited = Append(engine.cited, e)
      BY <1>3, <2>2 DEF Knows, Terminals
    <3>2. PICK c \in Seq(Citations) : c = engine.cited
      BY <1>0
    <3>3. Cites(c, wire') /\ engine'.cited = Append(c, e)
          /\ engine'.tokens = Cardinality(FramesOf(wire', {"token"}))
      BY <1>3, <1>5, <3>1, <3>2
    <3> QED
      BY <2>2, <3>3 DEF Lacks
  <2>3. CASE e.event \notin {"token", "citation"}
    <3>1. engine'.tokens = engine.tokens /\ engine'.cited = engine.cited
      BY <1>3, <2>3 DEF Knows
    <3>2. Level'
      BY <1>3, <1>5, <3>1 DEF Level
    <3> QED
      BY <2>3, <3>2 DEF Lacks
  <2> QED
    BY <2>1, <2>2, <2>3
<1>8. feeder'.at = "send" /\ feeder'.event = e
  BY <1>3
<1>9. \A i \in FramesOf(wire', {"done"}) :
          /\ wire'[i].tokens = Cardinality(FramesOf(wire', {"token"}))
          /\ Cites(wire'[i].citations, wire')
  BY <1>3, <1>5
<1>10. \A i \in FramesOf(wire', {"cancelled"}) :
           i = Len(wire') /\ socket'.cancel /\ handler' = "over"
  BY <1>3, <1>5
<1>11. Len(yielded') = Cardinality(FramesOf(wire', Data)) + 1
       /\ feeder'.event = yielded'[Len(yielded')] /\ Lacks(feeder.event)'
  <2>1. Lacks(feeder.event)'
    BY <1>7, <1>8 DEF Lacks, Level
  <2>2. Len(y) = Cardinality(FramesOf(wire, Data)) + 1 /\ e = y[Len(y)]
    BY <1>4, <1>5
  <2> QED
    BY <1>3, <1>8, <2>1, <2>2
<1>12. BeginsWith(yielded', wire', Data)
       /\ \A i \in FramesOf(wire', Terminals), j \in FramesOf(wire', Data) : j <= i
  BY <1>3, <1>5, <1>6
<1> QED
  BY <1>8, <1>9, <1>10, <1>11, <1>12 DEF StreamSound

LEMMA EngineKeeps ==
    ASSUME AnswerInv, EngineStep
    PROVE  AnswerInv'
<1>1. PICK e \in Events : Yielding(e)
  BY EngineYields
<1>2. EngineSound' /\ StreamSound'
  BY <1>1, YieldedEngineSound, YieldedStreamSound
<1>3. /\ AnswerTypes /\ Unconnected /\ JsonSound
      /\ yielded \in Seq(Events) /\ Len(yielded) \in Nat
  BY AnswerTyped DEF AnswerInv
<1>4. AnswerTypes'
  <2>1. yielded' \in Seq(Events)
    BY <1>1, <1>3, AppendProperties DEF Yielding
  <2>2. feeder' \in [at : {"send", "sent"}, event : Events]
    BY <1>1 DEF Yielding
  <2> QED
    BY <1>1, <1>3, <2>1, <2>2 DEF AnswerTypes, Yielding
<1>5. handler = "wait"
  BY <1>1, <1>3 DEF Unconnected, Yielding
<1>6. Unconnected'
  BY <1>1, <1>3, <1>5 DEF Unconnected, Yielding
<1>7. JsonSound'
  <2>1. CASE socket.kind = "json"
    <3>1. wire = <<>> /\ ~socket.closed
      BY <1>3, <1>5, <2>1 DEF JsonSound
    <3>2. engine'.at = "ended" => FramesOf(yielded', Terminals) # {}
      <4>1. SUFFICES ASSUME engine'.at = "ended" PROVE FramesOf(yielded', Terminals) # {}
        OBVIOUS
      <4>2. e.event \in Terminals
        BY <1>1, <4>1 DEF Yielding, Knows
      <4>3. Len(yielded) + 1 \in FramesOf(yielded', Terminals)
        BY <1>1, <1>3, <4>2, FramesAppend DEF Yielding
      <4> QED
        BY <4>3
    <3>3. feeder'.at = "send" /\ wire' = wire /\ socket' = socket
      BY <1>1 DEF Yielding
    <3> QED
      BY <3>1, <3>2, <3>3 DEF JsonSound
  <2>2. CASE socket.kind # "json"
    BY <1>1, <2>2 DEF JsonSound, Yielding
  <2> QED
    BY <2>1, <2>2
<1> QED
  BY <1>2, <1>4, <1>6, <1>7 DEF AnswerInv

\* The frame that is sent is the one the wire lacked.
LEMMA SentStreamSound ==
    ASSUME AnswerInv, SendFrame
    PROVE  StreamSound'
<1>0. /\ yielded \in Seq(Events) /\ Len(yielded) \in Nat
      /\ wire \in Seq(Frames)
      /\ engine.cited \in Seq(Citations) /\ engine.tokens \in Nat
  BY AnswerTyped DEF AnswerInv
<1>1. /\ socket.kind \in {"ws", "sse"} /\ feeder.at = "send"
      /\ wire' = Append(wire, feeder.event)
      /\ UNCHANGED <<engine, yielded, handler, listener, socket>>
      /\ feeder'.at = "sent"
  BY AnswerTyped DEF AnswerInv, AnswerTypes, SendFrame
<1>2. PICK e \in Events : e = feeder.event
  BY <1>1, AnswerTyped DEF AnswerInv
<1>3. PICK w : w = Append(wire, e)
  OBVIOUS
<1>4. PICK d \in Nat : d = Cardinality(FramesOf(wire, Data))
  BY <1>0, <1>2, EventsTyped, FramesAppend
<1>5. /\ BeginsWith(yielded, wire, Data)
      /\ Len(yielded) = d + 1
      /\ e = yielded[Len(yielded)]
      /\ Lacks(e)
  BY <1>1, <1>2, <1>4 DEF AnswerInv, StreamSound
<1>6. /\ e \in Frames /\ e.event \in Data /\ e.event # "cancelled"
      /\ e.event = "citation" => e \in Citations
  BY EventsTyped DEF Data, Terminals
<1>7. \A kinds :
          /\ Cardinality(FramesOf(wire, kinds)) \in Nat
          /\ FramesOf(wire, kinds) \subseteq 1..Len(wire)
          /\ FramesOf(w, kinds) =
                 IF e.event \in kinds THEN FramesOf(wire, kinds) \cup {Len(wire) + 1}
                                      ELSE FramesOf(wire, kinds)
          /\ Cardinality(FramesOf(w, kinds)) =
                 IF e.event \in kinds THEN Cardinality(FramesOf(wire, kinds)) + 1
                                      ELSE Cardinality(FramesOf(wire, kinds))
  BY <1>0, <1>3, <1>6, FramesAppend
<1>8. w[Len(wire) + 1] = e /\ Len(wire) \in Nat
  BY <1>0, <1>3, <1>6, AppendProperties, LenProperties
<1>9. BeginsWith(yielded, w, Data) /\ Len(yielded) = Cardinality(FramesOf(w, Data))
  <2>1. d + 1 \in DOMAIN yielded
    BY <1>0, <1>5, LenProperties
  <2>2. yielded[d + 1] = e
    BY <1>5
  <2> QED
    BY <1>0, <1>3, <1>4, <1>5, <1>6, <1>7, <2>1, <2>2, BeginsAppend
<1>10. engine.tokens = Cardinality(FramesOf(w, {"token"})) /\ Cites(engine.cited, w)
  <2>1. CASE e.event = "token"
    <3>1. engine.tokens = Cardinality(FramesOf(wire, {"token"})) + 1
          /\ Cites(engine.cited, wire)
      BY <1>5, <2>1 DEF Lacks
    <3>2. Cites(engine.cited, w)
      BY <1>0, <1>3, <1>6, <2>1, <3>1, CitesAppend
    <3> QED
      BY <1>7, <2>1, <3>1, <3>2
  <2>2. CASE e.event = "citation"
    <3>1. engine.tokens = Cardinality(FramesOf(wire, {"token"}))
      BY <1>5, <2>2 DEF Lacks
    <3>2. PICK c \in Seq(Citations) : Cites(c, wire) /\ engine.cited = Append(c, e)
      BY <1>5, <2>2 DEF Lacks
    <3>3. Cites(Append(c, e), w)
      BY <1>0, <1>3, <1>6, <2>2, <3>2, CitesAppend
    <3> QED
      BY <1>7, <2>2, <3>1, <3>2, <3>3
  <2>3. CASE e.event \notin {"token", "citation"}
    <3>1. Level
      BY <1>5, <2>3 DEF Lacks
    <3>2. Cites(engine.cited, w)
      BY <1>0, <1>3, <1>6, <2>3, <3>1, CitesAppend DEF Level
    <3> QED
      BY <1>7, <2>3, <3>1, <3>2 DEF Level
  <2> QED
    BY <2>1, <2>2, <2>3
<1>11. FramesOf(wire, Terminals) = {}
  <2>1. SUFFICES ASSUME NEW i \in FramesOf(wire, Terminals) PROVE FALSE
    OBVIOUS
  <2>2. i \in FramesOf(wire, Data) /\ wire[i].event \in Terminals
    BY <2>1 DEF FramesOf, Data
  <2>3. PICK k : k = Nth(i, wire, Data)
    OBVIOUS
  <2>4. k \in Nat /\ k <= d
    BY <1>0, <1>4, <2>2, <2>3, NthBounded
  <2>5. k \in DOMAIN yielded /\ yielded[k] = wire[i]
    BY <1>5, <2>2, <2>3 DEF BeginsWith
  <2>6. k \in FramesOf(yielded, Terminals)
    BY <2>2, <2>5 DEF FramesOf
  <2>7. k = Len(yielded)
    BY <2>6 DEF AnswerInv, EngineSound
  <2> QED
    BY <1>5, <2>4, <2>7
<1>12. FramesOf(wire, {"done"}) = {}
  BY <1>11 DEF FramesOf, Terminals
<1>13. \A i \in FramesOf(w, Terminals), j \in FramesOf(w, Data) : j <= i
  <2>1. \A i \in FramesOf(w, Terminals) : i = Len(wire) + 1
    BY <1>7, <1>11
  <2>2. \A j \in FramesOf(w, Data) : j \in 1..Len(wire) \/ j = Len(wire) + 1
    BY <1>7
  <2> QED
    BY <1>8, <2>1, <2>2
<1>14. \A i \in FramesOf(w, {"done"}) :
           /\ w[i].tokens = Cardinality(FramesOf(w, {"token"}))
           /\ Cites(w[i].citations, w)
  <2>1. SUFFICES ASSUME NEW i \in FramesOf(w, {"done"})
                 PROVE  /\ w[i].tokens = Cardinality(FramesOf(w, {"token"}))
                        /\ Cites(w[i].citations, w)
    OBVIOUS
  <2>2. i = Len(wire) + 1 /\ e.event = "done"
    BY <1>7, <1>12, <2>1
  <2>3. Len(yielded) \in DOMAIN yielded
    BY <1>0, <1>5, LenProperties
  <2>4. Len(yielded) \in FramesOf(yielded, {"done"})
    BY <1>5, <2>2, <2>3 DEF FramesOf
  <2>5. e.tokens = engine.tokens /\ e.citations = engine.cited
    BY <1>5, <2>4 DEF AnswerInv, EngineSound
  <2> QED
    BY <1>8, <1>10, <2>2, <2>5
<1>15. FramesOf(w, {"cancelled"}) = {}
  <2>1. handler # "over"
    BY <1>1 DEF AnswerInv, Unconnected
  <2>2. FramesOf(wire, {"cancelled"}) = {}
    BY <1>1, <2>1 DEF AnswerInv, StreamSound
  <2> QED
    BY <1>6, <1>7, <2>2
<1> QED
  BY <1>1, <1>2, <1>3, <1>9, <1>10, <1>13, <1>14, <1>15 DEF StreamSound, Level

LEMMA SendFrameKeeps ==
    ASSUME AnswerInv, SendFrame
    PROVE  AnswerInv'
<1>1. StreamSound'
  BY SentStreamSound
<1>2. /\ AnswerTypes /\ Unconnected /\ EngineSound /\ JsonSound
      /\ socket.kind \in {"ws", "sse"} /\ feeder.at = "send" /\ ~socket.closed
      /\ UNCHANGED <<engine, yielded, handler, listener, socket>>
      /\ wire' = Append(wire, feeder.event)
      /\ feeder' = [feeder EXCEPT !.at = "sent"]
  BY DEF AnswerInv, SendFrame
<1>3. feeder \in [at : {"send", "sent"}, event : Events]
  BY <1>2 DEF AnswerTypes
<1>4. /\ feeder' \in [at : {"send", "sent"}, event : Events] /\ feeder'.at = "sent"
      /\ feeder.event \in Events
  BY <1>2, <1>3
<1>5. wire' \in Seq(Frames)
  BY <1>2, <1>4, EventsTyped, AnswerTyped, AppendProperties
<1>6. AnswerTypes'
  BY <1>2, <1>4, <1>5 DEF AnswerTypes
<1>7. Unconnected'
  BY <1>2, <1>4 DEF Unconnected
<1>8. EngineSound'
  BY <1>2, <1>4 DEF EngineSound, Going
<1>9. JsonSound'
  BY <1>2 DEF JsonSound
<1> QED
  BY <1>1, <1>6, <1>7, <1>8, <1>9 DEF AnswerInv

\* A frame that is not of the answer, sent to a client of a stream.
LEMMA SideFrameSent ==
    ASSUME StreamSound, NEW f \in Others, socket.kind \in {"ws", "sse"},
           wire \in Seq(Frames), wire' = Append(wire, f),
           handler = "wait" \/ handler' = handler,
           handler # "over",
           f.event = "cancelled" => socket'.cancel /\ handler' = "over",
           UNCHANGED yielded,
           engine'.tokens = engine.tokens, engine'.cited = engine.cited,
           feeder'.at \in {"finished", "pull"},
           feeder'.at = "pull" => feeder.at = "pull"
    PROVE  StreamSound'
<1>1. PICK w : w = Append(wire, f)
  OBVIOUS
<1>2. /\ f \in Frames /\ f.event \notin Data
  BY DEF Others, Frames, Data, Terminals
<1>3. /\ \A kinds \in SUBSET Data :
             /\ FramesOf(w, kinds) = FramesOf(wire, kinds)
             /\ \A i \in FramesOf(wire, kinds) : w[i] = wire[i]
             /\ \A t : BeginsWith(t, wire, kinds) => BeginsWith(t, w, kinds)
      /\ \A c : Cites(c, wire) => Cites(c, w)
  BY ONLY <1>1, <1>2, wire \in Seq(Frames), SideFrame
<1>4. Data \in SUBSET Data /\ Terminals \in SUBSET Data /\ {"done"} \in SUBSET Data
      /\ {"token"} \in SUBSET Data
  BY DEF Data, Terminals
<1>5. FramesOf(wire, {"cancelled"}) = {}
  BY DEF StreamSound
<1>6. \A i \in FramesOf(w, {"cancelled"}) :
          i = Len(w) /\ socket'.cancel /\ handler' = "over"
  <2>1. FramesOf(w, {"cancelled"}) =
            IF f.event \in {"cancelled"} THEN {Len(wire) + 1} ELSE {}
    <3>1. FramesOf(w, {"cancelled"}) =
              IF f.event \in {"cancelled"} THEN FramesOf(wire, {"cancelled"}) \cup {Len(wire) + 1}
                                           ELSE FramesOf(wire, {"cancelled"})
      BY ONLY <1>1, <1>2, wire \in Seq(Frames), FramesAppend
    <3> QED
      BY ONLY <1>5, <3>1
  <2>2. Len(w) = Len(wire) + 1
    BY <1>1, <1>2, AppendProperties
  <2> QED
    BY <2>1, <2>2
<1>7. BeginsWith(yielded, w, Data)
  BY <1>3, <1>4 DEF StreamSound
<1>8. \A i \in FramesOf(w, Terminals), j \in FramesOf(w, Data) : j <= i
  BY <1>3, <1>4 DEF StreamSound
<1>9. \A i \in FramesOf(w, {"done"}) :
          /\ w[i].tokens = Cardinality(FramesOf(w, {"token"}))
          /\ Cites(w[i].citations, w)
  <2>1. \A i \in FramesOf(wire, {"done"}) :
            /\ wire[i].tokens = Cardinality(FramesOf(wire, {"token"}))
            /\ Cites(wire[i].citations, wire)
    BY DEF StreamSound
  <2>2. FramesOf(w, {"done"}) = FramesOf(wire, {"done"})
        /\ FramesOf(w, {"token"}) = FramesOf(wire, {"token"})
        /\ \A i \in FramesOf(wire, {"done"}) : w[i] = wire[i]
    BY <1>3, <1>4
  <2> QED
    BY <1>3, <2>1, <2>2
<1>10. feeder'.at = "pull" =>
           /\ Len(yielded) = Cardinality(FramesOf(w, Data))
           /\ engine.tokens = Cardinality(FramesOf(w, {"token"})) /\ Cites(engine.cited, w)
  <2>1. SUFFICES ASSUME feeder.at = "pull"
                 PROVE  /\ Len(yielded) = Cardinality(FramesOf(w, Data))
                        /\ engine.tokens = Cardinality(FramesOf(w, {"token"}))
                        /\ Cites(engine.cited, w)
    OBVIOUS
  <2>2. /\ Len(yielded) = Cardinality(FramesOf(wire, Data))
        /\ engine.tokens = Cardinality(FramesOf(wire, {"token"}))
        /\ Cites(engine.cited, wire)
    BY <2>1 DEF StreamSound, Level
  <2>3. FramesOf(w, Data) = FramesOf(wire, Data)
        /\ FramesOf(w, {"token"}) = FramesOf(wire, {"token"})
    BY <1>3, <1>4
  <2> QED
    BY <1>3, <2>2, <2>3
<1> QED
  BY <1>1, <1>6, <1>7, <1>8, <1>9, <1>10 DEF StreamSound, Level

LEMMA KeepaliveKeeps ==
    ASSUME AnswerInv, Keepalive
    PROVE  AnswerInv'
<1>1. PICK f : f = [event |-> "keepalive"]
  OBVIOUS
<1>2. /\ AnswerTypes /\ Unconnected /\ EngineSound /\ StreamSound /\ JsonSound
      /\ socket.kind = "sse" /\ feeder.at = "pull" /\ wire' = Append(wire, f)
      /\ UNCHANGED <<engine, yielded, feeder, handler, listener, socket>>
  BY <1>1 DEF AnswerInv, Keepalive
<1>3. f \in Others /\ f \in Frames /\ f.event = "keepalive"
  BY <1>1 DEF Others, Frames
<1>4. handler = "wait" /\ wire \in Seq(Frames)
  BY <1>2 DEF Unconnected, AnswerTypes
<1>5. StreamSound'
  BY <1>2, <1>3, <1>4, SideFrameSent
<1>6. wire' \in Seq(Frames)
  BY <1>2, <1>3, <1>4, AppendProperties
<1>7. AnswerTypes'
  BY <1>2, <1>6 DEF AnswerTypes
<1>8. Unconnected' /\ EngineSound' /\ JsonSound'
  BY <1>2 DEF Unconnected, EngineSound, JsonSound, Going
<1> QED
  BY <1>5, <1>7, <1>8 DEF AnswerInv

\* A step that neither yields nor sends, for a client that is connected.
LEMMA NothingSent ==
    ASSUME AnswerInv, UNCHANGED <<wire, yielded>>,
           engine' = engine \/ (engine' \in Engines /\ engine' = [engine EXCEPT !.at = "ended"]),
           engine' # engine => feeder'.at = "finished",
           feeder'.at \in Going => feeder.at \in Going,
           socket'.kind = socket.kind, socket.cancel => socket'.cancel,
           socket.kind # "json" /\ feeder'.at \in {"pull", "sent"} =>
               feeder.at \in {"pull", "sent"},
           feeder'.at = "send" => feeder' = feeder,
           handler' = handler \/ handler' = "over"
    PROVE  EngineSound' /\ StreamSound'
<1>1. EngineSound /\ StreamSound /\ engine \in Engines
  BY DEF AnswerInv, AnswerTypes
<1>2. engine'.tokens = engine.tokens /\ engine'.cited = engine.cited
      /\ engine'.due = engine.due /\ engine'.at \in {engine.at, "ended"}
      /\ (engine' # engine => engine'.at = "ended")
  BY <1>1 DEF Engines
<1>3. EngineSound'
  <2>1. engine'.at = "unstarted" => engine'.due = {}
    BY <1>1, <1>2 DEF EngineSound
  <2>2. engine'.at = "ended" /\ feeder'.at \in Going => engine'.due = {}
    <3>1. feeder'.at \in Going => engine' = engine
      BY DEF Going
    <3> QED
      BY <1>1, <3>1 DEF EngineSound
  <2>3. \A i \in FramesOf(yielded, Terminals) : i = Len(yielded) /\ engine'.at = "ended"
    BY <1>1, <1>2 DEF EngineSound
  <2> QED
    BY <1>1, <1>2, <2>1, <2>2, <2>3 DEF EngineSound
<1>4. StreamSound'
  <2>1. SUFFICES ASSUME socket.kind \in {"ws", "sse"} PROVE StreamSound'
    BY DEF StreamSound
  <2>2. /\ BeginsWith(yielded, wire, Data)
        /\ \A i \in FramesOf(wire, Terminals), j \in FramesOf(wire, Data) : j <= i
        /\ \A i \in FramesOf(wire, {"done"}) :
               /\ wire[i].tokens = Cardinality(FramesOf(wire, {"token"}))
               /\ Cites(wire[i].citations, wire)
        /\ \A i \in FramesOf(wire, {"cancelled"}) :
               i = Len(wire) /\ socket.cancel /\ handler = "over"
    BY <1>1, <2>1 DEF StreamSound
  <2>3. feeder'.at \in {"pull", "sent"} =>
            Len(yielded) = Cardinality(FramesOf(wire, Data)) /\ Level'
    BY <1>1, <1>2, <2>1 DEF StreamSound, Level
  <2>4. feeder'.at = "send" =>
            /\ Len(yielded) = Cardinality(FramesOf(wire, Data)) + 1
            /\ feeder'.event = yielded[Len(yielded)]
            /\ Lacks(feeder.event)'
    BY <1>1, <1>2, <2>1 DEF StreamSound, Lacks, Level
  <2> QED
    BY <2>2, <2>3, <2>4 DEF StreamSound
<1> QED
  BY <1>3, <1>4

\* The steps that end or move on a task, and what a client does.
LEMMA QuietKeeps ==
    ASSUME AnswerInv,
           \/ Exhausted \/ StopSending \/ AfterSend \/ Collect
           \/ ClientCancels \/ ClientLeaves \/ ListenerStops
    PROVE  AnswerInv'
<1>1. /\ AnswerTypes /\ Unconnected /\ EngineSound /\ StreamSound /\ JsonSound
      /\ engine \in Engines
  BY DEF AnswerInv, AnswerTypes
<1>2. /\ [engine EXCEPT !.at = "ended"] \in Engines
      /\ [engine EXCEPT !.at = "ended"].at = "ended"
  BY <1>1 DEF Engines
<1>3. /\ [socket EXCEPT !.closed = TRUE] \in
             [kind : {"none", "ws", "sse", "json"}, closed : BOOLEAN, cancel : BOOLEAN]
      /\ [socket EXCEPT !.closed = TRUE].kind = socket.kind
      /\ [socket EXCEPT !.closed = TRUE].cancel = socket.cancel
      /\ [socket EXCEPT !.cancel = TRUE] \in
             [kind : {"none", "ws", "sse", "json"}, closed : BOOLEAN, cancel : BOOLEAN]
      /\ [socket EXCEPT !.cancel = TRUE].kind = socket.kind
      /\ [socket EXCEPT !.cancel = TRUE].cancel = TRUE
      /\ [socket EXCEPT !.cancel = TRUE].closed = socket.closed
  BY <1>1 DEF AnswerTypes
<1>4. CASE Exhausted
  <2>1. /\ feeder.at = "pull" /\ engine.at = "ended"
        /\ feeder' = [at |-> "finished"] /\ feeder'.at = "finished"
        /\ UNCHANGED <<engine, yielded, handler, listener, socket, wire>>
    BY <1>4 DEF Exhausted, Asked
  <2>2. EngineSound' /\ StreamSound'
    BY <2>1, NothingSent DEF Going
  <2>3. AnswerTypes'
    BY <1>1, <2>1 DEF AnswerTypes
  <2>4. Unconnected' /\ JsonSound'
    BY <1>1, <2>1 DEF Unconnected, JsonSound
  <2> QED
    BY <2>2, <2>3, <2>4 DEF AnswerInv
<1>5. CASE StopSending
  <2>1. /\ socket.kind \in {"ws", "sse"} /\ feeder.at = "send"
        /\ feeder' = [at |-> "finished"] /\ feeder'.at = "finished"
        /\ engine' = [engine EXCEPT !.at = "ended"]
        /\ UNCHANGED <<yielded, handler, listener, socket, wire>>
    BY <1>5 DEF StopSending
  <2>2. EngineSound' /\ StreamSound'
    BY <1>2, <2>1, NothingSent DEF Going
  <2>3. AnswerTypes'
    BY <1>1, <1>2, <2>1 DEF AnswerTypes
  <2>4. Unconnected' /\ JsonSound'
    BY <1>1, <2>1 DEF Unconnected, JsonSound
  <2> QED
    BY <2>2, <2>3, <2>4 DEF AnswerInv
<1>6. CASE AfterSend
  <2>1. feeder.at = "sent" /\ UNCHANGED <<engine, yielded, handler, listener, wire>>
    BY <1>6 DEF AfterSend
  <2>2. socket.kind # "json" /\ handler # "over"
    BY <1>1, <2>1 DEF JsonSound, Unconnected
  <2>3. CASE socket.kind = "ws" /\ feeder.event.event \in Terminals
    <3>1. /\ feeder' = [at |-> "finished"] /\ feeder'.at = "finished"
          /\ socket' = [socket EXCEPT !.closed = TRUE]
      BY <1>6, <2>3 DEF AfterSend
    <3>2. EngineSound' /\ StreamSound'
      BY <1>3, <2>1, <3>1, NothingSent DEF Going
    <3>3. AnswerTypes'
      BY <1>1, <1>3, <2>1, <3>1 DEF AnswerTypes
    <3>4. Unconnected' /\ JsonSound'
      BY <1>1, <1>3, <2>1, <2>2, <2>3, <3>1 DEF Unconnected, JsonSound
    <3> QED
      BY <3>2, <3>3, <3>4 DEF AnswerInv
  <2>4. CASE ~ (socket.kind = "ws" /\ feeder.event.event \in Terminals)
    <3>1. feeder' = [at |-> "pull"] /\ feeder'.at = "pull" /\ socket' = socket
      BY <1>6, <2>4 DEF AfterSend
    <3>2. EngineSound' /\ StreamSound'
      BY <2>1, <3>1, NothingSent DEF Going
    <3>3. AnswerTypes'
      BY <1>1, <2>1, <3>1 DEF AnswerTypes
    <3>4. Unconnected' /\ JsonSound'
      BY <1>1, <2>1, <2>2, <3>1 DEF Unconnected, JsonSound
    <3> QED
      BY <3>2, <3>3, <3>4 DEF AnswerInv
  <2> QED
    BY <2>3, <2>4
<1>7. CASE Collect
  <2>1. /\ socket.kind = "json" /\ feeder.at = "send"
        /\ feeder' = [at |-> "pull"] /\ feeder'.at = "pull"
        /\ UNCHANGED <<engine, yielded, handler, listener, socket, wire>>
    BY <1>7 DEF Collect
  <2>2. EngineSound' /\ StreamSound'
    BY <2>1, NothingSent DEF Going
  <2>3. AnswerTypes'
    BY <1>1, <2>1 DEF AnswerTypes
  <2>4. Unconnected' /\ JsonSound'
    BY <1>1, <2>1 DEF Unconnected, JsonSound
  <2> QED
    BY <2>2, <2>3, <2>4 DEF AnswerInv
<1>8. CASE ClientCancels \/ ClientLeaves \/ ListenerStops
  <2>1. /\ UNCHANGED <<engine, yielded, feeder, handler, wire>>
        /\ \/ socket' = [socket EXCEPT !.cancel = TRUE]
           \/ /\ socket' = [socket EXCEPT !.closed = TRUE]
              /\ socket.kind \in {"ws", "sse"}
           \/ socket' = socket
    BY <1>8 DEF ClientCancels, ClientLeaves, ListenerStops
  <2>2. /\ socket'.kind = socket.kind /\ (socket.cancel => socket'.cancel)
        /\ socket' \in
               [kind : {"none", "ws", "sse", "json"}, closed : BOOLEAN, cancel : BOOLEAN]
        /\ (socket'.closed = socket.closed \/ socket.kind \in {"ws", "sse"})
    BY <1>1, <1>3, <2>1 DEF AnswerTypes
  <2>3. EngineSound' /\ StreamSound'
    BY <2>1, <2>2, NothingSent
  <2>4. AnswerTypes'
    BY <1>1, <2>1, <2>2 DEF AnswerTypes
  <2>5. Unconnected' /\ JsonSound'
    BY <1>1, <2>1, <2>2 DEF Unconnected, JsonSound
  <2> QED
    BY <2>3, <2>4, <2>5 DEF AnswerInv
<1> QED
  BY <1>4, <1>5, <1>6, <1>7, <1>8

LEMMA ConnectKeeps ==
    ASSUME AnswerInv, ConnectSocket \/ \E kind \in {"sse", "json"} : ConnectHttp(kind)
    PROVE  AnswerInv'
<1>1. /\ AnswerTypes /\ Unconnected /\ EngineSound
      /\ engine \in Engines
  BY DEF AnswerInv, AnswerTypes
<1>2. handler = "none" /\ UNCHANGED <<yielded, wire>>
  BY DEF ConnectSocket, ConnectHttp
<1>3. /\ feeder.at = "off" /\ yielded = <<>> /\ wire = <<>> /\ ~socket.closed
      /\ engine.at = "unstarted"
  BY <1>1, <1>2 DEF Unconnected
<1>4. \A kinds : /\ FramesOf(<<>>, kinds) = {} /\ Cardinality(FramesOf(<<>>, kinds)) = 0
                 /\ \A t : BeginsWith(t, <<>>, kinds)
  BY FramesOfNothing
<1>5. engine.tokens = 0 /\ Cites(engine.cited, <<>>)
  BY <1>1, <1>3, <1>4 DEF EngineSound
<1>6. ASSUME NEW kind \in {"ws", "sse", "json"}, handler' = "wait",
             feeder' = [at |-> "pull"], socket' = [socket EXCEPT !.kind = kind], Retrieved
      PROVE  AnswerInv'
  <2>1. PICK found \in SUBSET Sources : engine' = [engine EXCEPT !.found = found]
    BY <1>6 DEF Retrieved
  <2>2. /\ engine' \in Engines /\ engine'.at = engine.at /\ engine'.due = engine.due
        /\ engine'.tokens = engine.tokens /\ engine'.cited = engine.cited
    BY <1>1, <2>1 DEF Engines
  <2>3. /\ socket'.kind = kind /\ socket'.closed = socket.closed
        /\ socket' \in
               [kind : {"none", "ws", "sse", "json"}, closed : BOOLEAN, cancel : BOOLEAN]
    BY <1>1, <1>6 DEF AnswerTypes
  <2>4. feeder'.at = "pull" /\ feeder' \in [at : {"off", "pull", "finished"}]
    BY <1>6
  <2>5. AnswerTypes'
    BY <1>1, <1>2, <2>2, <2>3, <2>4 DEF AnswerTypes
  <2>6. Unconnected'
    BY <1>6, <2>3, <2>4 DEF Unconnected
  <2>7. engine'.at = "unstarted" /\ engine'.due = {}
    BY <1>1, <1>3, <2>2 DEF EngineSound
  <2>8. EngineSound'
    BY <1>1, <1>2, <1>3, <1>4, <2>2, <2>4, <2>7 DEF EngineSound
  <2>9. StreamSound'
    BY <1>2, <1>3, <1>4, <1>5, <2>2, <2>4 DEF StreamSound, Level
  <2>10. JsonSound'
    BY <1>2, <1>3, <1>6, <2>3, <2>4, <2>7 DEF JsonSound
  <2> QED
    BY <2>5, <2>6, <2>8, <2>9, <2>10 DEF AnswerInv
<1>7. ASSUME handler' = "over", socket' = [socket EXCEPT !.kind = "ws", !.closed = TRUE],
             engine' = [engine EXCEPT !.at = "ended"], UNCHANGED <<feeder, listener>>
      PROVE  AnswerInv'
  <2>1. /\ engine' \in Engines /\ engine'.at = "ended"
        /\ engine'.tokens = engine.tokens /\ engine'.cited = engine.cited
    BY <1>1, <1>7 DEF Engines
  <2>2. socket' = [kind |-> "ws", closed |-> TRUE, cancel |-> socket.cancel]
    BY <1>1, <1>7 DEF AnswerTypes
  <2>3. socket.cancel \in BOOLEAN
    BY <1>1, AnswerTyped
  <2>4. AnswerTypes'
    BY <1>1, <1>2, <1>7, <2>1, <2>2, <2>3 DEF AnswerTypes
  <2>5. Unconnected'
    BY <1>2, <1>3, <1>7, <2>2 DEF Unconnected
  <2>6. EngineSound'
    BY <1>1, <1>2, <1>3, <1>4, <1>7, <2>1 DEF EngineSound, Going
  <2>7. StreamSound'
    BY <1>2, <1>3, <1>4, <1>7 DEF StreamSound
  <2>8. JsonSound'
    BY <2>2 DEF JsonSound
  <2> QED
    BY <2>4, <2>5, <2>6, <2>7, <2>8 DEF AnswerInv
<1>8. CASE ConnectSocket
  BY <1>6, <1>7, <1>8 DEF ConnectSocket
<1>9. ASSUME NEW kind \in {"sse", "json"}, ConnectHttp(kind) PROVE AnswerInv'
  BY <1>6, <1>9 DEF ConnectHttp
<1> QED
  BY <1>8, <1>9

\* The handler stops the feeder wherever it is, and tells a client that asked.
LEMMA HandlerKeeps ==
    ASSUME AnswerInv, HandlerResumes
    PROVE  AnswerInv'
<1>1. /\ AnswerTypes /\ Unconnected /\ EngineSound /\ StreamSound
      /\ engine \in Engines /\ wire \in Seq(Frames)
      /\ socket \in [kind : {"none", "ws", "sse", "json"}, closed : BOOLEAN, cancel : BOOLEAN]
  BY DEF AnswerInv, AnswerTypes
<1>2. /\ socket.kind = "ws" /\ handler = "wait"
      /\ wire' = IF socket.cancel THEN CancelledFrame ELSE wire
      /\ socket' = [socket EXCEPT !.closed = TRUE]
      /\ feeder' = [at |-> "finished"] /\ feeder'.at = "finished"
      /\ engine' = [engine EXCEPT !.at = "ended"]
      /\ handler' = "over" /\ yielded' = yielded
  BY DEF HandlerResumes
<1>3. /\ engine' \in Engines /\ engine'.at = "ended"
      /\ engine'.tokens = engine.tokens /\ engine'.cited = engine.cited
  BY <1>1, <1>2 DEF Engines
<1>4. /\ socket'.kind = "ws" /\ socket'.cancel = socket.cancel
      /\ socket' \in
             [kind : {"none", "ws", "sse", "json"}, closed : BOOLEAN, cancel : BOOLEAN]
  BY <1>1, <1>2
<1>5. PICK f : f = [event |-> "cancelled"]
  OBVIOUS
<1>6. f \in Others /\ f \in Frames /\ f.event = "cancelled"
  BY <1>5 DEF Others, Frames
<1>7. wire' = wire \/ (wire' = Append(wire, f) /\ socket.cancel)
  BY <1>2, <1>5 DEF CancelledFrame
<1>8. wire' \in Seq(Frames)
  BY <1>1, <1>6, <1>7, AppendProperties
<1>9. AnswerTypes'
  BY <1>1, <1>2, <1>3, <1>4, <1>8 DEF AnswerTypes
<1>10. Unconnected'
  BY <1>2, <1>4 DEF Unconnected
<1>11. JsonSound'
  BY <1>4 DEF JsonSound
<1>12. EngineSound'
  <2>1. \A i \in FramesOf(yielded, Terminals) : i = Len(yielded)
    BY <1>1 DEF EngineSound
  <2> QED
    BY <1>1, <1>2, <1>3, <2>1 DEF EngineSound, Going
<1>13. StreamSound'
  <2>1. CASE wire' = wire
    BY <1>2, <1>3, <1>4, <2>1, NothingSent DEF Going
  <2>2. CASE wire' = Append(wire, f) /\ socket.cancel
    BY <1>1, <1>2, <1>3, <1>4, <1>6, <2>2, SideFrameSent
  <2> QED
    BY <1>7, <2>1, <2>2
<1> QED
  BY <1>9, <1>10, <1>11, <1>12, <1>13 DEF AnswerInv

\* What the JSON response is made of when the engine is through.
LEMMA AnsweredSound ==
    ASSUME AnswerInv, FramesOf(yielded, Terminals) # {}
    PROVE  /\ Answered \in Responses
           /\ Answered.error \/ Cites(Answered.citations, yielded)
<1>1. /\ EngineSound /\ yielded \in Seq(Events) /\ Len(yielded) \in Nat
      /\ DOMAIN yielded = 1..Len(yielded) /\ engine.cited \in Seq(Citations)
  BY AnswerTyped, LenProperties DEF AnswerInv
<1>2. PICK n : n = Len(yielded)
  OBVIOUS
<1>3. n \in DOMAIN yielded /\ yielded[n].event \in Terminals /\ yielded[n] \in Events
  <2>1. PICK i : i \in FramesOf(yielded, Terminals)
    OBVIOUS
  <2>2. i = n /\ i \in DOMAIN yielded /\ yielded[i].event \in Terminals
    BY <1>1, <1>2, <2>1 DEF EngineSound, FramesOf
  <2> QED
    BY <1>1, <2>2, ElementOfSeq
<1>4. CASE \E i \in DOMAIN yielded : yielded[i].event = "error"
  <2>1. Answered = [event |-> "response", error |-> TRUE, citations |-> <<>>]
    BY <1>4 DEF Answered
  <2>2. <<>> \in Seq(Citations)
    OBVIOUS
  <2>3. Answered.error
    BY <2>1
  <2>4. Answered \in Responses
    BY <2>1, <2>2 DEF Responses
  <2> QED
    BY <2>3, <2>4
<1>5. CASE ~ \E i \in DOMAIN yielded : yielded[i].event = "error"
  <2>1. yielded[n].event = "done"
    BY <1>3, <1>5, EventsTyped
  <2>2. n \in FramesOf(yielded, {"done"})
    BY <1>3, <2>1 DEF FramesOf
  <2>3. yielded[n].citations = engine.cited
    BY <1>1, <2>2 DEF EngineSound
  <2>4. Answered = [event |-> "response", error |-> FALSE, citations |-> engine.cited]
    BY <1>2, <1>5, <2>3 DEF Answered, Last
  <2>5. Answered.citations = engine.cited /\ Answered \in Responses
    BY <1>1, <2>4 DEF Responses
  <2> QED
    BY <1>1, <2>5 DEF EngineSound
<1> QED
  BY <1>4, <1>5

LEMMA StreamEndKeeps ==
    ASSUME AnswerInv, StreamEnds
    PROVE  AnswerInv'
<1>1. /\ AnswerTypes /\ Unconnected /\ EngineSound /\ StreamSound /\ JsonSound
      /\ engine \in Engines /\ wire \in Seq(Frames)
      /\ socket \in [kind : {"none", "ws", "sse", "json"}, closed : BOOLEAN, cancel : BOOLEAN]
  BY DEF AnswerInv, AnswerTypes
<1>2. /\ socket.kind \in {"sse", "json"} /\ handler = "wait"
      /\ feeder.at = "finished" \/ socket.closed
      /\ wire' = IF socket.kind = "json" THEN Append(wire, Answered) ELSE wire
      /\ socket' = [socket EXCEPT !.closed = TRUE]
      /\ feeder' = [at |-> "finished"] /\ feeder'.at = "finished"
      /\ engine' = [engine EXCEPT !.at = "ended"]
      /\ handler' = "over" /\ yielded' = yielded
  BY DEF StreamEnds
<1>3. /\ engine' \in Engines /\ engine'.at = "ended"
      /\ engine'.tokens = engine.tokens /\ engine'.cited = engine.cited
  BY <1>1, <1>2 DEF Engines
<1>4. /\ socket'.kind = socket.kind /\ socket'.cancel = socket.cancel
      /\ socket' \in
             [kind : {"none", "ws", "sse", "json"}, closed : BOOLEAN, cancel : BOOLEAN]
  BY <1>1, <1>2
<1>5. EngineSound'
  <2>1. \A i \in FramesOf(yielded, Terminals) : i = Len(yielded)
    BY <1>1 DEF EngineSound
  <2> QED
    BY <1>1, <1>2, <1>3, <2>1 DEF EngineSound, Going
<1>6. Unconnected'
  BY <1>2, <1>4 DEF Unconnected
<1>7. CASE socket.kind = "sse"
  <2>1. wire' = wire
    BY <1>2, <1>7
  <2>2. StreamSound'
    BY <1>2, <1>3, <1>4, <2>1, NothingSent DEF Going
  <2>3. AnswerTypes'
    BY <1>1, <1>2, <1>3, <1>4, <2>1 DEF AnswerTypes
  <2>4. JsonSound'
    BY <1>4, <1>7 DEF JsonSound
  <2> QED
    BY <1>5, <1>6, <2>2, <2>3, <2>4 DEF AnswerInv
<1>8. CASE socket.kind = "json"
  <2>1. wire = <<>> /\ FramesOf(yielded, Terminals) # {}
    BY <1>1, <1>2, <1>8 DEF JsonSound
  <2>2. PICK a : a = Answered
    OBVIOUS
  <2>3. a \in Responses /\ (a.error \/ Cites(a.citations, yielded))
    BY <2>1, <2>2, AnsweredSound
  <2>4. a \in Frames
    BY <2>3 DEF Frames
  <2>5. wire' \in Seq(Frames) /\ wire'[1] = a
    <3>1. wire' = Append(wire, a) /\ Len(wire) = 0
      BY <1>2, <1>8, <2>1, <2>2
    <3> QED
      BY <1>1, <2>4, <3>1, AppendProperties
  <2>6. AnswerTypes'
    BY <1>1, <1>2, <1>3, <1>4, <2>5 DEF AnswerTypes
  <2>7. StreamSound'
    BY <1>4, <1>8 DEF StreamSound
  <2>8. JsonSound'
    BY <1>2, <2>3, <2>5 DEF JsonSound
  <2> QED
    BY <1>5, <1>6, <2>6, <2>7, <2>8 DEF AnswerInv
<1> QED
  BY <1>2, <1>7, <1>8

LEMMA AnswerInitial == AnswerInit => AnswerInv
<1> SUFFICES ASSUME AnswerInit PROVE AnswerInv
  OBVIOUS
<1>1. /\ engine.at = "unstarted" /\ engine.due = {} /\ engine.tokens = 0
      /\ engine.cited = <<>> /\ yielded = <<>> /\ wire = <<>>
      /\ feeder = [at |-> "off"] /\ feeder.at = "off"
      /\ handler = "none" /\ socket.kind = "none" /\ socket.closed = FALSE
  BY DEF AnswerInit
<1>2. \A kinds : /\ FramesOf(<<>>, kinds) = {} /\ Cardinality(FramesOf(<<>>, kinds)) = 0
                 /\ \A t : BeginsWith(t, <<>>, kinds)
  BY FramesOfNothing
<1>3. AnswerTypes
  <2>1. <<>> \in Seq(Citations) /\ <<>> \in Seq(Events) /\ <<>> \in Seq(Frames)
    OBVIOUS
  <2>2. engine \in Engines
    BY <2>1 DEF AnswerInit, Engines
  <2> QED
    BY <1>1, <2>1, <2>2 DEF AnswerInit, AnswerTypes
<1>4. Unconnected
  BY <1>1 DEF Unconnected
<1>5. Cites(<<>>, <<>>)
  BY <1>2 DEF Cites
<1>6. EngineSound
  BY <1>1, <1>2, <1>5 DEF EngineSound
<1> QED
  BY <1>1, <1>3, <1>4, <1>6 DEF AnswerInv, StreamSound, JsonSound

LEMMA AnswerStep == AnswerInv /\ [AnswerNext]_answerVars => AnswerInv'
<1> SUFFICES ASSUME AnswerInv, [AnswerNext]_answerVars PROVE AnswerInv'
  OBVIOUS
<1>1. CASE UNCHANGED answerVars
  BY <1>1 DEF answerVars, AnswerInv, AnswerTypes, Unconnected, EngineSound, StreamSound,
              JsonSound, Level, Lacks
<1>2. CASE ConnectSocket \/ \E kind \in {"sse", "json"} : ConnectHttp(kind)
  BY <1>2, ConnectKeeps
<1>3. CASE EngineStep
  BY <1>3, EngineKeeps
<1>4. CASE SendFrame
  BY <1>4, SendFrameKeeps
<1>5. CASE Keepalive
  BY <1>5, KeepaliveKeeps
<1>6. CASE \/ Exhausted \/ StopSending \/ AfterSend \/ Collect
           \/ ClientCancels \/ ClientLeaves \/ ListenerStops
  BY <1>6, QuietKeeps
<1>7. CASE HandlerResumes
  BY <1>7, HandlerKeeps
<1>8. CASE StreamEnds
  BY <1>8, StreamEndKeeps
<1> QED
  BY <1>1, <1>2, <1>3, <1>4, <1>5, <1>6, <1>7, <1>8 DEF AnswerNext

\* However a cancel, a disconnect, keepalives and the end of the generator race,
\* and however long the answer: a client of a stream sees a beginning of what the
\* engine yielded, one terminal event at most and nothing after it, and a done
\* that tells just what was sent before it; a JSON answer has every citation.
THEOREM AnswerWireSoundCorrect == AnswerSpec => []AnswerWireSound
<1>1. AnswerInit => AnswerInv
  BY AnswerInitial
<1>2. AnswerInv /\ [AnswerNext]_answerVars => AnswerInv'
  BY AnswerStep
<1>3. AnswerInv => AnswerWireSound
  <2> SUFFICES ASSUME AnswerInv PROVE AnswerWireSound
    OBVIOUS
  <2>1. StreamSound /\ JsonSound
    BY DEF AnswerInv
  <2> QED
    BY <2>1 DEF StreamSound, JsonSound, AnswerWireSound
<1> QED
  BY <1>1, <1>2, <1>3, PTL DEF AnswerSpec
=============================================================================
