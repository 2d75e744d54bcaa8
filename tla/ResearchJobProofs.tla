-------------------------- MODULE ResearchJobProofs --------------------------
(* What ResearchJob guarantees for every number of jobs, readers and       *)
(* threads, every plan and budget, and any length of time.                 *)
EXTENDS ResearchJob, SequenceTheorems, FiniteSetTheorems, WellFoundedInduction, TLAPS

-----------------------------------------------------------------------------
(* Induction over the naturals, for a property given as a set.             *)

LEMMA Least ==
    ASSUME NEW T \in SUBSET Nat, T # {}
    PROVE  \E n \in T : \A m \in T : n <= m
<1> DEFINE Less == {p \in Nat \X Nat : p[1] < p[2]}
<1>1. IsWellFoundedOn(Less, Nat)
  BY NatLessThanWellFounded DEF OpToRel
<1> HIDE DEF Less
<1>2. PICK n \in T : \A m \in T : ~ (<<m, n>> \in Less)
  BY <1>1, WFMin
<1>3. \A m \in T : ~ (m < n)
  BY <1>2 DEF Less
<1> QED
  BY <1>3

LEMMA Induction ==
    ASSUME NEW T, 0 \in T, \A n \in Nat : n \in T => n + 1 \in T
    PROVE  Nat \subseteq T
<1> DEFINE R == Nat \ T
<1>1. SUFFICES ASSUME R # {} PROVE FALSE
  OBVIOUS
<1>2. PICK n \in R : \A m \in R : n <= m
  BY <1>1, Least
<1>3. n # 0 /\ n - 1 \in Nat
  OBVIOUS
<1>4. n - 1 \in T
  BY <1>2, <1>3
<1> QED
  BY <1>3, <1>4

-----------------------------------------------------------------------------
(* Picked, by the function it is defined with.                             *)

\* What upTo is between 0 and n.
UpTo(g, n, s, P) ==
    g = [m \in 0..n |->
            IF m = 0 THEN <<>>
            ELSE IF m \in P THEN Append(g[m - 1], s[m]) ELSE g[m - 1]]

LEMMA UpToExists ==
    ASSUME NEW s, NEW P
    PROVE  \A n \in Nat : \E g : UpTo(g, n, s, P)
<1> DEFINE T == {n \in Nat : \E g : UpTo(g, n, s, P)}
<1>1. 0 \in T
  <2> DEFINE g == [m \in 0..0 |-> <<>>]
  <2>1. UpTo(g, 0, s, P)
    BY DEF UpTo
  <2> QED
    BY <2>1
<1>2. ASSUME NEW n \in Nat, n \in T PROVE n + 1 \in T
  <2>1. PICK g : UpTo(g, n, s, P)
    BY <1>2
  <2> DEFINE last == IF n + 1 \in P THEN Append(g[n], s[n + 1]) ELSE g[n]
             h == [m \in 0..(n + 1) |-> IF m = n + 1 THEN last ELSE g[m]]
  <2>2. \A m \in 0..n : g[m] = IF m = 0 THEN <<>>
                               ELSE IF m \in P THEN Append(g[m - 1], s[m]) ELSE g[m - 1]
    BY <2>1 DEF UpTo
  <2>3. \A m \in 0..n : h[m] = g[m]
    OBVIOUS
  <2>4. h[n + 1] = last
    OBVIOUS
  <2> HIDE DEF last
  <2>5. h = [m \in 0..(n + 1) |-> h[m]]
    OBVIOUS
  <2> HIDE DEF h
  <2>6. \A m \in 0..(n + 1) :
            h[m] = IF m = 0 THEN <<>>
                   ELSE IF m \in P THEN Append(h[m - 1], s[m]) ELSE h[m - 1]
    <3> SUFFICES ASSUME NEW m \in 0..(n + 1)
                 PROVE  h[m] = IF m = 0 THEN <<>>
                               ELSE IF m \in P THEN Append(h[m - 1], s[m]) ELSE h[m - 1]
      OBVIOUS
    <3>1. CASE m = n + 1
      <4>1. h[m] = last /\ m # 0 /\ m - 1 = n /\ h[m - 1] = g[n]
        BY <3>1, <2>3, <2>4
      <4> QED
        BY <4>1, <3>1 DEF last
    <3>2. CASE m \in 0..n
      <4>1. h[m] = g[m] /\ (m # 0 => h[m - 1] = g[m - 1])
        BY <3>2, <2>3
      <4> QED
        BY <4>1, <3>2, <2>2
    <3> QED
      BY <3>1, <3>2
  <2>7. UpTo(h, n + 1, s, P)
    BY <2>5, <2>6, Zenon DEF UpTo
  <2> QED
    BY <2>7
<1> HIDE DEF T
<1>3. Nat \subseteq T
  BY <1>1, <1>2, Induction
<1> QED
  BY <1>3 DEF T

LEMMA PickedIsUpTo ==
    ASSUME NEW S, NEW s \in Seq(S), NEW P
    PROVE  \E g : UpTo(g, Len(s), s, P) /\ Picked(s, P) = g[Len(s)]
<1> DEFINE f == CHOOSE g : UpTo(g, Len(s), s, P)
<1>1. \E g : UpTo(g, Len(s), s, P)
  <2>1. Len(s) \in Nat
    OBVIOUS
  <2> QED
    BY <2>1, UpToExists
<1>2. UpTo(f, Len(s), s, P)
  BY <1>1
<1>3. Picked(s, P) = f[Len(s)]
  BY DEF Picked, UpTo
<1> QED
  BY <1>2, <1>3

\* At every place the function picks from what comes before.
LEMMA UpToSteps ==
    ASSUME NEW S, NEW s \in Seq(S), NEW P, NEW g, UpTo(g, Len(s), s, P)
    PROVE  /\ g[0] = <<>>
           /\ \A n \in 1..Len(s) :
                 g[n] = IF n \in P THEN Append(g[n - 1], s[n]) ELSE g[n - 1]
           /\ \A n \in 0..Len(s) : g[n] \in Seq(S)
<1>1. Len(s) \in Nat
  OBVIOUS
<1>2. g[0] = <<>>
  BY <1>1 DEF UpTo
<1>3. \A n \in 1..Len(s) :
          g[n] = IF n \in P THEN Append(g[n - 1], s[n]) ELSE g[n - 1]
  <2> SUFFICES ASSUME NEW n \in 1..Len(s)
               PROVE  g[n] = IF n \in P THEN Append(g[n - 1], s[n]) ELSE g[n - 1]
    OBVIOUS
  <2>1. n \in 0..Len(s) /\ n # 0
    BY <1>1
  <2> QED
    BY <2>1, Zenon DEF UpTo
<1> DEFINE T == {n \in Nat : n <= Len(s) => g[n] \in Seq(S)}
<1>4. 0 \in T
  <2>1. <<>> \in Seq(S)
    OBVIOUS
  <2> QED
    BY <1>2, <2>1
<1>5. ASSUME NEW n \in Nat, n \in T PROVE n + 1 \in T
  <2> SUFFICES ASSUME n + 1 <= Len(s) PROVE g[n + 1] \in Seq(S)
    OBVIOUS
  <2>1. g[n] \in Seq(S) /\ s[n + 1] \in S
    BY <1>1, <1>5
  <2>2. g[n + 1] = IF n + 1 \in P THEN Append(g[n], s[n + 1]) ELSE g[n]
    <3>1. n + 1 \in 1..Len(s) /\ (n + 1) - 1 = n
      BY <1>1
    <3> QED
      BY <3>1, <1>3
  <2> QED
    BY <2>1, <2>2
<1> HIDE DEF T
<1>6. Nat \subseteq T
  BY <1>4, <1>5, Induction
<1>7. \A n \in 0..Len(s) : g[n] \in Seq(S)
  BY <1>1, <1>6 DEF T
<1> QED
  BY <1>2, <1>3, <1>7

LEMMA PickedType ==
    ASSUME NEW S, NEW s \in Seq(S), NEW P
    PROVE  Picked(s, P) \in Seq(S)
<1>1. PICK g : UpTo(g, Len(s), s, P) /\ Picked(s, P) = g[Len(s)]
  BY PickedIsUpTo
<1>2. g[Len(s)] \in Seq(S)
  <2>1. Len(s) \in 0..Len(s)
    OBVIOUS
  <2> QED
    BY <1>1, <2>1, UpToSteps
<1> QED
  BY <1>1, <1>2

LEMMA PickedEmpty ==
    ASSUME NEW P
    PROVE  Picked(<<>>, P) = <<>>
<1>1. <<>> \in Seq({}) /\ Len(<<>>) = 0
  OBVIOUS
<1>2. PICK g : UpTo(g, 0, <<>>, P) /\ Picked(<<>>, P) = g[0]
  BY <1>1, PickedIsUpTo
<1> QED
  BY <1>2 DEF UpTo

\* Two functions that pick the same of what two sequences have in common.
LEMMA UpToAgree ==
    ASSUME NEW S, NEW s \in Seq(S), NEW t \in Seq(S), NEW P, NEW Q,
           NEW g, UpTo(g, Len(s), s, P), NEW h, UpTo(h, Len(t), t, Q),
           NEW n \in Nat, n <= Len(s), n <= Len(t),
           \A i \in 1..n : s[i] = t[i] /\ (i \in P <=> i \in Q)
    PROVE  g[n] = h[n]
<1>1. Len(s) \in Nat /\ Len(t) \in Nat
  OBVIOUS
<1>2. g[0] = <<>> /\ h[0] = <<>>
  BY UpToSteps
<1>3. \A i \in 1..Len(s) : g[i] = IF i \in P THEN Append(g[i - 1], s[i]) ELSE g[i - 1]
  BY UpToSteps
<1>4. \A i \in 1..Len(t) : h[i] = IF i \in Q THEN Append(h[i - 1], t[i]) ELSE h[i - 1]
  BY UpToSteps
<1> DEFINE T == {i \in Nat : i <= n => g[i] = h[i]}
<1>5. 0 \in T
  BY <1>2
<1>6. ASSUME NEW i \in Nat, i \in T PROVE i + 1 \in T
  <2> SUFFICES ASSUME i + 1 <= n PROVE g[i + 1] = h[i + 1]
    OBVIOUS
  <2>1. i + 1 \in 1..Len(s) /\ i + 1 \in 1..Len(t) /\ i + 1 \in 1..n /\ (i + 1) - 1 = i
    BY <1>1
  <2>2. g[i] = h[i]
    BY <1>6
  <2> QED
    BY <1>3, <1>4, <2>1, <2>2
<1> HIDE DEF T
<1>7. Nat \subseteq T
  BY <1>5, <1>6, Induction
<1> QED
  BY <1>7 DEF T

\* One more element is one more element picked, or none.
LEMMA PickedAppend ==
    ASSUME NEW S, NEW s \in Seq(S), NEW e \in S, NEW P, NEW Q,
           \A i \in 1..Len(s) : i \in P <=> i \in Q
    PROVE  Picked(Append(s, e), Q) =
               IF Len(s) + 1 \in Q THEN Append(Picked(s, P), e) ELSE Picked(s, P)
<1> DEFINE t == Append(s, e)
<1>1. /\ Len(s) \in Nat /\ t \in Seq(S) /\ Len(t) = Len(s) + 1
      /\ t[Len(s) + 1] = e /\ \A i \in 1..Len(s) : t[i] = s[i]
  OBVIOUS
<1> HIDE DEF t
<1>2. PICK g : UpTo(g, Len(s), s, P) /\ Picked(s, P) = g[Len(s)]
  BY PickedIsUpTo
<1>3. PICK h : UpTo(h, Len(t), t, Q) /\ Picked(t, Q) = h[Len(t)]
  BY <1>1, PickedIsUpTo
<1>4. g[Len(s)] = h[Len(s)]
  <2>1. Len(s) <= Len(s) /\ Len(s) <= Len(t) /\ Len(s) \in Nat
    BY <1>1
  <2>2. \A i \in 1..Len(s) : s[i] = t[i] /\ (i \in P <=> i \in Q)
    BY <1>1
  <2>3. UpTo(g, Len(s), s, P) /\ UpTo(h, Len(t), t, Q) /\ t \in Seq(S)
    BY <1>1, <1>2, <1>3
  <2>4. \A n \in Nat : n <= Len(s) /\ n <= Len(t)
                /\ (\A i \in 1..n : s[i] = t[i] /\ (i \in P <=> i \in Q)) => g[n] = h[n]
    BY <2>3, UpToAgree
  <2> QED
    BY <2>1, <2>2, <2>4
<1>5. h[Len(t)] = IF Len(t) \in Q THEN Append(h[Len(s)], e) ELSE h[Len(s)]
  <2>1. \A i \in 1..Len(t) : h[i] = IF i \in Q THEN Append(h[i - 1], t[i]) ELSE h[i - 1]
    BY <1>1, <1>3, UpToSteps
  <2>2. Len(t) \in 1..Len(t) /\ Len(t) - 1 = Len(s)
    BY <1>1
  <2> QED
    BY <1>1, <2>1, <2>2
<1> QED
  BY <1>1, <1>2, <1>3, <1>4, <1>5 DEF t

\* The last elements of a sequence.
LEMMA PickedSuffix ==
    ASSUME NEW S, NEW s \in Seq(S), NEW n \in 0..Len(s), NEW P,
           \A i \in 1..Len(s) : i \in P <=> i > n
    PROVE  Picked(s, P) = SubSeq(s, n + 1, Len(s))
<1>1. Len(s) \in Nat /\ n \in Nat
  OBVIOUS
<1>2. PICK g : UpTo(g, Len(s), s, P) /\ Picked(s, P) = g[Len(s)]
  BY PickedIsUpTo
<1>3. /\ g[0] = <<>>
      /\ \A i \in 1..Len(s) : g[i] = IF i \in P THEN Append(g[i - 1], s[i]) ELSE g[i - 1]
  BY <1>2, UpToSteps
<1> DEFINE T == {i \in Nat : i <= Len(s) => g[i] = SubSeq(s, n + 1, i)}
<1>4. 0 \in T
  <2>1. SubSeq(s, n + 1, 0) = <<>>
    BY <1>1, SubSeqEmpty
  <2> QED
    BY <1>3, <2>1
<1>5. ASSUME NEW i \in Nat, i \in T PROVE i + 1 \in T
  <2> SUFFICES ASSUME i + 1 <= Len(s) PROVE g[i + 1] = SubSeq(s, n + 1, i + 1)
    OBVIOUS
  <2>1. g[i] = SubSeq(s, n + 1, i)
    BY <1>1, <1>5
  <2>2. i + 1 \in 1..Len(s) /\ (i + 1) - 1 = i
    BY <1>1
  <2>3. g[i + 1] = IF i + 1 > n THEN Append(g[i], s[i + 1]) ELSE g[i]
    BY <1>3, <2>2
  <2>4. CASE i + 1 > n
    <3>1. SubSeq(s, n + 1, i + 1) = SubSeq(s, n + 1, i) \o <<s[i + 1]>>
      <4>1. n + 1 \in 1..Len(s) /\ i + 1 \in (n + 1)..Len(s)
        BY <1>1, <2>2, <2>4
      <4> QED
        BY <4>1, <2>2, SubSeqRecursiveSecond
    <3>2. SubSeq(s, n + 1, i) \in Seq(S) /\ s[i + 1] \in S
      <4>1. \A k \in (n + 1)..i : s[k] \in S
        BY <1>1, <2>2
      <4> QED
        BY <1>1, <2>2, <4>1, SubSeqProperties
    <3>3. Append(SubSeq(s, n + 1, i), s[i + 1]) = SubSeq(s, n + 1, i) \o <<s[i + 1]>>
      BY <3>2, AppendIsConcat
    <3> QED
      BY <2>1, <2>3, <2>4, <3>1, <3>3
  <2>5. CASE ~(i + 1 > n)
    <3>1. SubSeq(s, n + 1, i) = <<>> /\ SubSeq(s, n + 1, i + 1) = <<>>
      BY <1>1, <2>5, SubSeqEmpty
    <3> QED
      BY <2>1, <2>3, <2>5, <3>1
  <2> QED
    BY <2>4, <2>5
<1> HIDE DEF T
<1>6. Nat \subseteq T
  BY <1>4, <1>5, Induction
<1> QED
  BY <1>1, <1>2, <1>6 DEF T

\* A sequence extended by another, one element after the other.
LEMMA ConcatSteps ==
    ASSUME NEW S, NEW s \in Seq(S), NEW t \in Seq(S)
    PROVE  /\ s \o SubSeq(t, 1, 0) = s
           /\ SubSeq(t, 1, Len(t)) = t
           /\ \A n \in Nat : n + 1 <= Len(t) =>
                 /\ s \o SubSeq(t, 1, n) \in Seq(S)
                 /\ t[n + 1] \in S
                 /\ s \o SubSeq(t, 1, n + 1) = Append(s \o SubSeq(t, 1, n), t[n + 1])
<1>1. SubSeq(t, 1, 0) = <<>> /\ s \o <<>> = s
  BY SubSeqEmpty, ConcatEmptySeq
<1>2. SubSeq(t, 1, Len(t)) = t
  BY SubSeqFull
<1>3. ASSUME NEW n \in Nat, n + 1 <= Len(t)
      PROVE  /\ s \o SubSeq(t, 1, n) \in Seq(S)
             /\ t[n + 1] \in S
             /\ s \o SubSeq(t, 1, n + 1) = Append(s \o SubSeq(t, 1, n), t[n + 1])
  <2>1. Len(t) \in Nat /\ n + 1 \in 1..Len(t) /\ 1 \in 1..Len(t) /\ (n + 1) - 1 = n
    BY <1>3
  <2>2. t[n + 1] \in S /\ <<t[n + 1]>> \in Seq(S)
    BY <2>1
  <2>3. SubSeq(t, 1, n) \in Seq(S)
    <3>1. \A k \in 1..n : t[k] \in S
      BY <2>1
    <3> QED
      BY <3>1, SubSeqProperties
  <2>4. SubSeq(t, 1, n + 1) = SubSeq(t, 1, n) \o <<t[n + 1]>>
    BY <2>1, SubSeqRecursiveSecond
  <2>5. s \o SubSeq(t, 1, n) \in Seq(S)
    BY <2>3, ConcatProperties
  <2>6. s \o (SubSeq(t, 1, n) \o <<t[n + 1]>>) = (s \o SubSeq(t, 1, n)) \o <<t[n + 1]>>
    BY <2>2, <2>3, ConcatAssociative
  <2>7. Append(s \o SubSeq(t, 1, n), t[n + 1]) = (s \o SubSeq(t, 1, n)) \o <<t[n + 1]>>
    BY <2>2, <2>5, AppendIsConcat
  <2> QED
    BY <2>2, <2>4, <2>5, <2>6, <2>7
<1> QED
  BY <1>1, <1>2, <1>3

-----------------------------------------------------------------------------
(* What was cited and written, as the stream grows.                        *)

LEMMA OfTypeAppend ==
    ASSUME NEW s \in Seq(Event), NEW e \in Event, NEW c
    PROVE  Picked(Append(s, e), OfType(Append(s, e), c)) =
               IF e.type = c THEN Append(Picked(s, OfType(s, c)), e)
                             ELSE Picked(s, OfType(s, c))
<1>1. \A i \in 1..Len(s) : i \in OfType(s, c) <=> i \in OfType(Append(s, e), c)
  BY DEF OfType
<1>2. Len(s) + 1 \in OfType(Append(s, e), c) <=> e.type = c
  BY DEF OfType
<1>3. Picked(Append(s, e), OfType(Append(s, e), c)) =
          IF Len(s) + 1 \in OfType(Append(s, e), c)
          THEN Append(Picked(s, OfType(s, c)), e) ELSE Picked(s, OfType(s, c))
  BY <1>1, PickedAppend
<1> QED
  BY <1>2, <1>3

LEMMA CitedAppend ==
    ASSUME NEW s \in Seq(Event), NEW e \in Event
    PROVE  /\ CitedDocs(s) \in Seq(Found \cup {NoDoc})
           /\ CitedDocs(Append(s, e)) =
                 IF e.type = "citation" THEN Append(CitedDocs(s), e.doc) ELSE CitedDocs(s)
<1> DEFINE cited == Picked(s, OfType(s, "citation"))
<1>1. cited \in Seq(Event)
  BY PickedType
<1>2. CitedDocs(s) = [i \in DOMAIN cited |-> cited[i].doc]
  BY DEF CitedDocs
<1>3. CitedDocs(Append(s, e)) =
          LET longer == IF e.type = "citation" THEN Append(cited, e) ELSE cited
          IN  [i \in DOMAIN longer |-> longer[i].doc]
  BY OfTypeAppend DEF CitedDocs
<1> HIDE DEF cited
<1>4. CitedDocs(s) \in Seq(Found \cup {NoDoc})
  <2>1. DOMAIN cited = 1..Len(cited) /\ Len(cited) \in Nat
    BY <1>1
  <2>2. \A i \in 1..Len(cited) : cited[i].doc \in Found \cup {NoDoc}
    <3>1. \A i \in 1..Len(cited) : cited[i] \in Event
      BY <1>1, ElementOfSeq
    <3>2. \A x \in Event : x.doc \in Found \cup {NoDoc}
      BY DEF Event
    <3> QED
      BY <3>1, <3>2
  <2> QED
    BY <1>2, <2>1, <2>2
<1>5. [i \in DOMAIN Append(cited, e) |-> Append(cited, e)[i].doc] =
          Append([i \in DOMAIN cited |-> cited[i].doc], e.doc)
  BY <1>1 DEF Event
<1> QED
  BY <1>2, <1>3, <1>4, <1>5

LEMMA ChunksAppend ==
    ASSUME NEW s \in Seq(Event), NEW e \in Event
    PROVE  /\ ChunksOf(s) \in Seq(Nat)
           /\ ChunksOf(Append(s, e)) =
                 IF e.type = "report_chunk" THEN Append(ChunksOf(s), e.step) ELSE ChunksOf(s)
<1> DEFINE chunks == Picked(s, OfType(s, "report_chunk"))
<1>1. chunks \in Seq(Event)
  BY PickedType
<1>2. ChunksOf(s) = [i \in DOMAIN chunks |-> chunks[i].step]
  BY DEF ChunksOf
<1>3. ChunksOf(Append(s, e)) =
          LET longer == IF e.type = "report_chunk" THEN Append(chunks, e) ELSE chunks
          IN  [i \in DOMAIN longer |-> longer[i].step]
  BY OfTypeAppend DEF ChunksOf
<1> HIDE DEF chunks
<1>4. ChunksOf(s) \in Seq(Nat)
  <2>1. DOMAIN chunks = 1..Len(chunks) /\ Len(chunks) \in Nat
    BY <1>1
  <2>2. \A i \in 1..Len(chunks) : chunks[i].step \in Nat
    <3>1. \A i \in 1..Len(chunks) : chunks[i] \in Event
      BY <1>1, ElementOfSeq
    <3>2. \A x \in Event : x.step \in Nat
      BY DEF Event
    <3> QED
      BY <3>1, <3>2
  <2> QED
    BY <1>2, <2>1, <2>2
<1>5. [i \in DOMAIN Append(chunks, e) |-> Append(chunks, e)[i].step] =
          Append([i \in DOMAIN chunks |-> chunks[i].step], e.step)
  BY <1>1 DEF Event
<1> QED
  BY <1>2, <1>3, <1>4, <1>5

LEMMA NothingTold ==
    CitedDocs(<<>>) = <<>> /\ ChunksOf(<<>>) = <<>>
<1>1. \A P : Picked(<<>>, P) = <<>>
  BY PickedEmpty
<1> QED
  BY <1>1 DEF CitedDocs, ChunksOf

\* Events that cite add what they cite, in order, and nothing is written.
LEMMA CitationsTold ==
    ASSUME NEW s \in Seq(Event), NEW t \in Seq(Event),
           \A i \in 1..Len(t) : t[i].type = "citation"
    PROVE  /\ CitedDocs(s \o t) = CitedDocs(s) \o [i \in 1..Len(t) |-> t[i].doc]
           /\ ChunksOf(s \o t) = ChunksOf(s)
<1> DEFINE Told == [i \in 1..Len(t) |-> t[i].doc]
<1>1. Len(t) \in Nat /\ Told \in Seq(Found \cup {NoDoc}) /\ Len(Told) = Len(t)
  <2>1. Len(t) \in Nat
    OBVIOUS
  <2>2. \A i \in 1..Len(t) : t[i].doc \in Found \cup {NoDoc}
    <3>1. \A i \in 1..Len(t) : t[i] \in Event
      BY ElementOfSeq
    <3>2. \A x \in Event : x.doc \in Found \cup {NoDoc}
      BY DEF Event
    <3> QED
      BY <3>1, <3>2
  <2> QED
    BY <2>1, <2>2
<1>2. \A i \in 1..Len(t) : Told[i] = t[i].doc
  OBVIOUS
<1> HIDE DEF Told
<1>3. CitedDocs(s) \in Seq(Found \cup {NoDoc})
  <2>1. PICK e \in Event : TRUE
    <3>1. [id |-> 0, type |-> "done", step |-> 0, doc |-> NoDoc] \in Event
      BY DEF Event, EventTypes, Terminal
    <3> QED
      BY <3>1
  <2> QED
    BY CitedAppend
<1> DEFINE T == {n \in Nat : n <= Len(t) =>
                   /\ CitedDocs(s \o SubSeq(t, 1, n)) = CitedDocs(s) \o SubSeq(Told, 1, n)
                   /\ ChunksOf(s \o SubSeq(t, 1, n)) = ChunksOf(s)}
<1>4. 0 \in T
  <2>1. s \o SubSeq(t, 1, 0) = s
    BY ConcatSteps
  <2>2. CitedDocs(s) \o SubSeq(Told, 1, 0) = CitedDocs(s)
    BY <1>1, <1>3, ConcatSteps
  <2> QED
    BY <2>1, <2>2
<1>5. ASSUME NEW n \in Nat, n \in T PROVE n + 1 \in T
  <2> DEFINE sn == s \o SubSeq(t, 1, n)
             dn == CitedDocs(s) \o SubSeq(Told, 1, n)
             sm == s \o SubSeq(t, 1, n + 1)
             dm == CitedDocs(s) \o SubSeq(Told, 1, n + 1)
  <2> SUFFICES ASSUME n + 1 <= Len(t)
               PROVE  CitedDocs(sm) = dm /\ ChunksOf(sm) = ChunksOf(s)
    OBVIOUS
  <2>1. CitedDocs(sn) = dn /\ ChunksOf(sn) = ChunksOf(s)
    BY <1>1, <1>5
  <2>2. sn \in Seq(Event) /\ t[n + 1] \in Event /\ sm = Append(sn, t[n + 1])
    BY ConcatSteps
  <2>3. dm = Append(dn, Told[n + 1])
    BY <1>1, <1>3, ConcatSteps
  <2>4. n + 1 \in 1..Len(t)
    BY <1>1
  <2>5. t[n + 1].type = "citation" /\ Told[n + 1] = t[n + 1].doc
    BY <1>2, <2>4
  <2> HIDE DEF sn, sm, dn, dm
  <2>6. CitedDocs(sm) = Append(CitedDocs(sn), t[n + 1].doc)
    BY <2>2, <2>5, CitedAppend
  <2>7. ChunksOf(sm) = ChunksOf(sn)
    <3>1. "citation" # "report_chunk"
      OBVIOUS
    <3> QED
      BY <2>2, <2>5, <3>1, ChunksAppend
  <2> QED
    BY <2>1, <2>3, <2>5, <2>6, <2>7
<1> HIDE DEF T
<1>6. Nat \subseteq T
  BY <1>4, <1>5, Induction
<1>7. SubSeq(t, 1, Len(t)) = t /\ SubSeq(Told, 1, Len(t)) = Told
  BY <1>1, <1>3, ConcatSteps
<1>8. CitedDocs(s \o t) = CitedDocs(s) \o Told /\ ChunksOf(s \o t) = ChunksOf(s)
  <2>1. Len(t) \in T /\ Len(t) <= Len(t)
    BY <1>1, <1>6
  <2> QED
    BY <2>1, <1>7 DEF T
<1> QED
  BY <1>8 DEF Told

-----------------------------------------------------------------------------
(* What may be added to a stream: findings of one step, then one event of  *)
(* another kind that is due.                                               *)

NoneTerminal(s) == \A i \in 1..Len(s) : s[i].type \notin Terminal

\* The last mark of s is at m.
LastMarkAt(s, m) ==
    /\ s[m].type \in Stream!Marks
    /\ \A n \in 1..Len(s) : s[n].type \in Stream!Marks => n <= m

NoMarks(s) == \A n \in 1..Len(s) : s[n].type \notin Stream!Marks

MarkDue(s, e) ==
    \/ NoMarks(s) /\ e.type = "step_started" /\ e.step = 1
    \/ \E m \in 1..Len(s) : LastMarkAt(s, m) /\ Stream!Follows(e, s[m])

StepOpen(s, p) ==
    /\ \E k \in 1..Len(s) : s[k].type = "step_started" /\ s[k].step = p
    /\ \A k \in 1..Len(s) : ~(s[k].type = "step_completed" /\ s[k].step = p)

BetweenSteps(s) ==
    s # <<>> => s[Len(s)].type \in {"plan_updated", "step_completed"}

EndDue(s, e) == s # <<>> => Stream!EndFollows(e, s[Len(s)])

Due(s, e) ==
    /\ e.type \notin Stream!Findings
    /\ e.type \in Stream!Marks => MarkDue(s, e)
    /\ e.type \in Terminal => EndDue(s, e)
    /\ s = <<>> => e.type \in {"plan_updated", "internal_error"}

LEMMA Grow ==
    ASSUME NEW s \in Seq(Event), Stream!WellFormed(s), NoneTerminal(s),
           NEW t \in Seq(Event), t # <<>>, NEW p,
           \A i \in 1..Len(t) : t[i].id = Len(s) + i,
           \A i \in 1..(Len(t) - 1) : t[i].type \in Stream!Findings /\ t[i].step = p,
           Due(s, t[Len(t)]),
           Len(t) > 1 => /\ s # <<>> /\ StepOpen(s, p)
                         /\ t[Len(t)].type \notin Terminal
    PROVE  Stream!WellFormed(s \o t)
<1> DEFINE w == s \o t
<1>1. /\ Len(s) \in Nat /\ Len(t) \in Nat \ {0} /\ Len(w) = Len(s) + Len(t)
      /\ DOMAIN w = 1..Len(w) /\ DOMAIN s = 1..Len(s) /\ DOMAIN t = 1..Len(t)
  OBVIOUS
<1>2. \A i \in 1..Len(s) : w[i] = s[i]
  OBVIOUS
<1>3. \A i \in 1..Len(t) : w[Len(s) + i] = t[i]
  OBVIOUS
<1>4. \A i \in 1..Len(w) : i \in 1..Len(s) \/ \E k \in 1..Len(t) : i = Len(s) + k
  <2> SUFFICES ASSUME NEW i \in 1..Len(w), i \notin 1..Len(s)
               PROVE  \E k \in 1..Len(t) : i = Len(s) + k
    OBVIOUS
  <2> WITNESS i - Len(s) \in 1..Len(t)
  <2> QED
    BY <1>1
<1> HIDE DEF w
<1>5. ASSUME NEW i \in DOMAIN w, i \notin 1..Len(s), i # Len(w)
      PROVE  w[i].type \in Stream!Findings
  <2>1. PICK k \in 1..Len(t) : i = Len(s) + k
    BY <1>1, <1>4, <1>5
  <2>2. k \in 1..(Len(t) - 1)
    BY <1>1, <1>5, <2>1
  <2> QED
    BY <1>3, <2>1, <2>2
<1>6. w[Len(w)] = t[Len(t)]
  BY <1>1, <1>3
<1>7. Stream!Numbered(w)
  <2>1. \A i \in 1..Len(s) : s[i].id = i
    BY <1>1 DEF Stream!WellFormed, Stream!Numbered
  <2>2. \A i \in 1..Len(t) : w[Len(s) + i].id = Len(s) + i
    BY <1>3
  <2> QED
    BY <1>1, <1>2, <1>4, <2>1, <2>2 DEF Stream!Numbered
<1>8. Stream!PlanFirst(w)
  <2>1. CASE s = <<>>
    <3>1. Len(s) = 0 /\ Len(t) = 1 /\ w[1] = t[1]
      BY <2>1, <1>1, <1>3
    <3>2. t[1].type \in {"plan_updated", "internal_error"}
      BY <2>1, <3>1 DEF Due
    <3> QED
      BY <1>1, <3>1, <3>2 DEF Stream!PlanFirst
  <2>2. CASE s # <<>>
    <3>1. 1 \in 1..Len(s)
      BY <2>2, <1>1
    <3>2. s[1].type = "plan_updated"
      <4>1. s[1].type = "plan_updated" \/ s[1].type = "internal_error"
        BY <2>2 DEF Stream!WellFormed, Stream!PlanFirst
      <4>2. s[1].type # "internal_error"
        BY <3>1 DEF NoneTerminal, Terminal
      <4> QED
        BY <4>1, <4>2
    <3> QED
      BY <1>2, <3>1, <3>2 DEF Stream!PlanFirst
  <2> QED
    BY <2>1, <2>2
<1>9. Stream!Alternating(w)
  <2>1. \A k \in 1..Len(s) : Stream!MarksBefore(w, k) = Stream!MarksBefore(s, k)
    BY <1>1, <1>2 DEF Stream!MarksBefore
  <2> SUFFICES ASSUME NEW k \in DOMAIN w, w[k].type \in Stream!Marks
               PROVE  \/ Stream!MarksBefore(w, k) = {} /\ w[k].type = "step_started" /\ w[k].step = 1
                      \/ \E m \in Stream!MarksBefore(w, k) :
                            /\ \A n \in Stream!MarksBefore(w, k) : n <= m
                            /\ Stream!Follows(w[k], w[m])
    BY Zenon DEF Stream!Alternating
  <2>2. CASE k \in 1..Len(s)
    <3>1. w[k] = s[k]
      BY <2>2, <1>2
    <3>2. \A m \in Stream!MarksBefore(w, k) : w[m] = s[m]
      BY <2>2, <1>1, <1>2 DEF Stream!MarksBefore
    <3>3. \/ Stream!MarksBefore(s, k) = {} /\ s[k].type = "step_started" /\ s[k].step = 1
          \/ \E m \in Stream!MarksBefore(s, k) :
                /\ \A n \in Stream!MarksBefore(s, k) : n <= m
                /\ Stream!Follows(s[k], s[m])
      BY <2>2, <3>1, <1>1 DEF Stream!WellFormed, Stream!Alternating
    <3> QED
      BY <2>1, <2>2, <3>1, <3>2, <3>3
  <2>3. CASE k \notin 1..Len(s)
    <3>1. k = Len(w)
      BY <1>5, <2>3 DEF Stream!Marks, Stream!Findings
    <3>2. MarkDue(s, w[k])
      BY <3>1, <1>6 DEF Due
    <3>3. \A m : m \in Stream!MarksBefore(w, k) <=>
                     m \in 1..Len(s) /\ s[m].type \in Stream!Marks
      <4>1. \A m \in 1..(k - 1) : m \in 1..Len(s) \/ w[m].type \in Stream!Findings
        BY <1>1, <1>5, <3>1
      <4> QED
        BY <1>1, <1>2, <2>3, <3>1, <4>1 DEF Stream!MarksBefore, Stream!Marks, Stream!Findings
    <3>4. CASE NoMarks(s) /\ w[k].type = "step_started" /\ w[k].step = 1
      BY <3>3, <3>4 DEF NoMarks
    <3>5. ASSUME NEW m \in 1..Len(s), LastMarkAt(s, m), Stream!Follows(w[k], s[m])
          PROVE  \E mm \in Stream!MarksBefore(w, k) :
                            /\ \A n \in Stream!MarksBefore(w, k) : n <= mm
                            /\ Stream!Follows(w[k], w[mm])
      <4>1. m \in Stream!MarksBefore(w, k) /\ w[m] = s[m]
        BY <3>3, <3>5, <1>2 DEF LastMarkAt
      <4>2. \A n \in Stream!MarksBefore(w, k) : n <= m
        BY <3>3, <3>5 DEF LastMarkAt
      <4> QED
        BY <3>5, <4>1, <4>2
    <3> QED
      BY <3>2, <3>4, <3>5 DEF MarkDue
  <2> QED
    BY <2>2, <2>3
<1>10. Stream!FoundInsideStep(w)
  <2> SUFFICES ASSUME NEW i \in DOMAIN w, w[i].type \in Stream!Findings
               PROVE  /\ \E k \in 1..(i - 1) :
                            w[k].type = "step_started" /\ w[k].step = w[i].step
                      /\ \A k \in 1..(i - 1) :
                            ~(w[k].type = "step_completed" /\ w[k].step = w[i].step)
    BY Zenon DEF Stream!FoundInsideStep
  <2>1. CASE i \in 1..Len(s)
    <3>1. w[i] = s[i] /\ \A k \in 1..(i - 1) : w[k] = s[k]
      BY <2>1, <1>1, <1>2
    <3>2. /\ \E k \in 1..(i - 1) :
                s[k].type = "step_started" /\ s[k].step = s[i].step
          /\ \A k \in 1..(i - 1) :
                ~(s[k].type = "step_completed" /\ s[k].step = s[i].step)
      BY <2>1, <3>1, <1>1 DEF Stream!WellFormed, Stream!FoundInsideStep
    <3> QED
      BY <3>1, <3>2
  <2>2. CASE i \notin 1..Len(s)
    <3>1. i # Len(w)
      BY <1>6 DEF Due
    <3>2. PICK n \in 1..(Len(t) - 1) : i = Len(s) + n
      <4>1. PICK n \in 1..Len(t) : i = Len(s) + n
        BY <1>1, <1>4, <2>2
      <4>2. n # Len(t)
        BY <1>1, <3>1, <4>1
      <4>3. n \in 1..(Len(t) - 1)
        <5>1. Len(t) \in Nat /\ n \in 1..Len(t)
          BY <1>1, <4>1
        <5> QED
          BY <5>1, <4>2
      <4> QED
        BY <4>1, <4>3
    <3>3. w[i] = t[n] /\ w[i].step = p /\ Len(t) > 1
      BY <3>2, <1>1, <1>3
    <3>4. StepOpen(s, p)
      BY <3>3
    <3>5. \E k \in 1..(i - 1) : w[k].type = "step_started" /\ w[k].step = p
      BY <3>2, <3>4, <1>1, <1>2 DEF StepOpen
    <3>6. ASSUME NEW k \in 1..(i - 1), w[k].type = "step_completed", w[k].step = p
          PROVE  FALSE
      <4>1. k \in 1..Len(s)
        <5>1. k \in DOMAIN w /\ k # Len(w)
          BY <1>1, <3>2
        <5>2. w[k].type \notin Stream!Findings
          BY <3>6 DEF Stream!Findings
        <5> QED
          BY <1>5, <5>1, <5>2
      <4> QED
        BY <3>4, <3>6, <4>1, <1>2 DEF StepOpen
    <3> QED
      BY <3>3, <3>5, <3>6
  <2> QED
    BY <2>1, <2>2
<1>11. Stream!TerminalLast(w)
  <2> SUFFICES ASSUME NEW i \in DOMAIN w, w[i].type \in Terminal
               PROVE  /\ i = Len(w)
                      /\ i > 1 => Stream!EndFollows(w[i], w[i - 1])
    BY Zenon DEF Stream!TerminalLast, Stream!Terminal, Terminal
  <2>1. i \notin 1..Len(s)
    BY <1>2 DEF NoneTerminal
  <2>2. i = Len(w)
    BY <1>5, <2>1 DEF Terminal, Stream!Findings
  <2>3. Len(t) = 1 /\ EndDue(s, w[i])
    BY <1>1, <1>6, <2>2 DEF Due
  <2>4. i > 1 => w[i - 1] = s[Len(s)] /\ s # <<>>
    <3>1. i - 1 = Len(s) /\ (i > 1 => Len(s) \in 1..Len(s) /\ s # <<>>)
      BY <1>1, <2>2, <2>3
    <3> QED
      BY <1>2, <3>1
  <2> QED
    BY <2>2, <2>3, <2>4 DEF EndDue
<1> QED
  BY <1>7, <1>8, <1>9, <1>10, <1>11 DEF w, Stream!WellFormed

-----------------------------------------------------------------------------
(* The invariant, job by job.                                              *)

\* What was buffered is what was emitted, until it is cleaned up as a whole.
Buffered(j) ==
    /\ events[j] \in {emitted[j], <<>>}
    /\ counter[j] = Len(emitted[j])
    /\ \A i \in 1..Len(emitted[j]) :
           emitted[j][i].type = "citation" => emitted[j][i].doc \in Found

\* A job nobody has worked on.
NotBegun(j) ==
    job[j].state = "queued" =>
        /\ emitted[j] = <<>> /\ terminalAt[j] = NoTime /\ ~job[j].open
        /\ job[j].next = 1 /\ job[j].steps = 0 /\ job[j].calls = 0
        /\ job[j].citations = <<>> /\ job[j].chunks = <<>>

\* The place of a job in its plan, as its stream tells it: inside a step, the
\* last mark is its start; between steps, the end of the step before, if any.
InPlan(s, next, open) ==
    /\ \A k \in 1..Len(s) : s[k].type = "step_completed" => s[k].step < next
    /\ open => /\ s[Len(s)].type = "step_started"
               /\ \E m \in 1..Len(s) :
                  /\ LastMarkAt(s, m)
                  /\ s[m].type = "step_started" /\ s[m].step = next
    /\ ~open => /\ BetweenSteps(s)
                /\ \/ NoMarks(s) /\ next = 1
                   \/ \E m \in 1..Len(s) :
                      /\ LastMarkAt(s, m)
                      /\ s[m].type = "step_completed" /\ s[m].step + 1 = next

UnderWay(j) ==
    job[j].state = "running" =>
        /\ emitted[j] # <<>> /\ events[j] = emitted[j] /\ terminalAt[j] = NoTime
        /\ NoneTerminal(emitted[j])
        /\ job[j].next \in 1..(Len(job[j].plan) + 1)
        /\ job[j].open => job[j].next <= Len(job[j].plan)
        /\ job[j].steps = job[j].next - 1 /\ job[j].calls = job[j].next - 1
        /\ job[j].citations = CitedDocs(emitted[j])
        /\ job[j].chunks = ChunksOf(emitted[j])
        /\ StepsStarted(j) = IF job[j].open THEN job[j].next ELSE job[j].next - 1
        /\ InPlan(emitted[j], job[j].next, job[j].open)

\* StateMatchesStream, ReportMatchesStream and BudgetDecides for one job.
StateTold(j) ==
    /\ Over(j) = Stream!Ended(emitted[j])
    /\ Over(j) =>
           Last(emitted[j]).type = CASE job[j].state = "succeeded" -> "done"
                                     [] job[j].state = "failed" -> "internal_error"
                                     [] OTHER -> job[j].state

ReportTold(j) ==
    job[j].state \in {"succeeded", "budget_exceeded"} =>
        /\ job[j].report.citations = CitedDocs(emitted[j])
        /\ job[j].report.chunks = ChunksOf(emitted[j])
        /\ job[j].report.partial = (job[j].state = "budget_exceeded")

BudgetKept(j) ==
    /\ StepsStarted(j) > 0 =>
           /\ StepsStarted(j) <= job[j].budget.max_steps
           /\ StepsStarted(j) <= job[j].budget.max_tool_calls
           /\ lastAt[j]["step_started"] - job[j].started < job[j].budget.max_duration
    /\ job[j].state = "budget_exceeded" => StepsStarted(j) < Len(job[j].plan)

JobInv(j) ==
    /\ Stream!WellFormed(emitted[j])
    /\ Buffered(j)
    /\ job[j].open => job[j].state = "running"
    /\ NotBegun(j)
    /\ UnderWay(j)
    /\ StateTold(j)
    /\ ReportTold(j)
    /\ BudgetKept(j)

Inv == TypeOK /\ \A j \in Jobs : JobInv(j)

-----------------------------------------------------------------------------
(* Emitting, and the jobs that are left alone.                             *)

Kinds == [type : EventTypes, step : Nat, doc : Found \cup {NoDoc}]

LEMMA StampProperties ==
    ASSUME TypeOK, NEW j \in Jobs, NEW kinds \in Seq(Kinds)
    PROVE  /\ Stamp(j, kinds) \in Seq(Event)
           /\ Len(Stamp(j, kinds)) = Len(kinds)
           /\ \A i \in 1..Len(kinds) :
                 Stamp(j, kinds)[i] = [id |-> counter[j] + i, type |-> kinds[i].type,
                                       step |-> kinds[i].step, doc |-> kinds[i].doc]
<1>1. DOMAIN kinds = 1..Len(kinds) /\ Len(kinds) \in Nat
  OBVIOUS
<1>2. \A i \in 1..Len(kinds) :
          [id |-> counter[j] + i, type |-> kinds[i].type,
           step |-> kinds[i].step, doc |-> kinds[i].doc] \in Event
  <2> SUFFICES ASSUME NEW i \in 1..Len(kinds)
               PROVE  [id |-> counter[j] + i, type |-> kinds[i].type,
                       step |-> kinds[i].step, doc |-> kinds[i].doc] \in Event
    OBVIOUS
  <2>1. counter[j] + i \in Nat
    BY DEF TypeOK
  <2>2. kinds[i] \in Kinds
    BY ElementOfSeq
  <2>3. kinds[i].type \in EventTypes /\ kinds[i].step \in Nat
           /\ kinds[i].doc \in Found \cup {NoDoc}
    BY <2>2 DEF Kinds
  <2> QED
    BY <2>1, <2>3 DEF Event
<1> QED
  BY <1>1, <1>2 DEF Stamp

LEMMA EmitProperties ==
    ASSUME TypeOK, NEW j \in Jobs, NEW kinds \in Seq(Kinds), Emit(j, kinds)
    PROVE  /\ emitted' \in [Jobs -> Seq(Event)] /\ events' \in [Jobs -> Seq(Event)]
           /\ counter' \in [Jobs -> Nat]
           /\ terminalAt' \in [Jobs -> Nat \cup {NoTime}]
           /\ lastAt' \in [Jobs -> [Timed -> Nat \cup {NoTime}]]
           /\ emitted'[j] = emitted[j] \o Stamp(j, kinds)
           /\ events'[j] = events[j] \o Stamp(j, kinds)
           /\ counter'[j] = counter[j] + Len(kinds)
           /\ terminalAt'[j] = TerminalTime(j, kinds)
           /\ lastAt'[j]["step_started"] =
                 IF \E i \in 1..Len(kinds) : kinds[i].type = "step_started"
                 THEN clock ELSE lastAt[j]["step_started"]
           /\ \A k \in Jobs \ {j} :
                 /\ emitted'[k] = emitted[k] /\ events'[k] = events[k]
                 /\ counter'[k] = counter[k] /\ terminalAt'[k] = terminalAt[k]
                 /\ lastAt'[k] = lastAt[k]
<1>1. DOMAIN kinds = 1..Len(kinds) /\ Len(kinds) \in Nat /\ clock \in Nat
  BY BoundsAssumption DEF TypeOK
<1>2. Stamp(j, kinds) \in Seq(Event)
  BY StampProperties
<1>3. /\ emitted' \in [Jobs -> Seq(Event)]
      /\ emitted'[j] = emitted[j] \o Stamp(j, kinds)
      /\ \A k \in Jobs \ {j} : emitted'[k] = emitted[k]
  BY <1>2 DEF Emit, TypeOK
<1>4. /\ events' \in [Jobs -> Seq(Event)]
      /\ events'[j] = events[j] \o Stamp(j, kinds)
      /\ \A k \in Jobs \ {j} : events'[k] = events[k]
  BY <1>2 DEF Emit, TypeOK
<1>5. /\ counter' \in [Jobs -> Nat] /\ counter'[j] = counter[j] + Len(kinds)
      /\ \A k \in Jobs \ {j} : counter'[k] = counter[k]
  BY <1>1 DEF Emit, TypeOK
<1>6. /\ terminalAt' \in [Jobs -> Nat \cup {NoTime}]
      /\ terminalAt'[j] = TerminalTime(j, kinds)
      /\ \A k \in Jobs \ {j} : terminalAt'[k] = terminalAt[k]
  <2>1. TerminalTime(j, kinds) \in Nat \cup {NoTime}
    BY <1>1 DEF TerminalTime, TypeOK
  <2> QED
    BY <2>1 DEF Emit, TypeOK
<1> DEFINE times == [t \in Timed |-> IF \E i \in DOMAIN kinds : kinds[i].type = t
                                     THEN clock ELSE lastAt[j][t]]
<1>7. times \in [Timed -> Nat \cup {NoTime}]
  BY <1>1 DEF TypeOK
<1>8. lastAt' = [lastAt EXCEPT ![j] = times]
  BY DEF Emit
<1>9. times["step_started"] = IF \E i \in 1..Len(kinds) : kinds[i].type = "step_started"
                              THEN clock ELSE lastAt[j]["step_started"]
  BY <1>1 DEF Timed
<1> HIDE DEF times
<1>10. /\ lastAt' \in [Jobs -> [Timed -> Nat \cup {NoTime}]]
       /\ lastAt'[j] = times
       /\ \A k \in Jobs \ {j} : lastAt'[k] = lastAt[k]
  BY <1>7, <1>8 DEF TypeOK
<1> QED
  BY <1>3, <1>4, <1>5, <1>6, <1>9, <1>10

\* A job that nothing touches stays as it should be.
LEMMA Untouched ==
    ASSUME NEW k, JobInv(k),
           job'[k] = job[k], emitted'[k] = emitted[k], events'[k] = events[k],
           counter'[k] = counter[k], terminalAt'[k] = terminalAt[k],
           lastAt'[k] = lastAt[k]
    PROVE  JobInv(k)'
  BY DEF JobInv, Buffered, NotBegun, UnderWay, StateTold, ReportTold, BudgetKept,
         StepsStarted, Over

EventOf(j, x) == [id |-> counter[j] + 1, type |-> x.type, step |-> x.step, doc |-> x.doc]

\* One event emitted.
LEMMA EmitOne ==
    ASSUME TypeOK, NEW j \in Jobs, NEW x \in Kinds, Emit(j, <<x>>)
    PROVE  /\ EventOf(j, x) \in Event
           /\ emitted'[j] = Append(emitted[j], EventOf(j, x))
           /\ events'[j] = Append(events[j], EventOf(j, x))
           /\ counter'[j] = counter[j] + 1
           /\ terminalAt'[j] = IF x.type \in Terminal THEN clock ELSE terminalAt[j]
           /\ lastAt'[j]["step_started"] =
                 IF x.type = "step_started" THEN clock ELSE lastAt[j]["step_started"]
<1> DEFINE kinds == <<x>>
<1>1. kinds \in Seq(Kinds) /\ Len(kinds) = 1 /\ kinds[1] = x /\ DOMAIN kinds = {1}
  OBVIOUS
<1>2. Emit(j, kinds)
  OBVIOUS
<1> HIDE DEF kinds
<1>3. /\ Stamp(j, kinds) \in Seq(Event) /\ Len(Stamp(j, kinds)) = 1
      /\ Stamp(j, kinds)[1] = EventOf(j, x)
  BY <1>1, StampProperties DEF EventOf
<1>4. Stamp(j, kinds) = <<EventOf(j, x)>> /\ EventOf(j, x) \in Event
  <2> HIDE DEF EventOf
  <2>1. EventOf(j, x) \in Event
    BY <1>3, ElementOfSeq
  <2>2. <<EventOf(j, x)>> \in Seq(Event) /\ Len(<<EventOf(j, x)>>) = 1
    BY <2>1
  <2>3. \A i \in 1..1 : Stamp(j, kinds)[i] = <<EventOf(j, x)>>[i]
    BY <1>3
  <2> QED
    BY <1>3, <2>1, <2>2, <2>3, SeqEqual
<1>5. /\ emitted'[j] = emitted[j] \o Stamp(j, kinds)
      /\ events'[j] = events[j] \o Stamp(j, kinds)
      /\ counter'[j] = counter[j] + 1
  BY <1>1, <1>2, EmitProperties
<1>6. terminalAt'[j] = IF x.type \in Terminal THEN clock ELSE terminalAt[j]
  BY <1>1, <1>2, EmitProperties DEF TerminalTime
<1>7. lastAt'[j]["step_started"] =
          IF x.type = "step_started" THEN clock ELSE lastAt[j]["step_started"]
  <2>1. (\E i \in 1..Len(kinds) : kinds[i].type = "step_started")
            <=> x.type = "step_started"
    BY <1>1
  <2>2. lastAt'[j]["step_started"] =
            IF \E i \in 1..Len(kinds) : kinds[i].type = "step_started"
            THEN clock ELSE lastAt[j]["step_started"]
    BY <1>1, <1>2, EmitProperties
  <2> QED
    BY <2>1, <2>2
<1>8. emitted[j] \in Seq(Event) /\ events[j] \in Seq(Event)
  BY DEF TypeOK
<1>9. /\ Append(emitted[j], EventOf(j, x)) = emitted[j] \o <<EventOf(j, x)>>
      /\ Append(events[j], EventOf(j, x)) = events[j] \o <<EventOf(j, x)>>
  BY <1>4, <1>8, AppendIsConcat
<1> QED
  BY <1>4, <1>5, <1>6, <1>7, <1>9

LEMMA GrowOne ==
    ASSUME NEW s \in Seq(Event), Stream!WellFormed(s), NoneTerminal(s),
           NEW e \in Event, e.id = Len(s) + 1, Due(s, e)
    PROVE  Stream!WellFormed(Append(s, e))
<1> DEFINE t == <<e>>
<1>1. t \in Seq(Event) /\ t # <<>> /\ Len(t) = 1 /\ t[1] = e
  OBVIOUS
<1>2. Append(s, e) = s \o t
  BY AppendIsConcat
<1> HIDE DEF t
<1>3. /\ \A i \in 1..Len(t) : t[i].id = Len(s) + i
      /\ \A i \in 1..(Len(t) - 1) : t[i].type \in Stream!Findings /\ t[i].step = 0
      /\ Due(s, t[Len(t)])
      /\ Len(t) > 1 => /\ s # <<>> /\ StepOpen(s, 0)
                       /\ t[Len(t)].type \notin Terminal
  BY <1>1
<1> QED
  BY <1>1, <1>2, <1>3, Grow

\* One more event of a type, or none.
LEMMA OfTypeCount ==
    ASSUME NEW s \in Seq(Event), NEW e \in Event, NEW c
    PROVE  /\ Cardinality(OfType(s, c)) \in Nat
           /\ Cardinality(OfType(Append(s, e), c)) =
                 IF e.type = c THEN Cardinality(OfType(s, c)) + 1
                               ELSE Cardinality(OfType(s, c))
<1>1. /\ OfType(s, c) \subseteq 1..Len(s) /\ Len(s) \in Nat
      /\ Len(s) + 1 \notin OfType(s, c)
  BY DEF OfType
<1>2. IsFiniteSet(OfType(s, c)) /\ Cardinality(OfType(s, c)) \in Nat
  <2>1. IsFiniteSet(1..Len(s))
    BY <1>1, FS_Interval
  <2> QED
    BY <1>1, <2>1, FS_Subset, FS_CardinalityType
<1>3. OfType(Append(s, e), c) =
          IF e.type = c THEN OfType(s, c) \cup {Len(s) + 1} ELSE OfType(s, c)
  BY DEF OfType
<1>4. Cardinality(OfType(s, c) \cup {Len(s) + 1}) = Cardinality(OfType(s, c)) + 1
  BY <1>1, <1>2, FS_AddElement
<1> QED
  BY <1>2, <1>3, <1>4

LEMMA EmptyWellFormed == Stream!WellFormed(<<>>)
  BY DEF Stream!WellFormed, Stream!Numbered, Stream!PlanFirst, Stream!Alternating,
         Stream!FoundInsideStep, Stream!TerminalLast

LEMMA InvInit == Init => Inv
<1> SUFFICES ASSUME Init PROVE Inv
  OBVIOUS
<1>1. Queued \in Job
  BY DEF Queued, Job, EmptyReport, Report
<1>2. TypeOK
  <2>1. clock \in 0..MaxTime
    BY BoundsAssumption DEF Init
  <2>2. job \in [Jobs -> Job]
    BY <1>1 DEF Init
  <2>3. /\ events \in [Jobs -> Seq(Event)] /\ emitted \in [Jobs -> Seq(Event)]
        /\ terminalAt \in [Jobs -> Nat \cup {NoTime}]
        /\ counter \in [Jobs -> Nat]
        /\ lastAt \in [Jobs -> [Timed -> Nat \cup {NoTime}]]
    BY DEF Init
  <2>4. reader \in [Readers -> [job : Jobs, got : Seq(Event)]]
    <3>1. <<>> \in Seq(Event)
      OBVIOUS
    <3>2. \A r \in [job : Jobs, got : {<<>>}] : r \in [job : Jobs, got : Seq(Event)]
      BY <3>1
    <3>3. reader \in [Readers -> [job : Jobs, got : {<<>>}]]
      BY DEF Init
    <3> QED
      BY <3>2, <3>3
  <2> QED
    BY <2>1, <2>2, <2>3, <2>4 DEF TypeOK
<1>3. ASSUME NEW j \in Jobs PROVE JobInv(j)
  <2>1. /\ job[j] = Queued /\ emitted[j] = <<>> /\ events[j] = <<>>
        /\ counter[j] = 0 /\ terminalAt[j] = NoTime
    BY DEF Init
  <2>2. Stream!WellFormed(emitted[j])
    BY <2>1, EmptyWellFormed
  <2>3. StepsStarted(j) = 0
    <3>1. OfType(<<>>, "step_started") = {}
      BY DEF OfType
    <3> QED
      BY <2>1, <3>1, FS_EmptySet DEF StepsStarted
  <2>4. Buffered(j)
    BY <2>1 DEF Buffered
  <2>5. NotBegun(j)
    BY <2>1 DEF NotBegun, Queued
  <2>6. StateTold(j) /\ ~Over(j)
    BY <2>1 DEF StateTold, Over, Stream!Ended, Queued
  <2> QED
    BY <2>1, <2>2, <2>3, <2>4, <2>5, <2>6
       DEF JobInv, UnderWay, ReportTold, BudgetKept, Queued
<1> QED
  BY <1>2, <1>3 DEF Inv
-----------------------------------------------------------------------------
(* A step of one job, and one event more in its stream.                    *)

LEMMA OneJob ==
    ASSUME Inv, NEW j \in Jobs, NEW kinds \in Seq(Kinds), Emit(j, kinds),
           job' \in [Jobs -> Job], \A k \in Jobs \ {j} : job'[k] = job[k],
           UNCHANGED <<clock, reader>>, JobInv(j)'
    PROVE  Inv'
<1>1. TypeOK
  BY DEF Inv
<1>2. TypeOK'
  BY <1>1, EmitProperties DEF TypeOK
<1>3. ASSUME NEW k \in Jobs \ {j} PROVE JobInv(k)'
  <2>1. /\ emitted'[k] = emitted[k] /\ events'[k] = events[k]
        /\ counter'[k] = counter[k] /\ terminalAt'[k] = terminalAt[k]
        /\ lastAt'[k] = lastAt[k] /\ job'[k] = job[k]
    BY <1>1, EmitProperties
  <2>2. JobInv(k)
    BY DEF Inv
  <2> QED
    BY <2>1, <2>2, Untouched
<1>4. \A k \in Jobs : JobInv(k)'
  BY <1>3
<1> QED
  BY <1>2, <1>4 DEF Inv

LEMMA OneEvent ==
    ASSUME Inv, NEW j \in Jobs, NEW x \in Kinds, Emit(j, <<x>>),
           NoneTerminal(emitted[j]), events[j] = emitted[j],
           Due(emitted[j], EventOf(j, x))
    PROVE  /\ emitted[j] \in Seq(Event) /\ EventOf(j, x) \in Event
           /\ emitted'[j] = Append(emitted[j], EventOf(j, x))
           /\ Stream!WellFormed(emitted'[j])
           /\ Buffered(j)' /\ events'[j] = emitted'[j] /\ emitted'[j] # <<>>
           /\ CitedDocs(emitted'[j]) = CitedDocs(emitted[j])
           /\ ChunksOf(emitted'[j]) = ChunksOf(emitted[j])
           /\ StepsStarted(j) \in Nat
           /\ StepsStarted(j)' = IF x.type = "step_started" THEN StepsStarted(j) + 1
                                                            ELSE StepsStarted(j)
           /\ Stream!Ended(emitted'[j]) = (x.type \in Terminal)
           /\ Last(emitted'[j]).type = x.type
<1> DEFINE e == EventOf(j, x)
           s == emitted[j]
<1>1. TypeOK /\ JobInv(j)
  BY DEF Inv
<1>2. s \in Seq(Event) /\ counter[j] = Len(s) /\ Stream!WellFormed(s) /\ Buffered(j)
  BY <1>1 DEF TypeOK, JobInv, Buffered
<1>3. /\ e \in Event /\ emitted'[j] = Append(s, e) /\ events'[j] = Append(events[j], e)
      /\ counter'[j] = counter[j] + 1
  BY <1>1, EmitOne
<1>4. e.id = Len(s) + 1 /\ e.type = x.type /\ e.doc = x.doc
  BY <1>2 DEF EventOf
<1>5. Due(s, e)
  OBVIOUS
<1> HIDE DEF e
<1>6. Stream!WellFormed(emitted'[j])
  BY <1>2, <1>3, <1>4, <1>5, GrowOne
<1>7. e.type # "citation" /\ e.type # "report_chunk"
  BY <1>5 DEF Due, Stream!Findings
<1>8. Buffered(j)'
  <2>1. Len(Append(s, e)) = Len(s) + 1
    BY <1>2, <1>3
  <2>2. \A i \in 1..Len(Append(s, e)) : IF i = Len(s) + 1 THEN Append(s, e)[i] = e
                                        ELSE i \in 1..Len(s) /\ Append(s, e)[i] = s[i]
    BY <1>2, <1>3
  <2>3. \A i \in 1..Len(s) : s[i].type = "citation" => s[i].doc \in Found
    BY <1>2 DEF Buffered
  <2>4. \A i \in 1..Len(emitted'[j]) :
            emitted'[j][i].type = "citation" => emitted'[j][i].doc \in Found
    BY <1>3, <1>7, <2>2, <2>3
  <2> QED
    BY <1>2, <1>3, <2>1, <2>4 DEF Buffered
<1>9. CitedDocs(emitted'[j]) = CitedDocs(s) /\ ChunksOf(emitted'[j]) = ChunksOf(s)
  BY <1>2, <1>3, <1>7, CitedAppend, ChunksAppend
<1>10. /\ StepsStarted(j) \in Nat
       /\ StepsStarted(j)' = IF x.type = "step_started" THEN StepsStarted(j) + 1
                                                        ELSE StepsStarted(j)
  BY <1>2, <1>3, <1>4, OfTypeCount DEF StepsStarted
<1>11. emitted'[j] # <<>> /\ Last(emitted'[j]) = e
  BY <1>2, <1>3 DEF Last
<1>12. Stream!Ended(emitted'[j]) = (x.type \in Terminal)
  <2>1. Stream!Ended(emitted'[j]) <=> e.type \in Terminal
    BY <1>11 DEF Stream!Ended, Stream!Terminal, Stream!Last, Last, Terminal
  <2>2. Stream!Ended(emitted'[j]) <=> x.type \in Terminal
    BY <1>4, <2>1
  <2>3. Stream!Ended(emitted'[j]) \in BOOLEAN /\ (x.type \in Terminal) \in BOOLEAN
    BY DEF Stream!Ended
  <2> QED
    BY <2>2, <2>3
<1> QED
  BY <1>2, <1>3, <1>4, <1>6, <1>8, <1>9, <1>10, <1>11, <1>12 DEF e

\* A terminal event, which leaves the job over.
LEMMA Ending ==
    ASSUME Inv, NEW j \in Jobs, NEW x \in Kinds, Emit(j, <<x>>),
           x.type \in Terminal, NoneTerminal(emitted[j]), events[j] = emitted[j],
           \/ BetweenSteps(emitted[j])
           \/ emitted[j][Len(emitted[j])].type = "step_started" /\ x.type = "internal_error",
           emitted[j] = <<>> => x.type = "internal_error"
    PROVE  /\ Stream!WellFormed(emitted'[j]) /\ Buffered(j)'
           /\ CitedDocs(emitted'[j]) = CitedDocs(emitted[j])
           /\ ChunksOf(emitted'[j]) = ChunksOf(emitted[j])
           /\ StepsStarted(j)' = StepsStarted(j)
           /\ lastAt'[j]["step_started"] = lastAt[j]["step_started"]
           /\ Stream!Ended(emitted'[j])
           /\ Last(emitted'[j]).type = x.type
<1>1. EventOf(j, x).type = x.type
  BY DEF EventOf
<1>2. Due(emitted[j], EventOf(j, x))
  <2>1. EndDue(emitted[j], EventOf(j, x))
    BY <1>1 DEF EndDue, BetweenSteps, Stream!EndFollows
  <2> QED
    BY <1>1, <2>1 DEF Due, Terminal, Stream!Findings, Stream!Marks
<1>3. x.type # "step_started"
  BY DEF Terminal
<1>4. TypeOK
  BY DEF Inv
<1>5. lastAt'[j]["step_started"] = lastAt[j]["step_started"]
  BY <1>3, <1>4, EmitOne
<1> QED
  BY <1>2, <1>3, <1>5, OneEvent

\* One job's record is replaced.
LEMMA OneChanged ==
    ASSUME TypeOK, NEW j \in Jobs, NEW r \in Job, job' = [job EXCEPT ![j] = r]
    PROVE  job' \in [Jobs -> Job] /\ job'[j] = r /\ \A k \in Jobs \ {j} : job'[k] = job[k]
  BY DEF TypeOK

LEMMA PlanOf ==
    ASSUME TypeOK, NEW j \in Jobs
    PROVE  /\ job[j] \in Job /\ job[j].plan \in Seq(StepTypes)
           /\ Len(job[j].plan) \in Nat /\ job[j].next \in Nat
<1>1. job[j] \in Job
  BY DEF TypeOK
<1>2. job[j].plan \in Plans \cup {<<>>} /\ job[j].next \in Nat
  BY <1>1 DEF Job
<1>3. <<>> \in Seq(StepTypes)
  OBVIOUS
<1>4. job[j].plan \in Seq(StepTypes)
  BY <1>2, <1>3, PlansAssumption
<1> QED
  BY <1>1, <1>2, <1>4

LEMMA BudgetOf ==
    ASSUME TypeOK, NEW j \in Jobs
    PROVE  /\ job[j].budget.max_steps \in Int /\ job[j].budget.max_duration \in Int
           /\ job[j].budget.max_tool_calls \in Int
<1>1. job[j].budget \in Budgets \cup {NoBudget}
  BY DEF TypeOK, Job
<1>2. NoBudget \in [max_steps : Int, max_duration : Int, max_tool_calls : Int]
  BY DEF NoBudget
<1> QED
  BY <1>1, <1>2, BudgetsAssumption

-----------------------------------------------------------------------------
(* The actions, one by one.                                                *)

LEMMA StartJobKeeps ==
    ASSUME Inv, NEW j \in Jobs, StartJob(j)
    PROVE  Inv'
<1> DEFINE x == Plain("plan_updated")
<1>1. TypeOK /\ JobInv(j) /\ job[j].state = "queued"
  BY DEF Inv, StartJob
<1>2. PICK plan \in Plans, budget \in Budgets :
          job' = [job EXCEPT ![j].state = "running", ![j].plan = plan,
                             ![j].budget = budget, ![j].started = clock]
  BY DEF StartJob
<1>3. /\ job' \in [Jobs -> Job] /\ \A k \in Jobs \ {j} : job'[k] = job[k]
      /\ job'[j] = [job[j] EXCEPT !.state = "running", !.plan = plan,
                                  !.budget = budget, !.started = clock]
      /\ job[j] \in Job
  <2> DEFINE r == [job[j] EXCEPT !.state = "running", !.plan = plan,
                                 !.budget = budget, !.started = clock]
  <2>1. job[j] \in Job /\ clock \in Nat
    BY <1>1, BoundsAssumption DEF TypeOK
  <2>2. r \in Job
    BY <2>1 DEF Job
  <2>3. job' = [job EXCEPT ![j] = r]
    BY <1>2
  <2> QED
    BY <1>1, <2>1, <2>2, <2>3, OneChanged
<1>4. /\ job'[j].state = "running" /\ job'[j].plan = plan /\ job'[j].budget = budget
      /\ job'[j].next = 1 /\ job'[j].steps = 0 /\ job'[j].calls = 0
      /\ job'[j].open = FALSE /\ job'[j].citations = <<>> /\ job'[j].chunks = <<>>
  BY <1>1, <1>3 DEF JobInv, NotBegun, Job
<1>5. /\ emitted[j] = <<>> /\ events[j] = emitted[j] /\ terminalAt[j] = NoTime
  BY <1>1 DEF JobInv, NotBegun, Buffered
<1>6. x \in Kinds /\ x.type = "plan_updated" /\ Emit(j, <<x>>) /\ UNCHANGED <<clock, reader>>
  BY DEF StartJob, Plain, Kinds, EventTypes
<1> HIDE DEF x
<1>7. NoneTerminal(emitted[j]) /\ Due(emitted[j], EventOf(j, x))
  BY <1>5, <1>6 DEF NoneTerminal, Due, EventOf, Stream!Findings, Stream!Marks, Terminal
<1>8. /\ Stream!WellFormed(emitted'[j]) /\ Buffered(j)'
      /\ events'[j] = emitted'[j] /\ emitted'[j] # <<>>
      /\ CitedDocs(emitted'[j]) = CitedDocs(emitted[j])
      /\ ChunksOf(emitted'[j]) = ChunksOf(emitted[j])
      /\ StepsStarted(j)' = StepsStarted(j)
      /\ ~Stream!Ended(emitted'[j])
      /\ emitted'[j] = Append(emitted[j], EventOf(j, x))
  BY <1>5, <1>6, <1>7, OneEvent DEF Terminal
<1>9. terminalAt'[j] = NoTime
  BY <1>1, <1>5, <1>6, EmitOne DEF Terminal
<1>10. StepsStarted(j) = 0
  <2>1. OfType(<<>>, "step_started") = {}
    BY DEF OfType
  <2> QED
    BY <1>5, <2>1, FS_EmptySet DEF StepsStarted
<1>11. UnderWay(j)'
  <2>1. Len(plan) \in Nat
    BY PlansAssumption
  <2>2. Len(emitted'[j]) = 1 /\ emitted'[j][1].type = "plan_updated"
    BY <1>5, <1>6, <1>8 DEF EventOf
  <2>3. NoneTerminal(emitted'[j])
    BY <2>2 DEF NoneTerminal, Terminal
  <2>4. InPlan(emitted'[j], job'[j].next, job'[j].open)
    BY <1>4, <2>2 DEF InPlan, BetweenSteps, NoMarks, Stream!Marks
  <2>5. job'[j].next \in 1..(Len(job'[j].plan) + 1)
    BY <1>4, <2>1
  <2>6. job'[j].citations = CitedDocs(emitted'[j]) /\ job'[j].chunks = ChunksOf(emitted'[j])
    BY <1>4, <1>5, <1>8, NothingTold
  <2>7. StepsStarted(j)' = IF job'[j].open THEN job'[j].next ELSE job'[j].next - 1
    BY <1>4, <1>8, <1>10
  <2>8. job'[j].steps = job'[j].next - 1 /\ job'[j].calls = job'[j].next - 1 /\ ~job'[j].open
    BY <1>4
  <2> QED
    BY <1>8, <1>9, <2>3, <2>4, <2>5, <2>6, <2>7, <2>8 DEF UnderWay
<1>12. JobInv(j)'
  <2>1. NotBegun(j)' /\ ReportTold(j)' /\ BudgetKept(j)'
    BY <1>4, <1>8, <1>10 DEF NotBegun, ReportTold, BudgetKept
  <2>2. StateTold(j)'
    BY <1>4, <1>8 DEF StateTold, Over, Stream!Ended
  <2> QED
    BY <1>4, <1>8, <1>11, <2>1, <2>2 DEF JobInv
<1>13. <<x>> \in Seq(Kinds)
  BY <1>6
<1> QED
  BY <1>3, <1>6, <1>12, <1>13, OneJob

LEMMA PlanFailsKeeps ==
    ASSUME Inv, NEW j \in Jobs, PlanFails(j)
    PROVE  Inv'
<1> DEFINE x == Plain("internal_error")
<1>1. TypeOK /\ JobInv(j) /\ job[j].state = "queued"
  BY DEF Inv, PlanFails
<1>2. job' = [job EXCEPT ![j].state = "failed"]
  BY DEF PlanFails
<1>3. /\ job' \in [Jobs -> Job] /\ \A k \in Jobs \ {j} : job'[k] = job[k]
      /\ job'[j].state = "failed" /\ job'[j].open = FALSE
      /\ job'[j].budget = job[j].budget /\ job'[j].started = job[j].started
  <2> DEFINE r == [job[j] EXCEPT !.state = "failed"]
  <2>1. job[j] \in Job /\ ~job[j].open
    BY <1>1 DEF TypeOK, JobInv, NotBegun
  <2>2. /\ r \in Job /\ r.state = "failed" /\ r.open = FALSE
        /\ r.budget = job[j].budget /\ r.started = job[j].started
    BY <2>1 DEF Job
  <2>3. job' = [job EXCEPT ![j] = r]
    BY <1>2
  <2> HIDE DEF r
  <2> QED
    BY <1>1, <2>2, <2>3, OneChanged
<1>4. emitted[j] = <<>> /\ events[j] = emitted[j]
  BY <1>1 DEF JobInv, NotBegun, Buffered
<1>5. /\ x \in Kinds /\ x.type = "internal_error" /\ x.type \in Terminal
      /\ Emit(j, <<x>>) /\ UNCHANGED <<clock, reader>>
  BY DEF PlanFails, Plain, Kinds, EventTypes, Terminal
<1> HIDE DEF x
<1>6. NoneTerminal(emitted[j]) /\ BetweenSteps(emitted[j])
  BY <1>4 DEF NoneTerminal, BetweenSteps
<1>7. /\ Stream!WellFormed(emitted'[j]) /\ Buffered(j)'
      /\ StepsStarted(j)' = StepsStarted(j)
      /\ Stream!Ended(emitted'[j]) /\ Last(emitted'[j]).type = "internal_error"
  BY <1>4, <1>5, <1>6, Ending
<1>8. StepsStarted(j) = 0
  <2>1. OfType(<<>>, "step_started") = {}
    BY DEF OfType
  <2> QED
    BY <1>4, <2>1, FS_EmptySet DEF StepsStarted
<1>9. JobInv(j)'
  <2>1. NotBegun(j)' /\ UnderWay(j)' /\ ReportTold(j)' /\ BudgetKept(j)'
    BY <1>3, <1>7, <1>8 DEF NotBegun, UnderWay, ReportTold, BudgetKept
  <2>2. StateTold(j)'
    BY <1>3, <1>7 DEF StateTold, Over, Stream!Ended
  <2> QED
    BY <1>3, <1>7, <2>1, <2>2 DEF JobInv
<1>10. <<x>> \in Seq(Kinds)
  BY <1>5
<1> QED
  BY <1>3, <1>5, <1>9, <1>10, OneJob

\* What holds of a job between two of its steps.
LEMMA AtRest ==
    ASSUME Inv, NEW j \in Jobs, job[j].state = "running", ~job[j].open
    PROVE  /\ emitted[j] # <<>> /\ events[j] = emitted[j]
           /\ NoneTerminal(emitted[j]) /\ BetweenSteps(emitted[j])
           /\ StepsStarted(j) = job[j].next - 1
           /\ job[j].citations = CitedDocs(emitted[j])
           /\ job[j].chunks = ChunksOf(emitted[j])
<1>1. JobInv(j)
  BY DEF Inv
<1> QED
  BY <1>1 DEF JobInv, UnderWay, InPlan

LEMMA BudgetExceededKeeps ==
    ASSUME Inv, NEW j \in Jobs, BudgetExceeded(j)
    PROVE  Inv'
<1> DEFINE x == Plain("budget_exceeded")
<1>1. /\ TypeOK /\ JobInv(j) /\ job[j].state = "running" /\ ~job[j].open
      /\ job[j].next <= Len(job[j].plan)
  BY DEF Inv, BudgetExceeded, BeforeStep
<1>2. /\ emitted[j] # <<>> /\ events[j] = emitted[j]
      /\ NoneTerminal(emitted[j]) /\ BetweenSteps(emitted[j])
      /\ StepsStarted(j) = job[j].next - 1
  BY <1>1, AtRest
<1>3. PartialReport(j) \in Report
  <2>1. emitted[j] \in Seq(Event) /\ job[j] \in Job
    BY <1>1 DEF TypeOK
  <2>2. CitedDocs(emitted[j]) \in Seq(Found) /\ ChunksOf(emitted[j]) \in Seq(Nat)
    <3>1. job[j].citations \in Seq(Found) /\ job[j].chunks \in Seq(Nat)
      BY <2>1 DEF Job
    <3> QED
      BY <1>1, <3>1, AtRest
  <2> QED
    BY <1>2, <2>2 DEF PartialReport, Report
<1>4. job' = [job EXCEPT ![j].state = "budget_exceeded", ![j].report = PartialReport(j)]
  BY DEF BudgetExceeded
<1>5. /\ job' \in [Jobs -> Job] /\ \A k \in Jobs \ {j} : job'[k] = job[k]
      /\ job'[j].state = "budget_exceeded" /\ job'[j].open = FALSE
      /\ job'[j].report = PartialReport(j) /\ job'[j].plan = job[j].plan
      /\ job'[j].budget = job[j].budget /\ job'[j].started = job[j].started
  <2> DEFINE r == [job[j] EXCEPT !.state = "budget_exceeded", !.report = PartialReport(j)]
  <2>1. job[j] \in Job /\ ~job[j].open
    BY <1>1 DEF TypeOK
  <2>2. /\ r \in Job /\ r.state = "budget_exceeded" /\ r.open = FALSE
        /\ r.report = PartialReport(j) /\ r.plan = job[j].plan
        /\ r.budget = job[j].budget /\ r.started = job[j].started
    BY <1>3, <2>1 DEF Job
  <2>3. job' = [job EXCEPT ![j] = r]
    BY <1>4
  <2> HIDE DEF r
  <2> QED
    BY <1>1, <2>2, <2>3, OneChanged
<1>6. /\ x \in Kinds /\ x.type = "budget_exceeded" /\ x.type \in Terminal
      /\ Emit(j, <<x>>) /\ UNCHANGED <<clock, reader>>
  BY DEF BudgetExceeded, Plain, Kinds, EventTypes, Terminal
<1> HIDE DEF x
<1>7. /\ Stream!WellFormed(emitted'[j]) /\ Buffered(j)'
      /\ CitedDocs(emitted'[j]) = CitedDocs(emitted[j])
      /\ ChunksOf(emitted'[j]) = ChunksOf(emitted[j])
      /\ StepsStarted(j)' = StepsStarted(j)
      /\ lastAt'[j]["step_started"] = lastAt[j]["step_started"]
      /\ Stream!Ended(emitted'[j]) /\ Last(emitted'[j]).type = "budget_exceeded"
  BY <1>2, <1>6, Ending
<1>8. JobInv(j)'
  <2>1. NotBegun(j)' /\ UnderWay(j)'
    BY <1>5 DEF NotBegun, UnderWay
  <2>2. ReportTold(j)'
    <3>1. /\ job'[j].report.citations = CitedDocs(emitted'[j])
          /\ job'[j].report.chunks = ChunksOf(emitted'[j])
          /\ job'[j].report.partial = TRUE
      BY <1>2, <1>5, <1>7 DEF PartialReport
    <3> QED
      BY <1>5, <3>1 DEF ReportTold
  <2>3. BudgetKept(j)'
    <3>1. BudgetKept(j)
      BY <1>1 DEF JobInv
    <3>2. StepsStarted(j) < Len(job[j].plan)
      <4>1. job[j].next \in Nat /\ Len(job[j].plan) \in Nat
        BY <1>1, PlanOf
      <4> QED
        BY <1>1, <1>2, <4>1
    <3> QED
      BY <1>5, <1>7, <3>1, <3>2 DEF BudgetKept
  <2>4. StateTold(j)'
    BY <1>5, <1>7 DEF StateTold, Over, Stream!Ended
  <2> QED
    BY <1>5, <1>7, <2>1, <2>2, <2>3, <2>4 DEF JobInv
<1>9. <<x>> \in Seq(Kinds)
  BY <1>6
<1> QED
  BY <1>5, <1>6, <1>8, <1>9, OneJob

LEMMA NotOpenWhenDone ==
    ASSUME Inv, NEW j \in Jobs, PlanDone(j)
    PROVE  job[j].state = "running" /\ ~job[j].open
<1>1. TypeOK /\ JobInv(j) /\ job[j].state = "running" /\ job[j].next > Len(job[j].plan)
  BY DEF Inv, PlanDone
<1>2. job[j].next \in Nat /\ Len(job[j].plan) \in Nat
  BY <1>1, PlanOf
<1> QED
  BY <1>1, <1>2 DEF JobInv, UnderWay

LEMMA JobSucceedsKeeps ==
    ASSUME Inv, NEW j \in Jobs, JobSucceeds(j)
    PROVE  Inv'
<1> DEFINE x == Plain("done")
<1>1. TypeOK /\ JobInv(j) /\ job[j].state = "running" /\ ~job[j].open
  BY NotOpenWhenDone DEF Inv, JobSucceeds
<1>2. /\ emitted[j] # <<>> /\ events[j] = emitted[j]
      /\ NoneTerminal(emitted[j]) /\ BetweenSteps(emitted[j])
      /\ job[j].citations = CitedDocs(emitted[j])
      /\ job[j].chunks = ChunksOf(emitted[j])
  BY <1>1, AtRest
<1>3. FullReport(j) \in Report
  BY <1>1 DEF TypeOK, Job, FullReport, Report
<1>4. job' = [job EXCEPT ![j].state = "succeeded", ![j].report = FullReport(j)]
  BY DEF JobSucceeds
<1>5. /\ job' \in [Jobs -> Job] /\ \A k \in Jobs \ {j} : job'[k] = job[k]
      /\ job'[j].state = "succeeded" /\ job'[j].open = FALSE
      /\ job'[j].report = FullReport(j)
      /\ job'[j].budget = job[j].budget /\ job'[j].started = job[j].started
  <2> DEFINE r == [job[j] EXCEPT !.state = "succeeded", !.report = FullReport(j)]
  <2>1. job[j] \in Job /\ ~job[j].open
    BY <1>1 DEF TypeOK
  <2>2. /\ r \in Job /\ r.state = "succeeded" /\ r.open = FALSE
        /\ r.report = FullReport(j)
        /\ r.budget = job[j].budget /\ r.started = job[j].started
    BY <1>3, <2>1 DEF Job
  <2>3. job' = [job EXCEPT ![j] = r]
    BY <1>4
  <2> HIDE DEF r
  <2> QED
    BY <1>1, <2>2, <2>3, OneChanged
<1>6. /\ x \in Kinds /\ x.type = "done" /\ x.type \in Terminal
      /\ Emit(j, <<x>>) /\ UNCHANGED <<clock, reader>>
  BY DEF JobSucceeds, Plain, Kinds, EventTypes, Terminal
<1> HIDE DEF x
<1>7. /\ Stream!WellFormed(emitted'[j]) /\ Buffered(j)'
      /\ CitedDocs(emitted'[j]) = CitedDocs(emitted[j])
      /\ ChunksOf(emitted'[j]) = ChunksOf(emitted[j])
      /\ StepsStarted(j)' = StepsStarted(j)
      /\ lastAt'[j]["step_started"] = lastAt[j]["step_started"]
      /\ Stream!Ended(emitted'[j]) /\ Last(emitted'[j]).type = "done"
  BY <1>2, <1>6, Ending
<1>8. JobInv(j)'
  <2>1. NotBegun(j)' /\ UnderWay(j)'
    BY <1>5 DEF NotBegun, UnderWay
  <2>2. ReportTold(j)'
    <3>1. /\ job'[j].report.citations = CitedDocs(emitted'[j])
          /\ job'[j].report.chunks = ChunksOf(emitted'[j])
          /\ job'[j].report.partial = FALSE
      BY <1>2, <1>5, <1>7 DEF FullReport
    <3> QED
      BY <1>5, <3>1 DEF ReportTold
  <2>3. BudgetKept(j)'
    BY <1>1, <1>5, <1>7 DEF JobInv, BudgetKept
  <2>4. StateTold(j)'
    BY <1>5, <1>7 DEF StateTold, Over, Stream!Ended
  <2> QED
    BY <1>5, <1>7, <2>1, <2>2, <2>3, <2>4 DEF JobInv
<1>9. <<x>> \in Seq(Kinds)
  BY <1>6
<1> QED
  BY <1>5, <1>6, <1>8, <1>9, OneJob

LEMMA SchemaUnmetKeeps ==
    ASSUME Inv, NEW j \in Jobs, SchemaUnmet(j)
    PROVE  Inv'
<1> DEFINE x == Plain("internal_error")
<1>1. TypeOK /\ JobInv(j) /\ job[j].state = "running" /\ ~job[j].open
  BY NotOpenWhenDone DEF Inv, SchemaUnmet
<1>2. /\ emitted[j] # <<>> /\ events[j] = emitted[j]
      /\ NoneTerminal(emitted[j]) /\ BetweenSteps(emitted[j])
  BY <1>1, AtRest
<1>3. job' = [job EXCEPT ![j].state = "failed", ![j].report = EmptyReport]
  BY DEF SchemaUnmet
<1>4. /\ job' \in [Jobs -> Job] /\ \A k \in Jobs \ {j} : job'[k] = job[k]
      /\ job'[j].state = "failed" /\ job'[j].open = FALSE
      /\ job'[j].budget = job[j].budget /\ job'[j].started = job[j].started
  <2> DEFINE r == [job[j] EXCEPT !.state = "failed", !.report = EmptyReport]
  <2>1. job[j] \in Job /\ ~job[j].open /\ EmptyReport \in Report
    BY <1>1 DEF TypeOK, EmptyReport, Report
  <2>2. /\ r \in Job /\ r.state = "failed" /\ r.open = FALSE
        /\ r.budget = job[j].budget /\ r.started = job[j].started
    BY <2>1 DEF Job
  <2>3. job' = [job EXCEPT ![j] = r]
    BY <1>3
  <2> HIDE DEF r
  <2> QED
    BY <1>1, <2>2, <2>3, OneChanged
<1>5. /\ x \in Kinds /\ x.type = "internal_error" /\ x.type \in Terminal
      /\ Emit(j, <<x>>) /\ UNCHANGED <<clock, reader>>
  BY DEF SchemaUnmet, Plain, Kinds, EventTypes, Terminal
<1> HIDE DEF x
<1>6. /\ Stream!WellFormed(emitted'[j]) /\ Buffered(j)'
      /\ StepsStarted(j)' = StepsStarted(j)
      /\ lastAt'[j]["step_started"] = lastAt[j]["step_started"]
      /\ Stream!Ended(emitted'[j]) /\ Last(emitted'[j]).type = "internal_error"
  BY <1>2, <1>5, Ending
<1>7. JobInv(j)'
  <2>1. NotBegun(j)' /\ UnderWay(j)' /\ ReportTold(j)'
    BY <1>4 DEF NotBegun, UnderWay, ReportTold
  <2>2. BudgetKept(j)'
    BY <1>1, <1>4, <1>6 DEF JobInv, BudgetKept
  <2>3. StateTold(j)'
    BY <1>4, <1>6 DEF StateTold, Over, Stream!Ended
  <2> QED
    BY <1>4, <1>6, <2>1, <2>2, <2>3 DEF JobInv
<1>8. <<x>> \in Seq(Kinds)
  BY <1>5
<1> QED
  BY <1>4, <1>5, <1>7, <1>8, OneJob

LEMMA StepRaisesKeeps ==
    ASSUME Inv, NEW j \in Jobs, StepRaises(j)
    PROVE  Inv'
<1> DEFINE x == Plain("internal_error")
<1>1. TypeOK /\ JobInv(j) /\ job[j].state = "running" /\ job[j].open
  BY DEF Inv, JobInv, StepRaises
<1>2. /\ emitted[j] # <<>> /\ events[j] = emitted[j] /\ NoneTerminal(emitted[j])
      /\ emitted[j][Len(emitted[j])].type = "step_started"
  BY <1>1 DEF JobInv, UnderWay, InPlan
<1>3. job' = [job EXCEPT ![j].state = "failed", ![j].open = FALSE,
                         ![j].calls = @ + 1, ![j].report = EmptyReport]
  BY DEF StepRaises
<1>4. /\ job' \in [Jobs -> Job] /\ \A k \in Jobs \ {j} : job'[k] = job[k]
      /\ job'[j].state = "failed" /\ job'[j].open = FALSE
      /\ job'[j].budget = job[j].budget /\ job'[j].started = job[j].started
  <2> DEFINE r == [job[j] EXCEPT !.state = "failed", !.open = FALSE,
                              !.calls = @ + 1, !.report = EmptyReport]
  <2>1. job[j] \in Job /\ EmptyReport \in Report
    BY <1>1 DEF TypeOK, EmptyReport, Report
  <2>2. r.state = "failed" /\ r.open = FALSE
           /\ r.budget = job[j].budget /\ r.started = job[j].started
    BY <2>1 DEF Job
  <2>4. r \in Job
    <3>1. job[j].calls + 1 \in Nat
      BY <2>1 DEF Job
    <3> DEFINE n == job[j].calls + 1
    <3> HIDE DEF n
    <3>2. [job[j] EXCEPT !.state = "failed", !.open = FALSE,
                         !.calls = n, !.report = EmptyReport] \in Job
      BY <2>1, <3>1 DEF Job, n
    <3> QED
      BY <3>2 DEF n
<2>3. job' = [job EXCEPT ![j] = r]
    BY <1>3
  <2> HIDE DEF r
  <2> QED
    BY <1>1, <2>2, <2>3, <2>4, OneChanged
<1>5. /\ x \in Kinds /\ x.type = "internal_error" /\ x.type \in Terminal
      /\ Emit(j, <<x>>) /\ UNCHANGED <<clock, reader>>
  BY DEF StepRaises, Plain, Kinds, EventTypes, Terminal
<1> HIDE DEF x
<1>6. /\ Stream!WellFormed(emitted'[j]) /\ Buffered(j)'
      /\ StepsStarted(j)' = StepsStarted(j)
      /\ lastAt'[j]["step_started"] = lastAt[j]["step_started"]
      /\ Stream!Ended(emitted'[j]) /\ Last(emitted'[j]).type = "internal_error"
  BY <1>2, <1>5, Ending
<1>7. JobInv(j)'
  <2>1. NotBegun(j)' /\ UnderWay(j)' /\ ReportTold(j)'
    BY <1>4 DEF NotBegun, UnderWay, ReportTold
  <2>2. BudgetKept(j)'
    BY <1>1, <1>4, <1>6 DEF JobInv, BudgetKept
  <2>3. StateTold(j)'
    BY <1>4, <1>6 DEF StateTold, Over, Stream!Ended
  <2> QED
    BY <1>4, <1>6, <2>1, <2>2, <2>3 DEF JobInv
<1>8. <<x>> \in Seq(Kinds)
  BY <1>5
<1> QED
  BY <1>4, <1>5, <1>7, <1>8, OneJob

\* The marks of a stream and one event more.
LEMMA MarksAppend ==
    ASSUME NEW s \in Seq(Event), NEW e \in Event
    PROVE  /\ e.type \notin Stream!Marks =>
                 /\ NoMarks(s) => NoMarks(Append(s, e))
                 /\ \A m \in 1..Len(s) : LastMarkAt(s, m) => LastMarkAt(Append(s, e), m)
           /\ e.type \in Stream!Marks => LastMarkAt(Append(s, e), Len(s) + 1)
           /\ NoneTerminal(s) /\ e.type \notin Terminal => NoneTerminal(Append(s, e))
<1>1. /\ Len(s) \in Nat /\ Len(Append(s, e)) = Len(s) + 1
      /\ \A i \in 1..Len(s) : Append(s, e)[i] = s[i]
      /\ Append(s, e)[Len(s) + 1] = e
  OBVIOUS
<1> DEFINE w == Append(s, e)
<1>2. \A i \in 1..Len(w) : i \in 1..Len(s) \/ i = Len(s) + 1
  BY <1>1
<1> HIDE DEF w
<1>3. CASE e.type \notin Stream!Marks
  <2>1. NoMarks(s) => NoMarks(w)
    BY <1>1, <1>2, <1>3 DEF NoMarks, w
  <2>2. \A m \in 1..Len(s) : LastMarkAt(s, m) => LastMarkAt(w, m)
    BY <1>1, <1>2, <1>3 DEF LastMarkAt, w
  <2>3. NoneTerminal(s) /\ e.type \notin Terminal => NoneTerminal(w)
    BY <1>1, <1>2 DEF NoneTerminal, w
  <2> QED
    BY <1>3, <2>1, <2>2, <2>3 DEF w
<1>4. CASE e.type \in Stream!Marks
  <2>1. LastMarkAt(w, Len(s) + 1)
    BY <1>1, <1>2, <1>4 DEF LastMarkAt, w
  <2>2. NoneTerminal(s) /\ e.type \notin Terminal => NoneTerminal(w)
    BY <1>1, <1>2 DEF NoneTerminal, w
  <2> QED
    BY <1>4, <2>1, <2>2 DEF w
<1> QED
  BY <1>3, <1>4

LEMMA BeginStepKeeps ==
    ASSUME Inv, NEW j \in Jobs, BeginStep(j)
    PROVE  Inv'
<1> DEFINE x == OfStep("step_started", job[j].next)
           s == emitted[j]
           e == EventOf(j, x)
           i == job[j].next
<1>1. /\ TypeOK /\ JobInv(j) /\ job[j].state = "running" /\ ~job[j].open
      /\ i <= Len(job[j].plan) /\ i \in Nat /\ Len(job[j].plan) \in Nat
      /\ i \in 1..(Len(job[j].plan) + 1)
  BY PlanOf DEF Inv, BeginStep, BeforeStep, JobInv, UnderWay
<1>2. /\ s # <<>> /\ events[j] = s /\ NoneTerminal(s) /\ BetweenSteps(s)
      /\ StepsStarted(j) = i - 1 /\ s \in Seq(Event)
      /\ job[j].citations = CitedDocs(s) /\ job[j].chunks = ChunksOf(s)
  BY <1>1, AtRest DEF TypeOK
<1>3. /\ job' \in [Jobs -> Job] /\ \A k \in Jobs \ {j} : job'[k] = job[k]
      /\ job'[j].state = "running" /\ job'[j].open = TRUE
      /\ job'[j].plan = job[j].plan /\ job'[j].next = i
      /\ job'[j].steps = job[j].steps /\ job'[j].calls = job[j].calls
      /\ job'[j].citations = job[j].citations /\ job'[j].chunks = job[j].chunks
      /\ job'[j].budget = job[j].budget /\ job'[j].started = job[j].started
  <2> DEFINE r == [job[j] EXCEPT !.open = TRUE]
  <2>1. job[j] \in Job
    BY <1>1 DEF TypeOK
  <2>2. /\ r \in Job /\ r.state = "running" /\ r.open = TRUE
        /\ r.plan = job[j].plan /\ r.next = i
        /\ r.steps = job[j].steps /\ r.calls = job[j].calls
        /\ r.citations = job[j].citations /\ r.chunks = job[j].chunks
        /\ r.budget = job[j].budget /\ r.started = job[j].started
    BY <1>1, <2>1 DEF Job
  <2>3. job' = [job EXCEPT ![j] = r]
    BY DEF BeginStep
  <2> HIDE DEF r
  <2> QED
    BY <1>1, <2>2, <2>3, OneChanged
<1>4. /\ x \in Kinds /\ x.type = "step_started" /\ x.step = i
      /\ Emit(j, <<x>>) /\ UNCHANGED <<clock, reader>>
  BY <1>1 DEF BeginStep, OfStep, Kinds, EventTypes
<1>5. e.type = "step_started" /\ e.step = i
  BY <1>4 DEF EventOf
<1> HIDE DEF x, e
<1>6. InPlan(s, i, FALSE)
  BY <1>1, <1>2 DEF JobInv, UnderWay, InPlan
<1>7. Due(s, e)
  <2>1. MarkDue(s, e)
    <3>1. CASE NoMarks(s) /\ i = 1
      BY <1>5, <3>1 DEF MarkDue
    <3>2. ASSUME NEW m \in 1..Len(s), LastMarkAt(s, m),
                 s[m].type = "step_completed", s[m].step + 1 = i
          PROVE  MarkDue(s, e)
      BY <1>5, <3>2 DEF MarkDue, Stream!Follows
    <3> QED
      BY <1>6, <3>1, <3>2 DEF InPlan
  <2> QED
    BY <1>2, <1>5, <2>1 DEF Due, Stream!Findings, Terminal
<1>8. /\ e \in Event /\ emitted'[j] = Append(s, e)
      /\ Stream!WellFormed(emitted'[j]) /\ Buffered(j)'
      /\ events'[j] = emitted'[j] /\ emitted'[j] # <<>>
      /\ CitedDocs(emitted'[j]) = CitedDocs(s) /\ ChunksOf(emitted'[j]) = ChunksOf(s)
      /\ StepsStarted(j)' = i /\ ~Stream!Ended(emitted'[j])
  <2>1. x.type \notin Terminal
    BY <1>4 DEF Terminal
  <2>2. Due(emitted[j], EventOf(j, x)) /\ NoneTerminal(emitted[j]) /\ events[j] = emitted[j]
    BY <1>2, <1>7 DEF e
  <2>3. /\ EventOf(j, x) \in Event /\ emitted'[j] = Append(emitted[j], EventOf(j, x))
        /\ Stream!WellFormed(emitted'[j]) /\ Buffered(j)'
        /\ events'[j] = emitted'[j] /\ emitted'[j] # <<>>
        /\ CitedDocs(emitted'[j]) = CitedDocs(emitted[j])
        /\ ChunksOf(emitted'[j]) = ChunksOf(emitted[j])
        /\ StepsStarted(j)' = StepsStarted(j) + 1
        /\ Stream!Ended(emitted'[j]) = (x.type \in Terminal)
    BY <1>4, <2>2, OneEvent
  <2>4. StepsStarted(j)' = i
    BY <1>1, <1>2, <2>3
  <2> QED
    BY <2>1, <2>3, <2>4 DEF e
<1>9. terminalAt'[j] = NoTime /\ lastAt'[j]["step_started"] = clock
  BY <1>1, <1>4, EmitOne DEF Terminal, JobInv, UnderWay
<1>10. UnderWay(j)'
  <2>1. NoneTerminal(emitted'[j])
    BY <1>2, <1>5, <1>8, MarksAppend DEF Terminal
  <2>2. InPlan(emitted'[j], i, TRUE)
    <3>1. /\ Len(s) \in Nat /\ Len(emitted'[j]) = Len(s) + 1
          /\ \A k \in 1..Len(s) : emitted'[j][k] = s[k]
          /\ emitted'[j][Len(s) + 1] = e
      BY <1>2, <1>8
    <3>2. LastMarkAt(emitted'[j], Len(s) + 1)
      BY <1>2, <1>5, <1>8, MarksAppend DEF Stream!Marks
    <3>3. \A k \in 1..Len(s) : s[k].type = "step_completed" => s[k].step < i
      BY <1>6 DEF InPlan
    <3>4. \A k \in 1..Len(emitted'[j]) : k \in 1..Len(s) \/ k = Len(s) + 1
      BY <3>1
    <3>5. \A k \in 1..Len(emitted'[j]) :
              emitted'[j][k].type = "step_completed" => emitted'[j][k].step < i
      BY <1>5, <3>1, <3>3, <3>4
    <3>6. Len(s) + 1 \in 1..Len(emitted'[j])
      BY <3>1
    <3> QED
      BY <1>5, <3>1, <3>2, <3>5, <3>6 DEF InPlan
  <2>3. InPlan(emitted'[j], job'[j].next, job'[j].open)
    BY <1>3, <2>2
  <2>4. job[j].steps = i - 1 /\ job[j].calls = i - 1
    BY <1>1 DEF JobInv, UnderWay
  <2> QED
    BY <1>1, <1>2, <1>3, <1>8, <1>9, <2>1, <2>3, <2>4 DEF UnderWay
<1>11. BudgetKept(j)'
  <2>1. /\ job[j].steps < job[j].budget.max_steps
        /\ clock - job[j].started < job[j].budget.max_duration
        /\ job[j].calls < job[j].budget.max_tool_calls
    <3>1. ~Exhausted(j)
      BY DEF BeginStep
    <3>2. /\ job[j].budget.max_steps \in Int /\ job[j].budget.max_duration \in Int
          /\ job[j].budget.max_tool_calls \in Int
      BY <1>1, BudgetOf
    <3>3. job[j].steps \in Int /\ job[j].calls \in Int
             /\ clock - job[j].started \in Int
      BY <1>1, BoundsAssumption DEF TypeOK, Job
    <3> QED
      BY <3>1, <3>2, <3>3 DEF Exhausted
  <2>2. i - 1 < job[j].budget.max_steps /\ i - 1 < job[j].budget.max_tool_calls
    BY <1>1, <2>1 DEF JobInv, UnderWay
  <2>3. job[j].budget.max_steps \in Int /\ job[j].budget.max_tool_calls \in Int
    BY <1>1, BudgetOf
  <2>4. i <= job[j].budget.max_steps /\ i <= job[j].budget.max_tool_calls
    BY <1>1, <2>2, <2>3
  <2> QED
    BY <1>3, <1>8, <1>9, <2>1, <2>4 DEF BudgetKept
<1>12. JobInv(j)'
  <2>1. NotBegun(j)' /\ ReportTold(j)'
    BY <1>3 DEF NotBegun, ReportTold
  <2>2. StateTold(j)'
    BY <1>3, <1>8 DEF StateTold, Over, Stream!Ended
  <2> QED
    BY <1>3, <1>8, <1>10, <1>11, <2>1, <2>2 DEF JobInv
<1>13. <<x>> \in Seq(Kinds)
  BY <1>4
<1> QED
  BY <1>3, <1>4, <1>12, <1>13, OneJob

-----------------------------------------------------------------------------
(* The end of a step: what it cites, what it writes, and that it is done.  *)

LEMMA CitesType ==
    ASSUME NEW docs \in Seq(Found)
    PROVE  LastDocs(docs) \in Seq(Found)
<1> DEFINE n == Len(docs) - ReadWindow + 1
           m == Max({1, n})
<1>1. Len(docs) \in Nat /\ n \in Int
  BY BoundsAssumption
<1>2. m \in Int /\ m >= 1
  <2> HIDE DEF n
  <2>1. \E x \in {1, n} : \A y \in {1, n} : x >= y
    BY <1>1
  <2>2. m \in {1, n} /\ \A y \in {1, n} : m >= y
    BY <2>1 DEF Max
  <2> QED
    BY <1>1, <2>2
<1> HIDE DEF m
<1>3. SubSeq(docs, m, Len(docs)) \in Seq(Found)
  BY <1>1, <1>2
<1> QED
  BY <1>3 DEF m, LastDocs

LEMMA ResultsType ==
    ASSUME NEW j, NEW type, NEW found \in Results(j, type)
    PROVE  found \in Seq(Found)
<1>1. <<>> \in Seq(Found) /\ <<Simulated>> \in Seq(Found)
  BY DEF Found
<1>2. ASSUME NEW h \in BoundedSeq(Docs, NumResults) PROVE h \in Seq(Found)
  <2>1. PICK n \in 0..NumResults : h \in [1..n -> Docs]
    BY <1>2 DEF BoundedSeq, SeqOf
  <2>2. n \in Nat
    BY <2>1, BoundsAssumption
  <2> QED
    BY <2>1, <2>2 DEF Found
<1> QED
  BY <1>1, <1>2 DEF Results, Hits

\* What a step tells, in order.
Telling(cites, chunk, i) ==
    [k \in DOMAIN cites |-> Cites(cites[k], i)]
        \o [k \in DOMAIN chunk |-> OfStep("report_chunk", i)]
        \o <<OfStep("step_completed", i)>>

LEMMA TellingIs ==
    ASSUME NEW cites \in Seq(Found), NEW chunk \in Seq(Nat), NEW i \in Nat
    PROVE  /\ Telling(cites, chunk, i) \in Seq(Kinds)
           /\ Len(Telling(cites, chunk, i)) = Len(cites) + Len(chunk) + 1
           /\ \A k \in 1..Len(cites) : Telling(cites, chunk, i)[k] = Cites(cites[k], i)
           /\ \A k \in 1..Len(chunk) :
                  Telling(cites, chunk, i)[Len(cites) + k] = OfStep("report_chunk", i)
           /\ Telling(cites, chunk, i)[Len(cites) + Len(chunk) + 1]
                  = OfStep("step_completed", i)
<1> DEFINE A == [k \in DOMAIN cites |-> Cites(cites[k], i)]
           B == [k \in DOMAIN chunk |-> OfStep("report_chunk", i)]
           C == <<OfStep("step_completed", i)>>
<1>1. Len(cites) \in Nat /\ Len(chunk) \in Nat
  OBVIOUS
<1>2. \A k \in 1..Len(cites) : cites[k] \in Found
  BY ElementOfSeq
<1>3. /\ A \in Seq(Kinds) /\ Len(A) = Len(cites)
      /\ \A k \in 1..Len(cites) : A[k] = Cites(cites[k], i)
  <2>1. \A k \in 1..Len(cites) : Cites(cites[k], i) \in Kinds
    BY <1>2 DEF Cites, Kinds, EventTypes
  <2>2. DOMAIN cites = 1..Len(cites)
    OBVIOUS
  <2> QED
    BY <1>1, <2>1, <2>2
<1>4. /\ B \in Seq(Kinds) /\ Len(B) = Len(chunk)
      /\ \A k \in 1..Len(chunk) : B[k] = OfStep("report_chunk", i)
  <2>1. OfStep("report_chunk", i) \in Kinds
    BY DEF OfStep, Kinds, EventTypes
  <2>2. DOMAIN chunk = 1..Len(chunk)
    OBVIOUS
  <2> QED
    BY <1>1, <2>1, <2>2
<1>5. C \in Seq(Kinds) /\ Len(C) = 1 /\ C[1] = OfStep("step_completed", i)
  <2>1. OfStep("step_completed", i) \in Kinds
    BY DEF OfStep, Kinds, EventTypes
  <2> QED
    BY <2>1
<1>6. Telling(cites, chunk, i) = A \o B \o C
  BY DEF Telling
<1> HIDE DEF A, B, C
<1>7. /\ A \o B \in Seq(Kinds) /\ Len(A \o B) = Len(cites) + Len(chunk)
      /\ \A k \in 1..Len(cites) : (A \o B)[k] = Cites(cites[k], i)
      /\ \A k \in 1..Len(chunk) : (A \o B)[Len(cites) + k] = OfStep("report_chunk", i)
  <2>1. /\ A \o B \in Seq(Kinds) /\ Len(A \o B) = Len(A) + Len(B)
        /\ \A k \in 1..(Len(A) + Len(B)) :
               (A \o B)[k] = IF k <= Len(A) THEN A[k] ELSE B[k - Len(A)]
    BY <1>3, <1>4, ConcatProperties
  <2>2. \A k \in 1..Len(cites) : k \in 1..(Len(A) + Len(B)) /\ k <= Len(A)
    BY <1>1, <1>3, <1>4
  <2>3. \A k \in 1..Len(chunk) : /\ Len(cites) + k \in 1..(Len(A) + Len(B))
                                 /\ ~(Len(cites) + k <= Len(A))
                                 /\ Len(cites) + k - Len(A) = k
    BY <1>1, <1>3, <1>4
  <2> QED
    BY <1>3, <1>4, <2>1, <2>2, <2>3
<1> DEFINE AB == A \o B
<1> HIDE DEF AB
<1>8. /\ AB \o C \in Seq(Kinds) /\ Len(AB \o C) = Len(cites) + Len(chunk) + 1
      /\ \A k \in 1..(Len(cites) + Len(chunk)) : (AB \o C)[k] = AB[k]
      /\ (AB \o C)[Len(cites) + Len(chunk) + 1] = OfStep("step_completed", i)
  <2>1. AB \in Seq(Kinds) /\ Len(AB) = Len(cites) + Len(chunk)
    BY <1>7 DEF AB
  <2>2. /\ AB \o C \in Seq(Kinds) /\ Len(AB \o C) = Len(AB) + Len(C)
        /\ \A k \in 1..(Len(AB) + Len(C)) :
               (AB \o C)[k] = IF k <= Len(AB) THEN AB[k] ELSE C[k - Len(AB)]
    <3>1. AB \in Seq(Kinds) /\ C \in Seq(Kinds)
      BY <1>5, <2>1
    <3> QED
      BY <3>1, ConcatProperties
  <2>3. \A k \in 1..(Len(cites) + Len(chunk)) :
            k \in 1..(Len(AB) + Len(C)) /\ k <= Len(AB)
    BY <1>1, <1>5, <2>1
  <2>4. /\ Len(cites) + Len(chunk) + 1 \in 1..(Len(AB) + Len(C))
        /\ ~(Len(cites) + Len(chunk) + 1 <= Len(AB))
        /\ Len(cites) + Len(chunk) + 1 - Len(AB) = 1
    BY <1>1, <1>5, <2>1
  <2> QED
    BY <1>5, <2>1, <2>2, <2>3, <2>4
<1>9. /\ \A k \in 1..Len(cites) : k \in 1..(Len(cites) + Len(chunk))
      /\ \A k \in 1..Len(chunk) : Len(cites) + k \in 1..(Len(cites) + Len(chunk))
  BY <1>1
<1>10. Telling(cites, chunk, i) = AB \o C
  BY <1>6 DEF AB
<1>11. /\ \A k \in 1..Len(cites) : AB[k] = Cites(cites[k], i)
       /\ \A k \in 1..Len(chunk) : AB[Len(cites) + k] = OfStep("report_chunk", i)
  BY <1>7 DEF AB
<1> QED
  BY <1>8, <1>9, <1>10, <1>11

LEMMA OfTypeConcat ==
    ASSUME NEW s \in Seq(Event), NEW t \in Seq(Event), NEW c,
           \A i \in 1..Len(t) : t[i].type # c
    PROVE  OfType(s \o t, c) = OfType(s, c)
<1>1. /\ Len(s) \in Nat /\ Len(t) \in Nat /\ DOMAIN s = 1..Len(s)
      /\ DOMAIN (s \o t) = 1..(Len(s) + Len(t))
      /\ \A i \in 1..Len(s) : (s \o t)[i] = s[i]
      /\ \A i \in 1..Len(t) : (s \o t)[Len(s) + i] = t[i]
  OBVIOUS
<1> DEFINE w == s \o t
<1> HIDE DEF w
<1>2. ASSUME NEW i \in 1..(Len(s) + Len(t)), i \notin 1..Len(s) PROVE w[i].type # c
  <2>1. i - Len(s) \in 1..Len(t) /\ i = Len(s) + (i - Len(s))
    BY <1>1, <1>2
  <2>2. w[i] = t[i - Len(s)]
    BY <1>1, <2>1 DEF w
  <2> QED
    BY <2>1, <2>2
<1>3. OfType(w, c) = OfType(s, c)
  BY <1>1, <1>2 DEF OfType, w
<1> QED
  BY <1>3 DEF w

\* Events that tell the citations and the text of one step, then its end.
LEMMA StepTold ==
    ASSUME NEW s \in Seq(Event), NEW t \in Seq(Event),
           NEW cites \in Seq(Found), NEW chunk \in Seq(Nat), Len(chunk) <= 1,
           Len(t) = Len(cites) + Len(chunk) + 1,
           \A k \in 1..Len(cites) : t[k].type = "citation" /\ t[k].doc = cites[k],
           \A k \in 1..Len(chunk) : /\ t[Len(cites) + k].type = "report_chunk"
                                    /\ t[Len(cites) + k].step = chunk[k],
           t[Len(t)].type = "step_completed"
    PROVE  /\ CitedDocs(s \o t) = CitedDocs(s) \o cites
           /\ ChunksOf(s \o t) = ChunksOf(s) \o chunk
<1> DEFINE n == Len(cites)
           a == SubSeq(t, 1, n)
           u == s \o a
           v == s \o SubSeq(t, 1, n + 1)
<1>1. n \in Nat /\ Len(chunk) \in {0, 1} /\ Len(t) \in Nat
  <2>1. n \in Nat /\ Len(chunk) \in Nat /\ Len(t) \in Nat
    OBVIOUS
  <2>2. \A x \in Nat : x <= 1 => x \in {0, 1}
    OBVIOUS
  <2>3. Len(chunk) <= 1
    OBVIOUS
  <2> QED
    BY <2>1, <2>2, <2>3
<1>2. /\ a \in Seq(Event) /\ Len(a) = n /\ \A k \in 1..n : a[k] = t[k]
  BY <1>1
<1>3. u \in Seq(Event) /\ t[n + 1] \in Event /\ v = Append(u, t[n + 1]) /\ v \in Seq(Event)
  <2>1. n + 1 <= Len(t) /\ n + 1 \in 1..Len(t)
    BY <1>1
  <2>2. t[n + 1] \in Event
    BY ONLY <2>1, t \in Seq(Event)
  <2>3. v = Append(u, t[n + 1])
    BY <1>1, <2>1, ConcatSteps
  <2> HIDE DEF a
  <2>4. u \in Seq(Event)
    BY ONLY <1>2, s \in Seq(Event)
  <2> HIDE DEF u
  <2>5. Append(u, t[n + 1]) \in Seq(Event)
    BY ONLY <2>2, <2>4
  <2> QED
    BY ONLY <2>2, <2>3, <2>4, <2>5
<1> HIDE DEF a
<1>4. CitedDocs(u) = CitedDocs(s) \o cites /\ ChunksOf(u) = ChunksOf(s)
  <2> DEFINE docs == [k \in 1..Len(a) |-> a[k].doc]
  <2>1. \A k \in 1..Len(a) : a[k].type = "citation"
    BY <1>2
  <2>2. docs = cites
    <3>1. \A k \in 1..Len(a) : a[k].doc = cites[k]
      BY <1>2
    <3>2. cites = [k \in 1..n |-> cites[k]]
      OBVIOUS
    <3> QED
      BY <1>2, <3>1, <3>2
  <2>3. CitedDocs(s \o a) = CitedDocs(s) \o docs /\ ChunksOf(s \o a) = ChunksOf(s)
    BY <1>2, <2>1, CitationsTold
  <2> QED
    BY <2>2, <2>3
<1> HIDE DEF u, v
<1>5. CASE Len(chunk) = 0
  <2>1. v = s \o t
    <3>1. Len(t) = n + 1
      BY <1>1, <1>5
    <3>2. SubSeq(t, 1, Len(t)) = t
      BY ConcatSteps
    <3> QED
      BY <3>1, <3>2 DEF v
  <2>2. t[n + 1].type = "step_completed"
    BY <1>1, <1>5
  <2>3. CitedDocs(v) = CitedDocs(u) /\ ChunksOf(v) = ChunksOf(u)
    BY <1>3, <2>2, CitedAppend, ChunksAppend
  <2>4. ChunksOf(s) \o chunk = ChunksOf(s)
    <3>1. chunk = <<>> /\ ChunksOf(s) \in Seq(Nat)
      BY <1>5, <1>3, ChunksAppend
    <3> QED
      BY <3>1
  <2> QED
    BY <1>4, <2>1, <2>3, <2>4
<1>6. CASE Len(chunk) = 1
  <2>1. Len(t) = n + 2 /\ n + 1 + 1 = n + 2 /\ n + 1 \in Nat
    BY <1>1, <1>6
  <2>2. s \o t = Append(v, t[n + 2]) /\ t[n + 2] \in Event
    <3>1. SubSeq(t, 1, n + 2) = t
      BY <2>1, ConcatSteps
    <3>2. n + 1 + 1 <= Len(t)
      BY <1>1, <2>1
    <3>3. /\ t[n + 1 + 1] \in Event
          /\ s \o SubSeq(t, 1, n + 1 + 1) = Append(s \o SubSeq(t, 1, n + 1), t[n + 1 + 1])
      BY <2>1, <3>2, ConcatSteps
    <3> QED
      BY <2>1, <3>1, <3>3 DEF v
  <2>3. t[n + 2].type = "step_completed"
    BY <2>1
  <2>4. t[n + 1].type = "report_chunk" /\ t[n + 1].step = chunk[1]
    BY <1>6
  <2> DEFINE e == t[n + 1]
             d == t[n + 2]
  <2>8. /\ u \in Seq(Event) /\ v \in Seq(Event) /\ e \in Event /\ d \in Event
        /\ v = Append(u, e) /\ s \o t = Append(v, d)
        /\ e.type = "report_chunk" /\ e.step = chunk[1] /\ d.type = "step_completed"
    BY <1>3, <2>2, <2>3, <2>4
  <2> HIDE DEF e, d, n
  <2>5. CitedDocs(v) = CitedDocs(u) /\ ChunksOf(v) = Append(ChunksOf(u), chunk[1])
    <3>1. CitedDocs(v) = CitedDocs(u)
      BY <2>8, CitedAppend
    <3>2. ChunksOf(v) = Append(ChunksOf(u), chunk[1])
      BY <2>8, ChunksAppend
    <3> QED
      BY <3>1, <3>2
  <2>6. CitedDocs(s \o t) = CitedDocs(v) /\ ChunksOf(s \o t) = ChunksOf(v)
    <3>1. CitedDocs(Append(v, d)) = CitedDocs(v)
      BY <2>8, CitedAppend
    <3>2. ChunksOf(Append(v, d)) = ChunksOf(v)
      BY <2>8, ChunksAppend
    <3> QED
      BY <2>8, <3>1, <3>2
  <2>7. Append(ChunksOf(s), chunk[1]) = ChunksOf(s) \o chunk
    <3>1. ChunksOf(s) \in Seq(Nat) /\ chunk[1] \in Nat
      <4>1. ChunksOf(s) \in Seq(Nat)
        BY <2>8, ChunksAppend
      <4>2. chunk[1] \in Nat
        BY <1>6, 1 \in 1..Len(chunk), ElementOfSeq
      <4> QED
        BY <4>1, <4>2
    <3>2. chunk = <<chunk[1]>>
      BY <1>6
    <3>3. Append(ChunksOf(s), chunk[1]) = ChunksOf(s) \o <<chunk[1]>>
      BY <3>1, AppendIsConcat
    <3> QED
      BY <3>2, <3>3
  <2> QED
    BY <1>4, <2>5, <2>6, <2>7
<1> QED
  BY <1>1, <1>5, <1>6

LEMMA ToldByStep ==
    ASSUME TypeOK, NEW j \in Jobs, NEW type, NEW i \in Nat
    PROVE  /\ Citations(j, type) \in Seq(Found)
           /\ Chunk(i, type) \in Seq(Nat) /\ Len(Chunk(i, type)) <= 1
           /\ \A k \in 1..Len(Chunk(i, type)) : Chunk(i, type)[k] = i
<1>1. job[j].docs \in Seq(Found)
  BY DEF TypeOK, Job
<1>2. Citations(j, type) \in Seq(Found)
  <2>1. LastDocs(job[j].docs) \in Seq(Found) /\ <<>> \in Seq(Found)
    BY <1>1, CitesType
  <2> QED
    BY <2>1 DEF Citations
<1>3. /\ Chunk(i, type) \in Seq(Nat) /\ Len(Chunk(i, type)) <= 1
      /\ \A k \in 1..Len(Chunk(i, type)) : Chunk(i, type)[k] = i
  BY DEF Chunk
<1> QED
  BY <1>2, <1>3

LEMMA CompleteStepKeeps ==
    ASSUME Inv, NEW j \in Jobs, CompleteStep(j)
    PROVE  Inv'
<1> DEFINE i == job[j].next
           type == job[j].plan[i]
           cites == Citations(j, type)
           chunk == Chunk(i, type)
           kinds == Telling(cites, chunk, i)
           s == emitted[j]
           t == Stamp(j, kinds)
           w == s \o t
<1>1. /\ TypeOK /\ JobInv(j) /\ job[j].open /\ job[j].state = "running"
      /\ i \in Nat /\ Len(job[j].plan) \in Nat /\ job[j] \in Job
      /\ i \in 1..(Len(job[j].plan) + 1) /\ i <= Len(job[j].plan)
      /\ i = job[j].next /\ s = emitted[j]
  <2>1. TypeOK /\ JobInv(j) /\ job[j].open
    BY DEF Inv, CompleteStep
  <2> QED
    BY <2>1, PlanOf DEF JobInv, UnderWay
<1>2. cites \in Seq(Found) /\ chunk \in Seq(Nat) /\ Len(chunk) <= 1
      /\ \A k \in 1..Len(chunk) : chunk[k] = i
  BY <1>1, ToldByStep
<1>3. PICK found \in Results(j, type) :
          job' = [job EXCEPT ![j].open = FALSE, ![j].next = @ + 1,
                             ![j].calls = @ + 1, ![j].steps = @ + 1,
                             ![j].docs = @ \o found, ![j].citations = @ \o cites,
                             ![j].chunks = @ \o chunk]
  BY DEF CompleteStep
<1>4. Emit(j, kinds) /\ UNCHANGED <<clock, reader>>
  BY DEF CompleteStep, Telling
<1> HIDE DEF type, cites, chunk, i, s
<1>5. /\ kinds \in Seq(Kinds)
      /\ Len(kinds) = Len(cites) + Len(chunk) + 1
      /\ \A k \in 1..Len(cites) : kinds[k] = Cites(cites[k], i)
      /\ \A k \in 1..Len(chunk) : kinds[Len(cites) + k] = OfStep("report_chunk", i)
      /\ kinds[Len(cites) + Len(chunk) + 1] = OfStep("step_completed", i)
  <2>1. cites \in Seq(Found) /\ chunk \in Seq(Nat) /\ i \in Nat
    BY <1>1, <1>2
  <2> QED
    BY <2>1, TellingIs
<1>6. /\ job' \in [Jobs -> Job] /\ \A k \in Jobs \ {j} : job'[k] = job[k]
      /\ job'[j].state = "running" /\ job'[j].open = FALSE
      /\ job'[j].plan = job[j].plan /\ job'[j].next = i + 1
      /\ job'[j].steps = job[j].steps + 1 /\ job'[j].calls = job[j].calls + 1
      /\ job'[j].citations = job[j].citations \o cites
      /\ job'[j].chunks = job[j].chunks \o chunk
      /\ job'[j].budget = job[j].budget /\ job'[j].started = job[j].started
  <2> DEFINE r == [job[j] EXCEPT !.open = FALSE, !.next = @ + 1,
                                 !.calls = @ + 1, !.steps = @ + 1,
                                 !.docs = @ \o found, !.citations = @ \o cites,
                                 !.chunks = @ \o chunk]
  <2>1. /\ job[j].docs \o found \in Seq(Found)
        /\ job[j].citations \o cites \in Seq(Found)
        /\ job[j].chunks \o chunk \in Seq(Nat)
    <3>1. found \in Seq(Found)
      BY ResultsType
    <3>2. /\ job[j].docs \in Seq(Found) /\ job[j].citations \in Seq(Found)
          /\ job[j].chunks \in Seq(Nat)
      BY <1>1 DEF Job
    <3> QED
      BY <1>2, <3>1, <3>2, ConcatProperties
  <2> DEFINE docs == job[j].docs \o found
             cited == job[j].citations \o cites
             written == job[j].chunks \o chunk
             q == [job[j] EXCEPT !.open = FALSE, !.next = i + 1,
                                 !.calls = job[j].calls + 1, !.steps = job[j].steps + 1,
                                 !.docs = docs, !.citations = cited,
                                 !.chunks = written]
  <2>2. job[j].calls + 1 \in Nat /\ job[j].steps + 1 \in Nat /\ i + 1 \in Nat
    BY <1>1 DEF Job
  <2>3. r = q
    BY <1>1
  <2>4. job' = [job EXCEPT ![j] = r]
    BY <1>3
  <2>5. job' = [job EXCEPT ![j] = q]
    BY <2>3, <2>4
  <2> HIDE DEF docs, cited, written
  <2>6. /\ q \in Job /\ q.state = "running" /\ q.open = FALSE
        /\ q.plan = job[j].plan /\ q.next = i + 1
        /\ q.steps = job[j].steps + 1 /\ q.calls = job[j].calls + 1
        /\ q.citations = cited /\ q.chunks = written
        /\ q.budget = job[j].budget /\ q.started = job[j].started
    <3>1. docs \in Seq(Found) /\ cited \in Seq(Found) /\ written \in Seq(Nat)
      BY <2>1 DEF docs, cited, written
    <3> QED
      BY <1>1, <2>2, <3>1 DEF Job
  <2> HIDE DEF q
  <2>7. /\ job' \in [Jobs -> Job] /\ job'[j] = q
        /\ \A k \in Jobs \ {j} : job'[k] = job[k]
    BY <1>1, <2>5, <2>6, OneChanged
  <2> QED
    BY <2>6, <2>7 DEF cited, written
<1> HIDE DEF kinds
<1>7. /\ t \in Seq(Event) /\ Len(t) = Len(kinds) /\ Len(t) \in Nat
      /\ \A k \in 1..Len(t) :
            /\ t[k].id = counter[j] + k /\ t[k].type = kinds[k].type
            /\ t[k].step = kinds[k].step /\ t[k].doc = kinds[k].doc
  <2>1. TypeOK /\ kinds \in Seq(Kinds)
    BY <1>1, <1>5
  <2>2. /\ t \in Seq(Event) /\ Len(t) = Len(kinds)
        /\ \A k \in 1..Len(kinds) :
               t[k] = [id |-> counter[j] + k, type |-> kinds[k].type,
                       step |-> kinds[k].step, doc |-> kinds[k].doc]
    BY <2>1, StampProperties
  <2> HIDE DEF t
  <2>3. Len(t) \in Nat
    BY <2>2
  <2>4. \A k \in 1..Len(t) : /\ t[k].id = counter[j] + k /\ t[k].type = kinds[k].type
                             /\ t[k].step = kinds[k].step /\ t[k].doc = kinds[k].doc
    <3> SUFFICES ASSUME NEW k \in 1..Len(t)
                 PROVE  /\ t[k].id = counter[j] + k /\ t[k].type = kinds[k].type
                        /\ t[k].step = kinds[k].step /\ t[k].doc = kinds[k].doc
      OBVIOUS
    <3>1. k \in 1..Len(kinds)
      BY <2>2
    <3>2. t[k] = [id |-> counter[j] + k, type |-> kinds[k].type,
                  step |-> kinds[k].step, doc |-> kinds[k].doc]
      BY <2>2, <3>1
    <3> QED
      BY <3>2
  <2> QED
    BY <2>2, <2>3, <2>4
<1> HIDE DEF t
<1>8. /\ s \in Seq(Event) /\ s # <<>> /\ events[j] = s /\ counter[j] = Len(s)
      /\ Stream!WellFormed(s) /\ NoneTerminal(s) /\ InPlan(s, i, TRUE)
      /\ job[j].steps = i - 1 /\ job[j].calls = i - 1
      /\ job[j].citations = CitedDocs(s) /\ job[j].chunks = ChunksOf(s)
      /\ StepsStarted(j) = i /\ terminalAt[j] = NoTime
  BY <1>1 DEF TypeOK, JobInv, Buffered, UnderWay
<1>9. /\ Len(cites) \in Nat /\ Len(chunk) \in Nat
      /\ Len(t) = Len(cites) + Len(chunk) + 1 /\ 1 <= Len(t)
      /\ \A k \in 1..Len(cites) : k \in 1..Len(t)
      /\ \A k \in 1..Len(chunk) : Len(cites) + k \in 1..Len(t)
      /\ Len(t) \in 1..Len(t)
  <2>1. Len(cites) \in Nat /\ Len(chunk) \in Nat
    BY <1>2
  <2> QED
    BY <1>5, <1>7, <2>1
<1>10. /\ \A k \in 1..Len(cites) :
              t[k].type = "citation" /\ t[k].doc = cites[k] /\ t[k].step = i
       /\ \A k \in 1..Len(chunk) :
              t[Len(cites) + k].type = "report_chunk" /\ t[Len(cites) + k].step = i
       /\ t[Len(t)].type = "step_completed" /\ t[Len(t)].step = i
  <2>1. \A k \in 1..Len(cites) :
            t[k].type = "citation" /\ t[k].doc = cites[k] /\ t[k].step = i
    <3>1. \A k \in 1..Len(cites) : /\ t[k].type = kinds[k].type
                                   /\ t[k].doc = kinds[k].doc /\ t[k].step = kinds[k].step
      BY <1>7, <1>9
    <3>2. \A k \in 1..Len(cites) : kinds[k] = Cites(cites[k], i)
      BY <1>5
    <3>3. \A d : /\ Cites(d, i).type = "citation" /\ Cites(d, i).doc = d
                 /\ Cites(d, i).step = i
      BY DEF Cites
    <3> QED
      BY <3>1, <3>2, <3>3
  <2>2. \A k \in 1..Len(chunk) :
            t[Len(cites) + k].type = "report_chunk" /\ t[Len(cites) + k].step = i
    BY <1>5, <1>7, <1>9 DEF OfStep
  <2>3. t[Len(t)].type = "step_completed" /\ t[Len(t)].step = i
    BY <1>5, <1>7, <1>9 DEF OfStep
  <2> QED
    BY <2>1, <2>2, <2>3
<1>11. \A k \in 1..(Len(t) - 1) :
           \/ k \in 1..Len(cites)
           \/ \E m \in 1..Len(chunk) : k = Len(cites) + m
  <2> SUFFICES ASSUME NEW k \in 1..(Len(t) - 1), k \notin 1..Len(cites)
               PROVE  \E m \in 1..Len(chunk) : k = Len(cites) + m
    OBVIOUS
  <2>1. k - Len(cites) \in 1..Len(chunk) /\ k = Len(cites) + (k - Len(cites))
    BY <1>9
  <2> QED
    BY <2>1
<1>12. \A k \in 1..(Len(t) - 1) :
           t[k].type \in {"citation", "report_chunk"} /\ t[k].step = i
  BY <1>10, <1>11
<1>13. Stream!WellFormed(w)
  <2>1. PICK m \in 1..Len(s) : /\ LastMarkAt(s, m)
                                /\ s[m].type = "step_started" /\ s[m].step = i
    BY <1>8 DEF InPlan
  <2>2. Due(s, t[Len(t)])
    BY <1>8, <1>10, <2>1
       DEF Due, MarkDue, Stream!Findings, Stream!Marks, Stream!Follows, Terminal
  <2>3. StepOpen(s, i)
    <3>1. \A k \in 1..Len(s) : ~(s[k].type = "step_completed" /\ s[k].step = i)
      BY <1>1, <1>8 DEF InPlan
    <3> QED
      BY <2>1, <3>1 DEF StepOpen
  <2>4. t[Len(t)].type \notin Terminal
    BY <1>10 DEF Terminal
  <2>5. \A k \in 1..(Len(t) - 1) : t[k].type \in Stream!Findings /\ t[k].step = i
    BY <1>12 DEF Stream!Findings
  <2>6. \A k \in 1..Len(t) : t[k].id = Len(s) + k
    BY <1>7, <1>8
  <2>7. t # <<>>
    BY <1>9
  <2> QED
    BY <1>7, <1>8, <2>2, <2>3, <2>4, <2>5, <2>6, <2>7, Grow
<1>14. CitedDocs(w) = CitedDocs(s) \o cites /\ ChunksOf(w) = ChunksOf(s) \o chunk
  <2>1. \A k \in 1..Len(chunk) : t[Len(cites) + k].step = chunk[k]
    BY <1>2, <1>10
  <2> QED
    BY <1>2, <1>7, <1>8, <1>9, <1>10, <2>1, StepTold
<1>15. /\ emitted'[j] = w /\ events'[j] = w /\ counter'[j] = Len(s) + Len(t)
       /\ terminalAt'[j] = NoTime
       /\ lastAt'[j]["step_started"] = lastAt[j]["step_started"]
  <2>1. \A k \in 1..Len(kinds) : kinds[k].type \notin Terminal /\ kinds[k].type # "step_started"
    <3>1. \A k \in 1..Len(t) : k \in 1..(Len(t) - 1) \/ k = Len(t)
      BY <1>9
    <3>2. \A k \in 1..Len(t) : t[k].type \in {"citation", "report_chunk", "step_completed"}
      BY <1>10, <1>12, <3>1
    <3>3. \A k \in 1..Len(kinds) : kinds[k].type \in {"citation", "report_chunk", "step_completed"}
      BY <1>7, <3>2
    <3> QED
      BY <3>3 DEF Terminal
  <2>2. DOMAIN kinds = 1..Len(kinds)
    BY <1>5
  <2>3. TerminalTime(j, kinds) = NoTime
    BY <1>8, <2>1, <2>2 DEF TerminalTime
  <2>4. /\ emitted'[j] = s \o Stamp(j, kinds) /\ events'[j] = s \o Stamp(j, kinds)
        /\ counter'[j] = Len(s) + Len(kinds) /\ terminalAt'[j] = NoTime
    <3>1. /\ emitted'[j] = emitted[j] \o Stamp(j, kinds)
          /\ events'[j] = events[j] \o Stamp(j, kinds)
          /\ counter'[j] = counter[j] + Len(kinds)
          /\ terminalAt'[j] = TerminalTime(j, kinds)
      <4>1. TypeOK /\ kinds \in Seq(Kinds) /\ Emit(j, kinds)
        BY <1>1, <1>4, <1>5
      <4> QED
        BY <4>1, EmitProperties
    <3> QED
      BY <1>1, <1>8, <2>3, <3>1
  <2>5. lastAt'[j]["step_started"] = lastAt[j]["step_started"]
    <3>1. lastAt'[j]["step_started"] =
              IF \E k \in 1..Len(kinds) : kinds[k].type = "step_started"
              THEN clock ELSE lastAt[j]["step_started"]
      BY <1>1, <1>4, <1>5, EmitProperties
    <3> QED
      BY <2>1, <3>1
  <2> QED
    BY <1>7, <2>4, <2>5 DEF t
<1>16. /\ w \in Seq(Event) /\ Len(w) = Len(s) + Len(t) /\ w # <<>> /\ Len(s) \in Nat
       /\ \A k \in 1..Len(s) : w[k] = s[k]
       /\ \A k \in 1..Len(t) : w[Len(s) + k] = t[k]
       /\ w[Len(w)] = t[Len(t)]
       /\ \A k \in 1..Len(w) : \/ k \in 1..Len(s) \/ k = Len(w)
                               \/ \E m \in 1..(Len(t) - 1) : k = Len(s) + m
  <2>1. /\ w \in Seq(Event) /\ Len(w) = Len(s) + Len(t) /\ Len(s) \in Nat
        /\ \A k \in 1..Len(s) : w[k] = s[k]
        /\ \A k \in 1..Len(t) : w[Len(s) + k] = t[k]
    BY <1>7, <1>8
  <2> HIDE DEF w
  <2>2. w[Len(w)] = t[Len(t)] /\ Len(w) > 0
    BY <1>9, <2>1
  <2>3. ASSUME NEW k \in 1..Len(w), k \notin 1..Len(s), k # Len(w)
        PROVE  \E m \in 1..(Len(t) - 1) : k = Len(s) + m
    <3>1. k - Len(s) \in 1..(Len(t) - 1) /\ k = Len(s) + (k - Len(s))
      <4>1. Len(t) \in Nat /\ Len(s) \in Nat /\ k \in Nat /\ k > Len(s) /\ k < Len(s) + Len(t)
        BY <1>7, <2>1, <2>3
      <4> QED
        BY <4>1
    <3> QED
      BY <3>1
  <2> QED
    BY <2>1, <2>2, <2>3
<1> HIDE DEF w
<1>17. \A k \in 1..Len(w) :
           \/ k \in 1..Len(s) /\ w[k] = s[k]
           \/ k = Len(w) /\ w[k].type = "step_completed" /\ w[k].step = i
           \/ w[k].type \in {"citation", "report_chunk"}
  <2>1. \A m \in 1..(Len(t) - 1) : w[Len(s) + m].type \in {"citation", "report_chunk"}
    <3>1. \A m \in 1..(Len(t) - 1) : m \in 1..Len(t)
      BY <1>9
    <3> QED
      BY <1>12, <1>16, <3>1
  <2> QED
    BY <1>10, <1>16, <2>1
<1>18. StepsStarted(j)' = i
  <2>1. \A k \in 1..Len(t) : t[k].type # "step_started"
    <3>1. \A k \in 1..Len(t) : k \in 1..(Len(t) - 1) \/ k = Len(t)
      BY <1>9
    <3> QED
      BY <1>10, <1>12, <3>1
  <2>2. OfType(w, "step_started") = OfType(s, "step_started")
    BY <1>7, <1>8, <2>1, OfTypeConcat DEF w
  <2>3. Cardinality(OfType(emitted[j], "step_started")) = i
    BY <1>8 DEF StepsStarted
  <2>4. Cardinality(OfType(emitted'[j], "step_started")) = i
    BY <1>1, <1>15, <2>2, <2>3
  <2> QED
    BY <2>4 DEF StepsStarted
<1>19. Buffered(j)'
  <2>1. \A k \in 1..Len(s) : s[k].type = "citation" => s[k].doc \in Found
    BY <1>1 DEF JobInv, Buffered
  <2>2. \A m \in 1..(Len(t) - 1) : t[m].type = "citation" => t[m].doc \in Found
    <3>1. \A k \in 1..Len(cites) : cites[k] \in Found
      BY <1>2, ElementOfSeq
    <3> QED
      BY <1>10, <1>11, <3>1
  <2>3. \A k \in 1..Len(w) : w[k].type = "citation" => w[k].doc \in Found
    <3>1. \A m \in 1..(Len(t) - 1) : w[Len(s) + m] = t[m]
      <4>1. \A m \in 1..(Len(t) - 1) : m \in 1..Len(t)
        BY <1>9
      <4> QED
        BY <1>16, <4>1
    <3>2. w[Len(w)].type # "citation"
      BY <1>10, <1>16
    <3>3. ASSUME NEW k \in 1..Len(w), w[k].type = "citation" PROVE w[k].doc \in Found
      <4>1. CASE k \in 1..Len(s)
        BY <1>16, <2>1, <3>3, <4>1
      <4>2. CASE \E m \in 1..(Len(t) - 1) : k = Len(s) + m
        BY <2>2, <3>1, <3>3, <4>2
      <4> QED
        BY <1>16, <3>2, <3>3, <4>1, <4>2
    <3> QED
      BY <3>3
  <2> QED
    BY <1>15, <1>16, <2>3 DEF Buffered
<1>20. InPlan(w, i + 1, FALSE)
  <2>1. \A k \in 1..Len(s) : s[k].type = "step_completed" => s[k].step < i
    BY <1>8 DEF InPlan
  <2>2. \A k \in 1..Len(s) : s[k].step \in Nat
    <3>1. \A k \in 1..Len(s) : s[k] \in Event
      BY <1>8, ElementOfSeq
    <3>2. \A x \in Event : x.step \in Nat
      BY DEF Event
    <3> QED
      BY <3>1, <3>2
  <2>3. \A k \in 1..Len(w) : w[k].type = "step_completed" => w[k].step < i + 1
    <3> SUFFICES ASSUME NEW k \in 1..Len(w), w[k].type = "step_completed"
                 PROVE  w[k].step < i + 1
      OBVIOUS
    <3>1. CASE k \in 1..Len(s) /\ w[k] = s[k]
      BY <1>1, <2>1, <2>2, <3>1
    <3>2. CASE w[k].step = i
      BY <1>1, <3>2
    <3> QED
      BY <1>17, <3>1, <3>2
  <2>4. Len(w) \in 1..Len(w) /\ w[Len(w)].type = "step_completed" /\ w[Len(w)].step = i
    BY <1>9, <1>10, <1>16
  <2>5. LastMarkAt(w, Len(w))
    BY <1>9, <1>16, <2>4 DEF LastMarkAt, Stream!Marks
  <2>6. BetweenSteps(w)
    BY <2>4 DEF BetweenSteps
  <2> QED
    BY <1>1, <2>3, <2>4, <2>5, <2>6 DEF InPlan
<1>21. NoneTerminal(w)
  BY <1>8, <1>17 DEF NoneTerminal, Terminal
<1>22. UnderWay(j)'
  <2>1. InPlan(emitted'[j], job'[j].next, job'[j].open)
    BY <1>6, <1>15, <1>20
  <2>2. job'[j].next \in 1..(Len(job'[j].plan) + 1) /\ ~job'[j].open
    BY <1>1, <1>6
  <2>3. job'[j].steps = job'[j].next - 1 /\ job'[j].calls = job'[j].next - 1
    BY <1>1, <1>6, <1>8
  <2>4. StepsStarted(j)' = job'[j].next - 1
    BY <1>1, <1>6, <1>18
  <2>5. job'[j].citations = CitedDocs(emitted'[j]) /\ job'[j].chunks = ChunksOf(emitted'[j])
    BY <1>6, <1>8, <1>14, <1>15
  <2>6. /\ emitted'[j] # <<>> /\ events'[j] = emitted'[j] /\ terminalAt'[j] = NoTime
        /\ NoneTerminal(emitted'[j])
    BY <1>15, <1>16, <1>21
  <2> QED
    BY <2>1, <2>2, <2>3, <2>4, <2>5, <2>6 DEF UnderWay
<1>23. JobInv(j)'
  <2>1. NotBegun(j)' /\ ReportTold(j)'
    BY <1>6 DEF NotBegun, ReportTold
  <2>2. StateTold(j)'
    <3>1. ~Stream!Ended(w)
      BY <1>10, <1>16 DEF Stream!Ended, Stream!Last, Stream!Terminal
    <3>2. ~Over(j)'
      BY <1>6 DEF Over
    <3>3. Over(j)' \in BOOLEAN /\ Stream!Ended(emitted'[j]) \in BOOLEAN
      BY DEF Over, Stream!Ended
    <3>4. Over(j)' = Stream!Ended(emitted'[j])
      BY <1>15, <3>1, <3>2, <3>3
    <3> QED
      BY <3>2, <3>4 DEF StateTold
  <2>3. BudgetKept(j)'
    <3>1. BudgetKept(j)
      BY <1>1 DEF JobInv
    <3> QED
      BY <1>6, <1>8, <1>15, <1>18, <3>1 DEF BudgetKept
  <2>4. Stream!WellFormed(emitted'[j])
    BY <1>13, <1>15
  <2> QED
    BY <1>6, <1>19, <1>22, <2>1, <2>2, <2>3, <2>4 DEF JobInv
<1> QED
  BY <1>4, <1>5, <1>6, <1>23, OneJob

-----------------------------------------------------------------------------
(* The readers and the clean-up, which leave the jobs alone.               *)

\* What is replayed to a reader: what follows the last event it has, or
\* nothing when the events are gone.
LEMMA ReplayIs ==
    ASSUME Inv, NEW j \in Jobs, NEW n \in 0..Len(emitted[j])
    PROVE  /\ Replay(j, n) \in Seq(Event)
           /\ Replay(j, n) \in {<<>>, SubSeq(emitted[j], n + 1, Len(emitted[j]))}
<1>1. /\ events[j] \in Seq(Event) /\ emitted[j] \in Seq(Event)
      /\ events[j] \in {emitted[j], <<>>} /\ Stream!Numbered(emitted[j])
  BY DEF Inv, TypeOK, JobInv, Buffered, Stream!WellFormed
<1>2. Replay(j, n) \in Seq(Event)
  BY <1>1, PickedType DEF Replay
<1>3. CASE events[j] = <<>>
  <2>1. \A P : Picked(<<>>, P) = <<>>
    BY PickedEmpty
  <2> QED
    BY <1>2, <1>3, <2>1 DEF Replay
<1>4. CASE events[j] = emitted[j]
  <2> DEFINE s == emitted[j]
             P == {i \in DOMAIN s : s[i].id > n}
  <2>1. DOMAIN s = 1..Len(s) /\ s \in Seq(Event) /\ \A i \in 1..Len(s) : s[i].id = i
    BY <1>1 DEF Stream!Numbered
  <2>2. \A i \in 1..Len(s) : i \in P <=> i > n
    BY <2>1
  <2>3. Replay(j, n) = Picked(s, P)
    BY <1>4 DEF Replay
  <2> HIDE DEF P
  <2>4. Picked(s, P) = SubSeq(s, n + 1, Len(s))
    BY <2>1, <2>2, PickedSuffix
  <2> QED
    BY <1>2, <2>3, <2>4
<1> QED
  BY <1>1, <1>2, <1>3, <1>4

\* A reader's events are its job's, as far as it has got.
ReaderKept(c) == \E n \in 0..Len(emitted[reader[c].job]) :
                     reader[c].got = SubSeq(emitted[reader[c].job], 1, n)

ReadersKept == \A c \in Readers : ReaderKept(c)

LEMMA LastIdIs ==
    ASSUME Inv, NEW c \in Readers, ReaderKept(c)
    PROVE  /\ LastEventId(c) = Len(reader[c].got)
           /\ Len(reader[c].got) \in 0..Len(emitted[reader[c].job])
           /\ reader[c].got = SubSeq(emitted[reader[c].job], 1, Len(reader[c].got))
           /\ reader[c].job \in Jobs
<1> DEFINE j == reader[c].job
           s == emitted[j]
<1>1. j \in Jobs /\ s \in Seq(Event) /\ \A i \in 1..Len(s) : s[i].id = i
  BY DEF Inv, TypeOK, JobInv, Stream!WellFormed, Stream!Numbered
<1>2. PICK n \in 0..Len(s) : reader[c].got = SubSeq(s, 1, n)
  BY DEF ReaderKept
<1> HIDE DEF s, j
<1>3. /\ SubSeq(s, 1, n) \in Seq(Event) /\ Len(SubSeq(s, 1, n)) = n
      /\ \A i \in 1..n : SubSeq(s, 1, n)[i] = s[i]
  BY <1>1
<1>4. CASE n = 0
  <2>1. reader[c].got = <<>>
    BY <1>2, <1>3, <1>4
  <2> QED
    BY <1>1, <1>2, <1>3, <1>4, <2>1 DEF LastEventId, s, j
<1>5. CASE n # 0
  <2>1. n \in 1..n /\ n \in 1..Len(s)
    BY <1>1, <1>5
  <2>2. reader[c].got # <<>> /\ Last(reader[c].got) = s[n]
    BY <1>2, <1>3, <1>5, <2>1 DEF Last
  <2>3. LastEventId(c) = n
    BY <1>1, <2>1, <2>2 DEF LastEventId
  <2> QED
    BY <1>1, <1>2, <1>3, <2>3 DEF s, j
<1> QED
  BY <1>4, <1>5

LEMMA ReadEventsKeeps ==
    ASSUME Inv, ReadersKept, NEW c \in Readers, ReadEvents(c)
    PROVE  Inv' /\ ReadersKept'
<1> DEFINE j == reader[c].job
           s == emitted[j]
           got == reader[c].got
           m == Len(got)
           response == Replay(j, LastEventId(c))
<1>1. /\ TypeOK /\ j \in Jobs /\ s \in Seq(Event) /\ got \in Seq(Event)
      /\ m \in 0..Len(s) /\ LastEventId(c) = m /\ got = SubSeq(s, 1, m)
  BY LastIdIs DEF Inv, TypeOK, ReadersKept
<1>2. PICK n \in 1..Len(response) :
          reader' = [reader EXCEPT ![c].got = @ \o SubSeq(response, 1, n)]
  BY DEF ReadEvents
<1>3. UNCHANGED <<clock, job, events, terminalAt, counter, emitted, lastAt>>
  BY DEF ReadEvents
<1>4. response \in Seq(Event) /\ response \in {<<>>, SubSeq(s, m + 1, Len(s))}
  BY <1>1, ReplayIs
<1> HIDE DEF m, response, s
<1>5. response = SubSeq(s, m + 1, Len(s)) /\ Len(s) \in Nat /\ m \in Nat
  <2>1. response # <<>>
    BY <1>2, <1>4
  <2> QED
    BY <1>1, <1>4, <2>1
<1>6. /\ Len(response) = Len(s) - m /\ n \in 1..(Len(s) - m) /\ m + n \in 0..Len(s)
      /\ \A i \in 1..Len(response) : response[i] = s[m + i]
  BY <1>1, <1>2, <1>5
<1>7. /\ SubSeq(response, 1, n) \in Seq(Event) /\ Len(SubSeq(response, 1, n)) = n
      /\ \A i \in 1..n : SubSeq(response, 1, n)[i] = s[m + i]
  BY <1>1, <1>4, <1>6
<1>8. got \o SubSeq(response, 1, n) = SubSeq(s, 1, m + n)
  <2> DEFINE u == got \o SubSeq(response, 1, n)
             v == SubSeq(s, 1, m + n)
  <2>1. /\ v \in Seq(Event) /\ Len(v) = m + n
        /\ \A i \in 1..(m + n) : v[i] = s[i]
    BY <1>1, <1>5, <1>6
  <2>2. Len(got) = m /\ \A i \in 1..m : got[i] = s[i]
    BY <1>1, <1>5
  <2>3. /\ u \in Seq(Event) /\ Len(u) = m + n
        /\ \A i \in 1..(m + n) :
               u[i] = IF i <= m THEN got[i] ELSE SubSeq(response, 1, n)[i - m]
    BY <1>1, <1>7, <2>2, ConcatProperties
  <2>4. \A i \in 1..(m + n) : u[i] = s[i]
    <3> SUFFICES ASSUME NEW i \in 1..(m + n) PROVE u[i] = s[i]
      OBVIOUS
    <3>1. CASE i <= m
      <4>1. i \in 1..m
        BY <1>5, <3>1
      <4> QED
        BY <2>2, <2>3, <3>1, <4>1
    <3>2. CASE ~(i <= m)
      <4>1. i - m \in 1..n /\ m + (i - m) = i
        BY <1>5, <1>6, <3>2
      <4>2. SubSeq(response, 1, n)[i - m] = s[m + (i - m)]
        BY <1>7, <4>1
      <4> QED
        BY <2>3, <3>2, <4>1, <4>2
    <3> QED
      BY <3>1, <3>2
  <2> HIDE DEF u, v
  <2>5. u = v
    BY <2>1, <2>3, <2>4, SeqEqual
  <2> QED
    BY <2>5 DEF u, v
<1>9. reader' = [reader EXCEPT ![c].got = SubSeq(s, 1, m + n)]
  BY <1>2, <1>8
<1>10. SubSeq(s, 1, m + n) \in Seq(Event)
  BY <1>1, <1>6
<1>11. /\ reader' \in [Readers -> [job : Jobs, got : Seq(Event)]]
       /\ reader'[c].got = SubSeq(s, 1, m + n) /\ reader'[c].job = reader[c].job
       /\ \A d \in Readers \ {c} : reader'[d] = reader[d]
  <2> DEFINE got2 == SubSeq(s, 1, m + n)
  <2>1. got2 \in Seq(Event) /\ reader' = [reader EXCEPT ![c].got = got2]
    BY <1>9, <1>10
  <2> HIDE DEF got2
  <2>2. /\ reader' \in [Readers -> [job : Jobs, got : Seq(Event)]]
        /\ reader'[c].got = got2 /\ reader'[c].job = reader[c].job
        /\ \A d \in Readers \ {c} : reader'[d] = reader[d]
    BY <1>1, <2>1 DEF TypeOK
  <2> QED
    BY <2>2 DEF got2
<1>12. Inv'
  <2>1. TypeOK'
    BY <1>1, <1>3, <1>11 DEF TypeOK
  <2>2. \A k \in Jobs : JobInv(k)'
    <3> SUFFICES ASSUME NEW k \in Jobs PROVE JobInv(k)'
      OBVIOUS
    <3>1. JobInv(k)
      BY DEF Inv
    <3> QED
      BY <1>3, <3>1, Untouched
  <2> QED
    BY <2>1, <2>2 DEF Inv
<1>13. ASSUME NEW d \in Readers PROVE ReaderKept(d)'
  <2>1. CASE d = c
    BY <1>3, <1>6, <1>11, <2>1 DEF ReaderKept, s
  <2>2. CASE d # c
    BY <1>3, <1>11, <2>2 DEF ReaderKept, ReadersKept
  <2> QED
    BY <2>1, <2>2
<1> QED
  BY <1>12, <1>13 DEF ReadersKept

LEMMA CleanupExpiredKeeps ==
    ASSUME Inv, CleanupExpired
    PROVE  Inv'
<1> DEFINE expired == {j \in Jobs : Expired(j)}
<1>1. /\ TypeOK
      /\ events' = [j \in Jobs |-> IF j \in expired THEN <<>> ELSE events[j]]
      /\ terminalAt' = [j \in Jobs |-> IF j \in expired THEN NoTime ELSE terminalAt[j]]
      /\ UNCHANGED <<clock, job, counter, reader, emitted, lastAt>>
  BY DEF Inv, CleanupExpired
<1>2. TypeOK'
  <2>1. events' \in [Jobs -> Seq(Event)]
    BY <1>1 DEF TypeOK
  <2>2. terminalAt' \in [Jobs -> Nat \cup {NoTime}]
    BY <1>1 DEF TypeOK
  <2> QED
    BY <1>1, <2>1, <2>2 DEF TypeOK
<1>3. ASSUME NEW k \in Jobs PROVE JobInv(k)'
  <2>1. JobInv(k)
    BY DEF Inv
  <2>2. CASE k \in expired
    <3>1. job[k].state # "running"
      BY <2>1, <2>2 DEF Expired, JobInv, UnderWay
    <3>2. events'[k] = <<>> /\ terminalAt'[k] = NoTime
      BY <1>1, <2>2
    <3>3. Buffered(k)'
      BY <1>1, <2>1, <3>2 DEF JobInv, Buffered
    <3>4. NotBegun(k)' /\ UnderWay(k)'
      BY <1>1, <2>1, <3>1, <3>2 DEF JobInv, NotBegun, UnderWay
    <3>5. StateTold(k)' /\ ReportTold(k)' /\ BudgetKept(k)'
      BY <1>1, <2>1 DEF JobInv, StateTold, ReportTold, BudgetKept, StepsStarted, Over
    <3> QED
      BY <1>1, <2>1, <3>3, <3>4, <3>5 DEF JobInv
  <2>3. CASE k \notin expired
    <3>1. events'[k] = events[k] /\ terminalAt'[k] = terminalAt[k]
      BY <1>1, <2>3
    <3> QED
      BY <1>1, <2>1, <3>1, Untouched
  <2> QED
    BY <2>2, <2>3
<1> QED
  BY <1>2, <1>3 DEF Inv

-----------------------------------------------------------------------------
(* Every step of a job extends its stream, and no other step touches one.  *)

JobStep(j) ==
    \/ StartJob(j) \/ PlanFails(j) \/ BeginStep(j) \/ BudgetExceeded(j)
    \/ CompleteStep(j) \/ StepRaises(j) \/ JobSucceeds(j) \/ SchemaUnmet(j)

LEMMA JobStepKeeps ==
    ASSUME Inv, NEW j \in Jobs, JobStep(j)
    PROVE  Inv'
  BY StartJobKeeps, PlanFailsKeeps, BeginStepKeeps, BudgetExceededKeeps,
     CompleteStepKeeps, StepRaisesKeeps, JobSucceedsKeeps, SchemaUnmetKeeps DEF JobStep

LEMMA JobStepTells ==
    ASSUME Inv, NEW j \in Jobs, JobStep(j)
    PROVE  /\ job[j].state \in {"queued", "running"} /\ reader' = reader
           /\ \E kinds \in Seq(Kinds) : Len(kinds) > 0 /\ Emit(j, kinds)
<1>1. TypeOK /\ job[j].next \in Nat /\ (job[j].open => job[j].state = "running")
  BY PlanOf DEF Inv, JobInv
<1>2. ASSUME NEW x \in Kinds, Emit(j, <<x>>)
      PROVE  \E kinds \in Seq(Kinds) : Len(kinds) > 0 /\ Emit(j, kinds)
  <2>1. <<x>> \in Seq(Kinds) /\ Len(<<x>>) > 0
    OBVIOUS
  <2> QED
    BY <1>2, <2>1
<1>3. \A type \in EventTypes : \A i \in Nat : Plain(type) \in Kinds /\ OfStep(type, i) \in Kinds
  BY DEF Plain, OfStep, Kinds
<1>4. CASE StartJob(j)
  <2>1. Emit(j, <<Plain("plan_updated")>>)
    BY <1>4 DEF StartJob
  <2> QED
    BY <1>2, <1>3, <1>4, <2>1 DEF StartJob, EventTypes
<1>5. CASE PlanFails(j)
  <2>1. Emit(j, <<Plain("internal_error")>>)
    BY <1>5 DEF PlanFails
  <2> QED
    BY <1>2, <1>3, <1>5, <2>1 DEF PlanFails, EventTypes, Terminal
<1>6. CASE BeginStep(j)
  <2>1. Emit(j, <<OfStep("step_started", job[j].next)>>)
    BY <1>6 DEF BeginStep
  <2> QED
    BY <1>1, <1>2, <1>3, <1>6, <2>1 DEF BeginStep, BeforeStep, EventTypes
<1>7. CASE BudgetExceeded(j)
  <2>1. Emit(j, <<Plain("budget_exceeded")>>)
    BY <1>7 DEF BudgetExceeded
  <2> QED
    BY <1>2, <1>3, <1>7, <2>1 DEF BudgetExceeded, BeforeStep, EventTypes, Terminal
<1>8. CASE JobSucceeds(j)
  <2>1. Emit(j, <<Plain("done")>>)
    BY <1>8 DEF JobSucceeds
  <2> QED
    BY <1>2, <1>3, <1>8, <2>1 DEF JobSucceeds, PlanDone, EventTypes, Terminal
<1>9. CASE SchemaUnmet(j)
  <2>1. Emit(j, <<Plain("internal_error")>>)
    BY <1>9 DEF SchemaUnmet
  <2> QED
    BY <1>2, <1>3, <1>9, <2>1 DEF SchemaUnmet, PlanDone, EventTypes, Terminal
<1>10. CASE CompleteStep(j)
  <2> DEFINE i == job[j].next
             cites == Citations(j, job[j].plan[i])
             chunk == Chunk(i, job[j].plan[i])
             kinds == Telling(cites, chunk, i)
  <2>1. /\ cites \in Seq(Found) /\ chunk \in Seq(Nat) /\ i \in Nat
        /\ Len(cites) \in Nat /\ Len(chunk) \in Nat
    <3>1. cites \in Seq(Found) /\ chunk \in Seq(Nat) /\ i \in Nat
      BY <1>1, ToldByStep
    <3> HIDE DEF cites, chunk
    <3> QED
      BY <3>1
  <2>2. Emit(j, kinds)
    BY <1>10 DEF CompleteStep, Telling
  <2> HIDE DEF cites, chunk, i
  <2>3. kinds \in Seq(Kinds) /\ Len(kinds) = Len(cites) + Len(chunk) + 1
    BY <2>1, TellingIs
  <2> HIDE DEF kinds
  <2>4. Len(kinds) > 0
    BY <2>1, <2>3
  <2> QED
    BY <1>1, <1>10, <2>2, <2>3, <2>4 DEF CompleteStep
<1>11. CASE StepRaises(j)
  <2>1. Emit(j, <<Plain("internal_error")>>)
    BY <1>11 DEF StepRaises
  <2> QED
    BY <1>1, <1>2, <1>3, <1>11, <2>1 DEF StepRaises, EventTypes, Terminal
<1> QED
  BY <1>4, <1>5, <1>6, <1>7, <1>8, <1>9, <1>10, <1>11 DEF JobStep

LEMMA JobStepExtends ==
    ASSUME Inv, NEW j \in Jobs, JobStep(j)
    PROVE  /\ Stream!Extend(j)
           /\ \A k \in Jobs : \A n \in 0..Len(emitted[k]) :
                 /\ n \in 0..Len(emitted'[k])
                 /\ SubSeq(emitted'[k], 1, n) = SubSeq(emitted[k], 1, n)
<1>1. PICK kinds \in Seq(Kinds) : Len(kinds) > 0 /\ Emit(j, kinds)
  BY JobStepTells
<1> DEFINE s == emitted[j]
           t == Stamp(j, kinds)
<1>2. /\ TypeOK /\ s \in Seq(Event) /\ t \in Seq(Event) /\ Len(t) > 0
      /\ emitted'[j] = s \o t /\ emitted' \in [Jobs -> Seq(Event)]
      /\ \A k \in Jobs \ {j} : emitted'[k] = emitted[k]
  <2>1. TypeOK
    BY DEF Inv
  <2>2. Len(t) = Len(kinds) /\ t \in Seq(Event)
    BY <1>1, <2>1, StampProperties
  <2>3. /\ emitted'[j] = s \o t /\ emitted' \in [Jobs -> Seq(Event)]
        /\ \A k \in Jobs \ {j} : emitted'[k] = emitted[k]
    BY <1>1, <2>1, EmitProperties
  <2> QED
    BY <1>1, <2>1, <2>2, <2>3 DEF TypeOK
<1> HIDE DEF t
<1>3. \A n \in 0..Len(s) : /\ n \in 0..Len(s \o t)
                            /\ SubSeq(s \o t, 1, n) = SubSeq(s, 1, n)
  <2> SUFFICES ASSUME NEW n \in 0..Len(s)
               PROVE  n \in 0..Len(s \o t) /\ SubSeq(s \o t, 1, n) = SubSeq(s, 1, n)
    OBVIOUS
  <2> DEFINE w == s \o t
  <2>1. /\ w \in Seq(Event) /\ Len(w) = Len(s) + Len(t) /\ Len(s) \in Nat /\ Len(t) \in Nat
        /\ \A i \in 1..Len(s) : w[i] = s[i]
    BY <1>2
  <2> HIDE DEF w, s
  <2>2. /\ SubSeq(w, 1, n) \in Seq(Event) /\ Len(SubSeq(w, 1, n)) = n
        /\ \A i \in 1..n : SubSeq(w, 1, n)[i] = w[i]
    BY <2>1
  <2>3. /\ SubSeq(s, 1, n) \in Seq(Event) /\ Len(SubSeq(s, 1, n)) = n
        /\ \A i \in 1..n : SubSeq(s, 1, n)[i] = s[i]
    BY <1>2, <2>1
  <2>4. SubSeq(w, 1, n) = SubSeq(s, 1, n)
    BY <2>1, <2>2, <2>3, SeqEqual
  <2> QED
    BY <2>1, <2>4 DEF w
<1>4. \A k \in Jobs : \A n \in 0..Len(emitted[k]) :
          /\ n \in 0..Len(emitted'[k])
          /\ SubSeq(emitted'[k], 1, n) = SubSeq(emitted[k], 1, n)
  BY <1>2, <1>3
<1>5. Stream!Extend(j)
  <2>1. ~Stream!Ended(emitted[j])
    <3>1. ~Over(j)
      BY JobStepTells DEF Over
    <3> QED
      BY <3>1 DEF Inv, JobInv, StateTold
  <2>2. emitted' = [emitted EXCEPT ![j] = emitted'[j]]
    BY <1>2 DEF TypeOK
  <2>3. Stream!IsStrictPrefix(emitted[j], emitted'[j])
    <3>1. Len(s \o t) = Len(s) + Len(t) /\ Len(s) \in Nat /\ Len(t) \in Nat
      BY <1>2
    <3>2. s \o t # s /\ Len(s) <= Len(s \o t) /\ Len(s) \in 0..Len(s)
      BY <1>2, <3>1
    <3>3. SubSeq(s \o t, 1, Len(s)) = SubSeq(s, 1, Len(s))
      BY <1>3, <3>2
    <3> QED
      BY <1>2, <3>2, <3>3 DEF Stream!IsStrictPrefix, Stream!IsPrefix
  <2>4. Stream!WellFormed(emitted'[j])
    BY JobStepKeeps DEF Inv, JobInv
  <2> QED
    BY <2>1, <2>2, <2>3, <2>4 DEF Stream!Extend
<1> QED
  BY <1>4, <1>5

-----------------------------------------------------------------------------
(* The theorems.                                                           *)

Kept == Inv /\ ReadersKept

LEMMA KeptInit == Init => Kept
<1> SUFFICES ASSUME Init PROVE Kept
  OBVIOUS
<1>1. Inv
  BY InvInit
<1>2. ASSUME NEW c \in Readers PROVE ReaderKept(c)
  <2>1. reader[c].got = <<>> /\ reader[c].job \in Jobs
    BY DEF Init
  <2>2. emitted[reader[c].job] = <<>>
    BY <2>1 DEF Init
  <2>3. SubSeq(<<>>, 1, 0) = <<>> /\ 0 \in 0..Len(<<>>)
    OBVIOUS
  <2> QED
    BY <2>1, <2>2, <2>3 DEF ReaderKept
<1> QED
  BY <1>1, <1>2 DEF Kept, ReadersKept

LEMMA KeptStep == Kept /\ [Next]_vars => Kept' /\ [Stream!Next]_emitted
<1> SUFFICES ASSUME Kept, [Next]_vars
             PROVE  Kept' /\ [Stream!Next]_emitted
  OBVIOUS
<1>1. Inv /\ ReadersKept /\ \A c \in Readers : reader[c].job \in Jobs
  BY DEF Kept, Inv, TypeOK
<1>2. ASSUME NEW j \in Jobs, JobStep(j) PROVE Kept' /\ [Stream!Next]_emitted
  <2>1. Inv'
    BY <1>1, <1>2, JobStepKeeps
  <2>2. Stream!Extend(j)
    BY <1>1, <1>2, JobStepExtends
  <2>3. reader' = reader
    BY <1>1, <1>2, JobStepTells
  <2>4. ASSUME NEW c \in Readers PROVE ReaderKept(c)'
    <3>1. \A n \in 0..Len(emitted[reader[c].job]) :
              /\ n \in 0..Len(emitted'[reader[c].job])
              /\ SubSeq(emitted'[reader[c].job], 1, n) = SubSeq(emitted[reader[c].job], 1, n)
      BY <1>1, <1>2, JobStepExtends
    <3>2. PICK n \in 0..Len(emitted[reader[c].job]) :
              reader[c].got = SubSeq(emitted[reader[c].job], 1, n)
      BY <1>1 DEF ReadersKept, ReaderKept
    <3> QED
      BY <2>3, <3>1, <3>2 DEF ReaderKept
  <2> QED
    BY <2>1, <2>2, <2>4 DEF Kept, ReadersKept, Stream!Next
<1>3. ASSUME NEW c \in Readers, ReadEvents(c) PROVE Kept' /\ [Stream!Next]_emitted
  <2>1. emitted' = emitted
    BY <1>3 DEF ReadEvents
  <2> QED
    BY <1>1, <1>3, <2>1, ReadEventsKeeps DEF Kept
<1>4. CASE CleanupExpired
  <2>1. emitted' = emitted /\ reader' = reader
    BY <1>4 DEF CleanupExpired
  <2>2. Inv' /\ ReadersKept'
    BY <1>1, <1>4, <2>1, CleanupExpiredKeeps DEF ReadersKept, ReaderKept
  <2> QED
    BY <2>1, <2>2 DEF Kept
<1>5. CASE Tick
  <2>1. /\ clock' = clock + 1 /\ clock < MaxTime
        /\ UNCHANGED <<job, events, terminalAt, counter, reader, emitted, lastAt>>
    BY <1>5 DEF Tick
  <2>2. TypeOK'
    <3>1. clock' \in 0..MaxTime
      BY <1>1, <2>1, BoundsAssumption DEF Inv, TypeOK
    <3> QED
      BY <1>1, <2>1, <3>1 DEF Inv, TypeOK
  <2>3. ASSUME NEW k \in Jobs PROVE JobInv(k)'
    <3>1. JobInv(k)
      BY <1>1 DEF Inv
    <3> QED
      BY <2>1, <3>1, Untouched
  <2>4. ReadersKept'
    BY <1>1, <2>1 DEF ReadersKept, ReaderKept
  <2> QED
    BY <2>1, <2>2, <2>3, <2>4 DEF Kept, Inv
<1>6. CASE UNCHANGED vars
  <2>1. UNCHANGED <<clock, job, events, terminalAt, counter, reader, emitted, lastAt>>
    BY <1>6 DEF vars
  <2>2. TypeOK'
    BY <1>1, <2>1 DEF Inv, TypeOK
  <2>3. ASSUME NEW k \in Jobs PROVE JobInv(k)'
    <3>1. JobInv(k)
      BY <1>1 DEF Inv
    <3> QED
      BY <2>1, <3>1, Untouched
  <2>4. ReadersKept'
    BY <1>1, <2>1 DEF ReadersKept, ReaderKept
  <2> QED
    BY <2>1, <2>2, <2>3, <2>4 DEF Kept, Inv
<1> QED
  BY <1>2, <1>3, <1>4, <1>5, <1>6 DEF Next, JobStep, Finished

LEMMA KeptAlways == Spec => []Kept
<1>1. Kept /\ [Next]_vars => Kept'
  BY KeptStep
<1> QED
  BY KeptInit, <1>1, PTL DEF Spec

\* Every variable has its type: reports hold documents that were found, and
\* an event is never anything but an event.
THEOREM TypeCorrect == Spec => []TypeOK
<1>1. Kept => TypeOK
  BY DEF Kept, Inv
<1> QED
  BY KeptAlways, <1>1, PTL

\* A job is over exactly when its stream has ended, and they tell the same end.
THEOREM StateMatchesStreamCorrect == Spec => []StateMatchesStream
<1>1. Kept => StateMatchesStream
  BY DEF Kept, Inv, JobInv, StateTold, StateMatchesStream
<1> QED
  BY KeptAlways, <1>1, PTL

\* The report, collected or read back from the buffer, is what was streamed.
THEOREM ReportMatchesStreamCorrect == Spec => []ReportMatchesStream
<1>1. Kept => ReportMatchesStream
  BY DEF Kept, Inv, JobInv, ReportTold, ReportMatchesStream
<1> QED
  BY KeptAlways, <1>1, PTL

\* No step is started beyond a budget, and none is refused within all of them.
THEOREM BudgetDecidesCorrect == Spec => []BudgetDecides
<1>1. Kept => BudgetDecides
  BY DEF Kept, Inv, JobInv, BudgetKept, BudgetDecides
<1> QED
  BY KeptAlways, <1>1, PTL

\* However often a reader reconnects, it has a prefix of the stream.
THEOREM ReadersHavePrefixCorrect == Spec => []ReadersHavePrefix
<1>1. ASSUME Kept PROVE ReadersHavePrefix
  <2> SUFFICES ASSUME NEW c \in Readers
               PROVE  IsPrefix(reader[c].got, emitted[reader[c].job])
    BY DEF ReadersHavePrefix
  <2>1. Inv /\ ReaderKept(c)
    BY <1>1 DEF Kept, ReadersKept
  <2> DEFINE s == emitted[reader[c].job]
             got == reader[c].got
  <2>2. /\ Len(got) \in 0..Len(s) /\ got = SubSeq(s, 1, Len(got)) /\ reader[c].job \in Jobs
    BY <2>1, LastIdIs
  <2>3. got \in Seq(Event) /\ s \in Seq(Event)
    BY <2>1, <2>2 DEF Inv, TypeOK
  <2> HIDE DEF got, s
  <2>4. SubSeq(got, 1, Len(got)) = got
    BY <2>3, SubSeqFull
  <2>5. IsPrefix(got, s)
    BY <2>2, <2>3, <2>4 DEF IsPrefix
  <2> QED
    BY <2>5 DEF got, s
<1> QED
  BY KeptAlways, <1>1, PTL

\* The streams of the jobs implement EventStream: they only grow, are well
\* formed at every moment, and nothing follows a terminal event.
THEOREM StreamImplementedCorrect == Spec => StreamImplemented
<1>1. Init => Stream!Init
  BY DEF Init, Stream!Init
<1>2. Kept /\ [Next]_vars => [Stream!Next]_emitted
  BY KeptStep
<1> QED
  BY KeptAlways, <1>1, <1>2, PTL DEF Spec, StreamImplemented, Stream!Spec
=============================================================================
