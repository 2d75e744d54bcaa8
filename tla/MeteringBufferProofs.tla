------------------------ MODULE MeteringBufferProofs ------------------------
(* What MeteringBuffer guarantees for every set of calls, requests and     *)
(* flush tasks, every buffer size and every threshold.                     *)
EXTENDS MeteringBuffer, SequenceTheorems, FiniteSetTheorems, TLAPS

USE ConstantsAssumption DEF ConstantsAssumption

-----------------------------------------------------------------------------
(* Facts about the deque.                                                  *)

LEMMA ToSetEmpty == ToSet(<<>>) = {}
  BY DEF ToSet

LEMMA ToSetOfSeq ==
    ASSUME NEW S, NEW s \in Seq(S), NEW x
    PROVE  x \in ToSet(s) <=> \E i \in 1..Len(s) : s[i] = x
<1>1. DOMAIN s = 1..Len(s)
  OBVIOUS
<1> QED
  BY <1>1 DEF ToSet

LEMMA ToSetType ==
    ASSUME NEW S, NEW s \in Seq(S)
    PROVE  ToSet(s) \subseteq S
<1>1. \A i \in 1..Len(s) : s[i] \in S
  OBVIOUS
<1> QED
  BY <1>1, ToSetOfSeq

LEMMA TailToSet ==
    ASSUME NEW S, NEW s \in Seq(S), s # <<>>, NEW x \in ToSet(s), x # Head(s)
    PROVE  x \in ToSet(Tail(s))
<1>1. PICK i \in 1..Len(s) : s[i] = x
  BY ToSetOfSeq
<1>2. i # 1
  BY <1>1
<1>3. i - 1 \in 1..Len(Tail(s)) /\ Tail(s)[i - 1] = x
  BY <1>1, <1>2
<1>4. Tail(s) \in Seq(S)
  OBVIOUS
<1> QED
  BY <1>3, <1>4, ToSetOfSeq

LEMMA AppendToSet ==
    ASSUME NEW S, NEW s \in Seq(S), NEW e \in S
    PROVE  /\ e \in ToSet(Append(s, e))
           /\ \A x \in ToSet(s) : x \in ToSet(Append(s, e))
<1>1. Append(s, e) \in Seq(S)
  OBVIOUS
<1>2. e \in ToSet(Append(s, e))
  <2>1. Len(s) + 1 \in 1..Len(Append(s, e)) /\ Append(s, e)[Len(s) + 1] = e
    OBVIOUS
  <2> QED
    BY <2>1, <1>1, ToSetOfSeq
<1>3. ASSUME NEW x \in ToSet(s)
      PROVE  x \in ToSet(Append(s, e))
  <2>1. PICK i \in 1..Len(s) : s[i] = x
    BY ToSetOfSeq
  <2>2. i \in 1..Len(Append(s, e)) /\ Append(s, e)[i] = x
    BY <2>1
  <2> QED
    BY <2>2, <1>1, ToSetOfSeq
<1> QED
  BY <1>2, <1>3

\* The full deque: one event out at the front, one in at the back.
LEMMA DequeShift ==
    ASSUME NEW S, NEW s \in Seq(S), s # <<>>, NEW e \in S
    PROVE  /\ Append(Tail(s), e) \in Seq(S)
           /\ Len(Append(Tail(s), e)) = Len(s)
<1>1. Tail(s) \in Seq(S) /\ Len(Tail(s)) = Len(s) - 1
  BY HeadTailProperties
<1> DEFINE t == Tail(s)
<1>2. t \in Seq(S) /\ Len(t) = Len(s) - 1 /\ Len(s) \in Nat
  BY <1>1, LenProperties
<1> HIDE DEF t
<1>3. Append(t, e) \in Seq(S) /\ Len(Append(t, e)) = Len(t) + 1
  BY <1>2, AppendProperties
<1> QED
  BY <1>2, <1>3 DEF t

-----------------------------------------------------------------------------
(* Types.                                                                  *)

LEMMA TypeInit == Init => TypeOK
<1>1. <<>> \in Seq(Emissions) /\ Len(<<>>) <= MaxSize
  BY EmptySeq
<1>2. IdleFlush \in FlushStates
  BY DEF FlushStates
<1> SUFFICES ASSUME Init
             PROVE  TypeOK
  OBVIOUS
<1>3. buffer \in Seq(Emissions) /\ Len(buffer) <= MaxSize
  BY <1>1 DEF Init
<1>4. emit \in [Emissions -> EmitStates] /\ rows \in [Requests -> Nat]
  BY DEF Init, EmitStates
<1>5. flush \in [Flushers -> FlushStates]
  BY <1>2 DEF Init
<1> QED
  BY <1>3, <1>4, <1>5 DEF Init, TypeOK

(* TypeOK holds in every reachable state: in particular the deque never    *)
(* holds more than max_size events.                                        *)
THEOREM TypeCorrect == Spec => []TypeOK
<1>2. TypeOK /\ [Next]_vars => TypeOK'
  <2> SUFFICES ASSUME TypeOK, [Next]_vars
               PROVE  TypeOK'
    OBVIOUS
  <2> USE DEF TypeOK, EmitStates
  <2>1. ASSUME NEW e \in Emissions, NEW b \in BOOLEAN, EmitStart(e, b)
        PROVE  TypeOK'
    BY <2>1 DEF EmitStart
  <2>2. ASSUME NEW e \in Emissions, EmitCommit(e)
        PROVE  TypeOK'
    BY <2>2 DEF EmitCommit, InsertRow
  <2>3. ASSUME NEW e \in Emissions, EmitAck(e)
        PROVE  TypeOK'
    BY <2>3 DEF EmitAck
  <2>4. ASSUME NEW e \in Emissions, EmitFail(e)
        PROVE  TypeOK'
    <3>1. buffer' \in Seq(Emissions) /\ Len(buffer') <= MaxSize
      <4>1. CASE Len(buffer) < MaxSize
        <5>1. buffer' = Append(buffer, e)
          BY <2>4, <4>1 DEF EmitFail, DequeAppend
        <5>2. Append(buffer, e) \in Seq(Emissions) /\ Len(Append(buffer, e)) = Len(buffer) + 1
          BY AppendProperties
        <5> QED
          BY <4>1, <5>1, <5>2
      <4>2. CASE ~(Len(buffer) < MaxSize)
        <5>1. Len(buffer) # 0
          BY <4>2
        <5>2. buffer # <<>>
          BY <5>1, EmptySeq
        <5>3. buffer' = Append(Tail(buffer), e)
          BY <2>4, <4>2 DEF EmitFail, DequeAppend
        <5>4. buffer \in Seq(Emissions) /\ Len(buffer) <= MaxSize
          OBVIOUS
        <5>5. buffer' \in Seq(Emissions) /\ Len(buffer') = Len(buffer)
          BY <5>2, <5>3, <5>4, DequeShift, Zenon
        <5> QED
          BY <5>4, <5>5
      <4> QED
        BY <4>1, <4>2
    <3>2. dropped' \subseteq Emissions
      BY <2>4 DEF EmitFail, DequeAppend
    <3>3. degraded' \in BOOLEAN /\ emit' \in [Emissions -> EmitStates]
      BY <2>4 DEF EmitFail, ReportCrossing
    <3> QED
      BY <2>4, <3>1, <3>2, <3>3 DEF EmitFail
  <2>5. ASSUME NEW e \in Emissions, AuditReturns(e)
        PROVE  TypeOK'
    BY <2>5 DEF AuditReturns
  <2>6. ASSUME NEW f \in Flushers, FlushStart(f)
        PROVE  TypeOK'
    BY <2>6 DEF FlushStart, FlushStates, Inserting
  <2>7. ASSUME NEW f \in Flushers, FlushCommit(f)
        PROVE  TypeOK'
    <3>1. PICK ev \in Emissions : flush[f] = [pc |-> "inserting", event |-> ev]
      BY <2>7 DEF FlushCommit, FlushStates, IdleFlush
    <3>2. flush' = [flush EXCEPT ![f] = Written(ev)]
      BY <2>7, <3>1 DEF FlushCommit
    <3>3. flush' \in [Flushers -> FlushStates]
      BY <3>2 DEF FlushStates, Written
    <3>4. rows' \in [Requests -> Nat]
      BY <2>7, <3>1 DEF FlushCommit, InsertRow
    <3> QED
      BY <2>7, <3>3, <3>4 DEF FlushCommit
  <2>8. ASSUME NEW f \in Flushers, FlushAck(f)
        PROVE  TypeOK'
    <3>1. buffer' \in Seq(Emissions) /\ Len(buffer') <= MaxSize
      BY <2>8 DEF FlushAck
    <3>2. flush' \in [Flushers -> FlushStates]
      BY <2>8, <3>1 DEF FlushAck, FlushStates, IdleFlush, Inserting
    <3> QED
      BY <2>8, <3>1, <3>2 DEF FlushAck, ResetIfDrained
  <2>9. ASSUME NEW f \in Flushers, FlushFail(f)
        PROVE  TypeOK'
    BY <2>9 DEF FlushFail, FlushStates, ResetIfDrained
  <2>10. CASE Restart
    <3>1. <<>> \in Seq(Emissions) /\ Len(<<>>) <= MaxSize
      BY EmptySeq
    <3> QED
      BY <2>10, <3>1 DEF Restart, FlushStates
  <2>11. CASE UNCHANGED vars
    BY <2>11 DEF vars
  <2> QED
    BY <2>1, <2>2, <2>3, <2>4, <2>5, <2>6, <2>7, <2>8, <2>9, <2>10, <2>11 DEF Next
<1> QED
  BY TypeInit, <1>2, PTL DEF Spec

-----------------------------------------------------------------------------
(* Deduplication.                                                          *)

(* However many writers insert a request's row, and however often, the     *)
(* table holds at most one: ON CONFLICT (dedup_key) DO NOTHING.            *)
THEOREM AtMostOneRowCorrect == Spec => []AtMostOneRow
<1>1. Init => AtMostOneRow
  BY DEF Init, AtMostOneRow
<1>2. TypeOK /\ AtMostOneRow /\ [Next]_vars => AtMostOneRow'
  <2> SUFFICES ASSUME TypeOK, AtMostOneRow, [Next]_vars
               PROVE  AtMostOneRow'
    OBVIOUS
  <2>1. ASSUME NEW e \in Emissions, InsertRow(e)
        PROVE  AtMostOneRow'
    BY <2>1 DEF InsertRow, AtMostOneRow, TypeOK
  <2>2. ASSUME NEW e \in Emissions, EmitCommit(e)
        PROVE  AtMostOneRow'
    BY <2>1, <2>2 DEF EmitCommit
  <2>3. ASSUME NEW f \in Flushers, FlushCommit(f)
        PROVE  AtMostOneRow'
    <3>1. flush[f].event \in Emissions
      BY <2>3 DEF FlushCommit, TypeOK, FlushStates, IdleFlush
    <3> QED
      BY <2>1, <2>3, <3>1 DEF FlushCommit
  <2>4. CASE UNCHANGED rows
    BY <2>4 DEF AtMostOneRow
  <2> QED
    BY <2>2, <2>3, <2>4 DEF Next, vars, EmitStart, EmitAck, EmitFail,
       AuditReturns, FlushStart, FlushAck, FlushFail, Restart
<1> QED
  BY <1>1, <1>2, TypeCorrect, PTL DEF Spec

-----------------------------------------------------------------------------
(* The degraded report.                                                    *)

LEMMA ThresholdMonotone ==
    ASSUME NEW m \in Nat, NEW n \in Nat, m <= n, AtThreshold(m)
    PROVE  AtThreshold(n)
<1>1. m * DegradedDen <= n * DegradedDen
  OBVIOUS
<1> QED
  BY <1>1 DEF AtThreshold

LEMMA ThresholdNotAtZero == ~AtThreshold(0)
<1>1. DegradedNum * MaxSize > 0
  OBVIOUS
<1> QED
  BY <1>1 DEF AtThreshold

(* A deque filled to the threshold has been reported (R14.5).              *)
THEOREM HighFillReportedCorrect == Spec => []HighFillReported
<1>1. Init => HighFillReported
  BY ThresholdNotAtZero, EmptySeq DEF Init, HighFillReported
<1>2. TypeOK /\ HighFillReported /\ [Next]_vars => HighFillReported'
  <2> SUFFICES ASSUME TypeOK, HighFillReported, [Next]_vars
               PROVE  HighFillReported'
    OBVIOUS
  <2>1. ASSUME NEW e \in Emissions, EmitFail(e)
        PROVE  HighFillReported'
    BY <2>1 DEF EmitFail, ReportCrossing, HighFillReported
  <2>2. ASSUME NEW f \in Flushers, FlushAck(f), AtThreshold(Len(buffer'))
        PROVE  degraded'
    <3>1. buffer # <<>>
      BY <2>2, ThresholdNotAtZero, EmptySeq DEF FlushAck
    <3>2. buffer' = Tail(buffer) /\ (degraded' = (degraded /\ buffer' # <<>>))
      BY <2>2, <3>1 DEF FlushAck, ResetIfDrained
    <3>3. buffer' # <<>>
      BY <2>2, ThresholdNotAtZero, EmptySeq
    <3>4. Len(buffer') \in Nat /\ Len(buffer) \in Nat /\ Len(buffer') <= Len(buffer)
      BY <3>1, <3>2, HeadTailProperties, LenProperties DEF TypeOK
    <3>5. AtThreshold(Len(buffer))
      BY <2>2, <3>4, ThresholdMonotone
    <3> QED
      BY <3>2, <3>3, <3>5 DEF HighFillReported
  <2>3. ASSUME NEW f \in Flushers, FlushFail(f)
        PROVE  HighFillReported'
    BY <2>3, ThresholdNotAtZero, EmptySeq DEF FlushFail, ResetIfDrained, HighFillReported
  <2>4. CASE Restart
    BY <2>4, ThresholdNotAtZero, EmptySeq DEF Restart, HighFillReported
  <2>5. CASE UNCHANGED <<buffer, degraded>>
    BY <2>5 DEF HighFillReported
  <2> QED
    BY <2>1, <2>2, <2>3, <2>4, <2>5 DEF Next, vars, EmitStart, EmitCommit, EmitAck,
       AuditReturns, FlushStart, FlushCommit, HighFillReported
<1> QED
  BY <1>1, <1>2, TypeCorrect, PTL DEF Spec

(* The degraded flag falls only when the deque is drained: one report for  *)
(* each crossing, whatever partial flushes come between.                   *)
THEOREM ReportOncePerCrossingCorrect == Spec => ReportOncePerCrossing
<1>1. [Next]_vars => [degraded /\ ~degraded' => buffer' = <<>>]_vars
  <2> SUFFICES ASSUME Next, degraded, ~degraded'
               PROVE  buffer' = <<>>
    OBVIOUS
  <2>1. ASSUME NEW f \in Flushers, FlushAck(f)
        PROVE  buffer' = <<>>
    BY <2>1 DEF FlushAck, ResetIfDrained
  <2>5. ASSUME NEW f \in Flushers, FlushFail(f)
        PROVE  buffer' = <<>>
    BY <2>5 DEF FlushFail, ResetIfDrained
  <2>2. CASE Restart
    BY <2>2 DEF Restart
  <2>3. ASSUME NEW e \in Emissions, EmitFail(e)
        PROVE  FALSE
    BY <2>3 DEF EmitFail, ReportCrossing
  <2>4. CASE UNCHANGED degraded
    BY <2>4
  <2> QED
    BY <2>1, <2>2, <2>3, <2>4, <2>5 DEF Next, EmitStart, EmitCommit, EmitAck,
       AuditReturns, FlushStart, FlushCommit
<1> QED
  BY <1>1, PTL DEF Spec, ReportOncePerCrossing

-----------------------------------------------------------------------------
(* At-least-once delivery, as far as the code gives it.                    *)

OneFlushAtATime ==
    ~overlapped => \A f, g \in Flushers : Busy(f) /\ Busy(g) => f = g

FlushHoldsFront ==
    (~overlapped /\ dropped = {}) =>
        \A f \in Flushers : Busy(f) => buffer # <<>> /\ flush[f].event = Head(buffer)

WrittenIsBilled ==
    \A f \in Flushers : flush[f].pc = "written" => Billed(flush[f].event)

(* LossNeedsOverflow is not inductive: that popleft removes a billed event *)
(* needs that the flush under way still holds the front of the deque.      *)
LossInv ==
    /\ TypeOK
    /\ OneFlushAtATime
    /\ FlushHoldsFront
    /\ WrittenIsBilled
    /\ LossNeedsOverflow

LEMMA InsertBills ==
    ASSUME TypeOK, NEW e \in Emissions, InsertRow(e)
    PROVE  Billed(e)' /\ \A x \in Emissions : Billed(x) => Billed(x)'
  BY DEF TypeOK, InsertRow, Billed

LEMMA LossInvInit == Init => LossInv
<1> SUFFICES ASSUME Init
             PROVE  LossInv
  OBVIOUS
<1>1. TypeOK
  BY TypeInit
<1>2. \A f \in Flushers : ~Busy(f) /\ flush[f].pc # "written"
  BY DEF Init, Busy, IdleFlush
<1>3. Unaccounted = {}
  BY DEF Init, Unaccounted
<1> QED
  BY <1>1, <1>2, <1>3 DEF LossInv, OneFlushAtATime, FlushHoldsFront, WrittenIsBilled,
     LossNeedsOverflow

LEMMA LossInvEmit ==
    ASSUME LossInv, TypeOK', NEW e \in Emissions,
           \/ \E billable \in BOOLEAN : EmitStart(e, billable)
           \/ EmitCommit(e)
           \/ EmitAck(e)
           \/ AuditReturns(e)
    PROVE  LossInv'
<1>1. \A x \in Emissions : Billed(x) => Billed(x)'
  BY InsertBills DEF EmitStart, EmitCommit, EmitAck, AuditReturns, LossInv, Billed
<1>2. UNCHANGED <<buffer, flush, dropped, overlapped>>
  BY DEF EmitStart, EmitCommit, EmitAck, AuditReturns
<1>3. \A x \in Emissions : emit'[x] \in {"auditing", "buffered"}
                             => emit[x] \in {"auditing", "buffered"}
  BY DEF EmitStart, EmitCommit, EmitAck, AuditReturns, LossInv, TypeOK
<1>4. Unaccounted' \subseteq Unaccounted
  BY <1>1, <1>2, <1>3 DEF Unaccounted
<1>5. OneFlushAtATime' /\ FlushHoldsFront'
  BY <1>2 DEF LossInv, OneFlushAtATime, FlushHoldsFront, Busy
<1>6. WrittenIsBilled'
  <2>1. \A f \in Flushers : flush[f].pc = "written" => flush[f].event \in Emissions
    BY DEF LossInv, TypeOK, FlushStates, IdleFlush
  <2> QED
    BY <2>1, <1>1, <1>2 DEF LossInv, WrittenIsBilled
<1>7. LossNeedsOverflow'
  BY <1>2, <1>4 DEF LossInv, LossNeedsOverflow
<1> QED
  BY <1>5, <1>6, <1>7 DEF LossInv

LEMMA LossInvEmitFail ==
    ASSUME LossInv, TypeOK', NEW e \in Emissions, EmitFail(e)
    PROVE  LossInv'
<1>1. OneFlushAtATime' /\ WrittenIsBilled'
  BY DEF EmitFail, LossInv, OneFlushAtATime, WrittenIsBilled, Busy, Billed
<1>2. overlapped' = overlapped /\ flush' = flush /\ rows' = rows
  BY DEF EmitFail
<1>3. CASE dropped' = {}
  <2>1. dropped = {} /\ buffer' = Append(buffer, e)
    BY <1>3 DEF EmitFail, DequeAppend
  <2>2. buffer \in Seq(Emissions)
    BY DEF LossInv, TypeOK
  <2>3. e \in ToSet(buffer') /\ \A x \in ToSet(buffer) : x \in ToSet(buffer')
    BY <2>1, <2>2, AppendToSet
  <2>4. \A x \in Emissions : x # e => emit'[x] = emit[x]
    BY DEF EmitFail, ReportCrossing, LossInv, TypeOK
  <2>5. Unaccounted' \subseteq Unaccounted
    BY <2>3, <2>4, <1>2 DEF Unaccounted, Billed
  <2>6. LossNeedsOverflow'
    BY <2>1, <2>5, <1>2 DEF LossInv, LossNeedsOverflow
  <2>7. buffer # <<>> => buffer' # <<>> /\ Head(buffer') = Head(buffer)
    BY <2>1, <2>2, HeadTailAppend, AppendProperties
  <2>8. FlushHoldsFront'
    BY <2>1, <2>7, <1>2 DEF LossInv, FlushHoldsFront, Busy
  <2> QED
    BY <1>1, <2>6, <2>8 DEF LossInv
<1>4. CASE dropped' # {}
  BY <1>1, <1>4 DEF LossInv, FlushHoldsFront, LossNeedsOverflow
<1> QED
  BY <1>3, <1>4

LEMMA LossInvFlushStart ==
    ASSUME LossInv, TypeOK', NEW f \in Flushers, FlushStart(f)
    PROVE  LossInv'
<1>1. buffer # <<>> /\ UNCHANGED <<emit, rows, buffer, dropped>>
  BY DEF FlushStart
<1>2. overlapped' = (overlapped \/ \E g \in Flushers : Busy(g))
  BY DEF FlushStart
<1>3. /\ flush'[f] = Inserting(Head(buffer))
      /\ \A g \in Flushers : g # f => flush'[g] = flush[g]
  BY DEF FlushStart, LossInv, TypeOK
<1>4. ~overlapped' => ~overlapped /\ \A g \in Flushers : g # f => ~Busy(g)'
  BY <1>2, <1>3 DEF Busy
<1>5. OneFlushAtATime'
  BY <1>4 DEF OneFlushAtATime
<1>6. FlushHoldsFront'
  BY <1>1, <1>3, <1>4 DEF FlushHoldsFront, Inserting
<1>7. WrittenIsBilled'
  BY <1>1, <1>3 DEF LossInv, WrittenIsBilled, Inserting, Billed
<1>8. Unaccounted' = Unaccounted
  BY <1>1 DEF Unaccounted, Billed
<1> QED
  BY <1>1, <1>4, <1>5, <1>6, <1>7, <1>8 DEF LossInv, LossNeedsOverflow

LEMMA LossInvFlushCommit ==
    ASSUME LossInv, TypeOK', NEW f \in Flushers, FlushCommit(f)
    PROVE  LossInv'
<1>1. UNCHANGED <<emit, buffer, dropped, overlapped>>
  BY DEF FlushCommit
<1>2. \A g \in Flushers : flush[g].pc # "idle" => flush[g].event \in Emissions
  BY DEF LossInv, TypeOK, FlushStates, IdleFlush
<1>3. flush[f].event \in Emissions /\ Busy(f)
  BY <1>2 DEF FlushCommit, Busy
<1>4. Billed(flush[f].event)' /\ \A x \in Emissions : Billed(x) => Billed(x)'
  <2>1. InsertRow(flush[f].event)
    BY DEF FlushCommit
  <2>2. rows'[RequestOf[flush[f].event]] > 0
    BY <2>1, <1>3 DEF InsertRow, LossInv, TypeOK
  <2>3. flush'[f].event = flush[f].event
    BY DEF FlushCommit, Written, LossInv, TypeOK
  <2> QED
    BY <2>1, <2>2, <2>3, <1>3, InsertBills DEF LossInv, Billed
<1>5. /\ flush'[f].event = flush[f].event /\ flush'[f].pc = "written"
      /\ \A g \in Flushers : g # f => flush'[g] = flush[g]
  BY DEF FlushCommit, Written, LossInv, TypeOK
<1>6. OneFlushAtATime' /\ FlushHoldsFront'
  BY <1>1, <1>3, <1>5 DEF LossInv, OneFlushAtATime, FlushHoldsFront, Busy
<1>7. WrittenIsBilled'
  BY <1>2, <1>4, <1>5 DEF LossInv, WrittenIsBilled
<1>8. Unaccounted' \subseteq Unaccounted
  BY <1>1, <1>4 DEF Unaccounted
<1> QED
  BY <1>1, <1>6, <1>7, <1>8 DEF LossInv, LossNeedsOverflow

LEMMA LossInvFlushAck ==
    ASSUME LossInv, TypeOK', NEW f \in Flushers, FlushAck(f)
    PROVE  LossInv'
<1>1. UNCHANGED <<emit, rows, dropped, overlapped>> /\ flush[f].pc = "written"
  BY DEF FlushAck
<1>2. /\ flush'[f] = IF buffer' = <<>> THEN IdleFlush ELSE Inserting(Head(buffer'))
      /\ \A g \in Flushers : g # f => flush'[g] = flush[g]
  BY DEF FlushAck, LossInv, TypeOK
<1>3. OneFlushAtATime'
  BY <1>1, <1>2 DEF LossInv, OneFlushAtATime, Busy
<1>4. WrittenIsBilled'
  BY <1>1, <1>2 DEF LossInv, WrittenIsBilled, Billed, IdleFlush, Inserting
<1>5. CASE ~overlapped /\ dropped = {}
  <2>1. \A g \in Flushers : g # f => ~Busy(g)
    BY <1>1, <1>5 DEF LossInv, OneFlushAtATime, Busy
  <2>2. FlushHoldsFront'
    BY <1>2, <2>1 DEF FlushHoldsFront, Busy, IdleFlush, Inserting
  <2>3. buffer # <<>> /\ Billed(Head(buffer)) /\ buffer' = Tail(buffer)
    BY <1>1, <1>5 DEF LossInv, FlushHoldsFront, WrittenIsBilled, Busy, FlushAck
  <2>4. buffer \in Seq(Emissions)
    BY DEF LossInv, TypeOK
  <2>5. \A x \in ToSet(buffer) : x # Head(buffer) => x \in ToSet(buffer')
    BY <2>3, <2>4, TailToSet
  <2>6. Unaccounted' \subseteq Unaccounted
    BY <1>1, <2>3, <2>5 DEF Unaccounted, Billed
  <2> QED
    BY <1>1, <1>3, <1>4, <2>2, <2>6 DEF LossInv, LossNeedsOverflow
<1>6. CASE overlapped \/ dropped # {}
  BY <1>1, <1>3, <1>4, <1>6 DEF LossInv, FlushHoldsFront, LossNeedsOverflow
<1> QED
  BY <1>5, <1>6

LEMMA LossInvFlushFail ==
    ASSUME LossInv, TypeOK', NEW f \in Flushers, FlushFail(f)
    PROVE  LossInv'
<1>1. UNCHANGED <<emit, rows, buffer, dropped, overlapped>>
  BY DEF FlushFail
<1>2. flush'[f] = IdleFlush /\ \A g \in Flushers : g # f => flush'[g] = flush[g]
  BY DEF FlushFail, LossInv, TypeOK
<1>3. OneFlushAtATime' /\ FlushHoldsFront' /\ WrittenIsBilled'
  BY <1>1, <1>2 DEF LossInv, OneFlushAtATime, FlushHoldsFront, WrittenIsBilled, Busy,
     Billed, IdleFlush
<1>4. Unaccounted' = Unaccounted
  BY <1>1 DEF Unaccounted, Billed
<1> QED
  BY <1>1, <1>3, <1>4 DEF LossInv, LossNeedsOverflow

LEMMA LossInvRestart ==
    ASSUME LossInv, TypeOK', Restart
    PROVE  LossInv'
<1>1. UNCHANGED <<rows, dropped, overlapped>>
  BY DEF Restart
<1>2. \A f \in Flushers : flush'[f] = IdleFlush
  BY DEF Restart
<1>3. OneFlushAtATime' /\ FlushHoldsFront' /\ WrittenIsBilled'
  BY <1>2 DEF OneFlushAtATime, FlushHoldsFront, WrittenIsBilled, Busy, IdleFlush
<1>4. \A x \in Emissions : emit'[x] \in {"auditing", "buffered"} =>
         emit[x] = "buffered" /\ x \notin ToSet(buffer)
  BY DEF Restart, LossInv, TypeOK, EmitStates
<1>5. Unaccounted' \subseteq Unaccounted
  BY <1>1, <1>4 DEF Unaccounted, Billed
<1> QED
  BY <1>1, <1>3, <1>5 DEF LossInv, LossNeedsOverflow

LEMMA LossInvCorrect == Spec => []LossInv
<1>1. LossInv /\ TypeOK' /\ [Next]_vars => LossInv'
  <2> SUFFICES ASSUME LossInv, TypeOK', [Next]_vars
               PROVE  LossInv'
    OBVIOUS
  <2>1. ASSUME NEW e \in Emissions,
               \/ \E billable \in BOOLEAN : EmitStart(e, billable)
               \/ EmitCommit(e)
               \/ EmitAck(e)
               \/ AuditReturns(e)
        PROVE  LossInv'
    BY <2>1, LossInvEmit
  <2>2. ASSUME NEW e \in Emissions, EmitFail(e)
        PROVE  LossInv'
    BY <2>2, LossInvEmitFail
  <2>3. ASSUME NEW f \in Flushers, FlushStart(f)
        PROVE  LossInv'
    BY <2>3, LossInvFlushStart
  <2>4. ASSUME NEW f \in Flushers, FlushCommit(f)
        PROVE  LossInv'
    BY <2>4, LossInvFlushCommit
  <2>5. ASSUME NEW f \in Flushers, FlushAck(f)
        PROVE  LossInv'
    BY <2>5, LossInvFlushAck
  <2>6. ASSUME NEW f \in Flushers, FlushFail(f)
        PROVE  LossInv'
    BY <2>6, LossInvFlushFail
  <2>7. CASE Restart
    BY <2>7, LossInvRestart
  <2>8. CASE UNCHANGED vars
    BY <2>8 DEF vars, LossInv, OneFlushAtATime, FlushHoldsFront, WrittenIsBilled,
       LossNeedsOverflow, Unaccounted, Busy, Billed, TypeOK
  <2> QED
    BY <2>1, <2>2, <2>3, <2>4, <2>5, <2>6, <2>7, <2>8 DEF Next
<1> QED
  BY LossInvInit, <1>1, TypeCorrect, PTL DEF Spec

(* Without an overflow and without overlapping flushes, every event that   *)
(* reached the deque is waiting there or billed: at-least-once (R14.3).    *)
THEOREM LossNeedsOverflowCorrect == Spec => []LossNeedsOverflow
<1>1. LossInv => LossNeedsOverflow
  BY DEF LossInv
<1> QED
  BY LossInvCorrect, <1>1, PTL

-----------------------------------------------------------------------------
(* With overflow: what is lost is paid for by what the deque discarded.    *)

Distinct(s) == \A i, k \in 1..Len(s) : s[i] = s[k] => i = k

Held == {flush[f].event : f \in {g \in Flushers : Busy(g)}}

\* Only calls that have ended in buffer_event have an event there.
HandedOver ==
    \A e \in ToSet(buffer) \cup dropped \cup Held :
        emit[e] \in {"auditing", "buffered", "crashed"}

\* A flush under way is at the front, or its event has been discarded.
FlushAtFront ==
    ~overlapped => \A f \in Flushers :
        Busy(f) /\ flush[f].event \in ToSet(buffer) => flush[f].event = Head(buffer)

\* The events that a flush still holds and the deque no longer has.
Stray == Held \ ToSet(buffer)

Debt == Unaccounted \cup Stray

(* LossBoundedByOverflow is not inductive either: the popleft that loses   *)
(* an event does so on account of the discarded event that it has written, *)
(* which must count as lost until then.                                    *)
DebtInv ==
    /\ Distinct(buffer)
    /\ HandedOver
    /\ dropped \cap ToSet(buffer) = {}
    /\ FlushAtFront
    /\ ~overlapped => Cardinality(Debt) <= Cardinality(dropped)

LEMMA DistinctAppend ==
    ASSUME NEW S, NEW s \in Seq(S), NEW e \in S, Distinct(s), e \notin ToSet(s)
    PROVE  Distinct(Append(s, e)) /\ ToSet(Append(s, e)) = ToSet(s) \cup {e}
<1> DEFINE t == Append(s, e)
<1>1. /\ t \in Seq(S) /\ Len(t) = Len(s) + 1 /\ Len(s) \in Nat
      /\ \A i \in 1..Len(s) : t[i] = s[i]
      /\ t[Len(s) + 1] = e
  BY AppendProperties, LenProperties
<1> HIDE DEF t
<1>2. \A i \in 1..Len(t) : i \in 1..Len(s) \/ i = Len(s) + 1
  BY <1>1
<1>3. \A i \in 1..Len(s) : s[i] # e
  BY ToSetOfSeq
<1>4. Distinct(t)
  BY <1>1, <1>2, <1>3 DEF Distinct
<1>5. ASSUME NEW x
      PROVE  x \in ToSet(t) <=> x \in ToSet(s) \/ x = e
  <2>1. /\ x \in ToSet(t) <=> \E i \in 1..Len(t) : t[i] = x
        /\ x \in ToSet(s) <=> \E i \in 1..Len(s) : s[i] = x
    BY <1>1, ToSetOfSeq
  <2>2. (\A i \in 1..Len(s) : i \in 1..Len(t)) /\ Len(s) + 1 \in 1..Len(t)
    BY <1>1
  <2> QED
    BY <1>1, <1>2, <2>1, <2>2
<1>6. ToSet(t) = ToSet(s) \cup {e}
  BY <1>5
<1> QED
  BY <1>4, <1>6 DEF t

LEMMA DistinctTail ==
    ASSUME NEW S, NEW s \in Seq(S), s # <<>>, Distinct(s)
    PROVE  /\ Tail(s) \in Seq(S) /\ Distinct(Tail(s))
           /\ Head(s) \in S /\ Head(s) \in ToSet(s)
           /\ ToSet(Tail(s)) = ToSet(s) \ {Head(s)}
<1> DEFINE t == Tail(s)
<1>1. /\ t \in Seq(S) /\ Len(t) = Len(s) - 1 /\ Len(s) \in Nat /\ Len(s) > 0
      /\ \A i \in 1..Len(t) : t[i] = s[i + 1]
      /\ Head(s) = s[1] /\ Head(s) \in S
  BY HeadTailProperties, LenProperties, EmptySeq
<1>8. Len(t) \in Nat
  BY <1>1
<1> HIDE DEF t
<1>2. Distinct(t)
  <2>1. \A i \in 1..Len(t) : i + 1 \in 1..Len(s)
    BY <1>1
  <2>2. \A i, k \in 1..Len(t) : t[i] = t[k] => i + 1 = k + 1
    BY <1>1, <2>1 DEF Distinct
  <2> QED
    BY <1>8, <2>2 DEF Distinct
<1>3. Head(s) \in ToSet(s)
  <2>1. 1 \in 1..Len(s)
    BY <1>1
  <2> QED
    BY <1>1, <2>1, ToSetOfSeq
<1>4. ASSUME NEW x
      PROVE  x \in ToSet(t) <=> x \in ToSet(s) /\ x # s[1]
  <2>1. /\ x \in ToSet(t) <=> \E i \in 1..Len(t) : t[i] = x
        /\ x \in ToSet(s) <=> \E i \in 1..Len(s) : s[i] = x
    BY <1>1, ToSetOfSeq
  <2>2. ASSUME NEW i \in 1..Len(t), t[i] = x
        PROVE  (\E k \in 1..Len(s) : s[k] = x) /\ x # s[1]
    <3>1. i + 1 \in 1..Len(s) /\ s[i + 1] = x /\ 1 \in 1..Len(s) /\ i + 1 # 1
      BY <1>1, <2>2
    <3> QED
      BY <3>1 DEF Distinct
  <2>3. ASSUME NEW k \in 1..Len(s), s[k] = x, x # s[1]
        PROVE  \E i \in 1..Len(t) : t[i] = x
    <3>1. k - 1 \in 1..Len(t) /\ (k - 1) + 1 = k
      BY <1>1, <2>3
    <3>2. t[k - 1] = x
      BY <1>1, <2>3, <3>1
    <3> QED
      BY <3>1, <3>2
  <2> QED
    BY <2>1, <2>2, <2>3
<1>5. ToSet(t) = ToSet(s) \ {Head(s)}
  BY <1>1, <1>4
<1> QED
  BY <1>1, <1>2, <1>3, <1>5 DEF t

LEMMA Finite ==
    ASSUME NEW A, A \subseteq Emissions
    PROVE  /\ IsFiniteSet(A) /\ Cardinality(A) \in Nat
           /\ \A B : B \subseteq A => Cardinality(B) <= Cardinality(A)
           /\ \A x \in Emissions \ A : Cardinality(A \cup {x}) = Cardinality(A) + 1
           /\ \A x \in A : Cardinality(A \ {x}) = Cardinality(A) - 1
<1>1. IsFiniteSet(A)
  BY FS_Subset
<1> QED
  BY <1>1, FS_Subset, FS_CardinalityType, FS_AddElement, FS_RemoveElement

\* One element more.
LEMMA OneMore ==
    ASSUME NEW A, A \subseteq Emissions, NEW x \in Emissions, NEW B, B \subseteq A \cup {x}
    PROVE  Cardinality(B) <= Cardinality(A) + 1
<1>1. A \cup {x} \subseteq Emissions /\ Cardinality(A) \in Nat
  BY Finite
<1>2. Cardinality(A \cup {x}) <= Cardinality(A) + 1
  <2>1. CASE x \in A
    <3>1. A \cup {x} = A
      BY <2>1
    <3>2. Cardinality(A \cup {x}) = Cardinality(A)
      BY <3>1, Zenon
    <3> QED
      BY <1>1, <3>2
  <2>2. CASE x \notin A
    <3>1. x \in Emissions \ A
      BY <2>2
    <3> QED
      BY <1>1, <3>1, Finite
  <2> QED
    BY <2>1, <2>2
<1>3. Cardinality(B) <= Cardinality(A \cup {x})
  BY <1>1, Finite
<1>4. Cardinality(B) \in Nat /\ Cardinality(A \cup {x}) \in Nat
  BY <1>1, Finite
<1> QED
  BY <1>1, <1>2, <1>3, <1>4

\* One element for another.
LEMMA OneForAnother ==
    ASSUME NEW A, A \subseteq Emissions, NEW x \in Emissions, NEW y \in A,
           NEW B, B \subseteq (A \ {y}) \cup {x}
    PROVE  Cardinality(B) <= Cardinality(A)
<1>1. Cardinality(A) \in Nat /\ Cardinality(A \ {y}) = Cardinality(A) - 1
  BY Finite
<1>2. A \ {y} \subseteq Emissions
  OBVIOUS
<1>3. Cardinality(B) <= Cardinality(A \ {y}) + 1
  BY <1>2, OneMore
<1> QED
  BY <1>1, <1>3

LEMMA DebtType ==
    ASSUME TypeOK
    PROVE  Debt \subseteq Emissions /\ Held \subseteq Emissions
<1>1. \A f \in Flushers : Busy(f) => flush[f].event \in Emissions
  BY DEF TypeOK, FlushStates, IdleFlush, Busy
<1> QED
  BY <1>1 DEF Debt, Stray, Held, Unaccounted

\* Nothing new is owed and nothing is forgotten.
LEMMA DebtShrinks ==
    ASSUME TypeOK, DebtInv, TypeOK', ~overlapped, dropped' = dropped, Debt' \subseteq Debt
    PROVE  Cardinality(Debt') <= Cardinality(dropped')
<1>1. Debt \subseteq Emissions /\ Debt' \subseteq Emissions /\ dropped \subseteq Emissions
  BY DebtType DEF TypeOK
<1>2. /\ Cardinality(Debt') \in Nat /\ Cardinality(Debt) \in Nat
      /\ Cardinality(dropped) \in Nat /\ Cardinality(Debt') <= Cardinality(Debt)
  BY <1>1, Finite
<1> QED
  BY <1>2 DEF DebtInv

LEMMA DebtInvInit == Init => DebtInv
<1> SUFFICES ASSUME Init PROVE DebtInv
  OBVIOUS
<1>1. buffer = <<>> /\ dropped = {} /\ ToSet(buffer) = {} /\ Len(buffer) = 0
  BY ToSetEmpty DEF Init
<1>2. Held = {}
  BY DEF Init, Held, Busy, IdleFlush
<1>3. Debt = {}
  BY <1>2 DEF Init, Debt, Unaccounted, Stray
<1> QED
  BY <1>1, <1>2, <1>3, FS_EmptySet DEF DebtInv, Distinct, HandedOver, FlushAtFront

LEMMA DebtInvEmit ==
    ASSUME LossInv, DebtInv, TypeOK', NEW e \in Emissions,
           \/ \E billable \in BOOLEAN : EmitStart(e, billable)
           \/ EmitCommit(e)
           \/ EmitAck(e)
           \/ AuditReturns(e)
    PROVE  DebtInv'
<1>1. \A x \in Emissions : Billed(x) => Billed(x)'
  BY InsertBills DEF EmitStart, EmitCommit, EmitAck, AuditReturns, LossInv, Billed
<1>2. UNCHANGED <<buffer, flush, dropped, overlapped>>
  BY DEF EmitStart, EmitCommit, EmitAck, AuditReturns
<1>3. \A x \in Emissions :
          /\ emit'[x] \in {"auditing", "buffered"} => emit[x] \in {"auditing", "buffered"}
          /\ emit[x] \in {"auditing", "buffered", "crashed"}
                => emit'[x] \in {"auditing", "buffered", "crashed"}
  BY DEF EmitStart, EmitCommit, EmitAck, AuditReturns, LossInv, TypeOK
<1>4. Held' = Held /\ Debt' \subseteq Debt
  BY <1>1, <1>2, <1>3 DEF Debt, Unaccounted, Stray, Held, Busy
<1>5. TypeOK /\ ToSet(buffer) \subseteq Emissions /\ dropped \subseteq Emissions
  BY ToSetType DEF LossInv, TypeOK
<1>6. ~overlapped' => Cardinality(Debt') <= Cardinality(dropped')
  BY <1>2, <1>4, <1>5, DebtShrinks
<1>7. HandedOver'
  BY <1>2, <1>3, <1>4, <1>5, DebtType DEF DebtInv, HandedOver
<1> QED
  BY <1>2, <1>6, <1>7 DEF DebtInv, FlushAtFront, Busy

LEMMA DebtInvEmitFail ==
    ASSUME LossInv, DebtInv, TypeOK', NEW e \in Emissions, EmitFail(e)
    PROVE  DebtInv'
<1>1. TypeOK /\ buffer \in Seq(Emissions) /\ Len(buffer) \in Nat /\ dropped \subseteq Emissions
  BY DEF LossInv, TypeOK
<1>2. UNCHANGED <<rows, flush, overlapped>> /\ Held' = Held
  BY DEF EmitFail, Held, Busy
<1>3. /\ emit[e] \in {"inserting", "written"}
      /\ emit'[e] \in {"auditing", "buffered"}
      /\ \A x \in Emissions : x # e => emit'[x] = emit[x]
  BY <1>1 DEF EmitFail, ReportCrossing, TypeOK
<1>4. e \notin ToSet(buffer) \cup dropped \cup Held
  BY <1>3 DEF DebtInv, HandedOver
<1>5. ToSet(buffer) \subseteq Emissions /\ Held \subseteq Emissions /\ Debt \subseteq Emissions
  BY <1>1, ToSetType, DebtType
<1>6. Distinct(buffer)
  BY DEF DebtInv
<1>9. \A x \in ToSet(buffer) \cup dropped \cup Held \cup {e} :
         emit'[x] \in {"auditing", "buffered", "crashed"}
  BY <1>1, <1>3, <1>4, <1>5 DEF DebtInv, HandedOver
<1>7. CASE Len(buffer) < MaxSize
  <2>1. buffer' = Append(buffer, e) /\ dropped' = dropped
    BY <1>7 DEF EmitFail, DequeAppend
  <2>2. Distinct(buffer)' /\ ToSet(buffer') = ToSet(buffer) \cup {e}
    BY <1>1, <1>4, <1>6, <2>1, DistinctAppend
  <2>3. HandedOver' /\ dropped' \cap ToSet(buffer') = {}
    BY <1>2, <1>4, <1>9, <2>1, <2>2 DEF DebtInv, HandedOver
  <2>4. ToSet(buffer) # {} => Head(buffer') = Head(buffer)
    BY <1>1, <2>1, HeadTailAppend, ToSetEmpty
  <2>5. FlushAtFront'
    <3> SUFFICES ASSUME ~overlapped, NEW f \in Flushers, Busy(f),
                        flush[f].event \in ToSet(buffer')
                 PROVE  flush[f].event = Head(buffer')
      BY <1>2 DEF FlushAtFront, Busy
    <3>1. flush[f].event \in ToSet(buffer)
      BY <1>4, <2>2 DEF Held
    <3> QED
      BY <2>4, <3>1 DEF DebtInv, FlushAtFront
  <2>6. Debt' \subseteq Debt
    BY <1>2, <1>3, <2>2 DEF Debt, Unaccounted, Stray, Billed
  <2>7. ~overlapped' => Cardinality(Debt') <= Cardinality(dropped')
    BY <1>1, <1>2, <2>1, <2>6, DebtShrinks
  <2> QED
    BY <2>2, <2>3, <2>5, <2>7 DEF DebtInv
<1>8. CASE ~(Len(buffer) < MaxSize)
  <2> DEFINE d == Head(buffer)
  <2>1. buffer' = Append(Tail(buffer), e) /\ dropped' = dropped \cup {d}
    BY <1>8 DEF EmitFail, DequeAppend
  <2>2. buffer # <<>>
    BY <1>8, <1>1, EmptySeq
  <2>3. /\ Tail(buffer) \in Seq(Emissions) /\ Distinct(Tail(buffer))
        /\ d \in Emissions /\ d \in ToSet(buffer)
        /\ ToSet(Tail(buffer)) = ToSet(buffer) \ {d}
    BY <1>1, <1>6, <2>2, DistinctTail
  <2> HIDE DEF d
  <2>4. Distinct(buffer)' /\ ToSet(buffer') = (ToSet(buffer) \ {d}) \cup {e}
    <3>1. e \notin ToSet(Tail(buffer))
      BY <1>4, <2>3
    <3>2. /\ Distinct(Append(Tail(buffer), e))
          /\ ToSet(Append(Tail(buffer), e)) = ToSet(Tail(buffer)) \cup {e}
      BY <2>3, <3>1, DistinctAppend
    <3> QED
      BY <2>1, <2>3, <3>2
  <2>5. d # e /\ d \notin dropped
    BY <1>4, <2>3 DEF DebtInv
  <2>6. HandedOver' /\ dropped' \cap ToSet(buffer') = {}
    BY <1>2, <1>4, <1>9, <2>1, <2>3, <2>4, <2>5 DEF DebtInv, HandedOver
  <2>7. FlushAtFront'
    BY <1>2, <1>4, <2>4 DEF DebtInv, FlushAtFront, Busy, Held, d
  <2>8. Debt' \subseteq Debt \cup {d}
    BY <1>2, <1>3, <2>4 DEF Debt, Unaccounted, Stray, Billed
  <2>9. ~overlapped' => Cardinality(Debt') <= Cardinality(dropped')
    <3>1. Cardinality(dropped') = Cardinality(dropped) + 1
      BY <1>1, <2>1, <2>3, <2>5, Finite
    <3>2. Cardinality(Debt') <= Cardinality(Debt) + 1
      BY <1>5, <2>3, <2>8, OneMore
    <3>3. Debt' \subseteq Emissions
      BY <1>5, <2>3, <2>8
    <3>4. /\ Cardinality(Debt) \in Nat /\ Cardinality(Debt') \in Nat
          /\ Cardinality(dropped) \in Nat
      BY <1>1, <1>5, <3>3, Finite
    <3> QED
      BY <1>2, <3>1, <3>2, <3>4 DEF DebtInv
  <2> QED
    BY <2>4, <2>6, <2>7, <2>9 DEF DebtInv
<1> QED
  BY <1>7, <1>8

LEMMA DebtInvFlushStart ==
    ASSUME LossInv, DebtInv, TypeOK', NEW f \in Flushers, FlushStart(f)
    PROVE  DebtInv'
<1>1. TypeOK /\ buffer # <<>> /\ buffer \in Seq(Emissions) /\ UNCHANGED <<emit, rows, buffer, dropped>>
  BY DEF FlushStart, LossInv, TypeOK
<1>2. overlapped' = (overlapped \/ \E g \in Flushers : Busy(g))
  BY DEF FlushStart
<1>3. /\ flush'[f] = Inserting(Head(buffer))
      /\ \A g \in Flushers : g # f => flush'[g] = flush[g]
  BY <1>1 DEF FlushStart, TypeOK
<1>4. Head(buffer) \in ToSet(buffer)
  BY <1>1, DistinctTail DEF DebtInv
<1>5. Held' \subseteq Held \cup {Head(buffer)}
  BY <1>3 DEF Held, Busy, Inserting
<1>6. HandedOver'
  BY <1>1, <1>4, <1>5 DEF DebtInv, HandedOver
<1>7. ~overlapped' => ~overlapped /\ \A g \in Flushers : g # f => ~Busy(g)'
  BY <1>2, <1>3 DEF Busy
<1>8. FlushAtFront'
  BY <1>1, <1>3, <1>7 DEF FlushAtFront, Inserting
<1>9. Debt' \subseteq Debt
  BY <1>1, <1>4, <1>5 DEF Debt, Unaccounted, Stray, Billed
<1>10. ~overlapped' => Cardinality(Debt') <= Cardinality(dropped')
  BY <1>1, <1>7, <1>9, DebtShrinks
<1> QED
  BY <1>1, <1>6, <1>8, <1>10 DEF DebtInv

LEMMA DebtInvFlushCommit ==
    ASSUME LossInv, DebtInv, TypeOK', NEW f \in Flushers, FlushCommit(f)
    PROVE  DebtInv'
<1>1. TypeOK /\ UNCHANGED <<emit, buffer, dropped, overlapped>>
  BY DEF FlushCommit, LossInv
<1>2. flush[f].event \in Emissions
  BY <1>1 DEF FlushCommit, TypeOK, FlushStates, IdleFlush
<1>3. \A x \in Emissions : Billed(x) => Billed(x)'
  BY <1>1, <1>2, InsertBills DEF FlushCommit
<1>4. \A g \in Flushers : Busy(g)' = Busy(g) /\ flush'[g].event = flush[g].event
  BY <1>1 DEF FlushCommit, Written, Busy, TypeOK
<1>5. Held' = Held
  BY <1>4 DEF Held
<1>6. Debt' \subseteq Debt
  BY <1>1, <1>3, <1>5 DEF Debt, Unaccounted, Stray
<1>7. ~overlapped' => Cardinality(Debt') <= Cardinality(dropped')
  BY <1>1, <1>6, DebtShrinks
<1> QED
  BY <1>1, <1>4, <1>5, <1>7 DEF DebtInv, HandedOver, FlushAtFront

LEMMA DebtInvFlushAck ==
    ASSUME LossInv, DebtInv, TypeOK', NEW f \in Flushers, FlushAck(f)
    PROVE  DebtInv'
<1>1. /\ TypeOK /\ UNCHANGED <<emit, rows, dropped, overlapped>> /\ flush[f].pc = "written"
      /\ buffer \in Seq(Emissions) /\ buffer' \in Seq(Emissions)
  BY DEF FlushAck, LossInv, TypeOK
<1>2. /\ flush'[f] = IF buffer' = <<>> THEN IdleFlush ELSE Inserting(Head(buffer'))
      /\ \A g \in Flushers : g # f => flush'[g] = flush[g]
  BY <1>1 DEF FlushAck, TypeOK
<1>3. Distinct(buffer') /\ ToSet(buffer') \subseteq ToSet(buffer)
         /\ \A x \in ToSet(buffer) : x \notin ToSet(buffer') => buffer # <<>> /\ x = Head(buffer)
  <2>1. CASE buffer = <<>>
    BY <2>1, ToSetEmpty DEF FlushAck, DebtInv
  <2>2. CASE buffer # <<>>
    <3>1. buffer' = Tail(buffer)
      BY <2>2 DEF FlushAck
    <3> QED
      BY <1>1, <2>2, <3>1, DistinctTail DEF DebtInv
  <2> QED
    BY <2>1, <2>2
<1>4. buffer' # <<>> => Head(buffer') \in ToSet(buffer')
  BY <1>1, <1>3, DistinctTail
<1>5. Held' \subseteq Held \cup ToSet(buffer')
  BY <1>2, <1>4 DEF Held, Busy, IdleFlush, Inserting
<1>6. HandedOver' /\ dropped' \cap ToSet(buffer') = {}
  BY <1>1, <1>3, <1>5 DEF DebtInv, HandedOver
<1>7. Busy(f) /\ (~overlapped => \A g \in Flushers : g # f => ~Busy(g) /\ ~Busy(g)')
  BY <1>1, <1>2 DEF LossInv, OneFlushAtATime, Busy
<1>8. FlushAtFront'
  BY <1>1, <1>2, <1>7 DEF FlushAtFront, Busy, IdleFlush, Inserting
<1>9. ASSUME ~overlapped
      PROVE  Cardinality(Debt') <= Cardinality(dropped')
  <2> DEFINE w == flush[f].event
  <2>1. Stray' = {}
    BY <1>2, <1>4, <1>7, <1>9 DEF Stray, Held, Busy, IdleFlush, Inserting
  <2>2. Billed(w) /\ w \in Held /\ w \notin Unaccounted
    BY <1>1, <1>7 DEF LossInv, WrittenIsBilled, Held, Unaccounted
  <2>3. CASE w \in ToSet(buffer)
    <3>1. w = Head(buffer)
      BY <1>7, <1>9, <2>3 DEF DebtInv, FlushAtFront
    <3>2. Unaccounted' \subseteq Unaccounted
      BY <1>1, <1>3, <2>2, <3>1 DEF Unaccounted, Billed
    <3> QED
      BY <1>1, <1>9, <2>1, <3>2, DebtShrinks DEF Debt
  <2>4. CASE w \notin ToSet(buffer) /\ buffer = <<>>
    <3>1. Unaccounted' \subseteq Unaccounted
      BY <1>1, <1>3, <2>4 DEF Unaccounted, Billed
    <3> QED
      BY <1>1, <1>9, <2>1, <3>1, DebtShrinks DEF Debt
  <2>5. CASE w \notin ToSet(buffer) /\ buffer # <<>>
    <3>1. Head(buffer) \in Emissions
      BY <1>1, <2>5, HeadTailProperties
    <3>2. w \in Debt /\ Debt \subseteq Emissions
      BY <1>1, <2>2, <2>5, DebtType DEF Debt, Stray
    <3>3. Debt' \subseteq (Debt \ {w}) \cup {Head(buffer)}
      BY <1>1, <1>3, <2>1, <2>2 DEF Debt, Unaccounted, Billed
    <3>4. Cardinality(Debt') <= Cardinality(Debt)
      BY <3>1, <3>2, <3>3, OneForAnother
    <3>5. /\ Cardinality(Debt') \in Nat /\ Cardinality(Debt) \in Nat
          /\ Cardinality(dropped) \in Nat
      <4>1. Debt' \subseteq Emissions /\ dropped \subseteq Emissions
        BY <1>1, <3>1, <3>2, <3>3 DEF TypeOK
      <4> QED
        BY <3>2, <4>1, Finite
    <3> QED
      BY <1>1, <1>9, <3>4, <3>5 DEF DebtInv
  <2> QED
    BY <2>3, <2>4, <2>5
<1> QED
  BY <1>1, <1>3, <1>6, <1>8, <1>9 DEF DebtInv

LEMMA DebtInvFlushFail ==
    ASSUME LossInv, DebtInv, TypeOK', NEW f \in Flushers, FlushFail(f)
    PROVE  DebtInv'
<1>1. TypeOK /\ UNCHANGED <<emit, rows, buffer, dropped, overlapped>>
  BY DEF FlushFail, LossInv
<1>2. flush'[f] = IdleFlush /\ \A g \in Flushers : g # f => flush'[g] = flush[g]
  BY <1>1 DEF FlushFail, TypeOK
<1>3. Held' \subseteq Held
  BY <1>2 DEF Held, Busy, IdleFlush
<1>4. FlushAtFront'
  BY <1>1, <1>2 DEF DebtInv, FlushAtFront, Busy, IdleFlush
<1>5. Debt' \subseteq Debt
  BY <1>1, <1>3 DEF Debt, Unaccounted, Stray, Billed
<1>6. ~overlapped' => Cardinality(Debt') <= Cardinality(dropped')
  BY <1>1, <1>5, DebtShrinks
<1> QED
  BY <1>1, <1>3, <1>4, <1>6 DEF DebtInv, HandedOver

LEMMA DebtInvRestart ==
    ASSUME LossInv, DebtInv, TypeOK', Restart
    PROVE  DebtInv'
<1>1. TypeOK /\ UNCHANGED <<rows, dropped, overlapped>> /\ dropped \subseteq Emissions
  BY DEF Restart, LossInv, TypeOK
<1>2. buffer' = <<>> /\ ToSet(buffer') = {} /\ Len(buffer') = 0
  BY ToSetEmpty DEF Restart
<1>3. Held' = {}
  BY DEF Restart, Held, Busy, IdleFlush
<1>4. \A x \in Emissions :
         /\ emit'[x] \in {"auditing", "buffered"} => emit[x] = "buffered" /\ x \notin ToSet(buffer)
         /\ emit[x] \in {"auditing", "buffered", "crashed"}
               => emit'[x] \in {"auditing", "buffered", "crashed"}
  BY DEF Restart, LossInv, TypeOK, EmitStates
<1>5. Debt' \subseteq Debt
  BY <1>1, <1>3, <1>4 DEF Debt, Unaccounted, Stray, Billed
<1>6. ~overlapped' => Cardinality(Debt') <= Cardinality(dropped')
  BY <1>1, <1>5, DebtShrinks
<1>7. HandedOver'
  BY <1>1, <1>2, <1>3, <1>4 DEF DebtInv, HandedOver
<1> QED
  BY <1>2, <1>6, <1>7 DEF DebtInv, Distinct, FlushAtFront

(* With overflow a popleft may remove an event that nobody has written;    *)
(* unless flushes overlap, such losses never outnumber the events that the *)
(* full deque discarded (R14.3 and R14.5).                                 *)
THEOREM LossBoundedByOverflowCorrect == Spec => []LossBoundedByOverflow
<1>1. LossInv /\ DebtInv /\ TypeOK' /\ [Next]_vars => DebtInv'
  <2> SUFFICES ASSUME LossInv, DebtInv, TypeOK', [Next]_vars
               PROVE  DebtInv'
    OBVIOUS
  <2>1. ASSUME NEW e \in Emissions,
               \/ \E billable \in BOOLEAN : EmitStart(e, billable)
               \/ EmitCommit(e)
               \/ EmitAck(e)
               \/ AuditReturns(e)
        PROVE  DebtInv'
    BY <2>1, DebtInvEmit
  <2>2. ASSUME NEW e \in Emissions, EmitFail(e)
        PROVE  DebtInv'
    BY <2>2, DebtInvEmitFail
  <2>3. ASSUME NEW f \in Flushers, FlushStart(f)
        PROVE  DebtInv'
    BY <2>3, DebtInvFlushStart
  <2>4. ASSUME NEW f \in Flushers, FlushCommit(f)
        PROVE  DebtInv'
    BY <2>4, DebtInvFlushCommit
  <2>5. ASSUME NEW f \in Flushers, FlushAck(f)
        PROVE  DebtInv'
    BY <2>5, DebtInvFlushAck
  <2>6. ASSUME NEW f \in Flushers, FlushFail(f)
        PROVE  DebtInv'
    BY <2>6, DebtInvFlushFail
  <2>7. CASE Restart
    BY <2>7, DebtInvRestart
  <2>8. CASE UNCHANGED vars
    BY <2>8 DEF vars, DebtInv, HandedOver, FlushAtFront, Debt, Unaccounted, Stray, Held,
       Busy, Billed
  <2> QED
    BY <2>1, <2>2, <2>3, <2>4, <2>5, <2>6, <2>7, <2>8 DEF Next
<1>2. TypeOK /\ DebtInv => LossBoundedByOverflow
  <2> SUFFICES ASSUME TypeOK, DebtInv, ~overlapped
               PROVE  Cardinality(Unaccounted) <= Cardinality(dropped)
    BY DEF LossBoundedByOverflow
  <2>1. Debt \subseteq Emissions /\ dropped \subseteq Emissions /\ Unaccounted \subseteq Debt
    BY DebtType DEF TypeOK, Debt
  <2>2. /\ Cardinality(Unaccounted) <= Cardinality(Debt) /\ Cardinality(Unaccounted) \in Nat
        /\ Cardinality(Debt) \in Nat /\ Cardinality(dropped) \in Nat
    BY <2>1, Finite
  <2> QED
    BY <2>2 DEF DebtInv
<1> QED
  BY DebtInvInit, <1>1, <1>2, LossInvCorrect, TypeCorrect, PTL DEF Spec

=============================================================================
