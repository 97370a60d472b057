-------------------------- MODULE HormuzRefresh_proofs --------------------------
(* Proofs about HormuzRefresh.  All three rest on Patience < Interval: a request   *)
(* that claimed is over before another claim can succeed.                          *)
EXTENDS HormuzRefresh, TLAPS

Active(v) == viewer[v].pc \in {"fetch", "finish"}

\* A request is no older than Patience.
InTime == \A v \in Viewer : viewer[v] # NoView => minute <= viewer[v].since + Patience

\* While a request asks or answers, the next attempt lies beyond its life, so no other
\* request is active.
Alone ==
  /\ \A v \in Viewer : Active(v) => crossing.next > viewer[v].since + Patience
  /\ \A v, u \in Viewer : Active(v) /\ Active(u) => v = u

\* What a request read before its claim is still in the row if its claim can succeed.
ReadIsCurrent ==
  \A v \in Viewer :
    /\ Viewing(v, "claim") =>
         crossing.next > viewer[v].since + Patience \/ viewer[v].cached = crossing.observed
    /\ Viewing(v, "fetch") => viewer[v].cached = crossing.observed
    /\ Viewing(v, "finish") => viewer[v].payload = 0 \/ viewer[v].payload >= crossing.observed

\* The clock is in range, so that the bounds of the row grow with it.
NextIsNear == crossing.next <= minute + Interval

HormuzInv == HormuzTypeOK /\ InTime /\ Alone /\ ReadIsCurrent /\ NextIsNear

Asking(v) == viewer[v] \in [pc: {"claim", "fetch"}, since: 1..minute, cached: 0..minute + Ahead]
Answering(v) == viewer[v] \in [pc: {"finish"}, since: 1..minute, payload: 0..minute + Ahead]

\* What a request's pc says of its record.
LEMMA ViewForm ==
  ASSUME HormuzTypeOK, NEW v \in Viewer
  PROVE  /\ viewer[v] = NoView <=> viewer[v].pc = "away"
         /\ viewer[v].pc \in {"claim", "fetch"} <=> Asking(v)
         /\ viewer[v].pc = "finish" <=> Answering(v)
         /\ viewer[v].pc \in {"away", "claim", "fetch", "finish"}
BY DEF HormuzTypeOK, NoView, Asking, Answering

\* Every request starts away.
LEMMA HormuzInitInv == HormuzInit => HormuzInv
BY HormuzAssumption
   DEF HormuzInit, HormuzInv, HormuzTypeOK, InTime, Alone, ReadIsCurrent, NextIsNear, NoView,
       Active, Viewing

\* What holds of the other requests when the row does not change.
LEMMA RowKept ==
  ASSUME HormuzInv, NEW v \in Viewer, NEW rec,
         viewer' = [viewer EXCEPT ![v] = rec], UNCHANGED <<minute, crossing>>,
         \/ rec = NoView
         \/ /\ rec \in [pc: {"claim"}, since: {minute}, cached: {crossing.observed}]
         \/ /\ Viewing(v, "fetch")
            /\ rec \in [pc: {"finish"}, since: {viewer[v].since}, payload: 0..minute + Ahead]
            /\ rec.payload = 0 \/ rec.payload >= viewer[v].cached
  PROVE  HormuzInv'
<1> USE HormuzAssumption
<1>1. /\ viewer'[v] = rec
      /\ \A u \in Viewer : u # v => viewer'[u] = viewer[u]
  BY DEF HormuzInv, HormuzTypeOK
<1>2. /\ crossing.observed \in 0..minute + Ahead /\ minute \in 1..LastMinute
      /\ crossing.next \in 0..LastMinute + Interval
  BY DEF HormuzInv, HormuzTypeOK
<1>3. Viewing(v, "fetch") => Asking(v)
  BY ViewForm DEF HormuzInv, Viewing
<1>4. HormuzTypeOK'
  BY <1>1, <1>2, <1>3 DEF HormuzInv, HormuzTypeOK, Asking, NoView
<1>5. InTime'
  BY <1>1, <1>2, <1>3 DEF HormuzInv, InTime, Asking, NoView, Viewing
<1>6. Alone'
  BY <1>1, <1>2, <1>3 DEF HormuzInv, Alone, Asking, NoView, Active, Viewing
<1>7. ReadIsCurrent'
  BY <1>1, <1>2, <1>3 DEF HormuzInv, ReadIsCurrent, Asking, NoView, Viewing
<1>8. NextIsNear'
  BY DEF HormuzInv, NextIsNear
<1> QED
  BY <1>4, <1>5, <1>6, <1>7, <1>8 DEF HormuzInv

\* A claim succeeds only when no request is active: those are within their life, and the
\* next attempt lies beyond it.
LEMMA ClaimKeeps == ASSUME HormuzInv, NEW v \in Viewer, ClaimRefresh(v) PROVE HormuzInv'
<1> USE HormuzAssumption
<1>1. CASE crossing.next > minute
  BY <1>1, RowKept DEF ClaimRefresh, View, HormuzInv, HormuzTypeOK
<1>2. CASE crossing.next <= minute
  <2>1. /\ crossing' = [crossing EXCEPT !.next = minute + Interval, !.lease = {v}]
        /\ viewer' = [viewer EXCEPT ![v] = [viewer[v] EXCEPT !.pc = "fetch"]]
        /\ minute' = minute
    BY <1>2 DEF ClaimRefresh, View
  <2>2. Asking(v) /\ viewer[v].pc = "claim"
    BY ViewForm DEF ClaimRefresh, HormuzInv, Viewing
  <2>3. /\ viewer'[v] = [pc |-> "fetch", since |-> viewer[v].since, cached |-> viewer[v].cached]
        /\ \A u \in Viewer : u # v => viewer'[u] = viewer[u]
    BY <2>1, <2>2 DEF HormuzInv, HormuzTypeOK, Asking
  <2>4. crossing \in [observed: 0..minute + Ahead, next: 0..LastMinute + Interval,
                      lease: SUBSET Viewer, failed: BOOLEAN] /\ minute \in 1..LastMinute
    BY DEF HormuzInv, HormuzTypeOK
  <2>5. crossing' = [observed |-> crossing.observed, next |-> minute + Interval,
                     lease |-> {v}, failed |-> crossing.failed]
    BY <2>1, <2>4
  <2>6. ASSUME NEW u \in Viewer PROVE ~Active(u)
    <3>1. SUFFICES ASSUME Active(u) PROVE FALSE
      OBVIOUS
    <3>2. viewer[u] # NoView
      BY <3>1 DEF Active, NoView
    <3>3. Asking(u) \/ Answering(u)
      BY <3>1, ViewForm DEF Active, HormuzInv
    <3>4. viewer[u].since \in Int
      BY <2>4, <3>3 DEF Asking, Answering
    <3> QED
      BY <1>2, <2>4, <3>1, <3>2, <3>4 DEF HormuzInv, InTime, Alone
  <2>7. HormuzTypeOK'
    BY <2>1, <2>2, <2>3, <2>4, <2>5 DEF HormuzInv, HormuzTypeOK, Asking
  <2>8. viewer[v].since \in 1..minute /\ minute <= viewer[v].since + Patience
    BY <2>2 DEF HormuzInv, InTime, Asking, NoView
  <2>9. InTime'
    BY <2>1, <2>3, <2>8 DEF HormuzInv, InTime
  <2>10. Alone'
    BY <2>3, <2>4, <2>5, <2>6, <2>8 DEF Alone, Active
  <2>11. viewer[v].cached = crossing.observed
    BY <1>2, <2>2, <2>4, <2>8 DEF HormuzInv, ReadIsCurrent, Viewing
  <2>12. ASSUME NEW u \in Viewer, u # v, viewer[u].pc = "claim"
         PROVE  minute + Interval > viewer[u].since + Patience
    <3>1. Asking(u)
      BY <2>12, ViewForm DEF HormuzInv
    <3> QED
      BY <2>4, <3>1 DEF Asking
  <2>13. ReadIsCurrent'
    BY <2>3, <2>5, <2>6, <2>11, <2>12 DEF ReadIsCurrent, Viewing, Active
  <2>14. NextIsNear'
    BY <2>1, <2>4, <2>5 DEF NextIsNear
  <2> QED
    BY <2>7, <2>9, <2>10, <2>13, <2>14 DEF HormuzInv
<1> QED
  BY <1>1, <1>2 DEF HormuzInv, HormuzTypeOK

\* The payload is no older than the row: it was compared with the row as the request read
\* it, and the row is still that.
LEMMA FinishKeeps == ASSUME HormuzInv, NEW v \in Viewer, FinishRefresh(v) PROVE HormuzInv'
<1> USE HormuzAssumption
<1>1. CASE crossing.lease # {v}
  BY <1>1, RowKept DEF FinishRefresh, View
<1>2. CASE crossing.lease = {v}
  <2> DEFINE next == IF crossing.next > minute + Interval THEN crossing.next
                     ELSE minute + Interval
             seen == IF viewer[v].payload = 0 THEN crossing.observed ELSE viewer[v].payload
  <2>1. crossing \in [observed: 0..minute + Ahead, next: 0..LastMinute + Interval,
                      lease: SUBSET Viewer, failed: BOOLEAN] /\ minute \in 1..LastMinute
    BY DEF HormuzInv, HormuzTypeOK
  <2>2. Answering(v) /\ viewer[v].pc = "finish"
    BY ViewForm DEF FinishRefresh, HormuzInv, Viewing
  <2>3. /\ crossing' = [observed |-> seen, next |-> next, lease |-> {v},
                        failed |-> (viewer[v].payload = 0)]
        /\ minute' = minute
    BY <1>2, <2>1 DEF FinishRefresh
  <2>4. /\ viewer'[v] = NoView
        /\ \A u \in Viewer : u # v => viewer'[u] = viewer[u]
        /\ viewer' \in [Viewer -> {NoView} \cup {viewer[u] : u \in Viewer}]
    BY DEF FinishRefresh, View, HormuzInv, HormuzTypeOK
  <2>5. seen \in 0..minute + Ahead /\ next \in 0..LastMinute + Interval /\ next = minute + Interval
    BY <2>1, <2>2 DEF Answering, HormuzInv, NextIsNear
  <2>6. ASSUME NEW u \in Viewer, u # v PROVE ~Active(u)
    BY <2>2, <2>6 DEF HormuzInv, Alone, Active
  <2>7. HormuzTypeOK'
    BY <2>1, <2>3, <2>4, <2>5 DEF HormuzInv, HormuzTypeOK
  <2>8. InTime'
    BY <2>3, <2>4 DEF HormuzInv, InTime
  <2>9. Alone'
    BY <2>4, <2>6 DEF Alone, Active, NoView
  <2>10. ASSUME NEW u \in Viewer, u # v, viewer[u].pc = "claim"
         PROVE  minute + Interval > viewer[u].since + Patience
    <3>1. Asking(u)
      BY <2>10, ViewForm DEF HormuzInv
    <3> QED
      BY <2>1, <3>1 DEF Asking
  <2>11. ReadIsCurrent'
    BY <2>3, <2>4, <2>5, <2>6, <2>10 DEF ReadIsCurrent, Viewing, Active, NoView
  <2>12. NextIsNear'
    BY <2>1, <2>3, <2>5 DEF NextIsNear
  <2> QED
    BY <2>7, <2>8, <2>9, <2>11, <2>12 DEF HormuzInv
<1> QED
  BY <1>1, <1>2

\* The clock waits for the requests it would overtake.
LEMMA MinuteKeeps == ASSUME HormuzInv, MinutePasses PROVE HormuzInv'
<1> USE HormuzAssumption
<1>1. /\ minute \in 1..LastMinute /\ minute' = minute + 1 /\ minute' \in 1..LastMinute
      /\ UNCHANGED <<crossing, viewer>>
  BY DEF MinutePasses, HormuzInv, HormuzTypeOK
<1>2. ASSUME NEW v \in Viewer, viewer[v] # NoView PROVE viewer[v].since \in 1..minute
  <2>1. Asking(v) \/ Answering(v)
    BY <1>2, ViewForm DEF HormuzInv
  <2> QED
    BY <2>1 DEF Asking, Answering
<1>3. crossing \in [observed: 0..minute + Ahead, next: 0..LastMinute + Interval,
                    lease: SUBSET Viewer, failed: BOOLEAN]
  BY DEF HormuzInv, HormuzTypeOK
<1>4. HormuzTypeOK'
  BY <1>1 DEF HormuzInv, HormuzTypeOK
<1>5. InTime'
  BY <1>1, <1>2 DEF InTime, MinutePasses
<1>6. Alone' /\ ReadIsCurrent' /\ NextIsNear'
  BY <1>1, <1>3 DEF HormuzInv, Alone, ReadIsCurrent, NextIsNear, Active, Viewing
<1> QED
  BY <1>4, <1>5, <1>6 DEF HormuzInv

\* The invariant is inductive.
LEMMA HormuzStep == HormuzInv /\ [HormuzNext]_hormuzVars => HormuzInv'
<1> SUFFICES ASSUME HormuzInv, [HormuzNext]_hormuzVars PROVE HormuzInv'
  OBVIOUS
<1> USE HormuzAssumption
<1>1. ASSUME NEW v \in Viewer, ReadCache(v) PROVE HormuzInv'
  BY <1>1, RowKept DEF ReadCache, View, HormuzInv, HormuzTypeOK
<1>2. ASSUME NEW v \in Viewer, FetchCrossings(v) PROVE HormuzInv'
  <2>1. minute \in 1..LastMinute
    BY DEF HormuzInv, HormuzTypeOK
  <2>2. PICK rec : /\ View(v, rec)
                   /\ rec \in [pc: {"finish"}, since: {viewer[v].since}, payload: 0..minute + Ahead]
                   /\ rec.payload = 0 \/ rec.payload >= viewer[v].cached
    BY <1>2, <2>1 DEF FetchCrossings, Acceptable
  <2> QED
    BY <1>2, <2>2, RowKept DEF FetchCrossings, View
<1>3. ASSUME NEW v \in Viewer, ViewEnds(v) PROVE HormuzInv'
  BY <1>3, RowKept DEF ViewEnds, View
<1>4. CASE UNCHANGED hormuzVars
  BY <1>4 DEF hormuzVars, HormuzInv, HormuzTypeOK, InTime, Alone, ReadIsCurrent, NextIsNear,
              Active, Viewing
<1> QED
  BY <1>1, <1>2, <1>3, <1>4, ClaimKeeps, FinishKeeps, MinuteKeeps DEF HormuzNext

\* Every behaviour keeps the invariant.
LEMMA HormuzInvariance == HormuzSpec => []HormuzInv
BY HormuzInitInv, HormuzStep, PTL DEF HormuzSpec

\* Types of hormuz_monitor_cache and of the requests; no observation, stored or about to
\* be, runs ahead of the clock by more than the tolerance of parseHormuz.
THEOREM HormuzTypes == HormuzSpec => []HormuzTypeOK
<1>1. HormuzInv => HormuzTypeOK
  BY DEF HormuzInv
<1> QED
  BY <1>1, HormuzInvariance, PTL

\* claim_hormuz_refresh lets one request at a time ask the source.
THEOREM RefreshIsSingle == HormuzSpec => []OneRefresh
<1>1. HormuzInv => OneRefresh
  BY DEF HormuzInv, Alone, OneRefresh, Active, Viewing
<1> QED
  BY <1>1, HormuzInvariance, PTL

\* A refresh never replaces the observation by an older one, although it compares with a
\* read that precedes its claim.
THEOREM ObservationNeverGoesBack == HormuzSpec => ObservationAdvances
<1>1. HormuzInv /\ [HormuzNext]_hormuzVars => [crossing'.observed >= crossing.observed]_hormuzVars
  <2> SUFFICES ASSUME HormuzInv, HormuzNext PROVE crossing'.observed >= crossing.observed
    OBVIOUS
  <2>1. crossing \in [observed: 0..minute + Ahead, next: 0..LastMinute + Interval,
                      lease: SUBSET Viewer, failed: BOOLEAN] /\ minute \in 1..LastMinute
    BY DEF HormuzInv, HormuzTypeOK
  <2>2. ASSUME NEW v \in Viewer, ClaimRefresh(v) PROVE crossing'.observed = crossing.observed
    BY <2>1, <2>2 DEF ClaimRefresh
  <2>3. ASSUME NEW v \in Viewer, FinishRefresh(v) PROVE crossing'.observed >= crossing.observed
    BY <2>1, <2>3 DEF FinishRefresh, HormuzInv, ReadIsCurrent
  <2>4. CASE UNCHANGED crossing
    BY <2>1, <2>4
  <2>5. crossing.observed >= crossing.observed
    BY <2>1
  <2> QED
    BY <2>2, <2>3, <2>4, <2>5 DEF HormuzNext, MinutePasses, ReadCache, FetchCrossings, ViewEnds
<1> QED
  BY <1>1, HormuzInvariance, PTL DEF HormuzSpec, ObservationAdvances
=============================================================================
