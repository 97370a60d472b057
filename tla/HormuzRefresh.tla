----------------------------- MODULE HormuzRefresh -----------------------------
(* The one row of hormuz_monitor_cache, refreshed by whoever views it:            *)
(* src/lib/hormuz-monitor.ts with claim_hormuz_refresh and finish_hormuz_refresh. *)
(* Times are ticks of a bounded clock; an observation is named by its time.       *)
EXTENDS Integers

CONSTANTS Viewer,      \* requests that show the monitor
          Interval,    \* 30 minutes between attempts
          Patience,    \* a request ends at this age: maxDuration
          Ahead,       \* 5 minutes: how far the source's clock may run ahead of ours
          LastMinute   \* bound: the clock

ASSUME HormuzAssumption ==
  /\ Interval \in Nat /\ Patience \in Nat /\ Ahead \in Nat /\ LastMinute \in Nat \ {0}
  /\ Patience < Interval

VARIABLES minute,   \* now
          crossing, \* the row: the observation it holds (0: none), next attempt, lease
          viewer    \* what each request is doing

hormuzVars == <<minute, crossing, viewer>>

NoView == [pc |-> "away"]
HormuzInit ==
  /\ minute = 1
  /\ crossing = [observed |-> 0, next |-> 0, lease |-> {}, failed |-> FALSE]
  /\ viewer = [v \in Viewer |-> NoView]

Viewing(v, pc) == viewer[v].pc = pc
View(v, rec) == viewer' = [viewer EXCEPT ![v] = rec]

\* The row is read; it is answered as it is while the next attempt is not due.
ReadCache(v) ==
  /\ Viewing(v, "away") /\ crossing.next <= minute
  /\ View(v, [pc |-> "claim", since |-> minute, cached |-> crossing.observed])
  /\ UNCHANGED <<minute, crossing>>

\* Mutant: the claim trusts the read of the row.
ClaimUngated(v) ==
  /\ Viewing(v, "claim")
  /\ crossing' = [crossing EXCEPT !.next = minute + Interval, !.lease = {v}]
  /\ View(v, [viewer[v] EXCEPT !.pc = "fetch"])
  /\ UNCHANGED minute

\* claim_hormuz_refresh: an attempt is used up before the source is asked.  A claim
\* that finds the attempt taken answers with the row.
ClaimRefresh(v) ==
  /\ Viewing(v, "claim")
  /\ IF crossing.next <= minute
     THEN /\ crossing' = [crossing EXCEPT !.next = minute + Interval, !.lease = {v}]
          /\ View(v, [viewer[v] EXCEPT !.pc = "fetch"])
     ELSE View(v, NoView) /\ UNCHANGED crossing
  /\ UNCHANGED minute

\* Mutant: the time of the observation is not compared with the clock.
AcceptableEver(v, observed) == observed >= viewer[v].cached

\* parseHormuz, which lets the observation run ahead of the clock by the tolerance, and
\* the comparison with the snapshot read before the claim.
Acceptable(v, observed) == observed <= minute + Ahead /\ observed >= viewer[v].cached

\* The source reports any time, in any order, or fails.
FetchCrossings(v) ==
  /\ Viewing(v, "fetch")
  /\ \E observed \in 1..LastMinute + Ahead + 1 :
       \/ Acceptable(v, observed)
          /\ View(v, [pc |-> "finish", since |-> viewer[v].since, payload |-> observed])
       \/ ~Acceptable(v, observed)
          /\ View(v, [pc |-> "finish", since |-> viewer[v].since, payload |-> 0])
  /\ UNCHANGED <<minute, crossing>>

\* finish_hormuz_refresh, fenced by the lease; payload 0 stands for a failure.
FinishRefresh(v) ==
  LET failed == viewer[v].payload = 0 IN
  /\ Viewing(v, "finish")
  /\ crossing' = IF crossing.lease # {v} THEN crossing
                 ELSE [crossing EXCEPT !.observed = IF failed THEN @ ELSE viewer[v].payload,
                         !.failed = failed,
                         !.next = IF @ > minute + Interval THEN @ ELSE minute + Interval]
  /\ View(v, NoView)
  /\ UNCHANGED minute

\* An error answers with what was read, and a request may end anywhere.
ViewEnds(v) ==
  /\ viewer[v] # NoView /\ View(v, NoView)
  /\ UNCHANGED <<minute, crossing>>

MinutePasses ==
  /\ minute < LastMinute
  /\ \A v \in Viewer : viewer[v] # NoView => minute < viewer[v].since + Patience
  /\ minute' = minute + 1
  /\ UNCHANGED <<crossing, viewer>>

HormuzNext ==
  \/ MinutePasses
  \/ \E v \in Viewer : \/ ReadCache(v) \/ ClaimRefresh(v) \/ FetchCrossings(v)
                       \/ FinishRefresh(v) \/ ViewEnds(v)

HormuzSpec == HormuzInit /\ [][HormuzNext]_hormuzVars

-----------------------------------------------------------------------------
\* Types; no observation, stored or about to be, runs ahead of the clock by more than the
\* tolerance that hormuzFreshness calls current.
HormuzTypeOK ==
  /\ minute \in 1..LastMinute
  /\ crossing \in [observed: 0..minute + Ahead, next: 0..LastMinute + Interval,
                   lease: SUBSET Viewer, failed: BOOLEAN]
  /\ viewer \in [Viewer ->
        {NoView} \cup [pc: {"claim", "fetch"}, since: 1..minute, cached: 0..minute + Ahead]
                 \cup [pc: {"finish"}, since: 1..minute, payload: 0..minute + Ahead]]

\* The observation never goes back, although each refresh compares with the row as it
\* was before the claim and not as it is.
ObservationAdvances == [][crossing'.observed >= crossing.observed]_hormuzVars

\* The source is asked by one request at a time, however many pages are viewed and
\* however the requests end.
OneRefresh ==
  \A v, u \in Viewer : Viewing(v, "fetch") /\ Viewing(u, "fetch") => v = u
=============================================================================
