---------------------------- MODULE ScheduledCycle ----------------------------
(* The scheduled research cycle: cron invocations that acquire a research run, and   *)
(* later ones that continue it, against the rows of research_runs, the engine's      *)
(* run and the published editions.  lib/cron-research-handler.ts,                    *)
(* lib/cron-research-intelligence-handler.ts, app/api/research-update/route.ts.      *)
EXTENDS Integers, FiniteSets

CONSTANTS
  ResearchRun,  \* rows of research_runs for one slot occurrence, by their run key
  Retry,        \* those whose key is an explicit :retry: key
  Later,        \* the run key of a later slot occurrence, not itself modelled
  Cron,         \* invocations of the routes
  Life,         \* an invocation ends at this age: maxDuration, 300 seconds
  AcquireStale, \* ACQUISITION_CLAIM_STALE_MS, 7 minutes
  ClaimStale,   \* INTELLIGENCE_CONTINUATION_CLAIM_STALE_MS, 6 minutes
  RetryStale,   \* MANUAL_RETRY_SUPERSESSION_STALE_MS, 20 minutes
  Abandoned,    \* ABANDONED_SCHEDULED_RUN_STALE_MS, 24 hours
  MaxCalls      \* bound: invocations for the runs of this occurrence

ASSUME CycleAssumption ==
  /\ Retry \subseteq ResearchRun /\ Later \notin ResearchRun
  /\ Life \in Nat /\ AcquireStale \in Nat /\ ClaimStale \in Nat
  /\ RetryStale \in Nat /\ Abandoned \in Nat /\ MaxCalls \in Nat
  /\ Life < AcquireStale /\ Life < ClaimStale /\ 2 * Life < RetryStale
  /\ AcquireStale <= Abandoned /\ RetryStale <= Abandoned

VARIABLES
  research,   \* research[r]: the row of research_runs; its age is that of updated_at;
              \* early, a history: it was claimed before it was handed over
  engineDone, \* engineDone[r]: the engine run of r is stored as completed
  base,       \* base[r]: the base edition, "canonical", "legacy" (from the trigger) or "none"
  composed,   \* composed[r]: the composed edition is stored
  cron,       \* cron[c]: the local state of an invocation
  calls       \* invocations begun so far for this occurrence

cycleVars == <<research, engineDone, base, composed, cron, calls>>
artifacts == <<engineDone, base, composed>>

NoRow == [status |-> "none", sources |-> FALSE, gate |-> "blocked", handed |-> FALSE,
          early |-> FALSE, marker |-> FALSE, superseded |-> FALSE, claim |-> ClaimStale,
          age |-> Abandoned]
NoCall == [pc |-> "idle", run |-> Later, at |-> Later, fresh |-> FALSE, life |-> 0,
         sourceOnly |-> FALSE, claimed |-> FALSE, done |-> FALSE, step |-> "none"]

CycleInit ==
  /\ research = [r \in ResearchRun |-> NoRow]
  /\ engineDone = [r \in ResearchRun |-> FALSE]
  /\ base = [r \in ResearchRun |-> "none"]
  /\ composed = [r \in ResearchRun |-> FALSE]
  /\ cron = [c \in Cron |-> NoCall]
  /\ calls = 0

-----------------------------------------------------------------------------
(* Writes to a row.  Every write renews updated_at, so the snapshots that other      *)
(* invocations hold of the row no longer match it.                                   *)

\* What c does next, after a write to the row it works at.
Proceed(c, rec) ==
  cron' = [d \in Cron |-> IF d = c THEN [rec EXCEPT !.fresh = FALSE]
                          ELSE IF cron[d].at = cron[c].at THEN [cron[d] EXCEPT !.fresh = FALSE]
                          ELSE cron[d]]
Goto(c, pc) == cron' = [cron EXCEPT ![c].pc = pc]
Leave(c) == cron' = [cron EXCEPT ![c] = NoCall]

\* publish_hybrid_snapshots_for_run: a run that completes without an edition of its
\* own gets one from the trigger, unless it is marked as source-only.
EditionTrigger(r, row) ==
  base' = IF /\ row.status = "completed" /\ research[r].status # "completed"
             /\ ~row.marker /\ base[r] = "none"
          THEN [base EXCEPT ![r] = "legacy"] ELSE base

\* c writes the row it works at, and goes on as rec.
Write(c, row, rec) == /\ research' = [research EXCEPT ![cron[c].at] = row]
                      /\ EditionTrigger(cron[c].at, row)
                      /\ Proceed(c, rec)
                      /\ UNCHANGED <<engineDone, composed>>

\* Mutant: a write without the filter status = running.
WriteAny(c, row, rec) == Write(c, row, rec)
\* The same with the filter status = running: it may match no row, unnoticed.
WriteRunning(c, row, rec) ==
  IF research[cron[c].at].status = "running" THEN Write(c, row, rec)
  ELSE cron' = [cron EXCEPT ![c] = rec] /\ UNCHANGED <<research, artifacts>>

\* warnings written without the continuation's claims.
NoClaim(row) == [row EXCEPT !.claim = ClaimStale]
Failed(row) == [NoClaim(row) EXCEPT !.status = "failed", !.age = 0, !.marker = FALSE]

-----------------------------------------------------------------------------
(* Acquisition. *)

\* The deployment's mode, scheduledSourceOnlyEnabled, may be switched between
\* invocations.
BeginAcquisition(c, k, sourceOnly) ==
  /\ cron[c].pc = "idle"
  /\ k # Later => calls < MaxCalls
  /\ calls' = IF k = Later THEN calls ELSE calls + 1
  /\ cron' = [cron EXCEPT ![c] = [NoCall EXCEPT !.pc = "recover", !.run = k,
                                              !.sourceOnly = (k # Later /\ sourceOnly)]]
  /\ UNCHANGED <<research, artifacts>>

\* Mutant: the recovery is for runs whose sources never arrived.
IsAbandonedEarly(r) == /\ research[r].status = "running" /\ ~research[r].sources
                       /\ research[r].age >= Abandoned
\* abandonedScheduledRunEligible.  The slot row's heartbeat is set by a trigger at
\* every write of the run.
IsAbandoned(r) == /\ research[r].status = "running"
                  /\ research[r].age >= Abandoned
                  /\ ~engineDone[r]

FindAbandoned(c, r) ==
  /\ cron[c].pc = "recover"
  /\ IsAbandoned(r)
  /\ cron' = [cron EXCEPT ![c].pc = "terminalise", ![c].at = r, ![c].fresh = TRUE]
  /\ UNCHANGED <<research, artifacts, calls>>

Terminalise(c) ==
  LET r == cron[c].at IN
  /\ cron[c].pc = "terminalise"
  /\ IF cron[c].fresh
     THEN Write(c, [research[r] EXCEPT !.status = "failed", !.age = 0],
                [cron[c] EXCEPT !.pc = "recover", !.at = Later])
     ELSE /\ cron' = [cron EXCEPT ![c].pc = "recover", ![c].at = Later]
          /\ UNCHANGED <<research, artifacts>>
  /\ UNCHANGED calls

\* Mutant: a claim without sources is stale at once.
AcquisitionUnaged(r) == research[r].status = "running" /\ ~research[r].sources
\* staleAcquisitionClaimEligible
AcquisitionStale(r) == /\ research[r].status = "running"
                       /\ ~research[r].sources
                       /\ research[r].age >= AcquireStale

\* Nothing to recover is left, or the recovery failed, which is only logged: the run
\* is read by its key.
Lookup(c) ==
  LET r == cron[c].run
      found(pc) == [cron[c] EXCEPT !.pc = pc, !.at = r, !.fresh = (pc = "reclaim")] IN
  /\ cron[c].pc \in {"recover", "terminalise"}
  /\ cron' = [cron EXCEPT ![c] = IF r = Later THEN NoCall
                                 ELSE IF research[r].status = "none" THEN found("insert")
                                 ELSE IF AcquisitionStale(r) THEN found("reclaim")
                                 ELSE NoCall]
  /\ UNCHANGED <<research, artifacts, calls>>

InsertRun(c) ==
  LET r == cron[c].run IN
  /\ cron[c].pc = "insert"
  /\ IF research[r].status = "none"
     THEN Write(c, [NoRow EXCEPT !.status = "running", !.age = 0],
                [cron[c] EXCEPT !.pc = "collect"])
     ELSE Leave(c) /\ UNCHANGED <<research, artifacts>>
  /\ UNCHANGED calls

ReclaimRun(c) ==
  LET r == cron[c].run IN
  /\ cron[c].pc = "reclaim"
  /\ IF cron[c].fresh
     THEN Write(c, [research[r] EXCEPT !.age = 0], [cron[c] EXCEPT !.pc = "collect"])
     ELSE Leave(c) /\ UNCHANGED <<research, artifacts>>
  /\ UNCHANGED calls

\* The collectors fail, or the publisher's validation.
CollectFails(c) ==
  /\ cron[c].pc = "collect"
  /\ Goto(c, "failed")
  /\ UNCHANGED <<research, artifacts, calls>>

\* writeResearchRunLedgerStart: by id alone, with warnings of its own.  The scheduled
\* input lists a check of every source, whatever its outcome.
StartLedger(c) ==
  LET started(gate) == [NoClaim(research[cron[c].run]) EXCEPT
        !.status = "running", !.sources = TRUE, !.gate = gate, !.marker = FALSE, !.age = 0] IN
  /\ cron[c].pc = "collect"
  /\ \E gate \in {"open", "blocked"}, next \in {"finish", "failed"} :
       Write(c, started(gate), [cron[c] EXCEPT !.pc = next])
  /\ UNCHANGED calls

\* The intake rows cannot be stored; market motion that cannot is a warning.
IntakeFails(c) ==
  /\ cron[c].pc = "finish"
  /\ Goto(c, "withdraw")
  /\ UNCHANGED <<research, artifacts, calls>>

\* After a write whose answer may be lost: done, or the publisher's error handler.
Answered(c) == {NoCall, [cron[c] EXCEPT !.pc = "withdraw"]}

\* sourceOnlyCompletionDecision, fenced by status = running.
FinishSourceOnly(c) ==
  LET row == research[cron[c].at]
      complete == row.gate # "blocked" /\ row.sources IN
  /\ cron[c].pc = "finish" /\ cron[c].sourceOnly
  /\ IF row.status = "running"
     THEN \E rec \in Answered(c) :
            Write(c, [NoClaim(row) EXCEPT !.marker = TRUE, !.age = 0,
                        !.status = IF complete THEN "completed" ELSE "blocked"], rec)
     ELSE Goto(c, "withdraw") /\ UNCHANGED <<research, artifacts>>
  /\ UNCHANGED calls

\* "Scheduled acquisition persisted; canonical intelligence is pending": by id alone.
HandOver(c) ==
  LET row == research[cron[c].at] IN
  /\ cron[c].pc = "finish" /\ ~cron[c].sourceOnly
  /\ \E rec \in Answered(c) :
       Write(c, [NoClaim(row) EXCEPT !.status = "running", !.handed = TRUE, !.age = 0], rec)
  /\ UNCHANGED calls

\* The publisher's error handler: by id alone.  Its own failure is swallowed.
Withdraw(c) ==
  LET rec == [cron[c] EXCEPT !.pc = "failed"] IN
  /\ cron[c].pc = "withdraw"
  /\ \/ Write(c, Failed(research[cron[c].at]), rec)
     \/ cron' = [cron EXCEPT ![c] = rec] /\ UNCHANGED <<research, artifacts>>
  /\ UNCHANGED calls

\* markClaimFailed, fenced by status = running.  Its own failure is swallowed.
MarkClaimFailed(c) ==
  /\ cron[c].pc = "failed"
  /\ \/ WriteRunning(c, Failed(research[cron[c].at]), NoCall)
     \/ Leave(c) /\ UNCHANGED <<research, artifacts>>
  /\ UNCHANGED calls

-----------------------------------------------------------------------------
(* Continuation.  In source-only mode the route ends at once. *)

BeginContinuation(c, r) ==
  /\ cron[c].pc = "idle" /\ calls < MaxCalls
  /\ calls' = calls + 1
  /\ cron' = [cron EXCEPT ![c] = [NoCall EXCEPT !.pc = "read", !.run = r, !.at = r]]
  /\ UNCHANGED <<research, artifacts>>

\* staleManualRetryCanBeSuperseded
Supersedable(r) == /\ r \in Retry
                   /\ research[r].status = "running"
                   /\ research[r].age >= RetryStale
                   /\ ~engineDone[r]

\* evaluateScheduledIntelligenceContinuation: the runnable states, in their order.
Resumable(r) == engineDone[r] /\ research[r].gate # "blocked"
\* Mutant: a claim of another continuation is not respected.
DecisionUnclaimed(r) ==
  IF research[r].status \notin {"running", "failed"} THEN "none"
  ELSE IF Resumable(r)
  THEN IF composed[r] THEN "final" ELSE IF base[r] # "none" THEN "compose" ELSE "publish"
  ELSE IF research[r].status = "running" /\ research[r].sources THEN "engine" ELSE "none"
Decision(r) ==
  IF \/ research[r].status \notin {"running", "failed"}
     \/ research[r].claim < ClaimStale
  THEN "none"
  ELSE IF Resumable(r)
  THEN IF composed[r] THEN "final" ELSE IF base[r] # "none" THEN "compose" ELSE "publish"
  ELSE IF research[r].status = "running" /\ research[r].sources THEN "engine" ELSE "none"

\* Whether a newer retry of the slot has completed is not modelled, only looked up.
Read(c) ==
  LET r == cron[c].at IN
  /\ cron[c].pc \in {"read", "reread"}
  /\ \E newer \in BOOLEAN :
     IF cron[c].pc = "read" /\ Supersedable(r) /\ newer
     THEN cron' = [cron EXCEPT ![c].pc = "supersede", ![c].fresh = TRUE]
     ELSE IF Decision(r) = "none" THEN Leave(c)
     ELSE cron' = [cron EXCEPT ![c].pc = "claim", ![c].fresh = TRUE,
                               ![c].step = Decision(r), ![c].done = Resumable(r)]
  /\ UNCHANGED <<research, artifacts, calls>>

\* Mutant: superseded by id, whatever happened since the row was read.
SupersedeUnfenced(c) ==
  /\ cron[c].pc = "supersede"
  /\ Write(c, [research[cron[c].at] EXCEPT !.status = "failed", !.superseded = TRUE,
                                            !.age = 0], NoCall)
  /\ UNCHANGED calls
\* terminaliseSupersededRetry
Supersede(c) ==
  LET row == research[cron[c].at] IN
  /\ cron[c].pc = "supersede"
  /\ IF cron[c].fresh
     THEN Write(c, [row EXCEPT !.status = "failed", !.superseded = TRUE, !.age = 0], NoCall)
     ELSE Goto(c, "reread") /\ UNCHANGED <<research, artifacts>>
  /\ UNCHANGED calls

\* claimContinuation: status and updated_at are those read, or the race is lost.  The
\* times it writes are those at which the invocation began.  An error may come
\* before or after the write.
ClaimContinuation(c) ==
  LET row == research[cron[c].at]
      claimed == [row EXCEPT !.status = "running", !.claim = cron[c].life, !.age = cron[c].life,
                             !.early = @ \/ ~row.handed]
      next == IF cron[c].step = "engine" THEN "start" ELSE cron[c].step
      owner == [cron[c] EXCEPT !.pc = next, !.claimed = TRUE]
      error == [cron[c] EXCEPT !.pc = "error"] IN
  /\ cron[c].pc = "claim"
  /\ \/ cron[c].fresh /\ \E rec \in {owner, error} : Write(c, claimed, rec)
     \/ ~cron[c].fresh /\ Leave(c) /\ UNCHANGED <<research, artifacts>>
     \/ Goto(c, "error") /\ UNCHANGED <<research, artifacts>>
  /\ UNCHANGED calls

\* Mutant: the base edition is left to whoever freezes it.
AfterEngineUnpublished(c) ==
  cron' = [cron EXCEPT ![c] = IF research[cron[c].at].gate = "blocked"
                              THEN [cron[c] EXCEPT !.pc = "final", !.step = "blocked"]
                              ELSE [cron[c] EXCEPT !.pc = "final", !.done = TRUE]]
\* The engine has completed: to publication, or, for a blocked gate, to the end.
AfterEngine(c) ==
  cron' = [cron EXCEPT ![c] = IF research[cron[c].at].gate = "blocked"
                              THEN [cron[c] EXCEPT !.pc = "final", !.step = "blocked"]
                              ELSE [cron[c] EXCEPT !.pc = "publish", !.done = TRUE]]

\* startIntelligenceEngineRun: a completed engine run is replayed.
StartEngine(c) ==
  /\ cron[c].pc = "start"
  /\ \/ engineDone[cron[c].at] /\ AfterEngine(c)
     \/ ~engineDone[cron[c].at] /\ Goto(c, "engine")
     \/ Goto(c, "error")
  /\ UNCHANGED <<research, artifacts, calls>>

\* The engine completes its last stage.  A run with active Stories freezes the base.
EngineCompletes(c) ==
  LET r == cron[c].at IN
  /\ cron[c].pc = "engine"
  /\ engineDone' = [engineDone EXCEPT ![r] = TRUE]
  /\ \/ base' = base
     \/ /\ base[r] = "none" /\ research[r].gate # "blocked"
        /\ base' = [base EXCEPT ![r] = "canonical"]
  /\ AfterEngine(c)
  /\ UNCHANGED <<research, composed, calls>>

\* Or it stops: its status is written by id alone, or not at all when another claims
\* the stage or the write fails.
EngineStops(c) ==
  /\ cron[c].pc = "engine"
  /\ \E row \in BOOLEAN :
       engineDone' = [engineDone EXCEPT ![cron[c].at] = row /\ @]
  /\ \/ Goto(c, "release")
     \/ \E outcome \in {"failed", "blocked"} :
          cron' = [cron EXCEPT ![c].pc = "final", ![c].step = outcome]
  /\ UNCHANGED <<research, base, composed, calls>>

\* persistCanonicalJourneyEditionForResearchRun: a canonical base is reused; beside
\* another edition of that phase it can neither be reused nor inserted.  Composition
\* is left to another invocation once a model stage was invoked.
Publish(c) ==
  LET r == cron[c].at IN
  /\ cron[c].pc = "publish"
  /\ \/ /\ base[r] # "legacy"
        /\ base' = [base EXCEPT ![r] = "canonical"]
        /\ \/ Goto(c, "release")
           \/ cron[c].step = "engine" /\ Goto(c, "compose")
     \/ Goto(c, "error") /\ UNCHANGED base
  /\ UNCHANGED <<research, engineDone, composed, calls>>

\* composeCanonicalDossierEditionForResearchRun: composed, degraded to the base, to
\* be retried, or an error.
Compose(c) ==
  LET r == cron[c].at IN
  /\ cron[c].pc = "compose"
  /\ \/ /\ base[r] = "canonical"
        /\ \E stored \in BOOLEAN : composed' = [composed EXCEPT ![r] = @ \/ stored]
        /\ Goto(c, "final")
     \/ base[r] = "canonical" /\ Goto(c, "release") /\ UNCHANGED composed
     \/ Goto(c, "error") /\ UNCHANGED composed
  /\ UNCHANGED <<research, engineDone, base, calls>>

\* persistFinalRun and persistResumableRun, both fenced by status = running.
\* Mutant: the status of the engine is stored as it is.
OutcomeRaw(c) == cron[c].step
Outcome(c) == IF cron[c].step \in {"failed", "blocked"} THEN cron[c].step ELSE "completed"
PersistFinal(c) ==
  LET row == [research[cron[c].at] EXCEPT !.status = Outcome(c), !.claim = cron[c].life,
                                          !.age = 0] IN
  /\ cron[c].pc = "final"
  /\ \/ \E rec \in {NoCall, [cron[c] EXCEPT !.pc = "error"]} : WriteRunning(c, row, rec)
     \/ Goto(c, "error") /\ UNCHANGED <<research, artifacts>>
  /\ UNCHANGED calls

Released(r) == [NoClaim(research[r]) EXCEPT !.age = 0]
PersistResumable(c) ==
  /\ cron[c].pc = "release"
  /\ \/ \E rec \in {NoCall, [cron[c] EXCEPT !.pc = "error"]} :
          WriteRunning(c, Released(cron[c].at), rec)
     \/ Goto(c, "error") /\ UNCHANGED <<research, artifacts>>
  /\ UNCHANGED calls

\* The handler's catch: completed engine work, known or read again, is left resumable,
\* anything else fails.  Its own failure is swallowed.
HandleError(c) ==
  LET r == cron[c].at
      claim == IF cron[c].claimed THEN cron[c].life ELSE ClaimStale
      failed == [research[r] EXCEPT !.status = "failed", !.claim = claim, !.age = 0] IN
  /\ cron[c].pc = "error"
  /\ \/ \E known \in {cron[c].done, cron[c].done \/ Resumable(r)} :
          WriteRunning(c, IF known THEN Released(r) ELSE failed, NoCall)
     \/ Leave(c) /\ UNCHANGED <<research, artifacts>>
  /\ UNCHANGED calls

-----------------------------------------------------------------------------
(* Time and crashes. *)

\* An invocation crashes or is ended by the platform.
Killed(c) ==
  /\ cron[c].pc # "idle"
  /\ Leave(c)
  /\ UNCHANGED <<research, artifacts, calls>>

\* Time passes, for no invocation beyond Life.
Older(age, limit) == IF age < limit THEN age + 1 ELSE limit
CycleTick ==
  /\ \A c \in Cron : cron[c].pc # "idle" => cron[c].life < Life
  /\ cron' = [c \in Cron |-> IF cron[c].pc = "idle" THEN cron[c]
                             ELSE [cron[c] EXCEPT !.life = @ + 1]]
  /\ research' = [r \in ResearchRun |-> [research[r] EXCEPT !.age = Older(@, Abandoned),
                                                             !.claim = Older(@, ClaimStale)]]
  /\ UNCHANGED <<artifacts, calls>>

Acquisition(c) ==
  \/ \E k \in ResearchRun \union {Later}, sourceOnly \in BOOLEAN :
       BeginAcquisition(c, k, sourceOnly)
  \/ \E r \in ResearchRun : FindAbandoned(c, r)
  \/ Terminalise(c) \/ Lookup(c) \/ InsertRun(c) \/ ReclaimRun(c) \/ CollectFails(c)
  \/ StartLedger(c) \/ IntakeFails(c) \/ FinishSourceOnly(c)
  \/ HandOver(c) \/ Withdraw(c) \/ MarkClaimFailed(c)

Continuation(c) ==
  \/ \E r \in ResearchRun : BeginContinuation(c, r)
  \/ Read(c) \/ Supersede(c) \/ ClaimContinuation(c) \/ StartEngine(c)
  \/ EngineCompletes(c) \/ EngineStops(c) \/ Publish(c) \/ Compose(c)
  \/ PersistFinal(c) \/ PersistResumable(c) \/ HandleError(c)

CycleNext ==
  \/ \E c \in Cron : Acquisition(c) \/ Continuation(c) \/ Killed(c)
  \/ CycleTick

\* Time passes and the platform ends invocations; later slots go on being acquired,
\* and their recovery does not fail for ever.
CycleFairness ==
  /\ WF_cycleVars(CycleTick)
  /\ \A c \in Cron : WF_cycleVars(cron[c].life = Life /\ Killed(c))
  /\ WF_cycleVars(\E c \in Cron : BeginAcquisition(c, Later, FALSE))
  /\ SF_cycleVars(\E c \in Cron, r \in ResearchRun : FindAbandoned(c, r))
  /\ SF_cycleVars(\E c \in Cron : cron[c].fresh /\ Terminalise(c))

CycleSpec == CycleInit /\ [][CycleNext]_cycleVars /\ CycleFairness

-----------------------------------------------------------------------------
(* Properties. *)

Acquiring == {"collect", "finish", "withdraw", "failed"}
Working == {"start", "engine", "publish", "compose"}
Continuing == Working \union {"final", "release", "error"}
CronPc == {"idle", "recover", "terminalise", "insert", "reclaim", "read", "reread",
           "supersede", "claim"} \union Acquiring \union Continuing

\* Type invariant of the cycle's rows and invocations.
CycleTypeOK ==
  /\ research \in [ResearchRun ->
       [status : {"none", "running", "completed", "blocked", "failed"}, sources : BOOLEAN,
        gate : {"open", "blocked"}, handed : BOOLEAN, early : BOOLEAN, marker : BOOLEAN,
        superseded : BOOLEAN, claim : 0 .. ClaimStale, age : 0 .. Abandoned]]
  /\ engineDone \in [ResearchRun -> BOOLEAN]
  /\ base \in [ResearchRun -> {"none", "canonical", "legacy"}]
  /\ composed \in [ResearchRun -> BOOLEAN]
  /\ cron \in [Cron ->
       [pc : CronPc, run : ResearchRun \union {Later}, at : ResearchRun \union {Later},
        fresh : BOOLEAN, life : 0 .. Life, sourceOnly : BOOLEAN, claimed : BOOLEAN,
        done : BOOLEAN,
        step : {"none", "engine", "publish", "compose", "final", "failed", "blocked"}]]
  /\ calls \in 0 .. MaxCalls

\* Two invocations never acquire the same run: a claim is taken over only after the
\* invocation that holds it has been ended, although neither holds a lease.
OneAcquisition ==
  \A c, d \in Cron : /\ cron[c].pc \in Acquiring /\ cron[d].pc \in Acquiring
                     /\ cron[c].run = cron[d].run
                     => c = d

\* Two continuations never run the engine for one run, unless one of the run's
\* continuations had claimed it before the acquisition handed it over: that write
\* erases the claim, and the release of the one erases the claim of the next.
OneEngine ==
  \A c, d \in Cron : /\ cron[c].pc = "engine" /\ cron[d].pc = "engine"
                     /\ cron[c].at = cron[d].at /\ c # d
                     => research[cron[c].at].early

\* A run reads as completed only with its own canonical edition, never with the one
\* the database trigger would make of it, unless it completed as source-only.
CompletedIsPublished ==
  \A r \in ResearchRun : research[r].status = "completed" =>
                           research[r].marker \/ base[r] = "canonical"

\* A retry closed in favour of a newer one is never worked at again.
SupersededIsFinal ==
  [][\A r \in ResearchRun : research[r].superseded =>
       /\ research'[r].status = "failed"
       /\ ~engineDone'[r]
       /\ \A c \in Cron : cron'[c].at = r => cron'[c].pc \notin Working]_cycleVars

\* Once its acquisition is over, a completed run stays completed, whatever lost
\* answers, errors and late continuations follow.
CompletedIsKept ==
  [][\A r \in ResearchRun :
       /\ research[r].status = "completed"
       /\ \A c \in Cron : cron[c].pc \in Acquiring => cron[c].run # r
       => research'[r].status = "completed"]_cycleVars

\* No run is left running without its engine's result: it ends, or a later slot's
\* recovery ends it.
RunEnds ==
  \A r \in ResearchRun : (research[r].status = "running" /\ ~engineDone[r])
                           ~> (research[r].status # "running" \/ engineDone[r])
=============================================================================
