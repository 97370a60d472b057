# Formal models of the market-research backend

This directory holds TLA+ models of the parts of the repository that keep durable state and are
worked on by several requests at once, the TLC runs that check them, and proofs of their main
properties for every size of the system. Paths below are relative to the root of the repository.

## 1. Inventory

The system is a Next.js application whose durable state is a Postgres database behind PostgREST.
There is no long-running process: every piece of work is an HTTP request (a Vercel cron job, a
GitHub workflow, an operator) that lives 300 seconds at most, reads and writes rows through PostgREST,
and calls PL/pgSQL functions where several rows must change together. Requests overlap, die at any
moment, and are retried by later cron slots. What makes the code hard is therefore always the same:
claims and leases that outlive their owner, snapshots used after others have written, idempotent
retries, and guards split between TypeScript and triggers.

| Component | State | Operations | Status |
|---|---|---|---|
| Story maintenance (`lib/intelligence/runtime.ts`, `story-review.ts`, `engine-run*.ts`, `supabase.ts`, 9 migrations) | `intelligence_reevaluation_queue`, `engine_runs.metadata.frozenInputs`, `intelligence_story_assessments`, `stories` | open or resume a run, queue hygiene, select, claim, freeze, assess, apply, put back | modelled in part: `StoryMaintenance` |
| Stage attempts (`runtime.ts`, `resumable-checkpoints.ts`, migration 20260817013000) | `intelligence_stage_runs` | claim a stage, finish it, expire an abandoned attempt, reuse checkpoints, one model stage per invocation | modelled: `StageClaims`, `StageLock` |
| Transcript worker (`lib/transcript-worker*.ts`, `supabase-transcript-worker-store.ts`, its migrations) | `research_intake_items` with lease token, attempts, next attempt | claim a batch, renew, save, interpret, persist evidence, complete, retry, fail | modelled in part: `TranscriptWorker`, `VideoPipeline` |
| Video intake (`lib/video-intake-*.ts`, `youtube-transcript-persistence.ts`, `scheduled-video-*.ts`) | intake runs and rows | discover, insert a pending row, wait for a run's videos | its insert is `Init` of `TranscriptWorker`; the rest not modelled |
| Scheduled cycle (`lib/cron-research-*.ts`, `lib/scheduled-*.ts`, `app/api/research-update/route.ts`, `vercel.json`) | `research_runs` of a slot, engine run, editions | acquire, recover, reclaim, publish, continue, supersede, compose, finish | modelled in part: `ScheduledCycle` |
| Research gaps (`lib/research-gap-*.ts`, migrations 20261001061000 ff.) | `research_gap_cases`, their occurrences, handoff runs | sync, claim, freeze a plan, complete, release, recover, hand off, close | modelled in part: `ResearchGaps` |
| X wire ledger (`lib/x-wire-*.ts`, migrations 20261023230000, 20261030180000) | checkpoint, cursor, gap marker and lease of an account; its posts | claim, page, save the cursor, finish, lose the cursor, fail | modelled: `XWireLedger` |
| Hormuz refresh (`lib/hormuz-monitor*.ts`, migration 20261023060000) | one cached observation with its next attempt and lease | read, claim, fetch, finish | modelled: `HormuzRefresh` |
| Macro releases (`lib/macro/official-actuals.ts`, `lib/macro-release-*.ts`) | `macro_releases`, `macro_release_metrics` | seed, refresh the lifecycle, ingest the Actual, store and recover metrics | modelled in part: `MacroActuals` |
| Manual Story maintenance (`lib/manual-story-maintenance-handler.ts`) | none of its own | run the engine with a run key of its own | its runs are runs of `StoryMaintenance` |
| Dossier v2 (`lib/dossier-v2`) | snapshots, editions | delta gate, model run, persistence | not modelled |
| Story discovery, reasoning and editions (`lib/intelligence`) | candidates, Stories, editions | the later model stages | not modelled |
| Sensors and providers (`lib/acquisition`, `lib/providers`) | observations | fetch, normalise, store | not modelled |
| Publication and UI (`app`, `components`, `lib/blue-desk*`, `lib/bluebelly*`) | read models | projections of stored rows | not modelled |
| Authentication (`middleware.ts`, `lib/research-auth.ts` and its like, `app/oauth`) | tokens | verify | not modelled |

Interaction: the scheduled cycle opens an engine run under a slot's run key; the run works through
its stages, each protected by a stage attempt; the belief stage also produces the assessments of
Story maintenance; new evidence (from research, transcripts or gaps) puts rows into the
reevaluation queue by a trigger; later runs serve them. Creator videos enter through the transcript
queue: discovery inserts a row, the worker carries it to canonical evidence, and engine runs read the
same rows. An answered research gap is handed
off as a research run of its own. These meet only in tables, so each component has a module of its own that states what the
others do to its tables as environment actions (`EnqueueLinkedEvidence`, `SynthesizeStory`, `EngineLoad`,
`EngineUpsert`).

What makes each component correct:

- Story maintenance: a request is served once and never dropped; a review is about what the run froze;
  an older review never replaces a newer view of a Story.
- Stage attempts: a stage is paid for by one invocation at a time and has one output, and no dead
  invocation blocks it.
- Transcript worker: whoever holds the lease, a video is transcribed, reviewed and admitted once, a
  completed job has its evidence, and no dead worker keeps a video in the queue.
- Scheduled cycle: one invocation acquires a run and one continues it, what is completed is published and stays
  completed, a superseded retry is never worked at again, and no run stays running for ever.
- Research gaps: a case is researched by the holder of its claim only, its verdict is about the plan it froze,
  discriminators advance in their order, and no dead worker keeps a case.
- X wire: a cursor or a completed walk vouches for stored posts, and a late scan changes nothing.
- Hormuz: one refresh at a time, and the observation never goes back.
- Macro releases: an official Actual is final, whichever pass read the source when.

The hazards of the code, with the line at which each bites and the property that covers it, are listed in
`PROJECT.json`.

### Plan

1. `StoryMaintenance`, the core of the program: done, with proofs.
2. `StageClaims` and the lock it implements, `StageLock`: done, with proofs.
3. `TranscriptWorker` and the abstract `VideoPipeline`: done, with proofs.
4. `ScheduledCycle`: done, with proofs.
5. `ResearchGaps`: done, with proofs.
6. `XWireLedger`, `HormuzRefresh`, `MacroActuals`: done, with proofs.
7. Proofs of `ServedOnce`, `AssessedAsFrozen`, `ChangesWhatWasSeen`, `CancelledIsCovered`, `OneEngine` and `AdvancedInOrder`: done. Every safety
   property that a passing run checks is now a theorem.
8. Open: abstract specifications of the scheduled cycle and of a gap's case, with the refinement proved; `ServedOnce` without
   `SerialRuns`; models of the components marked "not modelled" that have a protocol (video intake, the delta gate of
   Dossier v2).

The five components of 4 to 6 share no table with one another, so that composing them step by step would only
multiply their states. `MCMarketDesk` puts them side by side: a behaviour belongs to the component that its initial state
names and leaves the others as they were, and one run checks them all. Each has a `SPECIFICATION` of its own
for use alone.

## 2. StoryMaintenance

### State and actions

`status` and `owner` are the columns `status` and `claimed_by_engine_run_id` of the queue.
`runStatus`, `inputs` are the engine run and the `frozenInputs` in its metadata; `stage` is the Market
Belief stage, reduced to one claim (its protocol is `StageClaims`); `assessment[r][s]` is the unique
row of `intelligence_story_assessments` for a run and a Story; `story[s]` is the newest thesis version.
`seen` is a history of the versions of the Stories that a run has read: it travels with what is read, from the
broad reads to the frozen inputs, the targets, the output of the stage and the assessments.
`inv[e]` is the local state of a request: the place it is at, the frozen inputs it remembers, its targets.
Every action is one round trip to the database, or one PL/pgSQL function with its triggers.
A database error and a crash are possible at every round trip.

| Actions | Code |
|---|---|
| `EnqueueLinkedEvidence`, `SynthesizeStory` | the trigger on linked evidence; thesis versions written elsewhere |
| `OpenRun`, `CreateRun`, `SeedInputs` | `startIntelligenceEngineRunWithClient`, `initialFrozenInputs` |
| `ReadStories`, `ReadMetadata`, `PersistFrozenReads` | the broad reads in `intelligenceRest`, `persistFrozenInputs` |
| `PlanHygiene`, `CancelRedundant` | `applyStoryReevaluationQueueHygiene`, whose two cancelling writes are two steps |
| `SelectTargets`, `ClaimTargets`, `ReleasePartialClaims`, `FreezeTargets` | `loadOrCreateStoryReviewTargets`, `claimStoryReviewQueues` and their two functions |
| `ResolveCreatorOnly` | `resolveCreatorOnlyStoryReviewQueues` |
| `ReuseStage`, `ClaimStage`, `StageBusy`, `FinishStage`, `FailStage` | `modelStage` for `market_belief` |
| `MarkOmittedRetryable`, `InsertAssessment` | `persistStoryAssessments` |
| `Apply*` | `apply_intelligence_story_assessment_v2`, one action per outcome, with both guard triggers |
| `RecordOwnershipLost`, `RecordStaleAssessment`, `RequeueStaleTarget` | the recovery code around the apply call |
| `CompleteRun`, `LeaveRun`, `DatabaseError`, `Crash` | the ends of an invocation |

### Abstractions

- A run that is `blocked` is treated as `failed`; every reader treats them alike.
- Times are abstract: the clock advances at run creation and at each Story version, which are the only
  times that guards compare. `asOf` and `selected_at` are the run's start.
- The delay of 15 minutes of a retryable row and the age of 20 minutes of a claim are nondeterministic:
  a retryable row may be selected at any time, and a processing row may be too old exactly when no live
  invocation works with it (an invocation lives 300 seconds).
- `SKIP LOCKED`, the bounded evidence pack and the selection scores choose arbitrary subsets.
- The three frozen broad reads are one reading of the Stories and one read-merge-write of the metadata. The archived Stories
  that a request names are read by a query of their own, at the same time in the model.
- Steps kept as one although the code makes several round trips, where nothing checked here can tell: the reads of `PlanHygiene` (the
  applied assessments are known all or not at all), the put-back of all omitted targets before the loop that inserts the
  others (the code does it inside that loop, `runtime.ts` 1778-1784), and the insert of an assessment with its read-back.
- Evidence that a model answer does not acknowledge counts as an omitted assessment.
- What an assessment says is its verdict; whether a change is allowed by its evidence is nondeterministic.
- `SerialRuns` states the assumption that the requests of one run do not overlap. `ScheduledCycle` gives its ground:
  `OneEngine` holds but for a continuation that starts before the acquisition has handed the run over, and a manual
  request with the same run key is outside it. `story_concurrent` and `story_ownership` run without it.
- `None` is no selection of targets (`NoTargetsAssumption`): the code writes `null` where none is frozen.

### Runs

Bounds: `MaxOpens` is how many invocations may open a run, `MaxClock` ends the writing of new versions by
synthesis. Two rows of one Story and one Evidence are the smallest queue in which hygiene cancels and twins
are served together; two invocations that each open the run are the smallest resumption.

| Run | Instance | Shows |
|---|---|---|
| `story_twins` | 2 runs (one resumed), 2 invocations, 1 Story, 2 rows of the same Evidence; a review grows stale through the other run | types; `ServedOnce`, `CancelledIsCovered`, `AssessedAsFrozen` |
| `story_pair` | 1 run (resumed), 2 Stories, 3 rows, one Story of creator evidence only, synthesis | `CompletedServed`, `AssessedAsFrozen`, `ChangesWhatWasSeen` |
| `story_concurrent` | 1 run with 2 overlapping invocations, 2 rows of which one may be superseded, synthesis | `CancelledIsCovered` without `SerialRuns` |
| `story_catalyst` | 2 runs (one resumed), 1 row, synthesis | finding: a stale review still writes a Story version |
| `story_stale_retry` | the same | finding: a stale assessment is applied by the resumed run |
| `story_ownership` | 2 runs, overlapping invocations, 2 rows | finding: the ownership guard is skipped |

Deadlock is not checked: when the openings are used up and the clock stands, the system rightly stops.
No liveness is claimed for this component: rows are served by later runs, and `ScheduledCycle` promises only that
a run ends, not that a later one asks for the same Stories.

### Proofs (`StoryMaintenance_proofs`)

For any sets of runs, requests, Stories and rows, and without `SerialRuns`:

- `TypeCorrect`: `TypeOK` is inductive because it also says what each place in the code needs of the local
  state (`Fits`: past the selection there are targets, past the model call there are assessments to persist).
- `CompletedIsServed`: `TypeOK /\ CompletedServed` is inductive. `CompletedByReview` lists the only steps that
  complete a row, `AppliedStays` shows that an applied assessment stays applied with the rows it served.
- `CancelledCovered` (`CancelledIsCovered`): hygiene plans on a snapshot and cancels later, beside others. `HygieneInv` says
  of every planned row what the property says of a cancelled one, that it is covered. A row stays covered
  (`CoveredStays`) because of the rows that cover it the smallest cannot be in anybody's plan: it would need a smaller one
  to be covered itself. `SmallestOf` gets the smallest number from the well-foundedness of `<`.

Under `SerialRuns`:

- `AssessedIsFrozen` (`AssessedAsFrozen`), from `RunInv`: what an invocation remembers (`memory`, `saved`, its targets) agrees
  with the frozen inputs of its run at each place in the code, and an assessment exists only for a frozen Story that the
  stage did not omit. `RunFrame` reduces a step of one invocation to its own run.
- `RequestServedOnce` (`ServedOnce`), from `RunInv` and `AppliedDone`: the rows of an applied assessment are completed and
  in the hands of its run. The guard at the apply is only as good as the contract it reads, and by `RunInv` the contract is there.
  The one step that touches completed rows again is the put-back of omitted targets, which filters by owner alone
  (`CompletedStays`); by `RunInv` it never meets an assessed Story.
- `SeenIsChanged` (`ChangesWhatWasSeen`): the stale-version guard compares two times, that of the Story's current version and
  `selected_at`. It knows nothing of what the model was shown. The two agree only because `selected_at` is the start of the
  run, before its reads, and because reading, targets and output never get mixed up on their way through crashes and
  resumptions. `SeenInv` says so of every place where a reading is kept (`Shown`: a Story whose version is not
  after the date of the reading is the one that was read); it is inductive relative to `RunInv`, which says that the targets of
  whoever finishes the stage are the frozen ones, and that frozen targets stay (`FrozenStays`). The mutant `SelectedNow` dates a
  selection by the moment at which it is made, as is natural to write: TLC then finds a version lost between reading and selecting.

TLC checked the four invariants as such first, on the instances of `story_twins` and `story_pair` and, without `SerialRuns`,
`HygieneInv` on that of `story_concurrent`. Two of the three theorems do need `SerialRuns`. Without it two rows and two runs are
enough for TLC to refute `AssessedAsFrozen`, in 14 states. `ChangesWhatWasSeen` is refuted in 26: an invocation that is delayed between
finding no run and inserting one dates the run anew, its targets are frozen again with a later time, and the output of the
stage, judged on the older versions, is reused for them. For `ServedOnce` the assumption may be stronger than necessary. The
proof needs it, since a second opening empties the contract on which the ownership guard rests; but TLC found no counterexample
without it, neither among the first 12 million states of `story_twins` nor in 150 million simulated states with three invocations
per run.

## 3. StageClaims

### State and actions

`attempt` holds rows of `intelligence_stage_runs`; `inv[e]` is an invocation of the engine: the outputs it
has loaded or made, the stage and the attempt it is at, and how long it has lived.

| Actions | Code |
|---|---|
| `LoadCheckpoints` | `loadResumableStageCheckpoints`: the latest completed output of every stage |
| `ReuseCompleted`, `FindBusy`, `ClaimStage` | `claim_intelligence_stage` under its advisory lock, called by `modelStage` |
| `CallModel`, `SaveOutput`, `SaveOutputFails`, `SaveFailure` | the `try` and `catch` of `modelStage`, and `finishStage`, which writes by id alone |
| `End` | the invocation is done, defers the next stage (`oneModelStage`), fails between two stages, or is killed |
| `Tick` | the time that the 360 seconds of a claim and the 300 seconds of a route are measured in |

`StageLock` is what this promises: one holder per stage without an output, and the output comes from it.

### Assumptions and abstractions

- `TimeAssumption`: no request of an invocation takes effect later than `Lease` after its claim. The routes that
  run the engine set `maxDuration = 300`, the claim allows 360; `api/intelligence-run` sets nothing and relies on
  the platform's default. With `Lease` smaller than `Limit` the protocol has no defence: there is no token.
- A stored payload of a completed stage is taken to be reusable; the code falls back to a new attempt if it is not.
- `failed` stands for `blocked` attempts too.
- `Attempt` is a set of ids which are used again when nothing refers to them: the state space is finite while
  the number of attempts is not.

### Runs

| Run | Instance | Shows |
|---|---|---|
| `stage_claims` | 2 stages, 2 invocations, 3 attempts, `Lease = Limit = 1`, the tightest the assumption allows; `alone` or not | types, `OneModelCall`, `OneOutput`, `LockSpec`; `ClaimsEnd` where `alone`: no dead invocation keeps a stage |
| `stage_lineage` | 2 stages, 2 invocations, 4 attempts, `Limit = 2`, `Lease = 3` | finding: a completed stage can rest on an output the run has no longer |

`MCStageClaims` chooses at the start whether all invocations are at work, with nothing assumed of fairness, or one of them alone, which
continues the run again and again (`alone`): that is how the cron slots work at a run. `ClaimsEnd` is checked of the second kind. With two
invocations and three ids it fails for want of ids only: a failed attempt keeps its id as long as an output rests on it, and
the ids run out, which rows of the database do not. The safety properties are theorems for every number of ids.

Fairness, where `alone`: time passes; cron slots start invocations again and again (`WF` of `Begin`); they are not all killed
before they have loaded the checkpoints and tried a claim (`SF`, as a killed invocation disables both); the platform
ends an invocation at its limit. Nothing is assumed of the model: it may never answer. Deadlock is checked.

### Proofs (`StageClaims_proofs`)

For any number of stages, invocations and attempts, and any `Limit <= Lease`:

- `TypeCorrect`.
- `OneModelCallAtATime` and `OneOutputPerStage`, from an inductive invariant which ties the two clocks together: the
  attempt of a holder (`Held`) is not older than the holder lives, and it is `started`, with no output of the stage
  anywhere, unless the holder is in its error handler and the answer to its own completion was lost. Without the clocks
  an expiry could hit a live holder; `HeldNotExpired` excludes it, and is where `Limit <= Lease` is used.
- `ImplementsLock`: `Spec => LockSpec`, every step maps to a step of `StageLock` or to a stutter.

## 4. TranscriptWorker

### State and actions

`row[i]` is the row of a video in `research_intake_items`, its lease token included; `evidence[i]` the texts that
`intelligence_evidence` holds for it; `routed[i]` the texts linked to an archived Story; `task[w][i]` the progress of
request `w` with the video, `admitting[e]` the reviews that an engine run has read and not yet written.
A summary is known by the claim under which it was made, which is all that tells two reviews apart.

| Actions | Code |
|---|---|
| `Init` | `ensureVideoIntakeItem`, and rows from before the queue |
| `Claim` | `claim_transcript_jobs`: pending, retryable, running with an expired lease, legacy placeholders |
| `Expire` | `lease_expires_at` passes |
| `FindEvidence`, `Renew`, `SaveTranscript`, `ExtractionFails`, `AnalyseVideo`, `SaveExtractionFailure`, `SaveInterpretation`, `Complete` | `processTranscriptJob` and the store's calls, writes fenced by `ownedUpdate` |
| `LoadIntake`, `UpsertEvidence`, `LinkStories` | `canonicaliseIntake` as the worker calls it; not fenced |
| `Error`, `Recover`, `RecoverFails`, `Crash` | the handler of `processTranscriptJob`, and what escapes it |
| `EngineLoad`, `EngineUpsert` | `canonicaliseIntake` in a run of the engine |

Any call may be lost before or after its effect. `VideoPipeline` is what this promises of a video: found,
transcribed, reviewed, admitted, completed, each once; unavailable and failed are final.

### Assumptions and abstractions

- Nothing is assumed about time: a lease may expire whatever its owner is doing, and the owner goes on.
- Lease tokens are counted by claims: the code draws a fresh random one for every claim.
- The times of the next attempt, and the 90 days and 180 rows that `canonicaliseIntake` reads, are left open
  (a job may be claimed at any time; a row may always be missing).
- `Limit` bounds the claims of a row. The last of them meets no temporary failure, which is what liveness needs:
  an outage that never ends would end in `failed` by `MaxAttempts` or go on for ever.
- Left out: the reconciliation of Market Motion and of intake runs after completion, the operator's own writes
  through `api/research-update`, and fields that no guard compares.

### Runs

| Run | Instance | Shows |
|---|---|---|
| `transcript_fencing` | 1 video, 2 workers, 1 engine run, 4 claims of which 3 may fail | types, `EvidenceIsTheReview`, `CompletedIsBacked`, `AnalysisPaidOnce`, `PipelineSpec`, `VideosSettle` |
| `transcript_routing` | 1 video, 1 worker, 1 engine run | finding: the archived Story of a completed video may lack its evidence |

Fairness: leases expire, cron slots start workers (`WF` of `Claim`), a worker that is not killed goes on (`WF` of
`Work`); workers may be killed at any claim but the last. No fairness for engine runs. Deadlock is not checked: a
settled queue stops.

### Proofs (`TranscriptWorker_proofs`)

For any number of videos, workers, engine runs and claims:

- `TypeCorrect`, `SingleEvidence` (`EvidenceIsTheReview`), `CompletedHasEvidence` (`CompletedIsBacked`), `AnalysisOnce`
  (`AnalysisPaidOnce`), all from one inductive invariant. `GoodRow` ties review, status, summary and evidence of a
  row together: a summary is the placeholder until the review and never changes after it. `GoodTask` says what the
  holder of the lease (`Holds`) may believe of the row, and what holds even for a task that has lost it: the text it is
  about to upsert is the summary, which is why unfenced writes are harmless. `TokensDiffer` makes the holder
  unique, so that a fenced write cannot falsify what another holder believes. The reviews that engine runs carry
  (`admitting`) are summaries too.
- `ImplementsPipeline`: `Spec => PipelineSpec`. `Stands` is the refinement mapping as a function of one row and its evidence;
  a fenced write makes a move of `VideoPipeline` or none (`PipelineUpdate`), and evidence comes to reviewed videos only
  (`PipelineAdmit`). A row that no token fenced would break it: a stale failure would take a transcribed video
  back to found.

## 5. ScheduledCycle

### State and actions

`research[r]` is a row of `research_runs` of one slot occurrence (the primary run and its explicit retries): its status,
whether its sources are stored, the publication gate, the hand-over and the continuation claim in its warnings, the age
of `updated_at`. `engineDone`, `base`, `composed` are the engine run, the base edition and the composed edition of a run;
`cron[c]` is an invocation, `fresh` while the row it read has not been written since, which is what the
compare-and-set filters on `updated_at` test.

| Actions | Code |
|---|---|
| `BeginAcquisition`, `FindAbandoned`, `Terminalise`, `Lookup`, `InsertRun`, `ReclaimRun`, `CollectFails`, `MarkClaimFailed` | `handleScheduledResearchWithDependencies`, the 24-hour recovery and the claim by run key |
| `StartLedger`, `IntakeFails`, `FinishSourceOnly`, `HandOver`, `Withdraw` | `publishResearchUpdate` as acquisition calls it, its error handler included |
| `BeginContinuation`, `Read`, `Supersede`, `ClaimContinuation` | `handleScheduledIntelligenceContinuation` up to its claim, `evaluateScheduledIntelligenceContinuation` |
| `StartEngine`, `EngineCompletes`, `EngineStops` | `runIntelligenceEngine` as the continuation sees it |
| `Publish`, `Compose` | `persistCanonicalJourneyEditionForResearchRun`, `composeCanonicalDossierEditionForResearchRun` |
| `PersistFinal`, `PersistResumable`, `HandleError` | the ends of a continuation |
| `EditionTrigger` (part of every write) | `publish_hybrid_snapshots_for_run` |
| `CycleTick`, `Killed` | time, and the end of an invocation at any moment, at 300 seconds at the latest |

### Assumptions and abstractions

- `CycleAssumption`: an invocation lives less than the stale ages of an acquisition (7 minutes) and of a continuation claim
  (6 minutes), and two lives are less than the 20 minutes after which a retry is superseded. The routes set
  `maxDuration = 300`. Without it the protocol has no defence: claims carry no token.
- `Read` is two reads of the code (`readRun`, `readPublicationCheckpoint`) in one step.
- Ages are compared at the read; the handler takes its time at its start. Writes that record a time record that start.
- Engine statuses other than completed are not told apart; whether a newer retry exists is nondeterministic.
- Writes may be stored and their answers lost wherever the code would notice; swallowed errors may leave no trace.
- Left out: the route that runs the engine directly, manual research updates, and what collectors gather.

### Runs

In `market_desk`: one run that is a retry, a later slot, two invocations at a time, three for the run, `Life = 1`,
`AcquireStale = ClaimStale = 2`, `RetryStale = Abandoned = 3`: the smallest ages the assumption allows, so that every
expiry happens beside a live invocation, and three invocations are enough for an acquisition and a takeover with a late continuation, or
for an acquisition with two continuations. The safety properties were also checked with four and five invocations for the run, and with
three at a time.

- `OneAcquisition`, `OneEngine`: one invocation acquires, one runs the engine. `OneEngine` excepts runs that a continuation
  claimed before the acquisition had handed them over (`early`, a history kept with the row): the hand-over erases that claim. It is
  kept for good because the damage spreads: the next continuation claims the run too, the first one releases the
  claim of the second, and a third may enter although its own claim was not early. (That takes four invocations for the run.)
- `CompletedIsPublished`: a completed run has its own canonical edition; the trigger's never takes its place.
- `SupersededIsFinal`, `CompletedIsKept`, `RunEnds`. `CompletedIsKept` excepts the live acquisition of the run, whose error
  handler writes by id alone.

Fairness, for `RunEnds`: time passes; the platform ends invocations at their limit; later slots are acquired again and
again, as `vercel.json` schedules them; their recovery, which is asked for anew in every slot, does not fail for ever (`SF`).
Nothing is assumed of engine, publisher or continuations. `RunEnds` does not say that a run whose engine is done is published:
after the last continuation of its slot nobody tries again.

### Proofs (`ScheduledCycle_proofs`)

For any number of runs and invocations, and any ages that satisfy `CycleAssumption`: `CycleTypes`, `AcquisitionIsSingle`
(`OneAcquisition`), `CompletedHasEdition` (`CompletedIsPublished`), `SupersededStaysClosed` (`SupersededIsFinal`) and
`CompletedStays` (`CompletedIsKept`). The inductive invariant `CycleInv` is needed because none of them follows from the row
alone:

- Claims carry no token, so time has to stand in for one. `CycleInv` ties the clocks together: while an invocation works with a
  row, the age of the row is at most the life of the invocation and one `Life`. A takeover asks for an age of `AcquireStale`, a
  supersession for `RetryStale`, and `CycleAssumption` puts both out of reach of whoever is still alive.
- `RowsGood` says what the columns of a row tell about engine and editions, `CallsGood` what an invocation may believe of the row
  it read (all of it while it is `fresh`).
- Most actions end in the same write of a row. `WriteFits` is what such a write must not contradict and `WriteKeeps` shows
  once that this is enough; each action then only shows that its write fits. `Forward` collects what no step takes back, and the two
  action properties follow from it.

`EngineIsSingle` proves `OneEngine` from `OwnInv`, which is inductive relative to `CycleInv`. `OwnInv` says of each place in a
continuation whether the result of the engine is there to be published (`Usable`), and that on a run without an early claim at most one
invocation is between its claim and its release while there is none (`Owns`, `OneOwner`). Its claim is then no older than it is
itself, so that another one finds the run claimed or a row that has changed since it read it.

`RunEnds` stays with TLC.

## 6. ResearchGaps

### State and actions

`gap` is the row of a case with its claim, plan, verdict and run key, `asked` its occurrences, `dossiers` what each
Dossier says of it (the signature of its discriminator plan), `ledger` the handoff runs by run key, `admitted` whether canonical
Evidence names the case. `job[a]` is an invocation, from the cron, from GitHub or from the execution route.

| Actions | Code |
|---|---|
| `PersistDossier`, `SyncRead`, `Transition`, `Upsert` | `syncOne`: reads and `decideResearchGapDiscriminatorLifecycle`, `transitionResearchGapCase`, `upsert_research_gap_case` with the oil recovery |
| `ClaimCase`, `StartCase`, `ReloadCase`, `CompleteCase`, `ReleaseCase`, `LeaseLapses` | the four functions of the lifecycle migrations, called by `handleManualResearchGapWebRun` and `api/research-gap/execution` |
| `PostRun`, `HandoffRunEnds`, `MarkHandedOff` | the handoff, the replay rule of `api/research-update`, `mark_research_gap_case_handed_off` |
| `FindSuperseded`, `CloseSuperseded`, `CloseLegacy` | the D7 closures |
| `GapKilled` | an invocation ends anywhere |

### Abstractions

- One case: the priority among cases decides only when, not what. D7 cases, which carry no discriminators, are those whose
  first Dossier has the signature `none`.
- Occurrences are listed per Dossier; the code keys them by case, Dossier and work id, of which there is one.
- The reads of a sync are one step, and so are the pick of a finished case, the preflight and the post of its run.
- A claim token is the number of the attempt. Leases and cooldowns expire at any time.
- A handoff run is running, completed or open; open stands for none, blocked, failed or dead, which the replay rule treats alike.
- The search returns any outcome. Outcomes other than `UNRESOLVED` stand together; only verdicts of the oil sources ask for
  another try, and only then with the retry flag.

### Runs

In `market_desk`: two invocations, two Dossiers, one signature with two discriminators, two claims: enough for two syncs to
overlap, for a claim to be taken over and completed late, and for a discriminator to follow another.

- `VerdictOfItsPlan`: the verdict in a finished row is about the plan in the row, however claims lapsed.
- `AdvancedInOrder`: the lifecycle, in the row as in the occurrences, reaches a discriminator only after a verdict on a plan that
  froze each of those before, under concurrent syncs.
- `LiveClaimIsKept`: only its holder ends a live claim or replaces its plan.
- `GapClaimsEnd`: a dead invocation does not keep the case. Fairness: leases run out, invocations end, and of the cron's
  invocations some reach the claim (`SF`, since a claim needs an idle invocation and a claimable case at once).

`gap_order` (three discriminators, two Dossiers, two claims) refutes the stronger `AskedInOrder`, that the question before was itself asked
and answered, which is what the code gives as its reason to advance. A plan takes its requirements from the row and its
discriminator from the occurrence. A late upsert of the same Dossier puts the former discriminator back into the row and leaves the
occurrence alone, so the case asks the old question under the name of the new one. `answered` therefore records both.

What does not hold either, and is not stated: that a discriminator is asked once. Syncing the same Dossier again after an answer
advances the row while its occurrence keeps the old discriminator, and a crash between requeue and occurrence does the same; the
run key is then the answered one and its run is replayed.

### Proofs (`ResearchGaps_proofs`)

For any number of invocations, Dossiers, signatures and claims: `GapTypes` (`GapTypeOK`), `VerdictMatchesPlan`
(`VerdictOfItsPlan`) and `LiveClaimHolds` (`LiveClaimIsKept`), from `GapInv == GapTypeOK /\ Fenced /\ VerdictOfItsPlan`. `Fenced` is
what the token buys: no token is drawn twice, and whoever searches under the token that is in the row searches on the plan that
is in the row, so a verdict that passes the fence is about it. Every write of the row goes through `RowWritten`, which asks of
the row alone that it be `Unharmed` for all other invocations.

`AdvancesInOrder` (`AdvancedInOrder`) rests on `OrderInv`, inductive relative to `GapInv`. What an invocation decided from an earlier read is
written later over a row that may have moved, so the invariant cannot speak of the row alone: every lifecycle that the row, its plan,
the occurrences or a sync at work records is `Earned`, and the one in the plan of a finished row is `Concluded` (`RowInOrder`). Both only grow
with `answered`, hence late writes are harmless, and `NextIsEarned` is the step that advances. That a case either has a discriminator in
all its Dossiers or in none (D7) is part of it: only then does a finished plan record what the next sync advances from. The proof makes
no use of the order of occurrences, so it covers any order that the code reads them in (by `observed_at`, where the model takes the order of
insertion; the two may differ between overlapping syncs). TLC checked `OrderInv` with two signatures and with three discriminators
and three Dossiers. `GapClaimsEnd` stays with TLC.

## 7. XWireLedger

### State and actions

`account` is the row of one account, `stored` its posts, `scan[s]` a scan. The account publishes one post per tick
(30 minutes, the overlap), so a post is named by its tick.

| Actions | Code |
|---|---|
| `ClaimAccount` | `claim_x_wire_account`, the read of the marker, `xWireRecoveryAnchor`, `xWireRequestWindow` |
| `FetchPage`, `SaveCursor` | the loop of `scanOne`: fetch, `parseFxTimeline`, upsert of the posts, save of the cursor |
| `CompleteWalk`, `PauseWalk`, `LoseCursor`, `ScanFails` | the calls of `finish`, among them the one in the `catch`: a repeated cursor is found after its page is stored, and the finish that completes a walk may itself fail, which saves the cursor in hand |
| `ScanKilled`, `WireLeaseLapses`, `WireTick` | an invocation ends; 100 seconds pass; time |

Posts that the provider withholds or that are malformed are left out: with them nothing could be said of what is stored. A scan lives
far shorter than a tick. An empty first page (HTTP 204, lines 99-105 of `x-wire-durable.ts`) is left out: every tick has a post. The marker's read may fail, as the code ignores its error.

### Runs and proofs

In `market_desk`: two scans, lookback and overlap of one tick, recovery of two, pages of two posts and one page per scan: every walk longer
than a page takes several scans, and the clock passes the recovery window.

`WireTypeCorrect`, `CursorBacked`, `WalkStored` and `LateScanFenced` prove the four properties for every window, page size and
number of scans, from `WireInv`: what `CursorIsBacked` says of the row is also true of what each scan carries, whether or not
it still holds the lease, because posts are stored before a cursor moves and are never removed; a late scan is harmless as
every one of its updates names its own token.

A limit of the code that the properties respect: a resumed walk starts at its cursor and completes with the time of the scan that
ends it, so posts published since the walk began are only found again if the next scan's lookback reaches them. `WalkIsStored`
therefore speaks of the head at which the walk began.

## 8. HormuzRefresh

`crossing` is the row of `hormuz_monitor_cache`, `viewer[v]` a request of a page. `ReadCache`, `ClaimRefresh`, `FetchCrossings`,
`FinishRefresh` are `getHormuzMonitor` with its two functions; `ViewEnds` an error or the end of the request. The source
reports any time in any order; a time up to `Ahead` after the retrieval is accepted (`parseHormuz`, 300 000 ms in `hormuz-monitor-core.ts`
line 24, and line 55 treats it as current), so an observation may be ahead of the clock by that much and no more, which is what
`HormuzTypeOK` says of the cache and of every viewer. The token of a lease is the viewer that drew it.

In `market_desk`: two viewers, `Interval = 2`, `Patience = 1`, `Ahead = 1`, six minutes: three intervals in which viewers overlap.
`HormuzTypes`, `RefreshIsSingle` and `ObservationNeverGoesBack` prove `HormuzTypeOK`, `OneRefresh` and `ObservationAdvances` for any
number of viewers from `HormuzInv`: the viewer that fetches holds the lease and the next attempt is not due within its patience, so the
row it compared with is still the row. This rests on `Patience < Interval`: a request, 300 seconds at most, ends before the
30 minutes between attempts.

## 9. MacroActuals

`release` is the row of a release, `metric` its components, `pass[p]` an invocation of `ingestOfficialMacroActuals`, from
the acquisition cron or the quick pass. `BeginPass`, `SeedRelease`, `ListOverdue`, `Attempt`, `ResolveActual`, `WriteActual`, `ReadBack`,
`MarkRetryable`, `InsertMetrics`, `UpdateMetric`, `MetricsEnd`, `Recover` follow it from seeding to recovery for the three kinds of release
(BLS, BEA, RBA); `RefreshLifecycle` is `refresh_macro_release_lifecycle`; `SourceRevises` lets the source change its reading, `PassKilled`
ends a pass anywhere. `ReadBack` compares the Actual; the code also compares status, source, classification and release time, which
the same update wrote. Left out: parsers, the backfill of previous JOLTS values, vintages and forecasts.

In `market_desk`: two passes, two readings, two components. `MacroTypes` and `ActualStays` prove `MacroTypeOK` and `ActualIsFinal` for any
number of passes, readings and components from `MacroInv` (metrics follow an Actual, a pass past seeding has its row): every
update of a release without an Actual says so in its filter. `LifecyclesAgree` proves that the status that pages derive
(`deriveMacroReleaseLifecycle`) and the one that the database stores are the same function.
That metrics agree with the Actual does not hold for CPI, where four stored components are never compared with it.

## 10. Proved, model-checked, left

The theorems hold for every value of the constants; each relies on nothing but the module it is about and
the `ASSUME`s it names, which TLC evaluates on the instances.

All safety properties that the passing runs check are proved, three of Story maintenance (`ServedOnce`, `AssessedAsFrozen`, `ChangesWhatWasSeen`)
under `SerialRuns`. Model-checked only: liveness (`ClaimsEnd`, `VideosSettle`, `RunEnds`, `GapClaimsEnd`), and the findings. TLAPS as used here proves no liveness under fairness and nothing about
`ENABLED`, does no induction over data, and has no backend for `RECURSIVE` operators (there are none here).

Findings, each a run whose property quotes the repository and fails (details in `PROJECT.json`):

1. `story_catalyst`: the stale-version guard looks at assessments not yet applied; the catalyst is attached after that.
2. `story_stale_retry`: a stale assessment is said to be retried, but the resumed run reads the old one back and applies it.
3. `story_ownership`: opening a run empties its frozen inputs, and with them the contract that the ownership guard reads.
4. `stage_lineage`: a completed stage whose answer is lost is written as failed, after another invocation has built on it.
5. `transcript_routing`: evidence admitted by an engine run, or found after a stop, never reaches the archived Story.
6. `gap_order`: a late sync makes a case ask an old question again, and its verdict counts for the next one, which is never asked.

Not modelled, and why: video intake (`lib/video-intake-service.ts`, `lib/youtube-transcript-persistence.ts`) and the delta gate of
Dossier v2 have small protocols of their own that this project does not reach yet. The intake's run ledger has neither claim nor
fence: every write names the run by id. A model of it should ask what its recovery leaves behind, since it looks for slot
rows that are still running (`recoverStaleVideoRuns`) or completed or failed (`reconcileTerminalVideoParentRuns`) and an invocation
may die before its slot row is there (`createVideoIntakeRun`), or after the run is completed and before the slot row is.
Not modelled either: the legacy report job (`lib/blue-desk-automated-report-job.ts`), which is off by default. Other writers of
the reevaluation queue (`lib/regime-engine.ts` 496-556, `lib/dossier-v2/reevaluation-propagation.ts` 780-825,
`lib/dossier-v2/story-refresh-agenda.ts`) insert rows as `EnqueueLinkedEvidence` does and are covered by it as far
as they insert. The early exit of a run without evidence is a run that leaves. Model stages
after Market Belief are one action for what they do to Stories (`SynthesizeStory`). Prompts, parsing, scoring, read
models and pages are computations on data without a protocol: most of the repository's lines are of that kind.
