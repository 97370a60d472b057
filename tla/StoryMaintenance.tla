---------------------------- MODULE StoryMaintenance ----------------------------
(***************************************************************************)
(* Maintenance of existing market Stories.  Requests to reconsider a Story *)
(* are rows of intelligence_reevaluation_queue.  An engine run claims the  *)
(* rows of the Stories it selects, freezes that selection in its own       *)
(* metadata, asks the Market Belief stage for one assessment per Story,    *)
(* stores the assessments and applies them to the Stories.                 *)
(*                                                                         *)
(* The actors are invocations: one HTTP request each, of which several may *)
(* work on the same engine run (a retry, a watchdog, a second request with *)
(* the same run key).  Every action is one round trip to the database; a   *)
(* PL/pgSQL function with its triggers is one action.                      *)
(***************************************************************************)
EXTENDS Naturals, FiniteSets

CONSTANTS
  Run,          \* engine runs, one per run key
  Story,        \* stories
  Row,          \* ids of reevaluation requests; numbers, so that they are ordered
  Invocation,   \* concurrently running HTTP requests
  StoryOf,      \* the Story a request is about
  EvidenceOf,   \* the canonical Evidence that triggered the request
  CreatorOnly,  \* dormant Stories of which all evidence is creator transcripts
  Supersedable, \* requests whose Evidence may be superseded
  MaxTargets,   \* MAX_STORY_REVIEW_TARGETS
  MaxOpens,     \* bound: Run -> how many invocations may work on the run
  MaxClock,     \* bound: no canonical synthesis once the clock is here
  SerialRuns,   \* TRUE if an engine run never has two live invocations
  None

ASSUME RowAssumption == Row \subseteq Nat
ASSUME StoryOfAssumption == StoryOf \in [Row -> Story]
ASSUME CreatorOnlyAssumption == CreatorOnly \subseteq Story
ASSUME MaxOpensAssumption == MaxOpens \in [Run -> Nat]
ASSUME NoneAssumption == None \notin Run \cup Invocation
ASSUME SerialRunsAssumption == SerialRuns \in BOOLEAN

VARIABLES
  status,     \* Row -> status of the request
  owner,      \* Row -> claimed_by_engine_run_id
  runStatus,  \* Run -> status of the engine run, "none" before it exists
  inputs,     \* Run -> the frozenInputs kept in the run's metadata
  stage,      \* Run -> the Market Belief stage of the run
  assessment, \* Run -> Story -> intelligence_story_assessments row
  story,      \* Story -> current thesis version
  inv,        \* Invocation -> local state
  opened,     \* Run -> number of invocations so far
  clock       \* time of the last run start or Story version

queueVars == <<status, owner>>
runVars == <<runStatus, inputs, stage>>
vars == <<status, owner, runStatus, inputs, stage, assessment, story, inv, opened, clock>>

(***************************************************************************)
(* Values.  "blocked" runs are not told apart from "failed" ones: every    *)
(* reader of the status treats the two alike.                              *)
(***************************************************************************)
RowStatus == {"absent", "pending", "processing", "retryable", "completed", "cancelled"}
RunStatus == {"none", "started", "partial", "failed", "completed"}
ClosedRun == {"completed", "failed"}
Waiting == {"pending", "retryable"}
Verdict == {"omitted", "material", "unchanged"}

\* The content of a Story is known by the time of its version.
Versions == [Story -> Nat]
Unread == [s \in Story |-> 0]

\* A selection of Stories with the requests about each of them that justify it, and
\* with the versions of the Stories that the model is to judge.
RequestsOf(S) == {f \in [S -> SUBSET Row] : \A s \in S : \A q \in f[s] : StoryOf[q] = s}
Targets == [at : Nat, seen : Versions, rows : UNION {RequestsOf(S) : S \in SUBSET Story}]
ASSUME NoTargetsAssumption == None \notin Targets

Inputs == [seeded : BOOLEAN, asOf : Nat, reads : BOOLEAN, seen : Versions, targets : Targets \cup {None}]
EmptyInputs(seeded, asOf) ==
  [seeded |-> seeded, asOf |-> asOf, reads |-> FALSE, seen |-> Unread, targets |-> None]
NoInputs == EmptyInputs(FALSE, 0)

\* "stale" stands for the sentence that the rationale of the row then ends with:
\* "must be retried against the current Story".
Assessment == [state : {"none", "open", "applied"}, at : Nat, seen : Nat, rows : SUBSET Row,
               verdict : Verdict, stale : BOOLEAN]
NoAssessment ==
  [state |-> "none", at |-> 0, seen |-> 0, rows |-> {}, verdict |-> "unchanged", stale |-> FALSE]
NoStage == [state |-> "none", by |-> None, seen |-> Unread, output |-> [s \in Story |-> "omitted"]]

IdleInvocation ==
  [pc |-> "idle", run |-> None, memory |-> NoInputs, saved |-> NoInputs,
   targets |-> None, fresh |-> FALSE, plan |-> {}, story |-> None, todo |-> {}]

RowsOf(t) == UNION {t.rows[s] : s \in DOMAIN t.rows}
Available(s) == {q \in Row : StoryOf[q] = s /\ status[q] \in Waiting}
OwnedBy(Q, r) == \A q \in Q : status[q] = "processing" /\ owner[q] = r
Applied(r, s) == assessment[r][s].state = "applied"
AppliedRows == {q \in Row : \E r \in Run, s \in Story : Applied(r, s) /\ q \in assessment[r][s].rows}

At(e, label) == inv[e].pc = label
Goto(e, label) == inv' = [inv EXCEPT ![e].pc = label]

\* The claim of a row that no live invocation of its run has made or renewed
\* may be more than twenty minutes old: an invocation lives 300 seconds.
Holds(e, r) == inv[e].run = r /\ inv[e].pc \notin
  {"idle", "create", "seed", "readStories", "readMeta", "saveMeta", "hygiene", "cancel", "select", "claim"}
Expirable == {q \in Row : status[q] = "processing" /\ ~\E e \in Invocation : Holds(e, owner[q])}

Init ==
  /\ status = [q \in Row |-> "absent"]
  /\ owner = [q \in Row |-> None]
  /\ runStatus = [r \in Run |-> "none"]
  /\ inputs = [r \in Run |-> NoInputs]
  /\ stage = [r \in Run |-> NoStage]
  /\ assessment = [r \in Run |-> [s \in Story |-> NoAssessment]]
  /\ story = [s \in Story |-> [versionAt |-> 0, by |-> None, via |-> "synthesis"]]
  /\ inv = [e \in Invocation |-> IdleInvocation]
  /\ opened = [r \in Run |-> 0]
  /\ clock = 0

-----------------------------------------------------------------------------
(* The environment of the engine. *)

\* New linked evidence asks for a review, unless the same request is pending
\* or processing; a retryable twin does not count.
EnqueueLinkedEvidence(q) ==
  /\ status[q] = "absent"
  /\ ~\E p \in Row : /\ StoryOf[p] = StoryOf[q] /\ EvidenceOf[p] = EvidenceOf[q]
                     /\ status[p] \in {"pending", "processing"}
  /\ status' = [status EXCEPT ![q] = "pending"]
  /\ UNCHANGED <<opened, owner, runVars, assessment, story, inv, clock>>

\* The full synthesis path records a new thesis version of a Story.
SynthesizeStory(s) ==
  /\ clock < MaxClock
  /\ clock' = clock + 1
  /\ story' = [story EXCEPT ![s] = [versionAt |-> clock + 1, by |-> None, via |-> "synthesis"]]
  /\ UNCHANGED <<opened, queueVars, runVars, assessment, inv>>

-----------------------------------------------------------------------------
(* Opening the run and its frozen inputs. *)

\* The invocation continues from the frozen inputs m: the broad reads come next,
\* unless they are frozen already.
Continue(e, m) ==
  [inv EXCEPT ![e].memory = m, ![e].saved = NoInputs,
              ![e].pc = IF m.reads THEN "hygiene" ELSE "readStories"]

\* Look the run key up.  A completed run is replayed, any other is resumed with
\* its status as it is, and with the frozen inputs just read if they are valid.
OpenRun(e, r) ==
  /\ At(e, "idle")
  /\ runStatus[r] # "completed"
  /\ opened[r] < MaxOpens[r]
  /\ SerialRuns => ~\E f \in Invocation : inv[f].run = r
  /\ opened' = [opened EXCEPT ![r] = @ + 1]
  /\ inv' = IF inputs[r].seeded
            THEN [Continue(e, inputs[r]) EXCEPT ![e].run = r]
            ELSE [inv EXCEPT ![e].run = r, ![e].saved = inputs[r],
                             ![e].pc = IF runStatus[r] = "none" THEN "create" ELSE "seed"]
  /\ UNCHANGED <<queueVars, runVars, assessment, story, clock>>

\* Insert the run, or merge over the row of an invocation that was faster.
CreateRun(e) ==
  /\ At(e, "create")
  /\ LET r == inv[e].run
         new == EmptyInputs(FALSE, clock + 1)
     IN /\ runStatus' = [runStatus EXCEPT ![r] = "started"]
        /\ inputs' = [inputs EXCEPT ![r] = new]
        /\ inv' = [inv EXCEPT ![e].saved = new, ![e].pc = "seed"]
  /\ clock' = clock + 1
  /\ UNCHANGED <<opened, queueVars, stage, assessment, story>>

\* Write empty frozen inputs over whatever the metadata holds by now.
SeedInputs(e) ==
  /\ At(e, "seed")
  /\ LET seeded == EmptyInputs(TRUE, inv[e].saved.asOf)
     IN /\ inputs' = [inputs EXCEPT ![inv[e].run] = seeded]
        /\ inv' = Continue(e, seeded)
  /\ UNCHANGED <<opened, queueVars, runStatus, stage, assessment, story, clock>>

\* The Stories are read as they are now, unless an invocation of the run has frozen
\* its reading of them.
ReadStories(e) ==
  /\ At(e, "readStories")
  /\ inv' = [inv EXCEPT ![e].memory.seen = [s \in Story |-> story[s].versionAt], ![e].pc = "readMeta"]
  /\ UNCHANGED <<opened, queueVars, runVars, assessment, story, clock>>

\* The broad reads are frozen, by reading the metadata and writing it back merged
\* with the inputs this invocation remembers.
ReadMetadata(e) ==
  /\ At(e, "readMeta")
  /\ inv' = [inv EXCEPT ![e].saved = inputs[inv[e].run], ![e].pc = "saveMeta"]
  /\ UNCHANGED <<opened, queueVars, runVars, assessment, story, clock>>

PersistFrozenReads(e) ==
  /\ At(e, "saveMeta")
  /\ LET m == [inv[e].memory EXCEPT !.reads = TRUE]
         durable == IF m.targets # None THEN m.targets ELSE inv[e].saved.targets
     IN /\ inputs' = [inputs EXCEPT ![inv[e].run] = [m EXCEPT !.targets = durable]]
        /\ inv' = [inv EXCEPT ![e].memory = m, ![e].saved = NoInputs, ![e].pc = "hygiene"]
  /\ UNCHANGED <<opened, queueVars, runStatus, stage, assessment, story, clock>>

-----------------------------------------------------------------------------
(* Queue hygiene: plan on a snapshot, then cancel what is still waiting. *)

Actionable == {q \in Row : status[q] \in Waiting}
\* Mutant: every one of several equal rows counts as a duplicate.
DuplicatesOfAny(open) ==
  {q \in open : \E p \in open : p # q /\ StoryOf[p] = StoryOf[q] /\ EvidenceOf[p] = EvidenceOf[q]}
Duplicates(open) ==
  {q \in open : \E p \in open : p < q /\ StoryOf[p] = StoryOf[q] /\ EvidenceOf[p] = EvidenceOf[q]}

\* A failed read of the applied assessments counts as having read none.
PlanHygiene(e) ==
  /\ At(e, "hygiene")
  /\ \E known \in {{}, AppliedRows}, superseded \in SUBSET (Supersedable \cap Actionable) :
     LET plan == (Actionable \cap known) \cup Duplicates(Actionable \ known) \cup superseded
     IN inv' = [inv EXCEPT ![e].plan = plan, ![e].pc = IF plan = {} THEN "select" ELSE "cancel"]
  /\ UNCHANGED <<opened, queueVars, runVars, assessment, story, clock>>

\* Requests whose Evidence is superseded are cancelled by a write of their own, after
\* the others.
CancelRedundant(e) ==
  /\ At(e, "cancel")
  /\ \E later \in SUBSET (inv[e].plan \cap Supersedable) \ {inv[e].plan} :
       /\ status' = [q \in Row |-> IF q \in inv[e].plan \ later /\ status[q] \in Waiting
                                   THEN "cancelled" ELSE status[q]]
       /\ inv' = [inv EXCEPT ![e].plan = later, ![e].pc = IF later = {} THEN "select" ELSE "cancel"]
  /\ UNCHANGED <<opened, owner, runVars, assessment, story, clock>>

-----------------------------------------------------------------------------
(* Selecting, claiming and freezing the targets. *)

\* A selected Story need not have a request (a due catalyst or its review age
\* selects it as well), and a request whose Evidence does not fit the bounded
\* evidence pack is left for later.
Selections ==
  UNION {{f \in [S -> SUBSET Row] : \A s \in S : f[s] \subseteq Available(s)}
         : S \in {S \in SUBSET Story : Cardinality(S) <= MaxTargets}}

\* claim_intelligence_story_reevaluations: recover abandoned claims, then claim
\* what is claimable, skipping rows that another transaction has locked.
Abandoned(old) ==
  old \cup {q \in Row : status[q] = "processing" /\ owner[q] \in Run
                        /\ runStatus[owner[q]] \in ClosedRun}
\* Mutant: an abandoned row gets the status of an abandoned stage attempt.
RecoveredAsFailed(old) == [q \in Row |-> IF q \in Abandoned(old) THEN "failed" ELSE status[q]]
Recovered(old) == [q \in Row |-> IF q \in Abandoned(old) THEN "retryable" ELSE status[q]]
Claimable(e, st) ==
  {q \in RowsOf(inv[e].targets) :
     st[q] \in Waiting \/ (st[q] = "processing" /\ owner[q] = inv[e].run)}
\* Two rows of one Story and Evidence may not both be pending or processing.
UniqueActive(st) ==
  \A p, q \in Row : /\ p # q /\ StoryOf[p] = StoryOf[q] /\ EvidenceOf[p] = EvidenceOf[q]
                    /\ st[p] \in {"pending", "processing"}
                    => st[q] \notin {"pending", "processing"}

Fail(e) ==
  /\ runStatus' = [runStatus EXCEPT ![inv[e].run] = "failed"]
  /\ inv' = [inv EXCEPT ![e] = IdleInvocation]

\* partitionStoryReviewTargetsByQueueClaims: a Story stays a target only if all of
\* its rows were claimed.
OwnedTargets(t, got) ==
  LET kept == {s \in DOMAIN t.rows : t.rows[s] \subseteq got}
  IN [t EXCEPT !.rows = [s \in kept |-> t.rows[s]]]

\* Mutant: whatever the evidence is.
AnyNonMaterial(t) == {s \in DOMAIN t.rows : t.rows[s] # {}}
CreatorOnlyNonMaterial(t) == {s \in DOMAIN t.rows : s \in CreatorOnly /\ t.rows[s] # {}}

\* Mutant: the invocation does not remember what it froze.
ProceedForgetting(e, t, fresh) ==
  \E next \in IF fresh THEN {"freeze"}
              ELSE IF CreatorOnlyNonMaterial(t) # {} THEN {"creator"}
              ELSE IF DOMAIN t.rows = {} THEN {"stage", "finish"} ELSE {"stage"} :
    inv' = [inv EXCEPT ![e].targets = t, ![e].plan = {}, ![e].fresh = fresh, ![e].pc = next]
\* Proceed with the targets t: freeze them if they are new, close the requests that
\* only creator commentary justifies, go on to the Market Belief stage.  A
\* maintenance run, or a run without fresh evidence, stops here without targets.
Proceed(e, t, fresh) ==
  \E next \in IF fresh THEN {"freeze"}
              ELSE IF CreatorOnlyNonMaterial(t) # {} THEN {"creator"}
              ELSE IF DOMAIN t.rows = {} THEN {"stage", "finish"} ELSE {"stage"} :
    inv' = [inv EXCEPT ![e].targets = t, ![e].memory.targets = IF At(e, "freeze") THEN t ELSE @,
                       ![e].plan = {}, ![e].fresh = fresh, ![e].pc = next]

\* Mutant: the selection is dated by the moment at which it is made.
SelectedNow(m) == clock
\* A selection is dated by the start of the run, which is before its reads.
SelectedAt(m) == m.asOf

\* Without requests there is nothing to claim, and the call is left out.
SelectTargets(e) ==
  /\ At(e, "select")
  /\ \E f \in Selections :
     LET m == inv[e].memory
         fresh == m.targets = None
         t == IF fresh THEN [at |-> SelectedAt(m), seen |-> m.seen, rows |-> f] ELSE m.targets
     IN IF RowsOf(t) = {} THEN Proceed(e, t, fresh)
        ELSE inv' = [inv EXCEPT ![e].targets = t, ![e].fresh = fresh, ![e].pc = "claim"]
  /\ UNCHANGED <<opened, queueVars, runVars, assessment, story, clock>>

ClaimTargets(e) ==
  /\ At(e, "claim")
  /\ \E old \in SUBSET Expirable :
     LET st == Recovered(old) IN
     \E got \in SUBSET Claimable(e, st) :
     LET claimed == [q \in Row |-> IF q \in got THEN "processing" ELSE st[q]]
         kept == OwnedTargets(inv[e].targets, got)
     IN
       \/ /\ UniqueActive(claimed)
          /\ status' = claimed
          /\ owner' = [q \in Row |-> IF q \in got THEN inv[e].run
                                     ELSE IF q \in Abandoned(old) THEN None ELSE owner[q]]
          /\ IF got \subseteq RowsOf(kept)
             THEN Proceed(e, kept, inv[e].fresh)
             ELSE inv' = [inv EXCEPT ![e].plan = got, ![e].pc = "release"]
          /\ UNCHANGED runStatus
       \/ /\ ~UniqueActive(claimed)
          /\ Fail(e)
          /\ UNCHANGED queueVars
  /\ UNCHANGED <<opened, inputs, stage, assessment, story, clock>>

\* The rows of a partly claimed Story are released.
ReleasePartialClaims(e) ==
  /\ At(e, "release")
  /\ LET kept == OwnedTargets(inv[e].targets, inv[e].plan)
         released == {q \in inv[e].plan \ RowsOf(kept) :
                        status[q] = "processing" /\ owner[q] = inv[e].run}
     IN /\ status' = [q \in Row |-> IF q \in released THEN "retryable" ELSE status[q]]
        /\ owner' = [q \in Row |-> IF q \in released THEN None ELSE owner[q]]
        /\ Proceed(e, kept, inv[e].fresh)
  /\ UNCHANGED <<opened, runVars, assessment, story, clock>>

\* freeze_intelligence_story_review_targets: the first writer wins, and every
\* caller continues with what is frozen.
FreezeTargets(e) ==
  /\ At(e, "freeze")
  /\ LET r == inv[e].run
         frozen == IF inputs[r].targets # None THEN inputs[r].targets ELSE inv[e].targets
     IN /\ inputs' = [inputs EXCEPT ![r].targets = frozen]
        /\ Proceed(e, frozen, FALSE)
  /\ UNCHANGED <<opened, queueVars, runStatus, stage, assessment, story, clock>>

\* Requests that only creator commentary justifies are closed without a model.
ResolveCreatorOnly(e) ==
  /\ At(e, "creator")
  /\ LET t == inv[e].targets
         trivial == CreatorOnlyNonMaterial(t)
         closed == {q \in UNION {t.rows[s] : s \in trivial} :
                      owner[q] = inv[e].run /\ status[q] \in {"pending", "processing", "retryable"}}
         left == DOMAIN t.rows \ trivial
     IN /\ status' = [q \in Row |-> IF q \in closed THEN "completed" ELSE status[q]]
        /\ Proceed(e, [t EXCEPT !.rows = [s \in left |-> t.rows[s]]], FALSE)
  /\ UNCHANGED <<opened, owner, runVars, assessment, story, clock>>

-----------------------------------------------------------------------------
(* The Market Belief stage.  Its output is reused once it is completed; the *)
(* claim protocol itself is the module StageClaims.                         *)

\* With the output at hand, the targets for which the model gave no usable
\* assessment are put back first, if they have requests at all.
OmittedTargets(e, output) == {s \in DOMAIN inv[e].targets.rows : output[s] = "omitted"}
UseOutput(e, output) ==
  LET t == inv[e].targets
      omitted == OmittedTargets(e, output)
  IN inv' = [inv EXCEPT ![e].todo = DOMAIN t.rows \ omitted,
                        ![e].pc = IF UNION {t.rows[s] : s \in omitted} = {} THEN "assess" ELSE "omitted"]

ReuseStage(e) ==
  /\ At(e, "stage")
  /\ stage[inv[e].run].state = "completed"
  /\ UseOutput(e, stage[inv[e].run].output)
  /\ UNCHANGED <<opened, queueVars, runVars, assessment, story, clock>>

ClaimStage(e) ==
  /\ At(e, "stage")
  /\ stage[inv[e].run].state \in {"none", "abandoned"}
  /\ stage' = [stage EXCEPT ![inv[e].run] = [NoStage EXCEPT !.state = "claimed", !.by = e]]
  /\ Goto(e, "model")
  /\ UNCHANGED <<opened, queueVars, runStatus, inputs, assessment, story, clock>>

\* Another continuation holds the stage: leave the run as it is.
StageBusy(e) ==
  /\ At(e, "stage")
  /\ stage[inv[e].run].state \in {"claimed", "abandoned"}
  /\ inv' = [inv EXCEPT ![e] = IdleInvocation]
  /\ UNCHANGED <<opened, queueVars, runVars, assessment, story, clock>>

FinishStage(e) ==
  /\ At(e, "model")
  /\ \E verdicts \in [DOMAIN inv[e].targets.rows -> Verdict] :
     LET output == [s \in Story |-> IF s \in DOMAIN verdicts THEN verdicts[s] ELSE "omitted"]
     IN /\ stage' = [stage EXCEPT ![inv[e].run] =
           [state |-> "completed", by |-> None, seen |-> inv[e].targets.seen, output |-> output]]
        /\ UseOutput(e, output)
  /\ UNCHANGED <<opened, queueVars, runStatus, inputs, assessment, story, clock>>

\* A retryable model error leaves the run partial, any other fails it.
FailStage(e) ==
  /\ At(e, "model")
  /\ stage' = [stage EXCEPT ![inv[e].run] = NoStage]
  /\ \E outcome \in {"partial", "failed"} :
       runStatus' = [runStatus EXCEPT ![inv[e].run] = outcome]
  /\ inv' = [inv EXCEPT ![e] = IdleInvocation]
  /\ UNCHANGED <<opened, queueVars, inputs, assessment, story, clock>>

-----------------------------------------------------------------------------
(* Storing and applying the assessments. *)

\* The filter is the owner alone, whatever the status of the row.
MarkOmittedRetryable(e) ==
  /\ At(e, "omitted")
  /\ LET r == inv[e].run
         omitted == OmittedTargets(e, stage[r].output)
         again == {q \in UNION {inv[e].targets.rows[s] : s \in omitted} : owner[q] = r}
     IN status' = [q \in Row |-> IF q \in again THEN "retryable" ELSE status[q]]
  /\ Goto(e, "assess")
  /\ UNCHANGED <<opened, owner, runVars, assessment, story, clock>>

\* The frozen contract of the Story, if the run's metadata still holds one.
HasContract(r, s) == inputs[r].targets # None /\ s \in DOMAIN inputs[r].targets.rows
Evidences(Q) == {EvidenceOf[q] : q \in Q}
ContractMet(r, s, Q) ==
  HasContract(r, s) => /\ OwnedBy(Q, r)
                       /\ Evidences(Q) = Evidences(inputs[r].targets.rows[s])
\* Mutant: ownership is checked when the assessment is inserted, not when it is applied.
OwnershipUnchecked(r, s, Q) == TRUE
OwnershipKept(r, s, Q) == HasContract(r, s) => OwnedBy(Q, r)

\* Insert the assessment of the next Story, or find the one of an earlier
\* invocation.  The trigger looks at the proposed row before the conflict with
\* an existing one is noticed; its error fails the run.
InsertAssessment(e) ==
  /\ At(e, "assess")
  /\ \E s \in inv[e].todo :
     LET r == inv[e].run
         t == inv[e].targets
         next == [inv EXCEPT ![e].story = s, ![e].todo = @ \ {s}, ![e].pc = "apply"]
         skip == [inv EXCEPT ![e].todo = @ \ {s}]
     IN \/ /\ ContractMet(r, s, t.rows[s])
           /\ assessment[r][s].state = "none"
           /\ assessment' = [assessment EXCEPT ![r][s] =
                [state |-> "open", at |-> t.at, seen |-> stage[r].seen[s], rows |-> t.rows[s],
                 verdict |-> stage[r].output[s], stale |-> FALSE]]
           /\ inv' = next
           /\ UNCHANGED runStatus
        \/ /\ ContractMet(r, s, t.rows[s])
           /\ assessment[r][s].state # "none"
           /\ inv' = IF Applied(r, s) THEN skip ELSE next
           /\ UNCHANGED <<assessment, runStatus>>
        \/ /\ ~ContractMet(r, s, t.rows[s])
           /\ Fail(e)
           /\ UNCHANGED assessment
  /\ UNCHANGED <<opened, queueVars, inputs, stage, story, clock>>

\* The parts of apply_intelligence_story_assessment_v2.
Superseded(r, s) == \E o \in Run \ {r} : Applied(o, s) /\ assessment[o][s].at >= assessment[r][s].at
StaleVersion(r, s) == story[s].versionAt > assessment[r][s].at
NewVersion(s, r, how) ==
  /\ clock' = clock + 1
  /\ story' = [story EXCEPT ![s] = [versionAt |-> clock + 1, by |-> r, via |-> how]]
CompleteReview(r, s, effective) ==
  /\ assessment' = [assessment EXCEPT ![r][s].state = "applied", ![r][s].verdict = effective]
  /\ status' = [q \in Row |-> IF /\ q \in assessment[r][s].rows
                                 /\ status[q] = "processing" /\ owner[q] = r
                              THEN "completed" ELSE status[q]]
\* The second half of v2: a scheduled catalyst proposed by an assessment that
\* changed nothing is attached to the Story.
AttachCatalyst(s, r) ==
  \/ NewVersion(s, r, "catalyst")
  \/ UNCHANGED <<clock, story>>

\* Already applied by a concurrent invocation of the run: nothing to do.
ApplyAgain(e) ==
  /\ At(e, "apply")
  /\ Applied(inv[e].run, inv[e].story)
  /\ inv' = [inv EXCEPT ![e].story = None, ![e].pc = "assess"]
  /\ UNCHANGED <<opened, queueVars, runVars, assessment, story, clock>>

\* A newer assessment of the Story was applied: yield to it.
ApplySuperseded(e) ==
  /\ At(e, "apply")
  /\ LET r == inv[e].run  s == inv[e].story
     IN /\ ~Applied(r, s) /\ Superseded(r, s)
        /\ OwnershipKept(r, s, assessment[r][s].rows)
        /\ CompleteReview(r, s, "unchanged")
        /\ AttachCatalyst(s, r)
  /\ inv' = [inv EXCEPT ![e].story = None, ![e].pc = "assess"]
  /\ UNCHANGED <<opened, owner, runVars>>

\* The assessment changes the Story: a material update, or the refresh of an
\* expired catalyst that an unchanged assessment makes on the way.
ApplyChange(e) ==
  /\ At(e, "apply")
  /\ LET r == inv[e].run  s == inv[e].story
     IN /\ ~Applied(r, s) /\ ~Superseded(r, s) /\ ~StaleVersion(r, s)
        /\ OwnershipKept(r, s, assessment[r][s].rows)
        /\ \E effective \in {"unchanged", assessment[r][s].verdict} : CompleteReview(r, s, effective)
        /\ NewVersion(s, r, "maintenance")
  /\ inv' = [inv EXCEPT ![e].story = None, ![e].pc = "assess"]
  /\ UNCHANGED <<opened, owner, runVars>>

\* The evidence does not allow the change, or it leaves no field different.
ApplyUnchanged(e) ==
  /\ At(e, "apply")
  /\ LET r == inv[e].run  s == inv[e].story
     IN /\ ~Applied(r, s) /\ ~Superseded(r, s)
        /\ OwnershipKept(r, s, assessment[r][s].rows)
        /\ \/ CompleteReview(r, s, "unchanged") /\ AttachCatalyst(s, r)
           \/ /\ assessment[r][s].verdict = "material"
              /\ CompleteReview(r, s, "material")
              /\ UNCHANGED <<clock, story>>
  /\ inv' = [inv EXCEPT ![e].story = None, ![e].pc = "assess"]
  /\ UNCHANGED <<opened, owner, runVars>>

\* The stale-version trigger aborts the transaction of a change.
ApplyStale(e) ==
  /\ At(e, "apply")
  /\ LET r == inv[e].run  s == inv[e].story
     IN ~Applied(r, s) /\ ~Superseded(r, s) /\ StaleVersion(r, s)
  /\ Goto(e, "stale")
  /\ UNCHANGED <<opened, queueVars, runVars, assessment, story, clock>>

\* The ownership trigger aborts the transaction.
ApplyOwnershipLost(e) ==
  /\ At(e, "apply")
  /\ LET r == inv[e].run  s == inv[e].story
     IN ~Applied(r, s) /\ ~OwnershipKept(r, s, assessment[r][s].rows)
  /\ Goto(e, "lost")
  /\ UNCHANGED <<opened, queueVars, runVars, assessment, story, clock>>

\* The rationale is rewritten with the verdict, so a second note replaces a first.
Neutralise(r, s, stale) ==
  assessment' = IF Applied(r, s) THEN assessment
                ELSE [assessment EXCEPT ![r][s].verdict = "unchanged", ![r][s].stale = stale]

RecordOwnershipLost(e) ==
  /\ At(e, "lost")
  /\ Neutralise(inv[e].run, inv[e].story, FALSE)
  /\ inv' = [inv EXCEPT ![e].story = None, ![e].pc = "assess"]
  /\ UNCHANGED <<opened, queueVars, runVars, story, clock>>

RecordStaleAssessment(e) ==
  /\ At(e, "stale")
  /\ Neutralise(inv[e].run, inv[e].story, TRUE)
  /\ Goto(e, "requeue")
  /\ UNCHANGED <<opened, queueVars, runVars, story, clock>>

RequeueStaleTarget(e) ==
  /\ At(e, "requeue")
  /\ LET r == inv[e].run
         again == {q \in inv[e].targets.rows[inv[e].story] : status[q] = "processing" /\ owner[q] = r}
     IN /\ status' = [q \in Row |-> IF q \in again THEN "retryable" ELSE status[q]]
        /\ owner' = [q \in Row |-> IF q \in again THEN None ELSE owner[q]]
  /\ inv' = [inv EXCEPT ![e].story = None, ![e].pc = "assess"]
  /\ UNCHANGED <<opened, runVars, assessment, story, clock>>

-----------------------------------------------------------------------------
(* The end of an invocation. *)

Finished(e) == At(e, "finish") \/ (At(e, "assess") /\ inv[e].todo = {})

\* Completion writes the metadata anew from what the invocation remembers.
CompleteRun(e) ==
  /\ Finished(e)
  /\ runStatus' = [runStatus EXCEPT ![inv[e].run] = "completed"]
  /\ inputs' = [inputs EXCEPT ![inv[e].run] = inv[e].memory]
  /\ inv' = [inv EXCEPT ![e] = IdleInvocation]
  /\ UNCHANGED <<opened, queueVars, stage, assessment, story, clock>>

\* A later model stage is left to the next invocation, or fails with an error
\* that can be retried.
LeaveRun(e) ==
  /\ At(e, "assess") /\ inv[e].todo = {}
  /\ \E outcome \in {runStatus[inv[e].run], "partial"} :
       runStatus' = [runStatus EXCEPT ![inv[e].run] = outcome]
  /\ inv' = [inv EXCEPT ![e] = IdleInvocation]
  /\ UNCHANGED <<opened, queueVars, inputs, stage, assessment, story, clock>>

\* A request to the database fails: the run is marked failed.
DatabaseError(e) ==
  /\ inv[e].pc \notin {"idle", "create", "seed", "model"}
  /\ Fail(e)
  /\ UNCHANGED <<opened, queueVars, inputs, stage, assessment, story, clock>>

\* The platform ends the invocation: nothing is written.
Crash(e) ==
  /\ inv[e].pc # "idle"
  /\ stage' = [r \in Run |-> IF stage[r].by = e THEN [NoStage EXCEPT !.state = "abandoned"]
                             ELSE stage[r]]
  /\ inv' = [inv EXCEPT ![e] = IdleInvocation]
  /\ UNCHANGED <<opened, queueVars, runStatus, inputs, assessment, story, clock>>

-----------------------------------------------------------------------------
Step(e) ==
  \/ CreateRun(e) \/ SeedInputs(e) \/ ReadStories(e) \/ ReadMetadata(e) \/ PersistFrozenReads(e)
  \/ PlanHygiene(e) \/ CancelRedundant(e)
  \/ SelectTargets(e) \/ ClaimTargets(e) \/ ReleasePartialClaims(e)
  \/ FreezeTargets(e) \/ ResolveCreatorOnly(e)
  \/ ReuseStage(e) \/ ClaimStage(e) \/ StageBusy(e) \/ FinishStage(e) \/ FailStage(e)
  \/ MarkOmittedRetryable(e) \/ InsertAssessment(e)
  \/ ApplyAgain(e) \/ ApplySuperseded(e) \/ ApplyChange(e) \/ ApplyUnchanged(e)
  \/ ApplyStale(e) \/ ApplyOwnershipLost(e)
  \/ RecordOwnershipLost(e) \/ RecordStaleAssessment(e) \/ RequeueStaleTarget(e)
  \/ CompleteRun(e) \/ LeaveRun(e) \/ DatabaseError(e) \/ Crash(e)

Next ==
  \/ \E q \in Row : EnqueueLinkedEvidence(q)
  \/ \E s \in Story : SynthesizeStory(s)
  \/ \E e \in Invocation, r \in Run : OpenRun(e, r)
  \/ \E e \in Invocation : Step(e)

Spec == Init /\ [][Next]_vars

-----------------------------------------------------------------------------
(* Properties. *)

Labels == {"idle", "create", "seed", "readStories", "readMeta", "saveMeta", "hygiene", "cancel",
           "select", "claim", "release", "freeze", "creator", "stage", "model", "omitted", "assess",
           "apply", "lost", "stale", "requeue", "finish"}
Invocations == [pc : Labels, run : Run \cup {None}, memory : Inputs, saved : Inputs,
                targets : Targets \cup {None}, fresh : BOOLEAN, plan : SUBSET Row,
                story : Story \cup {None}, todo : SUBSET Story]

\* An invocation works on a run, on targets once it has selected them, and on one of
\* their Stories at a time.
Targeted == {"claim", "release", "freeze", "creator", "stage", "model", "finish"}
Assessing == {"apply", "lost", "stale", "requeue"}
Fits(i) ==
  /\ i.pc # "idle" => i.run \in Run
  /\ i.pc \in Targeted \cup Assessing \cup {"omitted", "assess"} => i.targets \in Targets
  /\ i.pc \in Assessing \cup {"omitted", "assess"} => i.todo \subseteq DOMAIN i.targets.rows
  /\ i.pc \in Assessing => i.story \in DOMAIN i.targets.rows

\* The type of every variable, and the local state that each label needs.
TypeOK ==
  /\ status \in [Row -> RowStatus]
  /\ owner \in [Row -> Run \cup {None}]
  /\ runStatus \in [Run -> RunStatus]
  /\ inputs \in [Run -> Inputs]
  /\ stage \in [Run -> [state : {"none", "claimed", "abandoned", "completed"},
                        by : Invocation \cup {None}, seen : Versions, output : [Story -> Verdict]]]
  /\ assessment \in [Run -> [Story -> Assessment]]
  /\ story \in [Story -> [versionAt : Nat, by : Run \cup {None},
                          via : {"synthesis", "maintenance", "catalyst"}]]
  /\ inv \in [Invocation -> Invocations] /\ \A e \in Invocation : Fits(inv[e])
  /\ opened \in [Run -> Nat]
  /\ clock \in Nat

\* A request is used up by one review: no two applied assessments list the same
\* row, however often runs fail, resume and take rows over from each other.
ServedOnce ==
  \A r1, r2 \in Run, s1, s2 \in Story :
    (Applied(r1, s1) /\ Applied(r2, s2) /\ <<r1, s1>> # <<r2, s2>>)
      => assessment[r1][s1].rows \cap assessment[r2][s2].rows = {}

\* No request is dropped as done: a completed row is listed by an applied
\* assessment, or its Story rests on creator commentary alone.
CompletedServed ==
  \A q \in Row : status[q] = "completed" => q \in AppliedRows \/ StoryOf[q] \in CreatorOnly

\* Hygiene never cancels the last request that asks for a review: the Evidence of
\* a cancelled row was superseded, or the row was served by an applied assessment,
\* or an earlier row of the same Story and Evidence asks for the same review.
CancelledIsCovered ==
  \A q \in Row : status[q] = "cancelled" =>
    \/ q \in Supersedable
    \/ q \in AppliedRows
    \/ \E p \in Row : /\ p < q /\ StoryOf[p] = StoryOf[q] /\ EvidenceOf[p] = EvidenceOf[q]
                      /\ status[p] \notin {"absent", "cancelled"} \/ p \in AppliedRows \cup Supersedable

\* What a run assesses is what it froze, across crashes and resumed invocations:
\* the assessments of a run carry the selection time and the rows of its targets.
AssessedAsFrozen ==
  \A r \in Run, s \in Story : assessment[r][s].state # "none" =>
    /\ HasContract(r, s)
    /\ assessment[r][s].rows = inputs[r].targets.rows[s]
    /\ assessment[r][s].at = inputs[r].targets.at

\* No update of a Story is lost: maintenance changes a Story only in the version that
\* the model was shown, although the guard knows no versions: it compares the time of
\* the current one with the time of the selection, and the reading, the model call, the
\* assessment and its application may be the work of several invocations.
ChangesWhatWasSeen ==
  [][\A s \in Story : (story'[s] # story[s] /\ story'[s].via = "maintenance") =>
       story[s].versionAt = assessment[story'[s].by][s].seen]_vars

\* 20261005180500, lines 4 and 5: "a stale maintenance continuation cannot overwrite
\* the newer current Story state", here also for the catalyst path.
StaleReviewChangesNothing ==
  [][\A s \in Story : (story'[s] # story[s] /\ story'[s].by # None) =>
       story[s].versionAt <= assessment[story'[s].by][s].at]_vars

\* runtime.ts, line 1653: an assessment found stale "must be retried against the
\* current Story", so it is never applied.
StaleIsRetried == \A r \in Run, s \in Story : ~(Applied(r, s) /\ assessment[r][s].stale)

\* 20261005183500: "application drift or concurrency cannot persist an assessment
\* against queue rows owned by another run": rows listed by a new assessment are claimed
\* by its run.
OwnedWhenPersisted ==
  [][\A r \in Run, s \in Story :
       (assessment[r][s].state = "none" /\ assessment'[r][s].state # "none")
         => OwnedBy(assessment'[r][s].rows, r)]_vars
=============================================================================
