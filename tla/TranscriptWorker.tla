----------------------------- MODULE TranscriptWorker -----------------------------
(***************************************************************************)
(* The leased queue of creator videos in research_intake_items.  A worker  *)
(* claims a tranche of rows and works on them side by side: transcript,    *)
(* review, canonical evidence, completion, each step a checkpoint in the   *)
(* row.  A lease may expire whatever its owner does; every write to the    *)
(* row is fenced by the claim token, the writes to the evidence tables are *)
(* not.  Runs of the intelligence engine admit reviewed videos as well.    *)
(***************************************************************************)
EXTENDS Naturals, FiniteSets

CONSTANTS
  Item,         \* videos
  Worker,       \* requests of the transcript worker
  Engine,       \* runs of the engine, at canonicaliseIntake
  Archived,     \* videos whose review names an archived Story
  Tranche,      \* MAX_CONCURRENCY
  MaxAttempts,  \* claims after which an error is final
  Limit         \* bound: claims of a row; the last of them meets no temporary failure

ASSUME ArchivedAssumption == Archived \subseteq Item
ASSUME TrancheAssumption == Tranche \in Nat
ASSUME AttemptsAssumption == MaxAttempts \in Nat /\ Limit \in Nat

VARIABLES
  row,       \* research_intake_items
  evidence,  \* intelligence_evidence: the texts admitted for a video
  routed,    \* intelligence_story_evidence: texts linked to the archived Story
  task,      \* local state of the workers, one task per claimed row
  admitting  \* local state of engine runs: the reviews read and not yet written

vars == <<row, evidence, routed, task, admitting>>

\* The summary of a video is the placeholder of discovery, or the review made under
\* a claim, which is known by its token.  Tokens are counted: token n is the n-th claim.
Placeholder == 0
Text == 0..Limit
NoToken == 0

NoTask == [at |-> "idle", token |-> NoToken, transcript |-> "missing", review |-> "none",
           analysis |-> "not_attempted", retryable |-> FALSE, text |-> Placeholder]

\* ensureVideoIntakeItem inserts pending rows; rows from before the queue are blocked placeholders.
Init ==
  /\ row \in [Item -> [job : {"pending", "blocked"}, token : {NoToken}, expired : {FALSE},
                       attempts : {0}, transcript : {"missing"}, review : {"none"},
                       status : {"blocked"}, summary : {Placeholder}, evidence : {{}},
                       analysis : {"not_attempted"}]]
  /\ evidence = [i \in Item |-> {}]
  /\ routed = [i \in Item |-> {}]
  /\ task = [w \in Worker |-> [i \in Item |-> NoTask]]
  /\ admitting = [e \in Engine |-> [i \in Item |-> {}]]

At(w, i, label) == task[w][i].at = label
Go(w, i, label) == task' = [task EXCEPT ![w][i].at = label]
\* The answer may be lost: the error goes to the handler of processTranscriptJob.
Answered(w, i, next) == \E t \in {next, [task[w][i] EXCEPT !.at = "recover"]} :
                          task' = [task EXCEPT ![w][i] = t]
Moved(w, i, label) == [task[w][i] EXCEPT !.at = label]

\* Mutant: updates by id and status alone.
OwnsAnyToken(w, i) == row[i].job = "running"
Owns(w, i) == row[i].job = "running" /\ row[i].token = task[w][i].token

\* ownedUpdate, and renew: no row means that the lease is lost.
Update(w, i, new, next) ==
  \/ Owns(w, i) /\ row' = [row EXCEPT ![i] = new] /\ Answered(w, i, next)
  \/ ~Owns(w, i) /\ UNCHANGED row /\ Answered(w, i, NoTask)

\* Mutant: the token stays.
ReleasedKeepingToken(i, job) == [row[i] EXCEPT !.job = job, !.expired = FALSE]
Released(i, job) == [row[i] EXCEPT !.job = job, !.token = NoToken, !.expired = FALSE]

-----------------------------------------------------------------------------
(* claim_transcript_jobs.  The times of the next attempt are left open. *)

LegacyPlaceholder(i) ==
  /\ row[i].job = "blocked" /\ row[i].status = "blocked" /\ row[i].transcript = "missing"
  /\ row[i].review = "none" /\ row[i].summary = Placeholder
\* Mutant: expired leases are not recovered.
ClaimableOnce(i) == row[i].job \in {"pending", "retryable"} \/ LegacyPlaceholder(i)
Claimable(i) ==
  \/ row[i].job \in {"pending", "retryable"}
  \/ row[i].job = "running" /\ row[i].expired
  \/ LegacyPlaceholder(i)

Claim(w) ==
  /\ \A i \in Item : At(w, i, "idle")
  /\ \E S \in SUBSET {i \in Item : Claimable(i) /\ row[i].attempts < Limit} :
       /\ S # {} /\ Cardinality(S) <= Tranche
       /\ row' = [i \in Item |-> IF i \in S
                    THEN [row[i] EXCEPT !.job = "running", !.token = row[i].attempts + 1,
                                        !.attempts = @ + 1, !.expired = FALSE]
                    ELSE row[i]]
       /\ task' = [task EXCEPT ![w] = [i \in Item |-> IF i \in S
                    THEN [NoTask EXCEPT !.at = "find", !.token = row[i].attempts + 1,
                            !.transcript = row[i].transcript, !.review = row[i].review,
                            !.analysis = row[i].analysis]
                    ELSE NoTask]]
  /\ UNCHANGED <<evidence, routed, admitting>>

Expire(i) ==
  /\ row[i].job = "running" /\ ~row[i].expired
  /\ row' = [row EXCEPT ![i].expired = TRUE]
  /\ UNCHANGED <<evidence, routed, task, admitting>>

-----------------------------------------------------------------------------
(* processTranscriptJob. *)

Stage(t) == CASE t.transcript # "ready" -> "extract"
              [] t.transcript = "ready" /\ t.review # "reviewed" -> "interpret"
              [] OTHER -> "evidence"

\* findEvidence; job.evidenceId is only known of completed rows.
FindEvidence(w, i, label, otherwise) ==
  /\ At(w, i, label)
  /\ \/ \E text \in evidence[i] :
          task' = [task EXCEPT ![w][i] = [Moved(w, i, "complete") EXCEPT !.text = text]]
     \/ evidence[i] = {} /\ Go(w, i, otherwise)
  /\ UNCHANGED <<row, evidence, routed, admitting>>

\* assertLease
Renew(w, i, label, next) ==
  /\ At(w, i, label)
  /\ Update(w, i, [row[i] EXCEPT !.expired = FALSE], Moved(w, i, next))
  /\ UNCHANGED <<evidence, routed, admitting>>

SaveTranscript(w, i) ==
  /\ At(w, i, "extracting")
  /\ Update(w, i, [row[i] EXCEPT !.transcript = "ready", !.review = "transcript_only", !.status = "blocked"],
            [Moved(w, i, "interpret") EXCEPT !.transcript = "ready", !.review = "transcript_only"])
  /\ UNCHANGED <<evidence, routed, admitting>>

\* Mutant: a saved analysis is not looked at.
RescueAgain(t) == TRUE
RescueWanted(t) == t.analysis # "summary_only"

\* The provider fails; Gemini may be asked for an analysis of the video.
ExtractionFails(w, i) ==
  /\ At(w, i, "extracting")
  /\ \E retryable \in BOOLEAN, eligible \in BOOLEAN :
       /\ retryable => task[w][i].token < Limit
       /\ task' = [task EXCEPT ![w][i].retryable = retryable, ![w][i].analysis = "not_attempted",
            ![w][i].at = IF eligible /\ RescueWanted(task[w][i]) THEN "analyse" ELSE "save_failure"]
  /\ UNCHANGED <<row, evidence, routed, admitting>>

AnalyseVideo(w, i) ==
  /\ At(w, i, "analysing")
  /\ \E outcome \in {"summary_only", "failed"} :
       task' = [task EXCEPT ![w][i].analysis = outcome, ![w][i].at = "save_failure"]
  /\ UNCHANGED <<row, evidence, routed, admitting>>

SaveExtractionFailure(w, i) ==
  /\ At(w, i, "save_failure")
  /\ LET retryable == task[w][i].retryable
         outcome == task[w][i].analysis
         failed == Released(i, IF retryable THEN "retryable" ELSE "blocked")
     IN Update(w, i, [failed EXCEPT !.transcript = IF retryable THEN "missing" ELSE "unavailable",
                                    !.review = IF retryable THEN "none" ELSE "unavailable",
                                    !.analysis = IF outcome = "not_attempted" THEN @ ELSE outcome,
                                    !.status = "blocked"],
               NoTask)
  /\ UNCHANGED <<evidence, routed, admitting>>

SaveInterpretation(w, i) ==
  /\ At(w, i, "interpreting")
  /\ Update(w, i, [row[i] EXCEPT !.review = "reviewed", !.status = "accepted", !.summary = task[w][i].token],
            [Moved(w, i, "evidence") EXCEPT !.review = "reviewed"])
  /\ UNCHANGED <<evidence, routed, admitting>>

-----------------------------------------------------------------------------
(* canonicaliseIntake: read the accepted rows, upsert evidence by its      *)
(* content, link it to Stories.                                            *)

\* Mutant: blocked rows are usable.
UsableBlocked(i) == row[i].transcript = "ready"
Usable(i) == row[i].status # "blocked" /\ row[i].transcript = "ready"

\* The row may be outside of the window of 90 days and 180 rows.
LoadIntake(w, i) ==
  /\ At(w, i, "load")
  /\ \/ Usable(i) /\ task' = [task EXCEPT ![w][i].text = row[i].summary, ![w][i].at = "upsert"]
     \/ Go(w, i, "refind")
  /\ UNCHANGED <<row, evidence, routed, admitting>>

\* Mutant: an error of the upsert is ignored.
UpsertQuietly(w, i) ==
  /\ At(w, i, "upsert")
  /\ evidence' \in {evidence, [evidence EXCEPT ![i] = @ \cup {task[w][i].text}]}
  /\ Answered(w, i, Moved(w, i, "link"))
  /\ UNCHANGED <<row, routed, admitting>>
UpsertEvidence(w, i) ==
  /\ At(w, i, "upsert")
  /\ evidence' = [evidence EXCEPT ![i] = @ \cup {task[w][i].text}]
  /\ Answered(w, i, Moved(w, i, "link"))
  /\ UNCHANGED <<row, routed, admitting>>

\* The Stories of the worker include archived ones.
LinkStories(w, i) ==
  /\ At(w, i, "link")
  /\ routed' = [routed EXCEPT ![i] = IF i \in Archived THEN @ \cup {task[w][i].text} ELSE @]
  /\ Answered(w, i, Moved(w, i, "complete"))
  /\ UNCHANGED <<row, evidence, admitting>>

Complete(w, i) ==
  /\ At(w, i, "complete")
  /\ Update(w, i, [Released(i, "completed") EXCEPT !.evidence = {task[w][i].text}], NoTask)
  /\ UNCHANGED <<evidence, routed, admitting>>

-----------------------------------------------------------------------------
(* Failures. *)

\* The analysis has a handler of its own.
InService(w, i) == task[w][i].at \notin {"idle", "analysing", "recover"}

\* A call fails before it has an effect.
Error(w, i) ==
  /\ InService(w, i) /\ task[w][i].token < Limit
  /\ Go(w, i, "recover")
  /\ UNCHANGED <<row, evidence, routed, admitting>>

\* The handler of the error: fail or retry.
Recover(w, i) ==
  /\ At(w, i, "recover")
  /\ row' = IF Owns(w, i)
            THEN [row EXCEPT ![i] = Released(i, IF task[w][i].token >= MaxAttempts THEN "failed" ELSE "retryable")]
            ELSE row
  /\ task' = [task EXCEPT ![w][i] = NoTask]
  /\ UNCHANGED <<evidence, routed, admitting>>

\* The handler's own call fails.
RecoverFails(w, i) ==
  /\ At(w, i, "recover") /\ task[w][i].token < Limit
  /\ task' = [task EXCEPT ![w][i] = NoTask]
  /\ UNCHANGED <<row, evidence, routed, admitting>>

\* The request is killed, with all its tasks.
Crash(w) ==
  /\ \E i \in Item : ~At(w, i, "idle")
  /\ \A i \in Item : task[w][i].token < Limit
  /\ task' = [task EXCEPT ![w] = [i \in Item |-> NoTask]]
  /\ UNCHANGED <<row, evidence, routed, admitting>>

-----------------------------------------------------------------------------
(* A run of the engine; its Stories are the active ones. *)

EngineLoad(e) ==
  /\ \E S \in SUBSET {i \in Item : Usable(i)} :
       admitting' = [admitting EXCEPT ![e] = [i \in Item |-> IF i \in S THEN {row[i].summary} ELSE {}]]
  /\ UNCHANGED <<row, evidence, routed, task>>

EngineUpsert(e) ==
  /\ \E i \in Item : admitting[e][i] # {}
  /\ evidence' = [i \in Item |-> evidence[i] \cup admitting[e][i]]
  /\ admitting' = [admitting EXCEPT ![e] = [i \in Item |-> {}]]
  /\ UNCHANGED <<row, routed, task>>

-----------------------------------------------------------------------------
Work(w, i) ==
  \/ FindEvidence(w, i, "find", Stage(task[w][i]))
  \/ Renew(w, i, "extract", "extracting") \/ SaveTranscript(w, i)
  \/ ExtractionFails(w, i) \/ Renew(w, i, "analyse", "analysing") \/ AnalyseVideo(w, i)
  \/ SaveExtractionFailure(w, i)
  \/ Renew(w, i, "interpret", "interpreting") \/ SaveInterpretation(w, i)
  \/ Renew(w, i, "evidence", "look") \/ FindEvidence(w, i, "look", "load")
  \/ LoadIntake(w, i) \/ FindEvidence(w, i, "refind", "recover")
  \/ UpsertEvidence(w, i) \/ LinkStories(w, i) \/ Complete(w, i)
  \/ Recover(w, i)

Next ==
  \/ \E w \in Worker : Claim(w) \/ Crash(w)
  \/ \E w \in Worker, i \in Item : Work(w, i) \/ Error(w, i) \/ RecoverFails(w, i)
  \/ \E i \in Item : Expire(i)
  \/ \E e \in Engine : EngineLoad(e) \/ EngineUpsert(e)

Spec == Init /\ [][Next]_vars

\* Leases expire, cron slots start workers, and a worker that is not killed goes on.
Fairness ==
  /\ \A i \in Item : WF_vars(Expire(i))
  /\ \A w \in Worker : WF_vars(Claim(w)) /\ \A i \in Item : WF_vars(Work(w, i))
FairSpec == Spec /\ Fairness

-----------------------------------------------------------------------------
(* Properties. *)

Labels == {"idle", "find", "extract", "extracting", "analyse", "analysing", "save_failure", "interpret",
           "interpreting", "evidence", "look", "load", "refind", "upsert", "link", "complete", "recover"}
Analyses == {"not_attempted", "summary_only", "failed"}
Transcripts == {"missing", "ready", "unavailable"}
Reviews == {"none", "transcript_only", "reviewed", "unavailable"}
Rows == [job : {"pending", "running", "retryable", "blocked", "completed", "failed"},
         token : 0..Limit, expired : BOOLEAN, attempts : 0..Limit, transcript : Transcripts,
         review : Reviews, status : {"blocked", "accepted"}, summary : Text,
         evidence : SUBSET Text, analysis : Analyses]
Tasks == [at : Labels, token : 0..Limit, transcript : Transcripts, review : Reviews,
          analysis : Analyses, retryable : BOOLEAN, text : Text]
\* Types; a row has a token just while it is running, the one of its latest claim.
TypeOK ==
  /\ row \in [Item -> Rows]
  /\ evidence \in [Item -> SUBSET Text] /\ routed \in [Item -> SUBSET Text]
  /\ task \in [Worker -> [Item -> Tasks]]
  /\ admitting \in [Engine -> [Item -> SUBSET Text]]
  /\ \A i \in Item : row[i].token = IF row[i].job = "running" THEN row[i].attempts ELSE NoToken

\* tests/transcript-worker-stale-fencing.test.ts, test D: "overlapping or sequential workers
\* for same intake item yield single evidence identity".  Evidence is known by its content
\* and its writers are not fenced, so this takes one review for good: what is admitted is
\* the review in the row, never the placeholder of a video nobody reviewed.
EvidenceIsTheReview == \A i \in Item : evidence[i] \subseteq {row[i].summary} \ {Placeholder}

\* What lib/scheduled-video-handoff.ts counts as usable: a completed job has been reviewed
\* and names evidence that is there.
CompletedIsBacked ==
  \A i \in Item : row[i].job = "completed" =>
    /\ row[i].review = "reviewed" /\ row[i].status = "accepted" /\ row[i].transcript = "ready"
    /\ row[i].evidence # {} /\ row[i].evidence \subseteq evidence[i]

\* The design of the Gemini rescue: "a retrying transcript job does not pay for or duplicate
\* an already saved Gemini analysis".
AnalysisPaidOnce ==
  \A w \in Worker, i \in Item :
    At(w, i, "analysing") /\ Owns(w, i) => row[i].analysis # "summary_only"

\* Whoever holds the lease and whoever has lost it, a video goes through VideoPipeline.
Progress(i) ==
  CASE row[i].job \in {"completed", "failed"} -> row[i].job
    [] row[i].job \notin {"completed", "failed"} /\ row[i].transcript = "unavailable" -> "unavailable"
    [] OTHER -> CASE evidence[i] # {} -> "admitted"
                  [] evidence[i] = {} /\ row[i].review = "reviewed" -> "reviewed"
                  [] evidence[i] = {} /\ row[i].review # "reviewed" /\ row[i].transcript = "ready" -> "transcribed"
                  [] OTHER -> "found"
Pipeline == INSTANCE VideoPipeline WITH progress <- [i \in Item |-> Progress(i)]
PipelineSpec == Pipeline!Spec

\* Once provider and requests stop failing, every video ends completed, failed or
\* unavailable: no lease and no lost worker keeps it in the queue.
Settled(i) == row[i].job \in {"completed", "failed"} \/ row[i].transcript = "unavailable"
VideosSettle == \A i \in Item : <>[]Settled(i)

\* tests/transcript-worker-contract.test.ts, line 112: "evidence routing remains
\* archived-capable": the archived Story that a completed review names has its evidence.
CompletedIsRouted ==
  \A i \in Archived : row[i].job = "completed" => row[i].evidence \subseteq routed[i]
=============================================================================
