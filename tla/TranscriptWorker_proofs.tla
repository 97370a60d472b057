------------------------ MODULE TranscriptWorker_proofs ------------------------
(* Theorems about TranscriptWorker, for every choice of its constants. *)
EXTENDS TranscriptWorker, TLAPS

-----------------------------------------------------------------------------
(* The inductive invariant.  Its parts speak of one row r with the evidence *)
(* ev of its video, and of one task t at it.                                *)

Extraction == {"extract", "extracting", "analyse", "analysing", "save_failure"}

\* A review is there together with its summary and for good; only a reviewed video has
\* evidence, which is the summary.
GoodRow(r, ev) ==
  /\ r.token = IF r.job = "running" THEN r.attempts ELSE NoToken
  /\ r.job = "running" => r.attempts > 0
  /\ r.review = "reviewed" <=> r.status = "accepted"
  /\ r.review = "reviewed" <=> r.summary # Placeholder
  /\ r.review = "reviewed" => r.transcript = "ready"
  /\ r.transcript = "unavailable" => r.job = "blocked"
  /\ ev \subseteq {r.summary} \ {Placeholder}
  /\ r.job = "completed" => r.evidence # {} /\ r.evidence \subseteq ev

Holds(t, r) == r.job = "running" /\ r.token = t.token

\* The task of the owner knows the row; the texts of all tasks are the summary.
GoodTask(t, r, ev) ==
  t.at # "idle" =>
    /\ t.token > 0 /\ t.token <= r.attempts
    /\ t.at # "recover" /\ Holds(t, r) => t.transcript = r.transcript /\ t.review = r.review
    /\ t.at \in {"find", "extract", "extracting"} /\ Holds(t, r) => t.analysis = r.analysis
    /\ t.at \in {"analyse", "analysing"} /\ Holds(t, r) => r.analysis # "summary_only"
    /\ t.at \in Extraction => t.transcript # "ready"
    /\ t.at \in {"interpret", "interpreting"} => t.transcript = "ready" /\ t.review # "reviewed"
    /\ t.at = "upsert" => r.review = "reviewed" /\ t.text = r.summary
    /\ t.at \in {"link", "complete"} => t.text \in ev

\* No two tasks at a video have the same token.
TokensDiffer ==
  \A i \in Item, v, w \in Worker :
    v # w /\ ~At(v, i, "idle") /\ ~At(w, i, "idle") => task[v][i].token # task[w][i].token

IInv ==
  /\ TypeOK
  /\ \A i \in Item : GoodRow(row[i], evidence[i])
  /\ \A w \in Worker, i \in Item : GoodTask(task[w][i], row[i], evidence[i])
  /\ TokensDiffer
  /\ \A e \in Engine, i \in Item : admitting[e][i] \subseteq {row[i].summary} \ {Placeholder}

-----------------------------------------------------------------------------
(* Facts about the values. *)

LEMMA NoTaskType == NoTask \in Tasks
BY AttemptsAssumption DEF NoTask, Tasks, Labels, Transcripts, Reviews, Analyses, Text, NoToken, Placeholder

LEMMA RowFields ==
  ASSUME NEW r \in Rows
  PROVE  /\ r.job \in {"pending", "running", "retryable", "blocked", "completed", "failed"}
         /\ r.token \in 0..Limit /\ r.expired \in BOOLEAN /\ r.attempts \in 0..Limit
         /\ r.transcript \in Transcripts /\ r.review \in Reviews
         /\ r.status \in {"blocked", "accepted"} /\ r.summary \in Text
         /\ r.evidence \in SUBSET Text /\ r.analysis \in Analyses
BY DEF Rows

LEMMA TaskFields ==
  ASSUME NEW t \in Tasks
  PROVE  /\ t.at \in Labels /\ t.token \in 0..Limit /\ t.transcript \in Transcripts
         /\ t.review \in Reviews /\ t.analysis \in Analyses /\ t.retryable \in BOOLEAN
         /\ t.text \in Text
         /\ \A l \in Labels : [t EXCEPT !.at = l] \in Tasks
BY DEF Tasks

\* What the type invariant says of one video and one task.
LEMMA Typed ==
  ASSUME TypeOK, NEW i \in Item, NEW w \in Worker
  PROVE  row[i] \in Rows /\ task[w][i] \in Tasks /\ evidence[i] \in SUBSET Text
BY DEF TypeOK

LEMMA InvariantInit == Init => IInv
<1> SUFFICES ASSUME Init PROVE IInv
  OBVIOUS
<1>1. ASSUME NEW i \in Item PROVE row[i] \in Rows /\ GoodRow(row[i], {})
  <2>1. /\ row[i].job \in {"pending", "blocked"} /\ row[i].token = 0 /\ row[i].attempts = 0
        /\ row[i].transcript = "missing" /\ row[i].review = "none" /\ row[i].status = "blocked"
        /\ row[i].summary = 0
    BY DEF Init, NoToken, Placeholder
  <2>2. row[i] = [job |-> row[i].job, token |-> 0, expired |-> FALSE, attempts |-> 0,
                  transcript |-> "missing", review |-> "none", status |-> "blocked",
                  summary |-> 0, evidence |-> {}, analysis |-> "not_attempted"]
    BY DEF Init, NoToken, Placeholder
  <2>3. row[i] \in Rows
    <3> DEFINE job == row[i].job
    <3>1. job \in {"pending", "blocked"}
      BY <2>1
    <3>2. row[i] = [job |-> job, token |-> 0, expired |-> FALSE, attempts |-> 0,
                    transcript |-> "missing", review |-> "none", status |-> "blocked",
                    summary |-> 0, evidence |-> {}, analysis |-> "not_attempted"]
      BY <2>2
    <3> HIDE DEF job
    <3> QED BY <3>1, <3>2, AttemptsAssumption DEF Rows, Transcripts, Reviews, Analyses, Text
  <2> QED BY <2>1, <2>3 DEF GoodRow, NoToken, Placeholder
<1>2. TypeOK
  <2>1. row \in [Item -> Rows]
    BY <1>1 DEF Init
  <2>2. task \in [Worker -> [Item -> Tasks]]
    BY NoTaskType DEF Init
  <2> QED BY <1>1, <2>1, <2>2 DEF Init, TypeOK, GoodRow
<1>3. \A w \in Worker, i \in Item : task[w][i].at = "idle"
  BY DEF Init, NoTask
<1> QED BY <1>1, <1>2, <1>3 DEF IInv, Init, GoodTask, TokensDiffer, At

-----------------------------------------------------------------------------
(* A step of one task, which may change its row while it holds the lease. *)

\* A review stays, with its summary, and nobody else gets the lease.
Kept(old, new) ==
  /\ new.attempts = old.attempts
  /\ old.review = "reviewed" => new.review = "reviewed" /\ new.summary = old.summary
  /\ new.job = "running" => old.job = "running" /\ new.token = old.token

\* Tasks that do not hold the lease lose nothing.
LEMMA OtherTask ==
  ASSUME NEW t \in Tasks, NEW old \in Rows, NEW new \in Rows, NEW ev \in SUBSET Text,
         NEW more \in SUBSET Text, GoodTask(t, old, ev), ~Holds(t, old) \/ new = old,
         Kept(old, new), ev \subseteq more
  PROVE  GoodTask(t, new, more)
BY RowFields, TaskFields DEF GoodTask, Holds, Kept

LEMMA TaskStep ==
  ASSUME IInv, NEW w \in Worker, NEW i \in Item,
         NEW r \in Rows, NEW t \in Tasks, NEW ev \in SUBSET Text,
         row' = [row EXCEPT ![i] = r], task' = [task EXCEPT ![w][i] = t],
         evidence' = [evidence EXCEPT ![i] = ev],
         routed' \in [Item -> SUBSET Text], UNCHANGED admitting,
         ~At(w, i, "idle"),
         r = row[i] \/ Holds(task[w][i], row[i]), Kept(row[i], r), evidence[i] \subseteq ev,
         GoodRow(r, ev), GoodTask(t, r, ev), t.at = "idle" \/ t.token = task[w][i].token
  PROVE  IInv'
<1>1. /\ row' \in [Item -> Rows] /\ row'[i] = r /\ \A j \in Item \ {i} : row'[j] = row[j]
      /\ evidence' \in [Item -> SUBSET Text] /\ evidence'[i] = ev
      /\ \A j \in Item \ {i} : evidence'[j] = evidence[j]
      /\ task' \in [Worker -> [Item -> Tasks]] /\ task'[w][i] = t
      /\ \A v \in Worker, j \in Item : v # w \/ j # i => task'[v][j] = task[v][j]
  BY DEF IInv, TypeOK
<1>2. \A j \in Item : GoodRow(row'[j], evidence'[j])
  BY <1>1 DEF IInv
<1>3. TypeOK'
  BY <1>1, <1>2 DEF IInv, TypeOK, GoodRow
<1>4. ASSUME NEW v \in Worker, NEW j \in Item PROVE GoodTask(task'[v][j], row'[j], evidence'[j])
  <2>1. CASE j # i
    BY <1>1, <2>1 DEF IInv
  <2>2. CASE j = i /\ v = w
    BY <1>1, <2>2
  <2>3. CASE j = i /\ v # w
    <3>1. /\ task[v][i] \in Tasks /\ row[i] \in Rows /\ evidence[i] \in SUBSET Text
          /\ GoodTask(task[v][i], row[i], evidence[i])
      BY Typed DEF IInv
    <3>2. CASE task[v][i].at = "idle"
      BY <1>1, <2>3, <3>2 DEF GoodTask
    <3>3. CASE task[v][i].at # "idle"
      <4>1. task[v][i].token # task[w][i].token
        BY <2>3, <3>3 DEF IInv, TokensDiffer, At
      <4>2. ~Holds(task[v][i], row[i]) \/ r = row[i]
        BY <4>1 DEF Holds
      <4>3. GoodTask(task[v][i], r, ev)
        BY <3>1, <4>2, OtherTask
      <4> QED BY <1>1, <2>3, <4>3
    <3> QED BY <3>2, <3>3
  <2> QED BY <2>1, <2>2, <2>3
<1>5. TokensDiffer'
  BY <1>1 DEF IInv, TokensDiffer, At
<1>6. ASSUME NEW e \in Engine, NEW j \in Item
      PROVE  admitting'[e][j] \subseteq {row'[j].summary} \ {Placeholder}
  <2>1. admitting[e][j] \subseteq {row[j].summary} \ {Placeholder} /\ GoodRow(row[j], evidence[j])
    BY DEF IInv
  <2>2. CASE j # i
    BY <1>1, <2>1, <2>2
  <2>3. CASE j = i
    BY <1>1, <2>1, <2>3 DEF GoodRow, Kept
  <2> QED BY <2>2, <2>3
<1> QED BY <1>2, <1>3, <1>4, <1>5, <1>6 DEF IInv

LEMMA GoodRecovery ==
  ASSUME NEW t \in Tasks, NEW r \in Rows, NEW new \in Rows, NEW ev \in SUBSET Text,
         GoodTask(t, r, ev), t.at # "idle", new.attempts = r.attempts
  PROVE  GoodTask([t EXCEPT !.at = "recover"], new, ev)
BY TaskFields DEF GoodTask, Extraction, Labels

\* A step that leaves the tables alone.
LEMMA LocalStep ==
  ASSUME IInv, NEW w \in Worker, NEW i \in Item, NEW t \in Tasks,
         task' = [task EXCEPT ![w][i] = t], UNCHANGED <<row, evidence, routed, admitting>>,
         ~At(w, i, "idle"), GoodTask(t, row[i], evidence[i]),
         t.at = "idle" \/ t.token = task[w][i].token
  PROVE  IInv'
<1>1. row' = [row EXCEPT ![i] = row[i]] /\ evidence' = [evidence EXCEPT ![i] = evidence[i]]
  BY DEF IInv, TypeOK
<1>2. row[i] \in Rows /\ evidence[i] \in SUBSET Text /\ GoodRow(row[i], evidence[i])
  BY Typed DEF IInv
<1>3. Kept(row[i], row[i]) /\ routed' \in [Item -> SUBSET Text]
  BY DEF Kept, IInv, TypeOK
<1> QED BY <1>1, <1>2, <1>3, TaskStep

\* A fenced write.
LEMMA UpdateStep ==
  ASSUME IInv, NEW w \in Worker, NEW i \in Item, NEW r, NEW t,
         Update(w, i, r, t), UNCHANGED <<evidence, routed, admitting>>, ~At(w, i, "idle"),
         Owns(w, i) => /\ r \in Rows /\ t \in Tasks
                       /\ Kept(row[i], r) /\ GoodRow(r, evidence[i]) /\ GoodTask(t, r, evidence[i])
                       /\ t.at = "idle" \/ t.token = task[w][i].token
  PROVE  IInv'
<1> DEFINE lost == [task[w][i] EXCEPT !.at = "recover"]
<1>1. /\ row[i] \in Rows /\ task[w][i] \in Tasks /\ evidence[i] \in SUBSET Text
      /\ GoodTask(task[w][i], row[i], evidence[i]) /\ task[w][i].at # "idle"
  BY Typed DEF IInv, At
<1>2. lost \in Tasks /\ lost.token = task[w][i].token
  <2>1. "recover" \in Labels
    BY DEF Labels
  <2>2. lost \in Tasks
    BY <1>1, <2>1, TaskFields
  <2> QED BY <1>1, <2>2 DEF Tasks
<1>3. evidence' = [evidence EXCEPT ![i] = evidence[i]] /\ routed' \in [Item -> SUBSET Text]
  BY DEF IInv, TypeOK
<1>4. CASE Owns(w, i)
  <2>1. row' = [row EXCEPT ![i] = r] /\ Holds(task[w][i], row[i])
    BY <1>4 DEF Update, Owns, Holds
  <2>2. CASE task' = [task EXCEPT ![w][i] = t]
    BY <1>1, <1>3, <1>4, <2>1, <2>2, TaskStep
  <2>3. CASE task' = [task EXCEPT ![w][i] = lost]
    <3>1. r \in Rows /\ Kept(row[i], r) /\ GoodRow(r, evidence[i])
      BY <1>4
    <3>2. GoodTask(lost, r, evidence[i])
      BY <1>1, <3>1, GoodRecovery DEF Kept
    <3> HIDE DEF lost
    <3> QED BY <1>1, <1>2, <1>3, <2>1, <2>3, <3>1, <3>2, TaskStep
  <2> QED BY <1>4, <2>2, <2>3 DEF Update, Answered
<1>5. CASE ~Owns(w, i)
  <2>1. UNCHANGED row
    BY <1>5 DEF Update
  <2>2. CASE task' = [task EXCEPT ![w][i] = NoTask]
    <3>1. GoodTask(NoTask, row[i], evidence[i]) /\ NoTask.at = "idle"
      BY DEF GoodTask, NoTask
    <3> QED BY <2>1, <2>2, <3>1, NoTaskType, LocalStep
  <2>3. CASE task' = [task EXCEPT ![w][i] = lost]
    <3>1. GoodTask(lost, row[i], evidence[i])
      BY <1>1, GoodRecovery
    <3> HIDE DEF lost
    <3> QED BY <1>2, <2>1, <2>3, <3>1, LocalStep
  <2> QED BY <1>5, <2>2, <2>3 DEF Update, Answered
<1> QED BY <1>4, <1>5

-----------------------------------------------------------------------------
(* One lemma for each action of a task. *)

LEMMA Good ==
  ASSUME IInv, NEW w \in Worker, NEW i \in Item
  PROVE  /\ row[i] \in Rows /\ task[w][i] \in Tasks /\ evidence[i] \in SUBSET Text
         /\ GoodRow(row[i], evidence[i]) /\ GoodTask(task[w][i], row[i], evidence[i])
         /\ Owns(w, i) <=> Holds(task[w][i], row[i])
BY Typed DEF IInv, Owns, Holds

LEMMA MoveType ==
  ASSUME NEW t \in Tasks, NEW l \in Labels
  PROVE  /\ [t EXCEPT !.at = l] \in Tasks /\ [t EXCEPT !.at = l].at = l
         /\ [t EXCEPT !.at = l].token = t.token /\ [t EXCEPT !.at = l].text = t.text
         /\ [t EXCEPT !.at = l].transcript = t.transcript /\ [t EXCEPT !.at = l].review = t.review
         /\ [t EXCEPT !.at = l].analysis = t.analysis
BY DEF Tasks

LEMMA StepFind ==
  ASSUME IInv, NEW w \in Worker, NEW i \in Item, NEW label \in Labels \ {"idle"},
         NEW otherwise \in Labels, FindEvidence(w, i, label, otherwise),
         GoodTask(Moved(w, i, otherwise), row[i], evidence[i]), label # "recover"
  PROVE  IInv'
<1>1. /\ task[w][i] \in Tasks /\ row[i] \in Rows /\ evidence[i] \in SUBSET Text
      /\ GoodTask(task[w][i], row[i], evidence[i])
      /\ task[w][i].at = label /\ ~At(w, i, "idle")
  BY Good DEF FindEvidence, At
<1>2. ASSUME NEW text \in evidence[i],
             task' = [task EXCEPT ![w][i] = [Moved(w, i, "complete") EXCEPT !.text = text]]
      PROVE  IInv'
  <2> DEFINE t == [task[w][i] EXCEPT !.at = "complete", !.text = text]
  <2>1. t \in Tasks /\ t.token = task[w][i].token /\ t.at = "complete" /\ t.text = text
        /\ t.transcript = task[w][i].transcript /\ t.review = task[w][i].review
    BY <1>1 DEF Tasks, Labels
  <2>2. task' = [task EXCEPT ![w][i] = t]
    BY <1>2 DEF Moved
  <2> HIDE DEF t
  <2>3. GoodTask(t, row[i], evidence[i])
    BY <1>1, <2>1 DEF GoodTask, Holds, Extraction
  <2> QED BY <1>1, <2>1, <2>2, <2>3, LocalStep DEF FindEvidence
<1>3. CASE Go(w, i, otherwise)
  <2>1. Moved(w, i, otherwise) \in Tasks /\ Moved(w, i, otherwise).token = task[w][i].token
    BY <1>1, MoveType DEF Moved
  <2>2. task' = [task EXCEPT ![w][i] = Moved(w, i, otherwise)]
    BY <1>3 DEF Go, Moved, IInv, TypeOK
  <2> QED BY <1>1, <2>1, <2>2, LocalStep DEF FindEvidence
<1> QED BY <1>2, <1>3 DEF FindEvidence

LEMMA StepFirstFind ==
  ASSUME IInv, NEW w \in Worker, NEW i \in Item, FindEvidence(w, i, "find", Stage(task[w][i]))
  PROVE  IInv'
<1>1. task[w][i] \in Tasks /\ GoodTask(task[w][i], row[i], evidence[i]) /\ task[w][i].at = "find"
  BY Good DEF FindEvidence, At
<1>2. Stage(task[w][i]) \in Labels
  BY DEF Stage, Labels
<1>3. GoodTask(Moved(w, i, Stage(task[w][i])), row[i], evidence[i])
  BY <1>1, <1>2, MoveType DEF GoodTask, Moved, Stage, Holds, Extraction
<1> QED BY <1>2, <1>3, StepFind DEF Labels

LEMMA StepLaterFind ==
  ASSUME IInv, NEW w \in Worker, NEW i \in Item,
         FindEvidence(w, i, "look", "load") \/ FindEvidence(w, i, "refind", "recover")
  PROVE  IInv'
<1>1. /\ row[i] \in Rows /\ task[w][i] \in Tasks /\ GoodTask(task[w][i], row[i], evidence[i])
      /\ evidence[i] \in SUBSET Text
      /\ {"load", "recover"} \subseteq Labels /\ {"look", "refind"} \subseteq Labels \ {"idle"}
  BY Good DEF Labels
<1>2. CASE FindEvidence(w, i, "look", "load")
  <2>1. task[w][i].at = "look"
    BY <1>2 DEF FindEvidence, At
  <2>2. GoodTask(Moved(w, i, "load"), row[i], evidence[i])
    BY <1>1, <2>1, MoveType DEF GoodTask, Moved, Holds, Extraction
  <2> QED BY <1>1, <1>2, <2>2, StepFind
<1>3. CASE FindEvidence(w, i, "refind", "recover")
  <2>1. task[w][i].at = "refind"
    BY <1>3 DEF FindEvidence, At
  <2>2. GoodTask(Moved(w, i, "recover"), row[i], evidence[i])
    BY <1>1, <2>1, GoodRecovery DEF Moved
  <2> QED BY <1>1, <1>3, <2>2, StepFind
<1> QED BY <1>2, <1>3

LEMMA StepRenew ==
  ASSUME IInv, NEW w \in Worker, NEW i \in Item, NEW label \in Labels \ {"idle"}, NEW next \in Labels,
         Renew(w, i, label, next), <<label, next>> \in {<<"extract", "extracting">>,
           <<"analyse", "analysing">>, <<"interpret", "interpreting">>, <<"evidence", "look">>}
  PROVE  IInv'
<1> DEFINE r == [row[i] EXCEPT !.expired = FALSE]
           t == Moved(w, i, next)
<1>1. /\ row[i] \in Rows /\ task[w][i] \in Tasks /\ GoodRow(row[i], evidence[i])
      /\ GoodTask(task[w][i], row[i], evidence[i]) /\ task[w][i].at = label
  BY Good DEF Renew, At
<1>2. r \in Rows /\ GoodRow(r, evidence[i]) /\ Kept(row[i], r)
  BY <1>1 DEF Rows, GoodRow, Kept
<1>3. r.job = row[i].job /\ r.token = row[i].token /\ r.attempts = row[i].attempts
      /\ r.transcript = row[i].transcript /\ r.review = row[i].review /\ r.analysis = row[i].analysis
      /\ r.summary = row[i].summary
  BY <1>1 DEF Rows
<1>4. t \in Tasks /\ t.token = task[w][i].token
  BY <1>1, MoveType DEF Moved
<1>5. GoodTask(t, r, evidence[i])
  <2> HIDE DEF r
  <2> QED BY <1>1, <1>3, MoveType DEF GoodTask, Moved, Holds, Extraction
<1>6. Update(w, i, r, t) /\ UNCHANGED <<evidence, routed, admitting>> /\ ~At(w, i, "idle")
  BY DEF Renew, At
<1> HIDE DEF r, t
<1> QED BY <1>2, <1>4, <1>5, <1>6, UpdateStep

LEMMA StepTranscript ==
  ASSUME IInv, NEW w \in Worker, NEW i \in Item, SaveTranscript(w, i)
  PROVE  IInv'
<1> DEFINE r == [row[i] EXCEPT !.transcript = "ready", !.review = "transcript_only", !.status = "blocked"]
           t == [Moved(w, i, "interpret") EXCEPT !.transcript = "ready", !.review = "transcript_only"]
<1>1. /\ row[i] \in Rows /\ task[w][i] \in Tasks /\ GoodRow(row[i], evidence[i])
      /\ GoodTask(task[w][i], row[i], evidence[i]) /\ task[w][i].at = "extracting"
      /\ Owns(w, i) <=> Holds(task[w][i], row[i])
  BY Good DEF SaveTranscript, At
<1>2. Update(w, i, r, t) /\ UNCHANGED <<evidence, routed, admitting>> /\ ~At(w, i, "idle")
  BY DEF SaveTranscript, At
<1>3. ASSUME Owns(w, i)
      PROVE  /\ r \in Rows /\ t \in Tasks
             /\ Kept(row[i], r) /\ GoodRow(r, evidence[i]) /\ GoodTask(t, r, evidence[i])
             /\ t.token = task[w][i].token
  <2>1. row[i].transcript # "ready" /\ row[i].review # "reviewed" /\ row[i].job = "running"
    BY <1>1, <1>3 DEF GoodTask, GoodRow, Extraction, Holds
  <2>2. /\ r \in Rows /\ r.transcript = "ready" /\ r.review = "transcript_only" /\ r.status = "blocked"
        /\ r.job = row[i].job /\ r.token = row[i].token /\ r.attempts = row[i].attempts
        /\ r.summary = row[i].summary /\ r.evidence = row[i].evidence
    BY <1>1 DEF Rows, Transcripts, Reviews
  <2>3. /\ t \in Tasks /\ t.transcript = "ready" /\ t.review = "transcript_only"
        /\ t.at = "interpret" /\ t.token = task[w][i].token
    BY <1>1 DEF Tasks, Labels, Transcripts, Reviews, Moved
  <2> HIDE DEF r, t
  <2>4. GoodRow(r, evidence[i]) /\ Kept(row[i], r)
    BY <1>1, <2>1, <2>2 DEF GoodRow, Kept
  <2>5. GoodTask(t, r, evidence[i])
    BY <1>1, <2>2, <2>3 DEF GoodTask, Extraction
  <2> QED BY <2>2, <2>3, <2>4, <2>5
<1> HIDE DEF r, t
<1> QED BY <1>2, <1>3, UpdateStep

LEMMA StepExtractionFails ==
  ASSUME IInv, NEW w \in Worker, NEW i \in Item, ExtractionFails(w, i) \/ AnalyseVideo(w, i)
  PROVE  IInv'
<1>1. /\ row[i] \in Rows /\ task[w][i] \in Tasks /\ GoodRow(row[i], evidence[i])
      /\ GoodTask(task[w][i], row[i], evidence[i])
  BY Good
<1>2. ~At(w, i, "idle") /\ UNCHANGED <<row, evidence, routed, admitting>>
  BY DEF ExtractionFails, AnalyseVideo, At
<1>3. CASE ExtractionFails(w, i)
  <2>1. PICK retryable \in BOOLEAN, eligible \in BOOLEAN :
          task' = [task EXCEPT ![w][i].retryable = retryable, ![w][i].analysis = "not_attempted",
            ![w][i].at = IF eligible /\ RescueWanted(task[w][i]) THEN "analyse" ELSE "save_failure"]
    BY <1>3 DEF ExtractionFails
  <2> DEFINE next == IF eligible /\ RescueWanted(task[w][i]) THEN "analyse" ELSE "save_failure"
             t == [task[w][i] EXCEPT !.retryable = retryable, !.analysis = "not_attempted", !.at = next]
  <2>2. task' = [task EXCEPT ![w][i] = t]
    BY <2>1 DEF IInv, TypeOK
  <2>3. next \in {"analyse", "save_failure"} /\ (next = "analyse" => task[w][i].analysis # "summary_only")
    BY DEF RescueWanted
  <2> HIDE DEF next
  <2>4. /\ t \in Tasks /\ t.token = task[w][i].token /\ t.at = next
        /\ t.transcript = task[w][i].transcript /\ t.review = task[w][i].review
    BY <1>1, <2>3 DEF Tasks, Labels, Analyses
  <2> HIDE DEF t
  <2>5. GoodTask(t, row[i], evidence[i])
    BY <1>1, <1>3, <2>3, <2>4 DEF GoodTask, Holds, Extraction, ExtractionFails, At
  <2> QED BY <1>2, <2>2, <2>4, <2>5, LocalStep
<1>4. CASE AnalyseVideo(w, i)
  <2>1. PICK outcome \in {"summary_only", "failed"} :
          task' = [task EXCEPT ![w][i].analysis = outcome, ![w][i].at = "save_failure"]
    BY <1>4 DEF AnalyseVideo
  <2> DEFINE t == [task[w][i] EXCEPT !.analysis = outcome, !.at = "save_failure"]
  <2>2. task' = [task EXCEPT ![w][i] = t]
    BY <2>1 DEF IInv, TypeOK
  <2>3. /\ t \in Tasks /\ t.token = task[w][i].token /\ t.at = "save_failure"
        /\ t.transcript = task[w][i].transcript /\ t.review = task[w][i].review
    BY <1>1 DEF Tasks, Labels, Analyses
  <2> HIDE DEF t
  <2>4. GoodTask(t, row[i], evidence[i])
    BY <1>1, <1>4, <2>3 DEF GoodTask, Holds, Extraction, AnalyseVideo, At
  <2> QED BY <1>2, <2>2, <2>3, <2>4, LocalStep
<1> QED BY <1>3, <1>4

\* What a released row looks like.
LEMMA ReleasedRow ==
  ASSUME NEW i \in Item, row[i] \in Rows, NEW job \in {"retryable", "blocked", "completed", "failed"}
  PROVE  LET r == Released(i, job) IN
         /\ r \in Rows /\ r.job = job /\ r.token = NoToken /\ r.attempts = row[i].attempts
         /\ r.transcript = row[i].transcript /\ r.review = row[i].review /\ r.status = row[i].status
         /\ r.summary = row[i].summary /\ r.evidence = row[i].evidence /\ r.analysis = row[i].analysis
<1> DEFINE r == Released(i, job)
<1>1. 0 \in 0..Limit
  BY AttemptsAssumption
<1>2. r = [row[i] EXCEPT !.job = job, !.token = 0, !.expired = FALSE]
  BY DEF Released, NoToken
<1>3. r \in Rows
  BY <1>1, <1>2 DEF Rows
<1>4. /\ r.job = job /\ r.token = 0 /\ r.attempts = row[i].attempts
      /\ r.transcript = row[i].transcript /\ r.review = row[i].review /\ r.status = row[i].status
      /\ r.summary = row[i].summary /\ r.evidence = row[i].evidence /\ r.analysis = row[i].analysis
  BY <1>2 DEF Rows
<1> QED BY <1>3, <1>4 DEF NoToken

LEMMA StepExtractionFailure ==
  ASSUME IInv, NEW w \in Worker, NEW i \in Item, SaveExtractionFailure(w, i)
  PROVE  IInv'
<1> DEFINE retryable == task[w][i].retryable
           outcome == task[w][i].analysis
           failed == Released(i, IF retryable THEN "retryable" ELSE "blocked")
           r == [failed EXCEPT !.transcript = IF retryable THEN "missing" ELSE "unavailable",
                               !.review = IF retryable THEN "none" ELSE "unavailable",
                               !.analysis = IF outcome = "not_attempted" THEN @ ELSE outcome,
                               !.status = "blocked"]
<1>1. /\ row[i] \in Rows /\ task[w][i] \in Tasks /\ GoodRow(row[i], evidence[i])
      /\ GoodTask(task[w][i], row[i], evidence[i]) /\ task[w][i].at = "save_failure"
      /\ Owns(w, i) <=> Holds(task[w][i], row[i])
  BY Good DEF SaveExtractionFailure, At
<1>2. Update(w, i, r, NoTask) /\ UNCHANGED <<evidence, routed, admitting>> /\ ~At(w, i, "idle")
  BY DEF SaveExtractionFailure, At
<1>3. GoodTask(NoTask, r, evidence[i]) /\ NoTask.at = "idle"
  BY DEF GoodTask, NoTask
<1>4. ASSUME Owns(w, i) PROVE r \in Rows /\ Kept(row[i], r) /\ GoodRow(r, evidence[i])
  <2>1. row[i].review # "reviewed"
    BY <1>1, <1>4 DEF GoodTask, GoodRow, Extraction, Holds
  <2>2. /\ failed \in Rows /\ failed.job = (IF retryable THEN "retryable" ELSE "blocked")
        /\ failed.token = NoToken /\ failed.attempts = row[i].attempts
        /\ failed.summary = row[i].summary
    BY <1>1, ReleasedRow
  <2> HIDE DEF failed
  <2>3. outcome \in Analyses /\ retryable \in BOOLEAN
    BY <1>1, TaskFields
  <2> HIDE DEF outcome, retryable
  <2>4. /\ r \in Rows /\ r.job = failed.job /\ r.token = NoToken /\ r.attempts = row[i].attempts
        /\ r.summary = row[i].summary /\ r.status = "blocked"
        /\ r.transcript = (IF retryable THEN "missing" ELSE "unavailable")
        /\ r.review = (IF retryable THEN "none" ELSE "unavailable")
    BY <2>2, <2>3 DEF Rows, Transcripts, Reviews
  <2> HIDE DEF r
  <2> QED BY <1>1, <2>1, <2>2, <2>4 DEF GoodRow, Kept
<1> HIDE DEF r
<1> QED BY <1>2, <1>3, <1>4, NoTaskType, UpdateStep

LEMMA StepInterpretation ==
  ASSUME IInv, NEW w \in Worker, NEW i \in Item, SaveInterpretation(w, i)
  PROVE  IInv'
<1> DEFINE r == [row[i] EXCEPT !.review = "reviewed", !.status = "accepted", !.summary = task[w][i].token]
           t == [Moved(w, i, "evidence") EXCEPT !.review = "reviewed"]
<1>1. /\ row[i] \in Rows /\ task[w][i] \in Tasks /\ GoodRow(row[i], evidence[i])
      /\ GoodTask(task[w][i], row[i], evidence[i]) /\ task[w][i].at = "interpreting"
      /\ Owns(w, i) <=> Holds(task[w][i], row[i])
  BY Good DEF SaveInterpretation, At
<1>2. Update(w, i, r, t) /\ UNCHANGED <<evidence, routed, admitting>> /\ ~At(w, i, "idle")
  BY DEF SaveInterpretation, At
<1>3. ASSUME Owns(w, i)
      PROVE  /\ r \in Rows /\ t \in Tasks
             /\ Kept(row[i], r) /\ GoodRow(r, evidence[i]) /\ GoodTask(t, r, evidence[i])
             /\ t.token = task[w][i].token
  <2>1. /\ row[i].transcript = "ready" /\ row[i].review # "reviewed" /\ row[i].job = "running"
        /\ task[w][i].token > 0 /\ evidence[i] = {}
    BY <1>1, <1>3 DEF GoodTask, GoodRow, Holds
  <2>2. /\ r \in Rows /\ r.transcript = "ready" /\ r.review = "reviewed" /\ r.status = "accepted"
        /\ r.job = row[i].job /\ r.token = row[i].token /\ r.attempts = row[i].attempts
        /\ r.summary = task[w][i].token
    BY <1>1, <2>1 DEF Rows, Tasks, Text, Reviews
  <2>3. /\ t \in Tasks /\ t.transcript = task[w][i].transcript /\ t.review = "reviewed"
        /\ t.at = "evidence" /\ t.token = task[w][i].token
    BY <1>1 DEF Tasks, Labels, Reviews, Moved
  <2> HIDE DEF r, t
  <2>4. GoodRow(r, evidence[i]) /\ Kept(row[i], r)
    BY <1>1, <2>1, <2>2, TaskFields DEF GoodRow, Kept, Placeholder
  <2>5. GoodTask(t, r, evidence[i])
    BY <1>1, <1>3, <2>2, <2>3 DEF GoodTask, Extraction, Holds
  <2> QED BY <2>2, <2>3, <2>4, <2>5
<1> HIDE DEF r, t
<1> QED BY <1>2, <1>3, UpdateStep
LEMMA StepLoad ==
  ASSUME IInv, NEW w \in Worker, NEW i \in Item, LoadIntake(w, i)
  PROVE  IInv'
<1>1. /\ row[i] \in Rows /\ task[w][i] \in Tasks /\ GoodRow(row[i], evidence[i])
      /\ GoodTask(task[w][i], row[i], evidence[i]) /\ task[w][i].at = "load"
  BY Good DEF LoadIntake, At
<1>2. ~At(w, i, "idle") /\ UNCHANGED <<row, evidence, routed, admitting>>
  BY DEF LoadIntake, At
<1>3. CASE Usable(i) /\ task' = [task EXCEPT ![w][i].text = row[i].summary, ![w][i].at = "upsert"]
  <2> DEFINE t == [task[w][i] EXCEPT !.text = row[i].summary, !.at = "upsert"]
  <2>1. task' = [task EXCEPT ![w][i] = t]
    BY <1>3 DEF IInv, TypeOK
  <2>2. /\ t \in Tasks /\ t.token = task[w][i].token /\ t.at = "upsert" /\ t.text = row[i].summary
        /\ t.transcript = task[w][i].transcript /\ t.review = task[w][i].review
    BY <1>1, RowFields DEF Tasks, Labels
  <2> HIDE DEF t
  <2>3. row[i].review = "reviewed"
    BY <1>1, <1>3, RowFields DEF Usable, GoodRow
  <2>4. GoodTask(t, row[i], evidence[i])
    BY <1>1, <2>2, <2>3 DEF GoodTask, Holds, Extraction
  <2> QED BY <1>2, <2>1, <2>2, <2>4, LocalStep
<1>4. CASE Go(w, i, "refind")
  <2> DEFINE t == [task[w][i] EXCEPT !.at = "refind"]
  <2>1. task' = [task EXCEPT ![w][i] = t]
    BY <1>4 DEF Go, IInv, TypeOK
  <2>2. /\ t \in Tasks /\ t.token = task[w][i].token /\ t.at = "refind"
        /\ t.transcript = task[w][i].transcript /\ t.review = task[w][i].review
    BY <1>1 DEF Tasks, Labels
  <2> HIDE DEF t
  <2>3. GoodTask(t, row[i], evidence[i])
    BY <1>1, <2>2 DEF GoodTask, Holds, Extraction
  <2> QED BY <1>2, <2>1, <2>2, <2>3, LocalStep
<1> QED BY <1>3, <1>4 DEF LoadIntake

\* The two writes of canonicaliseIntake: evidence grows by the text of the task at most.
LEMMA StepCanonical ==
  ASSUME IInv, NEW w \in Worker, NEW i \in Item, UpsertEvidence(w, i) \/ LinkStories(w, i)
  PROVE  IInv'
<1> DEFINE lost == [task[w][i] EXCEPT !.at = "recover"]
           link == [task[w][i] EXCEPT !.at = "link"]
           complete == [task[w][i] EXCEPT !.at = "complete"]
<1>1. /\ row[i] \in Rows /\ task[w][i] \in Tasks /\ GoodRow(row[i], evidence[i])
      /\ GoodTask(task[w][i], row[i], evidence[i]) /\ evidence[i] \in SUBSET Text
      /\ task[w][i].at \in {"upsert", "link"}
  BY Good DEF UpsertEvidence, LinkStories, At
<1>2. Kept(row[i], row[i]) /\ row' = [row EXCEPT ![i] = row[i]] /\ ~At(w, i, "idle")
      /\ UNCHANGED admitting
  BY <1>1 DEF Kept, IInv, TypeOK, UpsertEvidence, LinkStories, At
<1>3. /\ lost \in Tasks /\ link \in Tasks /\ complete \in Tasks
      /\ lost.token = task[w][i].token /\ link.token = task[w][i].token
      /\ complete.token = task[w][i].token
      /\ lost.at = "recover" /\ link.at = "link" /\ complete.at = "complete"
      /\ link.text = task[w][i].text /\ complete.text = task[w][i].text
      /\ link.transcript = task[w][i].transcript /\ link.review = task[w][i].review
      /\ complete.transcript = task[w][i].transcript /\ complete.review = task[w][i].review
  BY <1>1 DEF Tasks, Labels
<1>4. CASE UpsertEvidence(w, i)
  <2> DEFINE ev == evidence[i] \cup {task[w][i].text}
  <2>1. task[w][i].at = "upsert"
    BY <1>4 DEF UpsertEvidence, At
  <2>2. task[w][i].text \in Text /\ ev \in SUBSET Text /\ evidence[i] \subseteq ev
    BY <1>1, TaskFields
  <2>3. GoodRow(row[i], ev)
    BY <1>1, <2>1 DEF GoodRow, GoodTask
  <2>4. GoodTask(link, row[i], ev)
    <3> HIDE DEF link
    <3> QED BY <1>1, <1>3, <2>1 DEF GoodTask, Holds, Extraction
  <2>5. GoodTask(lost, row[i], ev)
    <3>1. GoodTask(lost, row[i], evidence[i])
      BY <1>1, GoodRecovery
    <3> HIDE DEF lost, ev
    <3> QED BY <1>1, <1>3, <2>2, <3>1, OtherTask, <1>2
  <2>6. /\ evidence' = [evidence EXCEPT ![i] = ev] /\ routed' \in [Item -> SUBSET Text]
        /\ task' = [task EXCEPT ![w][i] = link] \/ task' = [task EXCEPT ![w][i] = lost]
    BY <1>4 DEF UpsertEvidence, Answered, Moved, IInv, TypeOK
  <2> HIDE DEF ev, link, lost
  <2> QED BY <1>1, <1>2, <1>3, <2>2, <2>3, <2>4, <2>5, <2>6, TaskStep
<1>5. CASE LinkStories(w, i)
  <2>1. task[w][i].at = "link" /\ task[w][i].text \in Text
    BY <1>1, <1>5, TaskFields DEF LinkStories, At
  <2>2. GoodTask(complete, row[i], evidence[i])
    <3> HIDE DEF complete
    <3> QED BY <1>1, <1>3, <2>1 DEF GoodTask, Holds, Extraction
  <2>3. GoodTask(lost, row[i], evidence[i])
    BY <1>1, GoodRecovery
  <2>4. routed' \in [Item -> SUBSET Text]
    BY <1>5, <2>1 DEF LinkStories, IInv, TypeOK
  <2>5. /\ evidence' = [evidence EXCEPT ![i] = evidence[i]]
        /\ task' = [task EXCEPT ![w][i] = complete] \/ task' = [task EXCEPT ![w][i] = lost]
    BY <1>5 DEF LinkStories, Answered, Moved, IInv, TypeOK
  <2> HIDE DEF complete, lost
  <2> QED BY <1>1, <1>2, <1>3, <2>2, <2>3, <2>4, <2>5, TaskStep
<1> QED BY <1>4, <1>5

LEMMA StepComplete ==
  ASSUME IInv, NEW w \in Worker, NEW i \in Item, Complete(w, i)
  PROVE  IInv'
<1> DEFINE done == Released(i, "completed")
           r == [done EXCEPT !.evidence = {task[w][i].text}]
<1>1. /\ row[i] \in Rows /\ task[w][i] \in Tasks /\ GoodRow(row[i], evidence[i])
      /\ GoodTask(task[w][i], row[i], evidence[i]) /\ task[w][i].at = "complete"
      /\ Owns(w, i) <=> Holds(task[w][i], row[i])
  BY Good DEF Complete, At
<1>2. Update(w, i, r, NoTask) /\ UNCHANGED <<evidence, routed, admitting>> /\ ~At(w, i, "idle")
  BY DEF Complete, At
<1>3. GoodTask(NoTask, r, evidence[i]) /\ NoTask.at = "idle"
  BY DEF GoodTask, NoTask
<1>4. ASSUME Owns(w, i) PROVE r \in Rows /\ Kept(row[i], r) /\ GoodRow(r, evidence[i])
  <2>1. /\ done \in Rows /\ done.job = "completed" /\ done.token = NoToken
        /\ done.attempts = row[i].attempts /\ done.transcript = row[i].transcript
        /\ done.review = row[i].review /\ done.status = row[i].status /\ done.summary = row[i].summary
    BY <1>1, ReleasedRow
  <2> HIDE DEF done
  <2>2. task[w][i].text \in Text /\ task[w][i].text \in evidence[i]
    BY <1>1, TaskFields DEF GoodTask
  <2>3. /\ r \in Rows /\ r.job = "completed" /\ r.token = NoToken
        /\ r.attempts = row[i].attempts /\ r.transcript = row[i].transcript
        /\ r.review = row[i].review /\ r.status = row[i].status /\ r.summary = row[i].summary
        /\ r.evidence = {task[w][i].text}
    BY <2>1, <2>2 DEF Rows
  <2>4. row[i].transcript # "unavailable"
    BY <1>1, <1>4 DEF GoodRow, Holds
  <2> HIDE DEF r
  <2> QED BY <1>1, <2>2, <2>3, <2>4 DEF GoodRow, Kept
<1> HIDE DEF r
<1> QED BY <1>2, <1>3, <1>4, NoTaskType, UpdateStep

LEMMA StepFailure ==
  ASSUME IInv, NEW w \in Worker, NEW i \in Item, Error(w, i) \/ RecoverFails(w, i)
  PROVE  IInv'
<1>1. /\ row[i] \in Rows /\ task[w][i] \in Tasks /\ evidence[i] \in SUBSET Text
      /\ GoodTask(task[w][i], row[i], evidence[i])
  BY Good
<1>2. ~At(w, i, "idle") /\ UNCHANGED <<row, evidence, routed, admitting>>
  BY DEF Error, InService, RecoverFails, At
<1>3. CASE Error(w, i)
  <2> DEFINE t == [task[w][i] EXCEPT !.at = "recover"]
  <2>1. t \in Tasks /\ t.token = task[w][i].token
    BY <1>1 DEF Tasks, Labels
  <2>2. GoodTask(t, row[i], evidence[i])
    BY <1>1, <1>2, GoodRecovery DEF At
  <2>3. task' = [task EXCEPT ![w][i] = t]
    BY <1>3 DEF Error, Go, IInv, TypeOK
  <2> HIDE DEF t
  <2> QED BY <1>2, <2>1, <2>2, <2>3, LocalStep
<1>4. CASE RecoverFails(w, i)
  <2>1. task' = [task EXCEPT ![w][i] = NoTask] /\ GoodTask(NoTask, row[i], evidence[i])
        /\ NoTask.at = "idle"
    BY <1>4 DEF RecoverFails, GoodTask, NoTask
  <2> QED BY <1>2, <2>1, NoTaskType, LocalStep
<1> QED BY <1>3, <1>4

LEMMA StepRecover ==
  ASSUME IInv, NEW w \in Worker, NEW i \in Item, Recover(w, i)
  PROVE  IInv'
<1> DEFINE job == IF task[w][i].token >= MaxAttempts THEN "failed" ELSE "retryable"
           r == Released(i, job)
<1>1. /\ row[i] \in Rows /\ task[w][i] \in Tasks /\ GoodRow(row[i], evidence[i])
      /\ evidence[i] \in SUBSET Text /\ Owns(w, i) <=> Holds(task[w][i], row[i])
  BY Good
<1>2. Update(w, i, r, NoTask) /\ UNCHANGED <<evidence, routed, admitting>> /\ ~At(w, i, "idle")
  BY DEF Recover, Update, Answered, At
<1>3. GoodTask(NoTask, r, evidence[i]) /\ NoTask.at = "idle"
  BY DEF GoodTask, NoTask
<1>4. ASSUME Owns(w, i) PROVE r \in Rows /\ Kept(row[i], r) /\ GoodRow(r, evidence[i])
  <2>1. job \in {"retryable", "failed"}
    OBVIOUS
  <2> HIDE DEF job
  <2>2. /\ r \in Rows /\ r.job = job /\ r.token = NoToken
        /\ r.attempts = row[i].attempts /\ r.transcript = row[i].transcript
        /\ r.review = row[i].review /\ r.status = row[i].status /\ r.summary = row[i].summary
    BY <1>1, <2>1, ReleasedRow
  <2> HIDE DEF r
  <2> QED BY <1>1, <1>4, <2>1, <2>2 DEF GoodRow, Kept, Holds
<1> HIDE DEF r
<1> QED BY <1>2, <1>3, <1>4, NoTaskType, UpdateStep

-----------------------------------------------------------------------------
(* The other actions. *)

LEMMA StepCrash ==
  ASSUME IInv, NEW w \in Worker, Crash(w)
  PROVE  IInv'
<1>1. task' = [task EXCEPT ![w] = [i \in Item |-> NoTask]] /\ UNCHANGED <<row, evidence, routed, admitting>>
  BY DEF Crash
<1>2. \A v \in Worker, i \in Item : task'[v][i] = task[v][i] \/ task'[v][i] = NoTask
  BY <1>1 DEF IInv, TypeOK
<1>3. TypeOK'
  BY <1>1, NoTaskType DEF IInv, TypeOK
<1>4. \A r, ev : GoodTask(NoTask, r, ev)
  BY DEF GoodTask, NoTask
<1>5. \A v \in Worker, i \in Item : GoodTask(task'[v][i], row[i], evidence[i])
  BY <1>2, <1>4 DEF IInv
<1>6. TokensDiffer'
  BY <1>2 DEF IInv, TokensDiffer, At, NoTask
<1> QED BY <1>1, <1>3, <1>5, <1>6 DEF IInv

\* A row after its claim, and the task of its new owner.
Claimed(r) == [r EXCEPT !.job = "running", !.token = r.attempts + 1, !.attempts = @ + 1, !.expired = FALSE]
FirstTask(r) == [NoTask EXCEPT !.at = "find", !.token = r.attempts + 1, !.transcript = r.transcript,
                               !.review = r.review, !.analysis = r.analysis]

LEMMA ClaimedRow ==
  ASSUME NEW i \in Item, row[i] \in Rows, evidence[i] \in SUBSET Text, GoodRow(row[i], evidence[i]),
         Claimable(i), row[i].attempts < Limit
  PROVE  /\ Claimed(row[i]) \in Rows /\ GoodRow(Claimed(row[i]), evidence[i])
         /\ FirstTask(row[i]) \in Tasks /\ GoodTask(FirstTask(row[i]), Claimed(row[i]), evidence[i])
         /\ FirstTask(row[i]).token = row[i].attempts + 1 /\ Claimed(row[i]).attempts = row[i].attempts + 1
         /\ Claimed(row[i]).token = row[i].attempts + 1 /\ Claimed(row[i]).summary = row[i].summary
         /\ Claimed(row[i]).review = row[i].review
<1> DEFINE n == Claimed(row[i])
           t == FirstTask(row[i])
<1>1. row[i].attempts + 1 \in 0..Limit /\ row[i].attempts + 1 > 0 /\ row[i].attempts \in 0..Limit
  BY RowFields, AttemptsAssumption
<1>2. /\ n \in Rows /\ n.job = "running" /\ n.token = row[i].attempts + 1
      /\ n.attempts = row[i].attempts + 1
  BY <1>1 DEF Claimed, Rows
<1>3. /\ n.transcript = row[i].transcript /\ n.review = row[i].review /\ n.status = row[i].status
      /\ n.summary = row[i].summary /\ n.analysis = row[i].analysis
  BY DEF Claimed, Rows
<1>4. t \in Tasks
  <2>1. \A x \in Tasks : [x EXCEPT !.at = "find", !.token = row[i].attempts + 1, !.transcript = row[i].transcript,
                              !.review = row[i].review, !.analysis = row[i].analysis] \in Tasks
    BY <1>1, RowFields DEF Tasks, Labels
  <2> QED BY <2>1, NoTaskType DEF FirstTask
<1>5. /\ t.at = "find" /\ t.token = row[i].attempts + 1 /\ t.transcript = row[i].transcript
      /\ t.review = row[i].review /\ t.analysis = row[i].analysis
  BY DEF FirstTask, NoTask
<1>6. row[i].transcript # "unavailable" /\ row[i].job # "completed"
  BY DEF Claimable, LegacyPlaceholder, GoodRow
<1> HIDE DEF n, t
<1>7. GoodRow(n, evidence[i])
  BY <1>1, <1>2, <1>3, <1>6 DEF GoodRow
<1>8. GoodTask(t, n, evidence[i])
  BY <1>1, <1>2, <1>3, <1>5 DEF GoodTask, Extraction
<1> QED BY <1>2, <1>3, <1>4, <1>5, <1>7, <1>8 DEF n, t

LEMMA StepClaim ==
  ASSUME IInv, NEW w \in Worker, Claim(w)
  PROVE  IInv'
<1>1. PICK S \in SUBSET {i \in Item : Claimable(i) /\ row[i].attempts < Limit} :
        /\ row' = [i \in Item |-> IF i \in S THEN Claimed(row[i]) ELSE row[i]]
        /\ task' = [task EXCEPT ![w] = [i \in Item |-> IF i \in S THEN FirstTask(row[i]) ELSE NoTask]]
  BY DEF Claim, Claimed, FirstTask
<1>2. UNCHANGED <<evidence, routed, admitting>>
  BY DEF Claim
<1>3. ASSUME NEW i \in Item
      PROVE  /\ row[i] \in Rows /\ evidence[i] \in SUBSET Text /\ GoodRow(row[i], evidence[i])
             /\ \A v \in Worker : task[v][i] \in Tasks /\ GoodTask(task[v][i], row[i], evidence[i])
  BY DEF IInv, TypeOK
<1>4. ASSUME NEW i \in S
      PROVE  /\ Claimed(row[i]) \in Rows /\ GoodRow(Claimed(row[i]), evidence[i])
             /\ FirstTask(row[i]) \in Tasks /\ GoodTask(FirstTask(row[i]), Claimed(row[i]), evidence[i])
             /\ FirstTask(row[i]).token = row[i].attempts + 1
             /\ Claimed(row[i]).attempts = row[i].attempts + 1
             /\ Claimed(row[i]).token = row[i].attempts + 1
             /\ Claimed(row[i]).summary = row[i].summary /\ Claimed(row[i]).review = row[i].review
  BY <1>3, ClaimedRow
<1>5. /\ \A i \in Item : i \in S => row'[i] = Claimed(row[i]) /\ task'[w][i] = FirstTask(row[i])
      /\ \A i \in Item : i \notin S => row'[i] = row[i] /\ task'[w][i] = NoTask
      /\ \A v \in Worker \ {w}, i \in Item : task'[v][i] = task[v][i]
  BY <1>1 DEF IInv, TypeOK
<1>6. row' \in [Item -> Rows]
  BY <1>1, <1>3, <1>4
<1>7. task' \in [Worker -> [Item -> Tasks]]
  <2>1. [i \in Item |-> IF i \in S THEN FirstTask(row[i]) ELSE NoTask] \in [Item -> Tasks]
    BY <1>4, NoTaskType
  <2> QED BY <1>1, <2>1 DEF IInv, TypeOK
<1>8. \A i \in Item : GoodRow(row'[i], evidence[i])
  BY <1>3, <1>4, <1>5
<1>9. TypeOK'
  BY <1>2, <1>6, <1>7, <1>8 DEF IInv, TypeOK, GoodRow
<1>10. ASSUME NEW v \in Worker, NEW i \in Item PROVE GoodTask(task'[v][i], row'[i], evidence[i])
  <2>1. CASE v = w /\ i \in S
    BY <1>4, <1>5, <2>1
  <2>2. CASE v = w /\ i \notin S
    BY <1>5, <2>2 DEF GoodTask, NoTask
  <2>3. CASE v # w /\ i \notin S
    BY <1>3, <1>5, <2>3
  <2>4. CASE v # w /\ i \in S
    <3> DEFINE t == task[v][i]
               r == row[i]
               n == Claimed(row[i])
    <3>1. /\ t \in Tasks /\ r \in Rows /\ n \in Rows /\ GoodTask(t, r, evidence[i])
          /\ n.attempts = r.attempts + 1 /\ n.token = r.attempts + 1
          /\ n.summary = r.summary /\ n.review = r.review
      BY <1>3, <1>4, <2>4
    <3> HIDE DEF t, r, n
    <3>2. GoodTask(t, n, evidence[i])
      BY <3>1, RowFields, TaskFields DEF GoodTask, Holds
    <3> QED BY <1>5, <2>4, <3>2 DEF t, n
  <2> QED BY <2>1, <2>2, <2>3, <2>4
<1>11. TokensDiffer'
  <2> SUFFICES ASSUME NEW i \in Item, NEW u \in Worker, NEW v \in Worker, u # v,
                      task'[u][i].at # "idle", task'[v][i].at # "idle"
               PROVE  task'[u][i].token # task'[v][i].token
    BY DEF TokensDiffer, At
  <2>1. CASE u # w /\ v # w
    BY <1>5, <2>1 DEF IInv, TokensDiffer, At
  <2>2. ASSUME NEW x \in Worker \ {w}, task'[x][i].at # "idle", task'[w][i].at # "idle"
        PROVE  task'[x][i].token < task'[w][i].token
    <3>1. i \in S
      BY <1>5, <2>2 DEF NoTask
    <3>2. task'[x][i] = task[x][i] /\ task'[w][i].token = row[i].attempts + 1
      BY <1>4, <1>5, <3>1
    <3>3. task[x][i] \in Tasks /\ row[i] \in Rows /\ task[x][i].token <= row[i].attempts
      BY <1>3, <2>2, <3>2 DEF GoodTask
    <3> QED BY <3>2, <3>3, RowFields, TaskFields
  <2>3. \A x \in Worker : task'[x][i].token \in 0..Limit
    BY <1>7, TaskFields
  <2>4. CASE u = w
    BY <2>2, <2>3, <2>4
  <2>5. CASE v = w
    BY <2>2, <2>3, <2>5
  <2> QED BY <2>1, <2>4, <2>5
<1>12. ASSUME NEW e \in Engine, NEW i \in Item
       PROVE  admitting'[e][i] \subseteq {row'[i].summary} \ {Placeholder}
  <2>1. row'[i].summary = row[i].summary
    BY <1>4, <1>5
  <2> QED BY <1>2, <2>1 DEF IInv
<1> QED BY <1>2, <1>8, <1>9, <1>10, <1>11, <1>12 DEF IInv

LEMMA StepExpire ==
  ASSUME IInv, NEW i \in Item, Expire(i)
  PROVE  IInv'
<1> DEFINE r == [row[i] EXCEPT !.expired = TRUE]
<1>1. row[i] \in Rows /\ GoodRow(row[i], evidence[i]) /\ evidence[i] \in SUBSET Text
  BY DEF IInv, TypeOK
<1>2. /\ r \in Rows /\ r.job = row[i].job /\ r.token = row[i].token /\ r.attempts = row[i].attempts
      /\ r.transcript = row[i].transcript /\ r.review = row[i].review /\ r.status = row[i].status
      /\ r.summary = row[i].summary /\ r.evidence = row[i].evidence /\ r.analysis = row[i].analysis
  BY <1>1 DEF Rows
<1>3. row' = [row EXCEPT ![i] = r] /\ UNCHANGED <<evidence, routed, task, admitting>>
  BY DEF Expire, IInv, TypeOK
<1> HIDE DEF r
<1>4. GoodRow(r, evidence[i])
  BY <1>1, <1>2 DEF GoodRow
<1>5. row' \in [Item -> Rows] /\ row'[i] = r /\ \A j \in Item \ {i} : row'[j] = row[j]
  BY <1>2, <1>3 DEF IInv, TypeOK
<1>6. \A j \in Item : GoodRow(row'[j], evidence'[j])
  BY <1>3, <1>4, <1>5 DEF IInv
<1>7. TypeOK'
  BY <1>3, <1>5, <1>6 DEF IInv, TypeOK, GoodRow
<1>8. ASSUME NEW w \in Worker, NEW j \in Item PROVE GoodTask(task'[w][j], row'[j], evidence'[j])
  <2>1. GoodTask(task[w][j], row[j], evidence[j])
    BY DEF IInv
  <2>2. CASE j # i
    BY <1>3, <1>5, <2>1, <2>2
  <2>3. CASE j = i
    <3>1. GoodTask(task[w][i], r, evidence[i])
      BY <1>2, <2>1, <2>3 DEF GoodTask, Holds
    <3> QED BY <1>3, <1>5, <2>3, <3>1
  <2> QED BY <2>2, <2>3
<1>9. TokensDiffer'
  BY <1>3 DEF IInv, TokensDiffer, At
<1>10. \A e \in Engine, j \in Item : admitting'[e][j] \subseteq {row'[j].summary} \ {Placeholder}
  BY <1>2, <1>3, <1>5 DEF IInv
<1> QED BY <1>6, <1>7, <1>8, <1>9, <1>10 DEF IInv

LEMMA StepEngine ==
  ASSUME IInv, NEW e \in Engine, EngineLoad(e) \/ EngineUpsert(e)
  PROVE  IInv'
<1>1. UNCHANGED <<row, routed, task>>
  BY DEF EngineLoad, EngineUpsert
<1>2. TokensDiffer'
  BY <1>1 DEF IInv, TokensDiffer, At
<1>3. \A i \in Item : row[i] \in Rows /\ GoodRow(row[i], evidence[i]) /\ evidence[i] \in SUBSET Text
  BY DEF IInv, TypeOK
<1>4. CASE EngineLoad(e)
  <2>1. PICK S \in SUBSET {i \in Item : Usable(i)} :
          admitting' = [admitting EXCEPT ![e] = [i \in Item |-> IF i \in S THEN {row[i].summary} ELSE {}]]
    BY <1>4 DEF EngineLoad
  <2>2. UNCHANGED evidence
    BY <1>4 DEF EngineLoad
  <2>3. \A i \in S : row[i].summary \in Text /\ row[i].summary # Placeholder
    BY <1>3, RowFields DEF Usable, GoodRow
  <2>4. [i \in Item |-> IF i \in S THEN {row[i].summary} ELSE {}] \in [Item -> SUBSET Text]
    BY <2>3
  <2>5. admitting' \in [Engine -> [Item -> SUBSET Text]]
    BY <2>1, <2>4 DEF IInv, TypeOK
  <2>6. \A f \in Engine, i \in Item : admitting'[f][i] \subseteq {row[i].summary} \ {Placeholder}
    BY <2>1, <2>3 DEF IInv, TypeOK
  <2> QED BY <1>1, <1>2, <2>2, <2>5, <2>6 DEF IInv, TypeOK
<1>5. CASE EngineUpsert(e)
  <2>1. /\ evidence' = [i \in Item |-> evidence[i] \cup admitting[e][i]]
        /\ admitting' = [admitting EXCEPT ![e] = [i \in Item |-> {}]]
    BY <1>5 DEF EngineUpsert
  <2>2. \A i \in Item : admitting[e][i] \subseteq {row[i].summary} \ {Placeholder}
    BY DEF IInv
  <2>3. /\ evidence' \in [Item -> SUBSET Text]
        /\ \A i \in Item : evidence[i] \subseteq evidence'[i]
        /\ \A i \in Item : evidence'[i] \subseteq evidence[i] \cup ({row[i].summary} \ {Placeholder})
    BY <2>1, <2>2 DEF IInv, TypeOK
  <2>4. admitting' \in [Engine -> [Item -> SUBSET Text]]
    BY <2>1 DEF IInv, TypeOK
  <2>5. \A i \in Item : GoodRow(row[i], evidence'[i])
    BY <1>3, <2>3 DEF GoodRow
  <2>6. ASSUME NEW w \in Worker, NEW i \in Item PROVE GoodTask(task[w][i], row[i], evidence'[i])
    <3>1. GoodTask(task[w][i], row[i], evidence[i])
      BY DEF IInv
    <3> QED BY <2>3, <3>1 DEF GoodTask
  <2>7. \A f \in Engine, i \in Item : admitting'[f][i] \subseteq {row[i].summary} \ {Placeholder}
    BY <2>1 DEF IInv, TypeOK
  <2>8. TypeOK'
    BY <1>1, <2>3, <2>4 DEF IInv, TypeOK
  <2> QED BY <1>1, <1>2, <2>5, <2>6, <2>7, <2>8 DEF IInv
<1> QED BY <1>4, <1>5

LEMMA StepWork ==
  ASSUME IInv, NEW w \in Worker, NEW i \in Item, Work(w, i)
  PROVE  IInv'
<1>1. {"extract", "analyse", "interpret", "evidence"} \subseteq Labels \ {"idle"}
      /\ {"extracting", "analysing", "interpreting", "look"} \subseteq Labels
  BY DEF Labels
<1>2. CASE \/ Renew(w, i, "extract", "extracting") \/ Renew(w, i, "analyse", "analysing")
           \/ Renew(w, i, "interpret", "interpreting") \/ Renew(w, i, "evidence", "look")
  BY <1>1, <1>2, StepRenew
<1> QED BY <1>2, StepFirstFind, StepLaterFind, StepTranscript, StepExtractionFails,
           StepExtractionFailure, StepInterpretation, StepLoad, StepCanonical, StepComplete,
           StepRecover DEF Work

LEMMA InvariantNext == IInv /\ [Next]_vars => IInv'
<1> SUFFICES ASSUME IInv, [Next]_vars PROVE IInv'
  OBVIOUS
<1>1. ASSUME NEW w \in Worker, Claim(w) \/ Crash(w) PROVE IInv'
  BY <1>1, StepClaim, StepCrash
<1>2. ASSUME NEW w \in Worker, NEW i \in Item, Work(w, i) \/ Error(w, i) \/ RecoverFails(w, i) PROVE IInv'
  BY <1>2, StepWork, StepFailure
<1>3. ASSUME NEW i \in Item, Expire(i) PROVE IInv'
  BY <1>3, StepExpire
<1>4. ASSUME NEW e \in Engine, EngineLoad(e) \/ EngineUpsert(e) PROVE IInv'
  BY <1>4, StepEngine
<1>5. CASE UNCHANGED vars
  BY <1>5 DEF vars, IInv, TypeOK, TokensDiffer, At
<1> QED BY <1>1, <1>2, <1>3, <1>4, <1>5 DEF Next

LEMMA Invariant == Spec => []IInv
BY InvariantInit, InvariantNext, PTL DEF Spec

-----------------------------------------------------------------------------
(* The theorems. *)

\* For any number of videos, workers, engine runs and claims, every row, task and text is
\* of its type, and a row has a token just while it is running.
THEOREM TypeCorrect == Spec => []TypeOK
<1>1. IInv => TypeOK
  BY DEF IInv
<1> QED BY <1>1, Invariant, PTL

\* Overlapping and sequential workers, and engine runs, admit one text of a video at most,
\* the review in its row: no stale writer of canonicaliseIntake adds another.
THEOREM SingleEvidence == Spec => []EvidenceIsTheReview
<1>1. IInv => EvidenceIsTheReview
  BY DEF IInv, EvidenceIsTheReview, GoodRow
<1> QED BY <1>1, Invariant, PTL

\* A completed job has a review and evidence that is there.
THEOREM CompletedHasEvidence == Spec => []CompletedIsBacked
<1>1. IInv => CompletedIsBacked
  <2> SUFFICES ASSUME IInv, NEW i \in Item, row[i].job = "completed"
               PROVE  /\ row[i].review = "reviewed" /\ row[i].status = "accepted"
                      /\ row[i].transcript = "ready"
                      /\ row[i].evidence # {} /\ row[i].evidence \subseteq evidence[i]
    BY DEF CompletedIsBacked
  <2>1. GoodRow(row[i], evidence[i])
    BY DEF IInv
  <2>2. row[i].evidence # {} /\ row[i].evidence \subseteq evidence[i]
    BY <2>1 DEF GoodRow
  <2>3. row[i].summary # Placeholder
    BY <2>1, <2>2 DEF GoodRow
  <2> QED BY <2>1, <2>2, <2>3 DEF GoodRow
<1> QED BY <1>1, Invariant, PTL

\* The owner of a lease never asks for an analysis that the row already has.
THEOREM AnalysisOnce == Spec => []AnalysisPaidOnce
<1>1. IInv => AnalysisPaidOnce
  BY Good DEF IInv, AnalysisPaidOnce, At, GoodTask
<1> QED BY <1>1, Invariant, PTL

-----------------------------------------------------------------------------
(* The queue implements the pipeline.                                      *)

\* The progress of a video, as a function of its row and evidence.
Stands(r, ev) ==
  IF r.job \in {"completed", "failed"} THEN r.job
  ELSE IF r.transcript = "unavailable" THEN "unavailable"
  ELSE IF ev # {} THEN "admitted"
  ELSE IF r.review = "reviewed" THEN "reviewed"
  ELSE IF r.transcript = "ready" THEN "transcribed"
  ELSE "found"

\* The steps of one video.
Moves(p, q) ==
  \/ p = "found" /\ q \in {"transcribed", "unavailable"}
  \/ p = "transcribed" /\ q = "reviewed"
  \/ p = "admitted" /\ q = "completed"
  \/ p \in {"found", "transcribed", "reviewed", "admitted"} /\ q = "failed"

Stand == [i \in Item |-> Progress(i)]

LEMMA ProgressStands ==
  ASSUME NEW i \in Item
  PROVE  Progress(i) = Stands(row[i], evidence[i]) /\ Progress(i)' = Stands(row'[i], evidence'[i])
BY DEF Progress, Stands

LEMMA PipelineInit == Init => Pipeline!Init
<1> SUFFICES ASSUME Init PROVE Pipeline!Init
  OBVIOUS
<1>1. ASSUME NEW i \in Item PROVE Progress(i) = "found"
  <2>1. /\ row[i].job \in {"pending", "blocked"} /\ row[i].transcript = "missing"
        /\ row[i].review = "none" /\ evidence[i] = {}
    BY DEF Init
  <2> QED BY <2>1, ProgressStands DEF Stands
<1> QED BY <1>1 DEF Pipeline!Init

\* Steps that the pipeline does not see.
LEMMA PipelineStutter ==
  ASSUME \A i \in Item : Stands(row'[i], evidence'[i]) = Stands(row[i], evidence[i])
  PROVE  UNCHANGED Stand
BY ProgressStands DEF Stand

\* A step of one video.
LEMMA PipelineMove ==
  ASSUME IInv, NEW i \in Item, NEW r, row' = [row EXCEPT ![i] = r], UNCHANGED evidence,
         \/ Stands(r, evidence[i]) = Stands(row[i], evidence[i])
         \/ Moves(Stands(row[i], evidence[i]), Stands(r, evidence[i]))
  PROVE  [Pipeline!Next]_Stand
<1>1. row'[i] = r /\ \A j \in Item \ {i} : row'[j] = row[j]
  BY DEF IInv, TypeOK
<1> DEFINE p == Stands(row[i], evidence[i])
           q == Stands(r, evidence[i])
<1>2. Stand[i] = p /\ Stand' = [Stand EXCEPT ![i] = q]
  BY <1>1, ProgressStands DEF Stand
<1>3. CASE q = p
  BY <1>2, <1>3 DEF Stand
<1>4. CASE Moves(p, q)
  <2> HIDE DEF p, q
  <2>1. \A from, to : p = from /\ q = to => Pipeline!Step(i, from, to)
    BY <1>2 DEF Pipeline!Step, Stand
  <2>2. \/ Pipeline!Transcribe(i) \/ Pipeline!Refuse(i) \/ Pipeline!Review(i)
        \/ Pipeline!Complete(i) \/ Pipeline!Fail(i)
    BY <1>4, <2>1 DEF Moves, Pipeline!Transcribe, Pipeline!Refuse, Pipeline!Review,
                      Pipeline!Complete, Pipeline!Fail
  <2> QED BY <2>2 DEF Pipeline!Next
<1> QED BY <1>3, <1>4

\* Evidence comes to reviewed videos only.
LEMMA PipelineAdmit ==
  ASSUME IInv, IInv', UNCHANGED row, \A i \in Item : evidence[i] \subseteq evidence'[i]
  PROVE  [Pipeline!Next]_Stand
<1> DEFINE S == {i \in Item : Progress(i) # Progress(i)'}
<1>1. ASSUME NEW i \in S PROVE Progress(i) = "reviewed" /\ Progress(i)' = "admitted"
  <2>1. /\ Stands(row[i], evidence[i]) # Stands(row[i], evidence'[i])
        /\ evidence[i] \subseteq evidence'[i]
    BY ProgressStands
  <2>2. evidence[i] = {} /\ evidence'[i] # {} /\ row[i].transcript # "unavailable"
        /\ row[i].job \notin {"completed", "failed"}
    BY <2>1 DEF Stands
  <2>3. GoodRow(row[i], evidence'[i])
    BY DEF IInv
  <2>4. row[i].review = "reviewed"
    BY <2>2, <2>3 DEF GoodRow
  <2> QED BY <2>2, <2>4, ProgressStands DEF Stands
<1>2. /\ S \in SUBSET Item /\ \A i \in S : Stand[i] = "reviewed"
      /\ Stand' = [i \in Item |-> IF i \in S THEN "admitted" ELSE Stand[i]]
  BY <1>1 DEF Stand
<1> HIDE DEF S
<1>3. Pipeline!AdmitAll
  BY <1>2 DEF Pipeline!AdmitAll, Stand
<1> QED BY <1>3 DEF Pipeline!Next

\* A fenced write.
LEMMA PipelineUpdate ==
  ASSUME IInv, NEW w \in Worker, NEW i \in Item, NEW r, NEW t,
         Update(w, i, r, t), UNCHANGED evidence,
         Owns(w, i) => \/ Stands(r, evidence[i]) = Stands(row[i], evidence[i])
                       \/ Moves(Stands(row[i], evidence[i]), Stands(r, evidence[i]))
  PROVE  [Pipeline!Next]_Stand
<1>1. CASE Owns(w, i)
  <2>1. row' = [row EXCEPT ![i] = r]
    BY <1>1 DEF Update
  <2> QED BY <1>1, <2>1, PipelineMove
<1>2. CASE ~Owns(w, i)
  <2>1. UNCHANGED row
    BY <1>2 DEF Update
  <2> QED BY <2>1, PipelineStutter
<1> QED BY <1>1, <1>2

LEMMA PipelineWork ==
  ASSUME IInv, IInv', NEW w \in Worker, NEW i \in Item, Work(w, i)
  PROVE  [Pipeline!Next]_Stand
<1> DEFINE r == row[i]
           ev == evidence[i]
<1>1. /\ r \in Rows /\ ev \in SUBSET Text /\ task[w][i] \in Tasks /\ GoodRow(r, ev)
      /\ GoodTask(task[w][i], r, ev)
  BY Good
<1>o. Owns(w, i) => Holds(task[w][i], r)
  BY Good
<1>2. ASSUME UNCHANGED <<row, evidence>> PROVE [Pipeline!Next]_Stand
  BY <1>2, PipelineStutter
<1>3. ASSUME NEW label, NEW next, Renew(w, i, label, next) PROVE [Pipeline!Next]_Stand
  <2>1. Update(w, i, [r EXCEPT !.expired = FALSE], Moved(w, i, next)) /\ UNCHANGED evidence
    BY <1>3 DEF Renew
  <2>2. Stands([r EXCEPT !.expired = FALSE], ev) = Stands(r, ev)
    BY <1>1 DEF Rows, Stands
  <2> HIDE DEF r, ev
  <2> QED BY <2>1, <2>2, PipelineUpdate DEF r, ev
<1>4. CASE SaveTranscript(w, i)
  <2> DEFINE n == [r EXCEPT !.transcript = "ready", !.review = "transcript_only", !.status = "blocked"]
  <2>1. PICK t : Update(w, i, n, t)
    BY <1>4 DEF SaveTranscript
  <2>2. UNCHANGED evidence /\ task[w][i].at = "extracting"
    BY <1>4 DEF SaveTranscript, At
  <2>3. n.job = r.job /\ n.transcript = "ready" /\ n.review = "transcript_only"
    BY <1>1 DEF Rows
  <2> HIDE DEF n, r, ev
  <2>4. Holds(task[w][i], r) => Stands(r, ev) = "found" /\ Stands(n, ev) = "transcribed"
    BY <1>1, <2>2, <2>3 DEF Stands, GoodTask, GoodRow, Extraction, Holds
  <2>5. Owns(w, i) => Moves(Stands(r, ev), Stands(n, ev))
    BY <1>o, <2>4 DEF Moves
  <2> QED BY <2>1, <2>2, <2>5, PipelineUpdate DEF r, ev
<1>5. CASE SaveExtractionFailure(w, i)
  <2> DEFINE retryable == task[w][i].retryable
             outcome == task[w][i].analysis
             failed == Released(i, IF retryable THEN "retryable" ELSE "blocked")
             n == [failed EXCEPT !.transcript = IF retryable THEN "missing" ELSE "unavailable",
                                 !.review = IF retryable THEN "none" ELSE "unavailable",
                                 !.analysis = IF outcome = "not_attempted" THEN @ ELSE outcome,
                                 !.status = "blocked"]
  <2>1. Update(w, i, n, NoTask) /\ UNCHANGED evidence /\ task[w][i].at = "save_failure"
    BY <1>5 DEF SaveExtractionFailure, At
  <2>2. failed \in Rows /\ failed.job = (IF retryable THEN "retryable" ELSE "blocked")
    BY <1>1, ReleasedRow
  <2> HIDE DEF failed
  <2>3. retryable \in BOOLEAN
    BY <1>1, TaskFields
  <2> HIDE DEF retryable, outcome
  <2>4. /\ n.job = failed.job /\ n.transcript = (IF retryable THEN "missing" ELSE "unavailable")
        /\ n.review = (IF retryable THEN "none" ELSE "unavailable")
    BY <2>2 DEF Rows
  <2> HIDE DEF n, r, ev
  <2>5. Holds(task[w][i], r)
          => Stands(r, ev) = "found" /\ Stands(n, ev) \in {"found", "unavailable"}
    BY <1>1, <2>1, <2>2, <2>3, <2>4 DEF Stands, GoodTask, GoodRow, Extraction, Holds
  <2>6. Owns(w, i) => Stands(n, ev) = Stands(r, ev) \/ Moves(Stands(r, ev), Stands(n, ev))
    BY <1>o, <2>5 DEF Moves
  <2> QED BY <2>1, <2>6, PipelineUpdate DEF r, ev
<1>6. CASE SaveInterpretation(w, i)
  <2> DEFINE n == [r EXCEPT !.review = "reviewed", !.status = "accepted", !.summary = task[w][i].token]
  <2>1. PICK t : Update(w, i, n, t)
    BY <1>6 DEF SaveInterpretation
  <2>2. UNCHANGED evidence /\ task[w][i].at = "interpreting"
    BY <1>6 DEF SaveInterpretation, At
  <2>3. n.job = r.job /\ n.transcript = r.transcript /\ n.review = "reviewed"
    BY <1>1 DEF Rows
  <2> HIDE DEF n, r, ev
  <2>4. Holds(task[w][i], r) => Stands(r, ev) = "transcribed" /\ Stands(n, ev) = "reviewed"
    BY <1>1, <2>2, <2>3 DEF Stands, GoodTask, GoodRow, Holds
  <2>5. Owns(w, i) => Moves(Stands(r, ev), Stands(n, ev))
    BY <1>o, <2>4 DEF Moves
  <2> QED BY <2>1, <2>2, <2>5, PipelineUpdate DEF r, ev
<1>7. CASE Complete(w, i)
  <2> DEFINE done == Released(i, "completed")
             n == [done EXCEPT !.evidence = {task[w][i].text}]
  <2>1. Update(w, i, n, NoTask) /\ UNCHANGED evidence /\ task[w][i].at = "complete"
    BY <1>7 DEF Complete, At
  <2>2. done \in Rows /\ done.job = "completed"
    BY <1>1, ReleasedRow
  <2> HIDE DEF done
  <2>3. n.job = "completed"
    BY <2>2 DEF Rows
  <2> HIDE DEF n, r, ev
  <2>4. Holds(task[w][i], r) => Stands(r, ev) = "admitted" /\ Stands(n, ev) = "completed"
    BY <1>1, <2>1, <2>3 DEF Stands, GoodTask, GoodRow, Holds
  <2>5. Owns(w, i) => Moves(Stands(r, ev), Stands(n, ev))
    BY <1>o, <2>4 DEF Moves
  <2> QED BY <2>1, <2>5, PipelineUpdate DEF r, ev
<1>8. CASE Recover(w, i)
  <2> DEFINE job == IF task[w][i].token >= MaxAttempts THEN "failed" ELSE "retryable"
             n == Released(i, job)
  <2>1. Update(w, i, n, NoTask) /\ UNCHANGED evidence
    BY <1>8 DEF Recover, Update, Answered
  <2>2. job \in {"failed", "retryable"}
    OBVIOUS
  <2> HIDE DEF job
  <2>3. n.job = job /\ n.transcript = r.transcript /\ n.review = r.review
    BY <1>1, <2>2, ReleasedRow
  <2> HIDE DEF n, r, ev
  <2>4. Holds(task[w][i], r)
          => /\ Stands(r, ev) \in {"found", "transcribed", "reviewed", "admitted"}
             /\ Stands(n, ev) \in {"failed", Stands(r, ev)}
    BY <1>1, <2>2, <2>3 DEF Stands, GoodRow, Holds
  <2>5. Owns(w, i) => Stands(n, ev) = Stands(r, ev) \/ Moves(Stands(r, ev), Stands(n, ev))
    BY <1>o, <2>4 DEF Moves
  <2> QED BY <2>1, <2>5, PipelineUpdate DEF r, ev
<1>9. CASE UpsertEvidence(w, i)
  <2>1. UNCHANGED row /\ \A j \in Item : evidence[j] \subseteq evidence'[j]
    BY <1>9 DEF UpsertEvidence, IInv, TypeOK
  <2> QED BY <2>1, PipelineAdmit
<1>10. CASE LinkStories(w, i) \/ LoadIntake(w, i) \/ ExtractionFails(w, i) \/ AnalyseVideo(w, i)
            \/ \E label, next : FindEvidence(w, i, label, next)
  BY <1>2, <1>10 DEF LinkStories, LoadIntake, ExtractionFails, AnalyseVideo, FindEvidence
<1> QED BY <1>3, <1>4, <1>5, <1>6, <1>7, <1>8, <1>9, <1>10 DEF Work

LEMMA PipelineNext == IInv /\ IInv' /\ [Next]_vars => [Pipeline!Next]_Stand
<1> SUFFICES ASSUME IInv, IInv', [Next]_vars PROVE [Pipeline!Next]_Stand
  OBVIOUS
<1>1. ASSUME UNCHANGED <<row, evidence>> PROVE [Pipeline!Next]_Stand
  BY <1>1, PipelineStutter
<1>2. ASSUME NEW w \in Worker, Claim(w) PROVE [Pipeline!Next]_Stand
  <2>1. PICK S \in SUBSET {i \in Item : Claimable(i) /\ row[i].attempts < Limit} :
          row' = [i \in Item |-> IF i \in S THEN Claimed(row[i]) ELSE row[i]]
    BY <1>2 DEF Claim, Claimed
  <2>2. ASSUME NEW i \in S
        PROVE  Stands(Claimed(row[i]), evidence[i]) = Stands(row[i], evidence[i])
    <3>1. row[i] \in Rows /\ GoodRow(row[i], evidence[i]) /\ Claimable(i)
      BY DEF IInv, TypeOK
    <3>2. /\ Claimed(row[i]).job = "running" /\ Claimed(row[i]).transcript = row[i].transcript
          /\ Claimed(row[i]).review = row[i].review
      BY <3>1 DEF Claimed, Rows
    <3>3. row[i].job \notin {"completed", "failed"}
      BY <3>1 DEF Claimable, LegacyPlaceholder
    <3> QED BY <3>2, <3>3 DEF Stands
  <2>3. UNCHANGED evidence
    BY <1>2 DEF Claim
  <2> QED BY <2>1, <2>2, <2>3, PipelineStutter
<1>3. ASSUME NEW i \in Item, Expire(i) PROVE [Pipeline!Next]_Stand
  <2> DEFINE n == [row[i] EXCEPT !.expired = TRUE]
  <2>1. row' = [row EXCEPT ![i] = n] /\ UNCHANGED evidence
    BY <1>3 DEF Expire, IInv, TypeOK
  <2>2. Stands(n, evidence[i]) = Stands(row[i], evidence[i])
    BY DEF IInv, TypeOK, Rows, Stands
  <2> HIDE DEF n
  <2> QED BY <2>1, <2>2, PipelineMove
<1>4. ASSUME NEW e \in Engine, EngineUpsert(e) PROVE [Pipeline!Next]_Stand
  <2>1. UNCHANGED row /\ \A i \in Item : evidence[i] \subseteq evidence'[i]
    BY <1>4 DEF EngineUpsert, IInv, TypeOK
  <2> QED BY <2>1, PipelineAdmit
<1>5. ASSUME NEW w \in Worker, NEW i \in Item, Work(w, i) PROVE [Pipeline!Next]_Stand
  BY <1>5, PipelineWork
<1>6. CASE UNCHANGED vars
  BY <1>1, <1>6 DEF vars
<1>7. CASE \/ \E w \in Worker : Crash(w)
           \/ \E w \in Worker, i \in Item : Error(w, i) \/ RecoverFails(w, i)
           \/ \E e \in Engine : EngineLoad(e)
  BY <1>1, <1>7 DEF Crash, Error, RecoverFails, EngineLoad
<1> QED BY <1>2, <1>3, <1>4, <1>5, <1>6, <1>7 DEF Next

\* Whatever workers, leases and engine runs do, a video is transcribed, reviewed, admitted
\* and completed once and in this order: TranscriptWorker implements VideoPipeline.
THEOREM ImplementsPipeline == Spec => PipelineSpec
<1>1. IInv /\ [Next]_vars => [Pipeline!Next]_Stand
  BY InvariantNext, PipelineNext
<1> QED BY <1>1, PipelineInit, InvariantInit, InvariantNext, PTL
        DEF Spec, PipelineSpec, Pipeline!Spec, Stand
=============================================================================
