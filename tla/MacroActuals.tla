------------------------------ MODULE MacroActuals ------------------------------
(* One official macro release: its row of macro_releases, the component readings   *)
(* in macro_release_metrics, and the passes that ingest its official Actual, from  *)
(* the acquisition cron and from the quick pass at once.                           *)
(* src/lib/macro/official-actuals.ts, macro-release-lifecycle.ts and the function  *)
(* refresh_macro_release_lifecycle.                                                *)
EXTENDS Naturals

CONSTANTS Pass,      \* invocations of ingestOfficialMacroActuals
          Component, \* the component metrics of a release
          Readings   \* bound: readings the source publishes, numbered; 0 is none

ASSUME MacroAssumption == Readings \in Nat \ {0}

VARIABLES kind,    \* the source of the release
          phase,   \* time until release: more than 24 hours, less, past
          reading, \* what the source reads now
          release, \* the row, or Missing
          metric,  \* the stored reading of each component, or 0
          pass     \* what each invocation is doing

macroVars == <<kind, phase, reading, release, metric, pass>>

MacroStatus == {"scheduled", "pre_release", "ingestion_pending", "released_pending_ingestion",
                "completed", "revision_detected", "stale_error"}
Missing == [status |-> "missing", actual |-> 0]
ReleaseRow == [status: MacroStatus, actual: 0..Readings, attempted: BOOLEAN, exhausted: BOOLEAN]
NoPass == [pc |-> "off"]

MacroInit ==
  /\ kind \in {"cpi", "bea", "rba"} /\ phase \in {"far", "near", "past"}
  /\ reading = 1 /\ release = Missing
  /\ metric = [k \in Component |-> 0]
  /\ pass = [p \in Pass |-> NoPass]

HasActual == release.actual # 0

-----------------------------------------------------------------------------
(* The lifecycle of a release, as pages derive it and as the database stores it. *)

\* deriveMacroReleaseLifecycle
Derive(row, at) ==
  IF row.actual # 0 THEN IF row.status = "revision_detected" THEN row.status ELSE "completed"
  ELSE IF at # "past" THEN IF at = "far" THEN "scheduled" ELSE "pre_release"
  ELSE IF ~row.attempted THEN "ingestion_pending"
  ELSE IF row.exhausted THEN "stale_error" ELSE "released_pending_ingestion"

\* refresh_macro_release_lifecycle
RefreshedStatus(row, at) ==
  CASE row.actual # 0 /\ row.status = "revision_detected" -> "revision_detected"
    [] row.actual # 0 /\ row.status # "revision_detected" -> "completed"
    [] row.actual = 0 /\ at = "far" -> "scheduled"
    [] row.actual = 0 /\ at = "near" -> "pre_release"
    [] row.actual = 0 /\ at = "past" /\ ~row.attempted -> "ingestion_pending"
    [] row.actual = 0 /\ at = "past" /\ row.attempted /\ row.exhausted -> "stale_error"
    [] OTHER -> "released_pending_ingestion"

\* Called by every research update.
RefreshLifecycle ==
  /\ release # Missing
  /\ release' = [release EXCEPT !.status = RefreshedStatus(release, phase)]
  /\ UNCHANGED <<kind, phase, reading, metric, pass>>

-----------------------------------------------------------------------------
(* A pass. *)

Passing(p, pc) == pass[p].pc = pc
Turn(p, rec) == pass' = [pass EXCEPT ![p] = rec]
\* The metrics pass of the ingested release is followed by the recovery; the recovery's
\* own ends the invocation.
Storing(v, then) == [pc |-> "insert", value |-> v, todo |-> Component, then |-> then]

\* The scheduled rows that exist are read; the missing ones are inserted at once, and
\* one that another pass inserted meanwhile fails them all, and the pass.
BeginPass(p) ==
  /\ Passing(p, "off")
  /\ Turn(p, [pc |-> IF release = Missing THEN "seed" ELSE "list"])
  /\ UNCHANGED <<kind, phase, reading, release, metric>>

SeedRelease(p) ==
  /\ Passing(p, "seed")
  /\ IF release = Missing
     THEN /\ release' = [status |-> IF phase = "past" THEN "released_pending_ingestion"
                                    ELSE "scheduled",
                         actual |-> 0, attempted |-> FALSE, exhausted |-> FALSE]
          /\ Turn(p, [pc |-> "list"])
     ELSE Turn(p, NoPass) /\ UNCHANGED release
  /\ UNCHANGED <<kind, phase, reading, metric>>

\* Overdue releases without an Actual are worked at, in turn.
ListOverdue(p) ==
  /\ Passing(p, "list")
  /\ Turn(p, [pc |-> IF phase = "past" /\ release.actual = 0 THEN "attempt" ELSE "recover"])
  /\ UNCHANGED <<kind, phase, reading, release, metric>>

\* Mutant: an update of the release by its id alone.
UpdateById(row) == release' = row

\* Every update of the release while it has no Actual is fenced by that; one that
\* matches no row goes unnoticed.
UpdateOpen(row) == release' = IF release.actual = 0 THEN row ELSE release

\* The attempt is recorded, whether or not the source can then be read.
Attempt(p) ==
  /\ Passing(p, "attempt")
  /\ \/ UpdateOpen([release EXCEPT !.attempted = TRUE])
     \/ UNCHANGED release
  /\ Turn(p, [pc |-> "resolve"])
  /\ UNCHANGED <<kind, phase, reading, metric>>

ResolveActual(p) ==
  /\ Passing(p, "resolve")
  /\ \/ Turn(p, [pc |-> "write", value |-> reading])
     \/ Turn(p, [pc |-> "fail"])
  /\ UNCHANGED <<kind, phase, reading, release, metric>>

\* The Actual is stored; only an RBA decision is read back.  An error may come before
\* or after the write.
WriteActual(p) ==
  LET v == pass[p].value
      next == IF kind = "rba" THEN [pc |-> "readback", value |-> v]
              ELSE Storing(v, "recover")
  IN
  /\ Passing(p, "write")
  /\ \/ /\ UpdateOpen([release EXCEPT !.actual = v, !.status = "completed", !.attempted = TRUE,
                                      !.exhausted = FALSE])
        /\ Turn(p, next) \/ Turn(p, [pc |-> "fail"])
     \/ UNCHANGED release /\ Turn(p, [pc |-> "fail"])
  /\ UNCHANGED <<kind, phase, reading, metric>>

ReadBack(p) ==
  /\ Passing(p, "readback")
  /\ Turn(p, [pc |-> IF release.actual = pass[p].value THEN "recover" ELSE "fail"])
  /\ UNCHANGED <<kind, phase, reading, release, metric>>

\* The catch of one release.
MarkRetryable(p) ==
  /\ Passing(p, "fail")
  /\ \/ UpdateOpen([release EXCEPT !.status = "released_pending_ingestion", !.attempted = TRUE,
                                   !.exhausted = FALSE])
     \/ UNCHANGED release
  /\ Turn(p, [pc |-> "recover"])
  /\ UNCHANGED <<kind, phase, reading, metric>>

\* upsertOfficialCpiMetrics, upsertOfficialBeaPceMetrics: the missing components are
\* inserted, then each is updated.
InsertMetrics(p) ==
  /\ Passing(p, "insert")
  /\ metric' = [k \in Component |-> IF metric[k] = 0 THEN pass[p].value ELSE metric[k]]
  /\ Turn(p, [pass[p] EXCEPT !.pc = "store"])
  /\ UNCHANGED <<kind, phase, reading, release>>

UpdateMetric(p, k) ==
  /\ Passing(p, "store") /\ k \in pass[p].todo
  /\ metric' = [metric EXCEPT ![k] = pass[p].value]
  /\ Turn(p, [pass[p] EXCEPT !.todo = @ \ {k}])
  /\ UNCHANGED <<kind, phase, reading, release>>

\* After its metrics a pass goes on, also when one of them failed: a warning.
MetricsEnd(p) ==
  /\ pass[p].pc \in {"insert", "store"} /\ Turn(p, [pc |-> pass[p].then])
  /\ UNCHANGED <<kind, phase, reading, release, metric>>

Incomplete == \E k \in Component : metric[k] = 0

\* recoverCompletedCpiMetrics, recoverCompletedBeaPceMetrics, within seven days of the
\* release: CPI where metrics are missing, BEA always, from the stored Actual.
Recover(p) ==
  /\ Passing(p, "recover")
  /\ IF /\ phase = "past" /\ HasActual /\ release.status = "completed"
        /\ kind = "bea" \/ (kind = "cpi" /\ Incomplete)
     THEN Turn(p, Storing(release.actual, "off"))
     ELSE Turn(p, NoPass)
  /\ UNCHANGED <<kind, phase, reading, release, metric>>

PassKilled(p) ==
  /\ pass[p] # NoPass /\ Turn(p, NoPass)
  /\ UNCHANGED <<kind, phase, reading, release, metric>>

\* The source publishes another reading, a revision.
SourceRevises ==
  /\ phase = "past" /\ reading < Readings /\ reading' = reading + 1
  /\ UNCHANGED <<kind, phase, release, metric, pass>>

ReleaseNears ==
  /\ phase # "past" /\ phase' = IF phase = "far" THEN "near" ELSE "past"
  /\ UNCHANGED <<kind, reading, release, metric, pass>>

MacroNext ==
  \/ RefreshLifecycle \/ SourceRevises \/ ReleaseNears
  \/ \E p \in Pass :
       \/ BeginPass(p) \/ SeedRelease(p) \/ ListOverdue(p) \/ Attempt(p) \/ ResolveActual(p)
       \/ WriteActual(p) \/ ReadBack(p) \/ MarkRetryable(p) \/ InsertMetrics(p)
       \/ (\E k \in Component : UpdateMetric(p, k)) \/ MetricsEnd(p) \/ Recover(p)
       \/ PassKilled(p)

MacroSpec == MacroInit /\ [][MacroNext]_macroVars

-----------------------------------------------------------------------------
\* Types; an Actual is a completed release's, and its metrics come after it.
MacroTypeOK ==
  /\ kind \in {"cpi", "bea", "rba"} /\ phase \in {"far", "near", "past"}
  /\ reading \in 1..Readings /\ release \in ReleaseRow \cup {Missing}
  /\ metric \in [Component -> 0..Readings]
  /\ pass \in [Pass ->
       [pc: {"off", "seed", "list", "attempt", "resolve", "fail", "recover"}]
       \cup [pc: {"write", "readback"}, value: 1..Readings]
       \cup [pc: {"insert", "store"}, value: 1..Readings, todo: SUBSET Component,
             then: {"recover", "off"}]]
  /\ HasActual => release.status = "completed"
  /\ (\E k \in Component : metric[k] # 0) => HasActual

\* An official Actual is never replaced and its release never reads as missing again,
\* whatever passes that read the source earlier still write.
ActualIsFinal ==
  [][HasActual => /\ release'.actual = release.actual
                 /\ release'.status = "completed"]_macroVars
=============================================================================
