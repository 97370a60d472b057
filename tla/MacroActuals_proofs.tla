--------------------------- MODULE MacroActuals_proofs ---------------------------
(* Proofs about MacroActuals: however many passes overlap, every update of the      *)
(* release is fenced by its missing Actual, so the first one stored stays.          *)
EXTENDS MacroActuals, TLAPS

\* A release with an Actual is completed, and its metrics come after it; a pass holds
\* metrics to store only once its release has an Actual.
MetricsFollow ==
  \A p \in Pass : pass[p].pc \in {"insert", "store"} => HasActual

\* Beyond the listing a release exists.
RowExists ==
  \A p \in Pass : pass[p].pc \notin {"off", "seed"} => release # Missing

MacroInv == MacroTypeOK /\ MetricsFollow /\ RowExists

PassForm ==
  [pc: {"off", "seed", "list", "attempt", "resolve", "fail", "recover"}]
  \cup [pc: {"write", "readback"}, value: 1..Readings]
  \cup [pc: {"insert", "store"}, value: 1..Readings, todo: SUBSET Component,
        then: {"recover", "off"}]

\* Pages and the database derive the same status from the same row at the same time.
LEMMA LifecyclesAgree ==
  ASSUME NEW row \in ReleaseRow, NEW at \in {"far", "near", "past"}
  PROVE  Derive(row, at) = RefreshedStatus(row, at) /\ Derive(row, at) \in MacroStatus
BY DEF Derive, RefreshedStatus, ReleaseRow, MacroStatus

\* What a pass's pc says of its record.
LEMMA PassFields ==
  ASSUME MacroTypeOK, NEW p \in Pass
  PROVE  /\ pass[p] \in PassForm
         /\ pass[p].pc \in {"write", "readback", "insert", "store"} => pass[p].value \in 1..Readings
         /\ pass[p].pc \in {"insert", "store"} =>
              pass[p] \in [pc: {"insert", "store"}, value: 1..Readings, todo: SUBSET Component,
                           then: {"recover", "off"}]
BY DEF MacroTypeOK, PassForm

\* A pass that moves on while the tables stay.
LEMMA PassMoves ==
  ASSUME MacroInv, NEW p \in Pass, NEW rec \in PassForm, Turn(p, rec),
         UNCHANGED <<kind, phase, reading, release, metric>>,
         rec.pc \in {"insert", "store"} => HasActual,
         rec.pc \notin {"off", "seed"} => release # Missing
  PROVE  MacroInv'
<1>1. pass' \in [Pass -> PassForm]
  BY DEF Turn, MacroInv, MacroTypeOK, PassForm
<1>2. pass'[p] = rec /\ \A q \in Pass : q # p => pass'[q] = pass[q]
  BY DEF Turn, MacroInv, MacroTypeOK
<1>3. MacroTypeOK'
  BY <1>1 DEF MacroInv, MacroTypeOK, PassForm, HasActual
<1>4. MetricsFollow' /\ RowExists'
  BY <1>2 DEF MacroInv, MetricsFollow, RowExists, HasActual
<1> QED BY <1>3, <1>4 DEF MacroInv

\* An update fenced by the missing Actual, of a release that exists.
LEMMA OpenUpdate ==
  ASSUME MacroInv, release # Missing, NEW row \in ReleaseRow, UpdateOpen(row) \/ UNCHANGED release,
         row.actual # 0 => row.status = "completed"
  PROVE  /\ release' \in ReleaseRow /\ release' # Missing
         /\ HasActual => UNCHANGED release
         /\ HasActual' => release'.status = "completed"
BY DEF MacroInv, MacroTypeOK, UpdateOpen, HasActual, ReleaseRow, Missing, MacroStatus

\* A pass that moves on after such an update.
LEMMA PassWrites ==
  ASSUME MacroInv, NEW p \in Pass, NEW rec \in PassForm, Turn(p, rec),
         UNCHANGED <<kind, phase, reading, metric>>,
         release' \in ReleaseRow, release' # Missing, HasActual => UNCHANGED release,
         HasActual' => release'.status = "completed",
         rec.pc \in {"insert", "store"} => HasActual'
  PROVE  MacroInv'
<1>1. pass' \in [Pass -> PassForm]
  BY DEF Turn, MacroInv, MacroTypeOK, PassForm
<1>2. pass'[p] = rec /\ \A q \in Pass : q # p => pass'[q] = pass[q]
  BY DEF Turn, MacroInv, MacroTypeOK
<1>3. MacroTypeOK'
  BY <1>1 DEF MacroInv, MacroTypeOK, PassForm, HasActual
<1>4. MetricsFollow' /\ RowExists'
  BY <1>2 DEF MacroInv, MetricsFollow, RowExists, HasActual
<1> QED BY <1>3, <1>4 DEF MacroInv

\* Every pass starts off, and no release is there.
LEMMA MacroInitInv == MacroInit => MacroInv
BY MacroAssumption
   DEF MacroInit, MacroInv, MacroTypeOK, MetricsFollow, RowExists, NoPass, HasActual, Missing

\* No step breaks the invariant or touches a stored Actual.
LEMMA MacroStep ==
  MacroInv /\ [MacroNext]_macroVars =>
    MacroInv' /\ (HasActual => release'.actual = release.actual /\ release'.status = "completed")
<1> SUFFICES ASSUME MacroInv, [MacroNext]_macroVars
             PROVE  /\ MacroInv'
                    /\ HasActual => release'.actual = release.actual
                                    /\ release'.status = "completed"
  OBVIOUS
<1> USE MacroAssumption
<1>a. HasActual /\ UNCHANGED release => release'.actual = release.actual
                                        /\ release'.status = "completed"
  BY DEF MacroInv, MacroTypeOK
<1>1. CASE UNCHANGED macroVars
  BY <1>1, <1>a DEF macroVars, MacroInv, MacroTypeOK, MetricsFollow, RowExists, HasActual
<1>2. CASE RefreshLifecycle
  <2>1. release \in ReleaseRow /\ release' = [release EXCEPT !.status = RefreshedStatus(release, phase)]
    BY <1>2 DEF RefreshLifecycle, MacroInv, MacroTypeOK
  <2>2. phase \in {"far", "near", "past"}
    BY DEF MacroInv, MacroTypeOK
  <2>3. RefreshedStatus(release, phase) \in MacroStatus
    BY <2>1, <2>2, LifecyclesAgree
  <2>4. HasActual => RefreshedStatus(release, phase) = "completed"
    BY <2>1 DEF RefreshedStatus, HasActual, MacroInv, MacroTypeOK
  <2>5. release' \in ReleaseRow /\ release'.actual = release.actual
        /\ release'.status = RefreshedStatus(release, phase)
    BY <2>1, <2>3 DEF ReleaseRow
  <2>6. release' # Missing
    BY <2>5 DEF Missing, ReleaseRow, MacroStatus
  <2> QED BY <1>2, <2>4, <2>5, <2>6
          DEF RefreshLifecycle, MacroInv, MacroTypeOK, MetricsFollow, RowExists, HasActual
<1>3. CASE SourceRevises
  BY <1>3, <1>a DEF SourceRevises, MacroInv, MacroTypeOK, MetricsFollow, RowExists, HasActual
<1>4. CASE ReleaseNears
  BY <1>4, <1>a DEF ReleaseNears, MacroInv, MacroTypeOK, MetricsFollow, RowExists, HasActual
<1>5. ASSUME NEW p \in Pass
      PROVE  BeginPass(p) \/ ListOverdue(p) \/ ResolveActual(p) \/ ReadBack(p) \/ MetricsEnd(p)
             \/ Recover(p) \/ PassKilled(p) =>
               MacroInv' /\ UNCHANGED release
  <2>1. CASE BeginPass(p)
    BY <2>1, PassMoves DEF BeginPass, PassForm
  <2>2. CASE ListOverdue(p)
    <3>1. release # Missing
      BY <2>2 DEF ListOverdue, Passing, MacroInv, RowExists
    <3> QED BY <2>2, <3>1, PassMoves DEF ListOverdue, PassForm
  <2>3. CASE ResolveActual(p)
    <3>1. release # Missing /\ reading \in 1..Readings
      BY <2>3 DEF ResolveActual, Passing, MacroInv, MacroTypeOK, RowExists
    <3>2. [pc |-> "write", value |-> reading] \in PassForm /\ [pc |-> "fail"] \in PassForm
      BY <3>1 DEF PassForm
    <3> QED BY <2>3, <3>1, <3>2, PassMoves DEF ResolveActual
  <2>4. CASE ReadBack(p)
    <3>1. release # Missing
      BY <2>4 DEF ReadBack, Passing, MacroInv, RowExists
    <3> QED BY <2>4, <3>1, PassMoves DEF ReadBack, PassForm
  <2>5. CASE MetricsEnd(p)
    <3>1. release # Missing
      BY <2>5 DEF MetricsEnd, MacroInv, RowExists
    <3>2. [pc |-> pass[p].then] \in PassForm /\ [pc |-> pass[p].then].pc \in {"recover", "off"}
      BY <2>5, PassFields DEF MetricsEnd, PassForm, MacroInv
    <3> QED BY <2>5, <3>1, <3>2, PassMoves DEF MetricsEnd
  <2>6. CASE Recover(p)
    <3>1. release # Missing
      BY <2>6 DEF Recover, Passing, MacroInv, RowExists
    <3>2. CASE Turn(p, NoPass)
      BY <2>6, <3>1, <3>2, PassMoves DEF Recover, PassForm, NoPass
    <3>3. CASE HasActual /\ Turn(p, Storing(release.actual, "off"))
      <4>1. release.actual \in 1..Readings
        BY <3>1, <3>3 DEF HasActual, MacroInv, MacroTypeOK, ReleaseRow
      <4>2. Storing(release.actual, "off") \in PassForm
        BY <4>1 DEF Storing, PassForm
      <4> QED BY <2>6, <3>1, <3>3, <4>2, PassMoves DEF Recover
    <3> QED BY <2>6, <3>2, <3>3 DEF Recover
  <2>7. CASE PassKilled(p)
    BY <2>7, PassMoves DEF PassKilled, PassForm, NoPass
  <2> QED BY <2>1, <2>2, <2>3, <2>4, <2>5, <2>6, <2>7
<1>6. ASSUME NEW p \in Pass, SeedRelease(p) PROVE MacroInv' /\ (HasActual => UNCHANGED release)
  <2>1. CASE release = Missing
    <3>0. PICK s \in MacroStatus :
            release' = [status |-> s, actual |-> 0, attempted |-> FALSE, exhausted |-> FALSE]
      BY <1>6, <2>1 DEF SeedRelease, MacroStatus
    <3>1. release' \in ReleaseRow /\ release'.actual = 0 /\ release' # Missing
      <4>1. s # "missing"
        BY DEF MacroStatus
      <4>2. release'.status = s /\ release'.actual = 0 /\ Missing.status = "missing"
        BY <3>0 DEF Missing
      <4>3. 0 \in 0..Readings
        OBVIOUS
      <4> QED BY <3>0, <4>1, <4>2, <4>3 DEF ReleaseRow
    <3>2. [pc |-> "list"] \in PassForm
      BY DEF PassForm
    <3>3. ~HasActual /\ ~HasActual'
      BY <2>1, <3>1 DEF HasActual, Missing
    <3> QED BY <1>6, <2>1, <3>1, <3>2, <3>3, PassWrites DEF SeedRelease
  <2>2. CASE release # Missing
    BY <1>6, <2>2, PassMoves DEF SeedRelease, PassForm, NoPass
  <2> QED BY <2>1, <2>2
<1>7. ASSUME NEW p \in Pass, Attempt(p) \/ WriteActual(p) \/ MarkRetryable(p)
      PROVE MacroInv' /\ (HasActual => UNCHANGED release)
  <2>1. release # Missing /\ release \in ReleaseRow
    BY <1>7 DEF Attempt, WriteActual, MarkRetryable, Passing, MacroInv, MacroTypeOK, RowExists
  <2>2. CASE Attempt(p)
    <3>1. [release EXCEPT !.attempted = TRUE] \in ReleaseRow
      BY <2>1 DEF ReleaseRow
    <3>2. [release EXCEPT !.attempted = TRUE].actual # 0 =>
            [release EXCEPT !.attempted = TRUE].status = "completed"
      BY <2>1 DEF ReleaseRow, MacroInv, MacroTypeOK, HasActual
    <3>3. [pc |-> "resolve"] \in PassForm
      BY DEF PassForm
    <3> QED BY <2>1, <2>2, <3>1, <3>2, <3>3, OpenUpdate, PassWrites DEF Attempt
  <2>3. CASE WriteActual(p)
    <3> DEFINE v == pass[p].value
               row == [release EXCEPT !.actual = v, !.status = "completed", !.attempted = TRUE,
                                      !.exhausted = FALSE]
    <3>1. v \in 1..Readings
      BY <2>3, PassFields DEF WriteActual, Passing, MacroInv
    <3>2. row \in ReleaseRow /\ row.actual = v /\ row.status = "completed"
      <4>1. v \in 0..Readings /\ "completed" \in MacroStatus
        BY <3>1 DEF MacroStatus
      <4> HIDE DEF v
      <4> QED BY <2>1, <4>1 DEF ReleaseRow
    <3>3. /\ [pc |-> "fail"] \in PassForm /\ [pc |-> "readback", value |-> v] \in PassForm
          /\ Storing(v, "recover") \in PassForm
      BY <3>1 DEF PassForm, Storing
    <3>4. CASE UpdateOpen(row)
      <4>1. HasActual'
        BY <3>1, <3>2, <3>4 DEF UpdateOpen, HasActual
      <4>2. /\ release' \in ReleaseRow /\ release' # Missing
            /\ HasActual => UNCHANGED release
            /\ HasActual' => release'.status = "completed"
        BY <2>1, <3>2, <3>4, OpenUpdate
      <4>3. PICK rec \in PassForm : Turn(p, rec)
        BY <2>3, <3>3 DEF WriteActual
      <4> QED BY <2>3, <4>1, <4>2, <4>3, PassWrites DEF WriteActual
    <3>5. CASE UNCHANGED release /\ Turn(p, [pc |-> "fail"])
      BY <2>1, <2>3, <3>3, <3>5, PassMoves DEF WriteActual
    <3> QED BY <2>3, <3>4, <3>5 DEF WriteActual
  <2>4. CASE MarkRetryable(p)
    <3> DEFINE row == [release EXCEPT !.status = "released_pending_ingestion", !.attempted = TRUE,
                                      !.exhausted = FALSE]
    <3>1. row \in ReleaseRow /\ row.actual = release.actual
      BY <2>1 DEF ReleaseRow, MacroStatus
    <3>2. [pc |-> "recover"] \in PassForm
      BY DEF PassForm
    <3>3. CASE HasActual
      <4>1. UNCHANGED release
        BY <2>4, <3>3 DEF MarkRetryable, UpdateOpen, HasActual
      <4> QED BY <2>1, <2>4, <3>2, <4>1, PassMoves DEF MarkRetryable
    <3>4. CASE ~HasActual
      BY <2>1, <2>4, <3>1, <3>2, <3>4, OpenUpdate, PassWrites DEF MarkRetryable, HasActual
    <3> QED BY <3>3, <3>4
  <2> QED BY <1>7, <2>2, <2>3, <2>4
<1>8. ASSUME NEW p \in Pass, InsertMetrics(p) \/ (\E k \in Component : UpdateMetric(p, k))
      PROVE MacroInv' /\ UNCHANGED release
  <2>1. HasActual /\ release # Missing /\ pass[p].value \in 1..Readings
        /\ pass[p] \in [pc: {"insert", "store"}, value: 1..Readings, todo: SUBSET Component,
                        then: {"recover", "off"}]
    BY <1>8, PassFields
       DEF InsertMetrics, UpdateMetric, Passing, MacroInv, MetricsFollow, RowExists
  <2>2. metric' \in [Component -> 0..Readings] /\ UNCHANGED <<kind, phase, reading, release>>
    <3>1. metric \in [Component -> 0..Readings] /\ pass[p].value \in 0..Readings
      BY <2>1 DEF MacroInv, MacroTypeOK
    <3>2. CASE InsertMetrics(p)
      BY <3>1, <3>2 DEF InsertMetrics
    <3>3. CASE \E k \in Component : UpdateMetric(p, k)
      BY <3>1, <3>3 DEF UpdateMetric
    <3> QED BY <1>8, <3>2, <3>3
  <2>3. PICK rec \in PassForm : Turn(p, rec) /\ rec.pc = "store"
    <3>1. [pass[p] EXCEPT !.pc = "store"] \in PassForm
          /\ [pass[p] EXCEPT !.pc = "store"].pc = "store"
      BY <2>1 DEF PassForm
    <3>2. ASSUME NEW k, Passing(p, "store")
          PROVE  [pass[p] EXCEPT !.todo = @ \ {k}] \in PassForm
                 /\ [pass[p] EXCEPT !.todo = @ \ {k}].pc = "store"
      BY <2>1, <3>2 DEF PassForm, Passing
    <3> QED BY <1>8, <3>1, <3>2 DEF InsertMetrics, UpdateMetric
  <2>4. pass' \in [Pass -> PassForm]
    BY <2>3 DEF Turn, MacroInv, MacroTypeOK, PassForm
  <2>5. pass'[p] = rec /\ \A q \in Pass : q # p => pass'[q] = pass[q]
    BY <2>3 DEF Turn, MacroInv, MacroTypeOK
  <2>6. MacroTypeOK'
    BY <2>1, <2>2, <2>4 DEF MacroInv, MacroTypeOK, PassForm, HasActual
  <2> QED BY <2>1, <2>2, <2>5, <2>6 DEF MacroInv, MetricsFollow, RowExists, HasActual
<1> QED
  BY <1>a, <1>1, <1>2, <1>3, <1>4, <1>5, <1>6, <1>7, <1>8 DEF MacroNext, ActualIsFinal

\* The invariant holds throughout.
LEMMA MacroInvHolds == MacroSpec => []MacroInv
<1>1. MacroInv /\ [MacroNext]_macroVars => MacroInv'
  BY MacroStep
<1> QED BY MacroInitInv, <1>1, PTL DEF MacroSpec

\* Types; only a completed release has an Actual, and no component reading of a release
\* is stored before its Actual, whichever passes overlap.
THEOREM MacroTypes == MacroSpec => []MacroTypeOK
<1>1. MacroInv => MacroTypeOK
  BY DEF MacroInv
<1> QED BY MacroInvHolds, <1>1, PTL

\* A stored official Actual is never replaced, and its release never reads as missing
\* again, whatever the passes that read the source earlier still write.
THEOREM ActualStays == MacroSpec => ActualIsFinal
<1>1. MacroInv /\ [MacroNext]_macroVars =>
        [HasActual => release'.actual = release.actual /\ release'.status = "completed"]_macroVars
  BY MacroStep
<1> QED BY MacroInvHolds, <1>1, PTL DEF MacroSpec, ActualIsFinal
=============================================================================
