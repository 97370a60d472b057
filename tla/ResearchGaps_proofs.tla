-------------------------- MODULE ResearchGaps_proofs --------------------------
(* Proofs about ResearchGaps, for any number of invocations, Dossiers,             *)
(* discriminators and claims.                                                      *)
EXTENDS ResearchGaps, TLAPS

CaseStatus == {"QUEUED", "CLAIMED", "RESEARCHING", "COMPLETED", "HANDED_OFF", "CLOSED"}
CaseRow ==
  [status: CaseStatus, dossier: GapDossier, need: Lifecycle, token: 0..MaxAttempts,
   lapsed: BOOLEAN, attempts: 0..MaxAttempts, plan: Plan \cup {NoPlan},
   verdict: Verdict \cup {NoVerdict}, runKey: PlanId \cup {NoId}]
Occurrence == [dossier: GapDossier, life: Lifecycle]
Answer == [need: Lifecycle, life: Lifecycle]

Upserts == [pc: {"upsert"}, dossier: GapDossier, life: Lifecycle]
Moves == [pc: {"move"}, dossier: GapDossier, life: Lifecycle, move: {"requeue", "close"},
          from: {"HANDED_OFF", "CLOSED"}]
Holds == [pc: {"claimed", "searching"}, token: 1..MaxAttempts, id: PlanId]
HandsOff == [pc: {"await", "mark"}, id: PlanId, outcome: GapOutcome]

HeldStatus == {"CLAIMED", "RESEARCHING"}
DoneStatus == {"COMPLETED", "HANDED_OFF"}

\* The columns that go with each status, and an occurrence for the Dossier of the row.
CaseGood(row, list) ==
  /\ row \in CaseRow
  /\ \E o \in ToSet(list) : o.dossier = row.dossier
  /\ (row.token # 0) = (row.status \in HeldStatus)
  /\ row.status \in {"RESEARCHING", "COMPLETED", "HANDED_OFF"} => row.plan # NoPlan
  /\ row.status \in DoneStatus => row.verdict # NoVerdict
  /\ row.status = "HANDED_OFF" => row.runKey # NoId

Holding(a) == job[a].pc \in {"claimed", "searching"}

\* Tokens are drawn once, and whoever searches under the token of the row searches on
\* the plan of the row.
Fenced ==
  /\ \A a \in GapActor : Holding(a) => gap.status # "ABSENT" /\ job[a].token <= gap.attempts
  /\ \A a, b \in GapActor : Holding(a) /\ Holding(b) /\ job[a].token = job[b].token => a = b
  /\ \A a \in GapActor :
       job[a].pc = "searching" /\ gap.status \in HeldStatus /\ gap.token = job[a].token
         => gap.plan.id = job[a].id

\* The inductive invariant.
GapInv == GapTypeOK /\ Fenced /\ VerdictOfItsPlan

\* A live claim loses neither its token nor its plan to others.
KeepsLive ==
  \A a \in GapActor :
    (job[a].pc \in {"claimed", "searching"} /\ Owns(a) /\ job'[a] = job[a])
      => gap'.token = gap.token /\ gap'.plan = gap.plan

-----------------------------------------------------------------------------

\* What the place of an invocation says of its record.
LEMMA JobForm ==
  ASSUME GapTypeOK, NEW a \in GapActor
  PROVE  /\ job[a] \in Job
         /\ job[a].pc = "upsert" => job[a] \in Upserts
         /\ job[a].pc = "move" => job[a] \in Moves
         /\ Holding(a) => job[a] \in Holds
         /\ job[a].pc \in {"await", "mark"} => job[a] \in HandsOff
<1>1. job[a] \in Job
  BY DEF GapTypeOK
<1> QED
  BY <1>1 DEF Job, Off, Upserts, Moves, Holds, HandsOff, Holding

\* GapTypeOK in terms of a row and its occurrences.
LEMMA GapTypesNamed ==
  GapTypeOK <=>
    /\ job \in [GapActor -> Job]
    /\ ledger \in [PlanId -> {"open", "running", "completed"}]
    /\ dossiers \in Seq(Signature \cup {"none"}) /\ Len(dossiers) <= MaxDossiers
    /\ asked \in Seq(Occurrence)
    /\ \A i, j \in DOMAIN asked : asked[i].dossier = asked[j].dossier => i = j
    /\ admitted \in BOOLEAN /\ answered \subseteq Answer
    /\ (gap.status = "ABSENT" /\ asked = <<>>) \/ CaseGood(gap, asked)
BY DEF GapTypeOK, CaseGood, CaseRow, CaseStatus, Occurrence, Answer, Claimed, Finished, HeldStatus,
       DoneStatus

\* At the start there is neither case nor invocation.
LEMMA GapInitInv == GapInit => GapInv
<1> SUFFICES ASSUME GapInit PROVE GapInv
  OBVIOUS
<1>1. GapTypeOK
  <2>1. Off \in Job
    BY DEF Job
  <2>2. <<>> \in Seq(Signature \cup {"none"}) /\ <<>> \in Seq(Occurrence) /\ Len(<<>>) = 0
    OBVIOUS
  <2>3. MaxDossiers \in Nat
    BY GapAssumption
  <2>4. job \in [GapActor -> Job] /\ ledger \in [PlanId -> {"open", "running", "completed"}]
    BY <2>1 DEF GapInit
  <2>5. \A i, j \in DOMAIN asked : asked[i].dossier = asked[j].dossier => i = j
    BY DEF GapInit
  <2>6. gap.status = "ABSENT" /\ asked = <<>>
    BY DEF GapInit, Absent
  <2>7. dossiers \in Seq(Signature \cup {"none"}) /\ Len(dossiers) <= MaxDossiers
    BY <2>2, <2>3 DEF GapInit
  <2> QED
    BY <2>2, <2>4, <2>5, <2>6, <2>7, GapTypesNamed DEF GapInit
<1>2. Fenced
  BY DEF GapInit, Fenced, Holding, Off
<1>3. VerdictOfItsPlan
  BY DEF GapInit, VerdictOfItsPlan, Finished, Absent
<1> QED
  BY <1>1, <1>2, <1>3 DEF GapInv

\* Steps that leave the row alone: no invocation gets a token.
LEMMA RowKeeps ==
  ASSUME GapInv, gap' = gap, GapTypeOK',
         \A a \in GapActor :
           job'[a].pc \in {"claimed", "searching"} =>
             /\ Holding(a) /\ job'[a].token = job[a].token
             /\ job'[a].pc = "searching" => job'[a] = job[a]
  PROVE  GapInv' /\ KeepsLive
<1>1. Fenced'
  BY DEF GapInv, Fenced, Holding
<1>2. VerdictOfItsPlan'
  BY DEF GapInv, VerdictOfItsPlan, Finished
<1>3. KeepsLive
  BY DEF KeepsLive
<1> QED
  BY <1>1, <1>2, <1>3 DEF GapInv

\* What a holder believes survives a write of the row.
Unharmed(a, row) ==
  Holding(a) =>
    /\ row.status \in HeldStatus /\ row.token = job[a].token =>
         gap.status \in HeldStatus /\ gap.token = row.token /\ row.plan = gap.plan
    /\ Owns(a) => row.token = gap.token /\ row.plan = gap.plan

\* Steps that write the row, by one invocation, which may get or keep a token.
LEMMA RowWritten ==
  ASSUME GapInv, gap'.status # "ABSENT", GapTypeOK',
         gap.status # "ABSENT" => gap.attempts <= gap'.attempts,
         gap'.status \in DoneStatus => gap'.verdict.id = gap'.plan.id,
         NEW M \in SUBSET GapActor, \A a, b \in M : a = b,
         \A a \in GapActor \ M : job'[a] = job[a] /\ Unharmed(a, gap'),
         \A a \in M :
           /\ job'[a].pc \in {"claimed", "searching"} =>
                \/ Holding(a) /\ job'[a].token = job[a].token
                \/ /\ gap.status # "ABSENT" => job'[a].token > gap.attempts
                   /\ job'[a].token <= gap'.attempts
           /\ job'[a].pc = "searching" => gap'.plan.id = job'[a].id
           /\ job'[a] = job[a] => Unharmed(a, gap')
  PROVE  GapInv' /\ KeepsLive
<1>1. \A a \in GapActor : Holding(a) => job[a].token \in Int /\ gap.attempts \in Int
  <2>1. ASSUME NEW a \in GapActor, Holding(a) PROVE job[a].token \in Int
    BY <2>1, JobForm DEF GapInv, Holds
  <2>2. ASSUME NEW a \in GapActor, Holding(a) PROVE gap.attempts \in Int
    BY <2>2, GapTypesNamed DEF GapInv, Fenced, CaseGood, CaseRow
  <2> QED
    BY <2>1, <2>2
<1>2. gap'.attempts \in Int
  BY DEF GapTypeOK
<1>3. \A a \in GapActor : Holding(a) => gap.status # "ABSENT" /\ job[a].token <= gap.attempts
  BY DEF GapInv, Fenced
<1>4. \A a, b \in GapActor : Holding(a) /\ Holding(b) /\ job[a].token = job[b].token => a = b
  BY DEF GapInv, Fenced
<1>5. \A a \in GapActor : Holding(a)' => job'[a].token <= gap'.attempts
  BY <1>1, <1>2, <1>3 DEF Holding
<1>6. ASSUME NEW a \in GapActor, NEW b \in GapActor, Holding(a)', Holding(b)',
             job'[a].token = job'[b].token
      PROVE  a = b
  <2>1. CASE a \in M /\ b \in M
    BY <2>1
  <2>2. CASE a \notin M /\ b \notin M
    BY <1>4, <1>6, <2>2 DEF Holding
  <2>3. CASE a \in M /\ b \notin M
    BY <1>1, <1>3, <1>4, <1>6, <2>3 DEF Holding
  <2>4. CASE a \notin M /\ b \in M
    BY <1>1, <1>3, <1>4, <1>6, <2>4 DEF Holding
  <2> QED
    BY <2>1, <2>2, <2>3, <2>4
<1>7. ASSUME NEW a \in GapActor, job'[a].pc = "searching", gap'.status \in HeldStatus,
             gap'.token = job'[a].token
      PROVE  gap'.plan.id = job'[a].id
  <2>1. CASE a \in M
    BY <1>7, <2>1
  <2>2. CASE a \notin M
    BY <1>7, <2>2 DEF Unharmed, Holding, GapInv, Fenced
  <2> QED
    BY <2>1, <2>2
<1>8. Fenced'
  BY <1>5, <1>6, <1>7 DEF Fenced, Holding
<1>9. VerdictOfItsPlan'
  BY DEF VerdictOfItsPlan, Finished, DoneStatus
<1>10. KeepsLive
  BY DEF KeepsLive, Unharmed, Holding
<1> QED
  BY <1>8, <1>9, <1>10 DEF GapInv

-----------------------------------------------------------------------------
(* Steps that leave the row alone. *)

\* An invocation goes on, with no token it did not have.
LEMMA BecomeKeeps ==
  ASSUME GapInv, NEW a \in GapActor, NEW rec \in Job, Become(a, rec),
         UNCHANGED <<gap, asked, dossiers, admitted, answered>>,
         ledger' \in [PlanId -> {"open", "running", "completed"}],
         rec.pc \in {"claimed", "searching"} =>
           rec.pc = "claimed" /\ Holding(a) /\ rec.token = job[a].token
  PROVE  GapInv' /\ KeepsLive
<1>1. job \in [GapActor -> Job]
  BY GapTypesNamed DEF GapInv
<1>2. job' \in [GapActor -> Job] /\ job'[a] = rec /\ \A b \in GapActor : b # a => job'[b] = job[b]
  BY <1>1 DEF Become
<1>3. GapTypeOK'
  BY <1>2 DEF GapInv, GapTypeOK, Claimed, Finished
<1>4. \A b \in GapActor :
        job'[b].pc \in {"claimed", "searching"} =>
          /\ Holding(b) /\ job'[b].token = job[b].token
          /\ job'[b].pc = "searching" => job'[b] = job[b]
  BY <1>2 DEF Holding
<1> QED
  BY <1>3, <1>4, RowKeeps

\* A new Dossier.
LEMMA PersistDossierKeeps ==
  ASSUME GapInv, PersistDossier
  PROVE  GapInv' /\ KeepsLive
<1>1. PICK sig \in Signature \cup {"none"} : dossiers' = Append(dossiers, sig)
  BY DEF PersistDossier
<1>2. /\ dossiers \in Seq(Signature \cup {"none"}) /\ Len(dossiers) < MaxDossiers
      /\ MaxDossiers \in Nat
  BY GapTypesNamed, GapAssumption DEF GapInv, PersistDossier
<1>3. dossiers' \in Seq(Signature \cup {"none"}) /\ Len(dossiers') <= MaxDossiers
  BY <1>1, <1>2
<1>4. UNCHANGED <<gap, asked, job, ledger, admitted, answered>>
  BY DEF PersistDossier
<1>5. GapTypeOK'
  BY <1>3, <1>4 DEF GapInv, GapTypeOK, Claimed, Finished
<1> QED
  BY <1>4, <1>5, RowKeeps DEF Holding

\* The lifecycle of a case that is there.
LEMMA LifeSourceType ==
  ASSUME GapTypeOK, CaseGood(gap, asked)
  PROVE  LifeSource \in Lifecycle
<1>1. asked \in Seq(Occurrence) /\ gap.plan \in Plan \cup {NoPlan}
  BY GapTypesNamed DEF CaseGood, CaseRow
<1>2. gap.plan.life \in Lifecycle
  BY <1>1 DEF Plan, NoPlan, Lifecycle
<1>3. ASSUME NEW i \in DOMAIN asked PROVE asked[i].life \in Lifecycle
  <2>1. asked[i] \in Occurrence
    BY <1>1
  <2> QED
    BY <2>1 DEF Occurrence
<1>4. NoLife \in Lifecycle
  BY DEF Lifecycle
<1> QED
  BY <1>2, <1>3, <1>4 DEF LifeSource

\* What a sync may decide.
LEMMA DecideType ==
  ASSUME GapTypeOK, NEW sig \in Signature \cup {"none"}
  PROVE  /\ Decide(sig).life \in Lifecycle
         /\ \/ Decide(sig).move = "none"
            \/ Decide(sig).move \in {"requeue", "close"} /\ gap.status \in {"HANDED_OFF", "CLOSED"}
<1> DEFINE first == FirstOf(sig)
           prior == LifeSource
<1>1. NoLife \in Lifecycle
  BY DEF Lifecycle
<1>2. CASE sig = "none"
  <2>1. Decide(sig) = [life |-> NoLife, move |-> "none"]
    BY <1>2 DEF Decide
  <2> QED
    BY <1>1, <2>1
<1>3. sig # "none" => first \in Lifecycle
  BY GapAssumption DEF FirstOf, Lifecycle
<1>4. CASE sig # "none" /\ gap.status = "ABSENT"
  BY <1>3, <1>4 DEF Decide
<1>5. CASE sig # "none" /\ gap.status # "ABSENT"
  <2>1. CaseGood(gap, asked)
    BY <1>5, GapTypesNamed
  <2>2. prior \in Lifecycle
    BY <2>1, LifeSourceType
  <2>3. prior # NoLife /\ NextDiscriminator(prior) < Depth =>
          [prior EXCEPT !.index = NextDiscriminator(prior)] \in Lifecycle
    <3> HIDE DEF prior
    <3>1. SUFFICES ASSUME prior # NoLife, NextDiscriminator(prior) < Depth
                   PROVE  [prior EXCEPT !.index = NextDiscriminator(prior)] \in Lifecycle
      OBVIOUS
    <3>2. prior \in [sig: Signature, index: 0..Depth - 1]
      BY <2>2, <3>1 DEF Lifecycle
    <3>3. NextDiscriminator(prior) \in 0..Depth - 1
      BY <3>1, <3>2, GapAssumption DEF NextDiscriminator
    <3> QED
      BY <3>2, <3>3 DEF Lifecycle
  <2>4. QueuedLife(prior, sig) \in Lifecycle
    BY <1>3, <1>5, <2>2 DEF QueuedLife
  <2>5. prior # NoLife => NextDiscriminator(prior) \in Nat /\ Depth \in Nat
    BY <2>2, GapAssumption DEF Lifecycle, NextDiscriminator
  <2> HIDE DEF first, prior
  <2>6. CASE gap.status = "HANDED_OFF"
    BY <1>3, <1>5, <2>2, <2>3, <2>5, <2>6 DEF Decide, first, prior
  <2>7. CASE gap.status = "CLOSED"
    BY <1>3, <1>5, <2>2, <2>7 DEF Decide, first, prior
  <2>8. CASE gap.status \notin {"HANDED_OFF", "CLOSED"}
    BY <1>5, <2>2, <2>4, <2>8 DEF Decide, first, prior
  <2> QED
    BY <2>6, <2>7, <2>8
<1> QED
  BY <1>2, <1>4, <1>5

\* A sync decides.
LEMMA SyncReadKeeps ==
  ASSUME GapInv, NEW a \in GapActor, SyncRead(a)
  PROVE  GapInv' /\ KeepsLive
<1> DEFINE sig == Last(dossiers)
           d == Decide(sig)
           stay == Upserting(Len(dossiers), d.life)
           move == [pc |-> "move", dossier |-> Len(dossiers), life |-> d.life,
                    move |-> d.move, from |-> gap.status]
<1>1. /\ UNCHANGED <<gap, asked, dossiers, ledger, admitted, answered>>
      /\ IF d.move = "none" THEN Become(a, stay) ELSE Become(a, move)
  BY DEF SyncRead
<1>2. /\ dossiers \in Seq(Signature \cup {"none"}) /\ dossiers # <<>>
      /\ Len(dossiers) <= MaxDossiers /\ MaxDossiers \in Nat
      /\ ledger' \in [PlanId -> {"open", "running", "completed"}]
  BY <1>1, GapTypesNamed, GapAssumption DEF GapInv, SyncRead
<1>3. sig \in Signature \cup {"none"} /\ Len(dossiers) \in GapDossier
  BY <1>2 DEF Last, GapDossier
<1> HIDE DEF sig
<1>4. /\ d.life \in Lifecycle
      /\ \/ d.move = "none"
         \/ d.move \in {"requeue", "close"} /\ gap.status \in {"HANDED_OFF", "CLOSED"}
  BY <1>3, DecideType DEF GapInv
<1> HIDE DEF d
<1>5. CASE Become(a, stay) /\ d.move = "none"
  <2>1. stay \in Job /\ stay.pc = "upsert"
    BY <1>3, <1>4 DEF Upserting, Job
  <2> QED
    BY <1>1, <1>2, <1>5, <2>1, BecomeKeeps
<1>6. CASE Become(a, move) /\ d.move # "none"
  <2>1. move \in Job /\ move.pc = "move"
    BY <1>3, <1>4, <1>6 DEF Job
  <2> QED
    BY <1>1, <1>2, <1>6, <2>1, BecomeKeeps
<1> QED
  BY <1>1, <1>5, <1>6

\* The execution route reads its claim again.
LEMMA ReloadCaseKeeps ==
  ASSUME GapInv, NEW a \in GapActor, ReloadCase(a)
  PROVE  GapInv' /\ KeepsLive
<1> DEFINE id == [dossier |-> gap.dossier, need |-> gap.need]
           rec == [job[a] EXCEPT !.id = id]
<1>1. job[a].pc = "claimed" /\ job[a] \in Holds /\ Holding(a)
  BY JobForm DEF GapInv, ReloadCase, Busy, Holding
<1>2. CaseGood(gap, asked)
  BY GapTypesNamed DEF GapInv, ReloadCase
<1>3. id \in PlanId
  BY <1>2 DEF CaseGood, CaseRow, PlanId
<1> HIDE DEF id
<1>4. rec \in Holds /\ rec.pc = "claimed" /\ rec.token = job[a].token
  BY <1>1, <1>3 DEF Holds
<1>5. Become(a, rec) /\ UNCHANGED <<gap, asked, dossiers, ledger, admitted, answered>>
  BY DEF ReloadCase, id
<1>6. ledger' \in [PlanId -> {"open", "running", "completed"}]
  BY <1>5, GapTypesNamed DEF GapInv
<1>7. rec \in Job
  BY <1>4 DEF Job, Holds
<1> HIDE DEF rec
<1> QED
  BY <1>1, <1>4, <1>5, <1>6, <1>7, BecomeKeeps

\* The run of a finished case is posted.
LEMMA PostRunKeeps ==
  ASSUME GapInv, NEW a \in GapActor, PostRun(a)
  PROVE  GapInv' /\ KeepsLive
<1> DEFINE key == gap.plan.id
           waiting(pc) == [pc |-> pc, id |-> key, outcome |-> gap.verdict.outcome]
<1>1. gap.status \in DoneStatus /\ CaseGood(gap, asked)
  BY GapTypesNamed DEF PostRun, Finished, DoneStatus, GapInv
<1>2. key \in PlanId /\ gap.verdict.outcome \in GapOutcome
  <2>1. gap.plan \in Plan /\ gap.verdict \in Verdict
    BY <1>1 DEF CaseGood, CaseRow, DoneStatus
  <2> QED
    BY <2>1 DEF Plan, Verdict
<1>3. \A pc \in {"await", "mark"} : waiting(pc) \in Job /\ waiting(pc).pc = pc
  BY <1>2 DEF Job
<1>4. ledger \in [PlanId -> {"open", "running", "completed"}]
  BY GapTypesNamed DEF GapInv
<1>5. /\ UNCHANGED <<gap, asked, dossiers, admitted, answered>>
      /\ \/ Become(a, waiting("mark")) /\ ledger' = ledger
         \/ Become(a, waiting("await")) /\ ledger' = [ledger EXCEPT ![key] = "running"]
  BY DEF PostRun
<1>6. ledger' \in [PlanId -> {"open", "running", "completed"}]
  BY <1>4, <1>5
<1> HIDE DEF waiting, key
<1>7. \E pc \in {"await", "mark"} : Become(a, waiting(pc))
  BY <1>5
<1> QED
  BY <1>3, <1>5, <1>6, <1>7, BecomeKeeps

\* An invocation that has nothing in hand but the case's name, or nothing at all.
LEMMA LightKeeps ==
  ASSUME GapInv, NEW a \in GapActor, FindSuperseded(a) \/ GapKilled(a)
  PROVE  GapInv' /\ KeepsLive
<1>1. /\ Become(a, Off) \/ Become(a, [pc |-> "superseded"])
      /\ UNCHANGED <<gap, asked, dossiers, ledger, admitted, answered>>
  BY DEF FindSuperseded, GapKilled
<1>2. Off \in Job /\ [pc |-> "superseded"] \in Job /\ Off.pc = "off"
  BY DEF Job, Off
<1>3. ledger' \in [PlanId -> {"open", "running", "completed"}]
  BY <1>1, GapTypesNamed DEF GapInv
<1> QED
  BY <1>1, <1>2, <1>3, BecomeKeeps

\* A handoff run ends and answers those who wait.
LEMMA HandoffRunEndsKeeps ==
  ASSUME GapInv, HandoffRunEnds
  PROVE  GapInv' /\ KeepsLive
<1>1. PICK key \in PlanId, end \in {"completed", "blocked", "failed"} :
        /\ ledger' = [ledger EXCEPT ![key] = IF end = "completed" THEN end ELSE "open"]
        /\ \E some \in BOOLEAN : admitted' = (admitted \/ some)
        /\ job' = [a \in GapActor |->
                     IF ~(Busy(a, "await") /\ job[a].id = key) THEN job[a]
                     ELSE IF end = "failed" THEN Off ELSE [job[a] EXCEPT !.pc = "mark"]]
        /\ UNCHANGED <<gap, asked, dossiers, answered>>
  BY DEF HandoffRunEnds
<1>2. /\ ledger \in [PlanId -> {"open", "running", "completed"}] /\ admitted \in BOOLEAN
      /\ job \in [GapActor -> Job]
  BY GapTypesNamed DEF GapInv
<1>3. ASSUME NEW a \in GapActor
      PROVE  job'[a] \in Job /\ (job'[a] = job[a] \/ job'[a].pc \in {"off", "mark"})
  <2>1. CASE ~(Busy(a, "await") /\ job[a].id = key)
    BY <1>1, <1>2, <2>1
  <2>2. CASE Busy(a, "await") /\ job[a].id = key
    <3>1. job[a] \in HandsOff
      BY <2>2, JobForm DEF Busy, GapInv
    <3>2. /\ [job[a] EXCEPT !.pc = "mark"] \in HandsOff
          /\ [job[a] EXCEPT !.pc = "mark"].pc = "mark"
      BY <3>1 DEF HandsOff
    <3>3. job'[a] = Off \/ job'[a] = [job[a] EXCEPT !.pc = "mark"]
      BY <1>1, <2>2
    <3>4. Off.pc = "off" /\ Off \in Job /\ HandsOff \subseteq Job
      BY DEF Off, Job, HandsOff
    <3> QED
      BY <3>2, <3>3, <3>4
  <2> QED
    BY <2>1, <2>2
<1>4. /\ job' \in [GapActor -> Job] /\ ledger' \in [PlanId -> {"open", "running", "completed"}]
      /\ admitted' \in BOOLEAN
  BY <1>1, <1>2, <1>3
<1>5. GapTypeOK'
  BY <1>1, <1>4 DEF GapInv, GapTypeOK, Claimed, Finished
<1>6. \A a \in GapActor :
        job'[a].pc \in {"claimed", "searching"} =>
          /\ Holding(a) /\ job'[a].token = job[a].token
          /\ job'[a].pc = "searching" => job'[a] = job[a]
  BY <1>3 DEF Holding
<1> QED
  BY <1>1, <1>5, <1>6, RowKeeps

-----------------------------------------------------------------------------
(* Steps that write the row. *)

\* GapTypesNamed for the state after a step.
LEMMA TypesNext ==
  ASSUME job' \in [GapActor -> Job], ledger' \in [PlanId -> {"open", "running", "completed"}],
         dossiers' \in Seq(Signature \cup {"none"}), Len(dossiers') <= MaxDossiers,
         asked' \in Seq(Occurrence),
         \A i, j \in DOMAIN asked' : asked'[i].dossier = asked'[j].dossier => i = j,
         admitted' \in BOOLEAN, answered' \subseteq Answer,
         CaseGood(gap', asked')
  PROVE  GapTypeOK'
BY DEF GapTypeOK, CaseGood, CaseRow, CaseStatus, Occurrence, Answer, Claimed, Finished, HeldStatus,
       DoneStatus

\* An invocation writes a case that is there.
LEMMA CaseWritten ==
  ASSUME GapInv, gap.status # "ABSENT", NEW row, gap' = row, CaseGood(row, asked),
         UNCHANGED <<asked, dossiers, ledger, admitted>>, answered' \subseteq Answer,
         gap.attempts <= row.attempts,
         row.status \in DoneStatus => row.verdict.id = row.plan.id,
         NEW a \in GapActor, NEW rec \in Job, Become(a, rec),
         \A b \in GapActor : b # a => Unharmed(b, row),
         rec = job[a] => Unharmed(a, row),
         rec.pc \in {"claimed", "searching"} =>
           \/ Holding(a) /\ rec.token = job[a].token
           \/ rec.token > gap.attempts /\ rec.token <= row.attempts,
         rec.pc = "searching" => row.plan.id = rec.id
  PROVE  GapInv' /\ KeepsLive
<1>1. /\ job \in [GapActor -> Job] /\ ledger \in [PlanId -> {"open", "running", "completed"}]
      /\ dossiers \in Seq(Signature \cup {"none"}) /\ Len(dossiers) <= MaxDossiers
      /\ asked \in Seq(Occurrence) /\ admitted \in BOOLEAN
      /\ \A i, j \in DOMAIN asked : asked[i].dossier = asked[j].dossier => i = j
  BY GapTypesNamed DEF GapInv
<1>2. job' \in [GapActor -> Job] /\ job'[a] = rec /\ \A b \in GapActor : b # a => job'[b] = job[b]
  BY <1>1 DEF Become
<1>3. GapTypeOK'
  BY <1>1, <1>2, TypesNext
<1>4. gap'.status # "ABSENT"
  BY DEF CaseGood, CaseRow, CaseStatus
<1> DEFINE M == {a}
<1>5. M \in SUBSET GapActor /\ \A b, c \in M : b = c
  OBVIOUS
<1>6. \A b \in GapActor \ M : job'[b] = job[b] /\ Unharmed(b, gap')
  BY <1>2
<1>7. \A b \in M :
        /\ job'[b].pc \in {"claimed", "searching"} =>
             \/ Holding(b) /\ job'[b].token = job[b].token
             \/ /\ gap.status # "ABSENT" => job'[b].token > gap.attempts
                /\ job'[b].token <= gap'.attempts
        /\ job'[b].pc = "searching" => gap'.plan.id = job'[b].id
        /\ job'[b] = job[b] => Unharmed(b, gap')
  BY <1>2
<1> HIDE DEF M
<1> QED
  BY <1>3, <1>4, <1>5, <1>6, <1>7, RowWritten

\* An invocation that ends with its write.
LEMMA CaseWrittenLast ==
  ASSUME GapInv, gap.status # "ABSENT", NEW row, gap' = row, CaseGood(row, asked),
         UNCHANGED <<asked, dossiers, ledger, admitted>>, answered' \subseteq Answer,
         gap.attempts <= row.attempts,
         row.status \in DoneStatus => row.verdict.id = row.plan.id,
         NEW a \in GapActor, job[a] # Off, Become(a, Off),
         \A b \in GapActor : b # a => Unharmed(b, row)
  PROVE  GapInv' /\ KeepsLive
<1>1. Off \in Job /\ Off.pc = "off"
  BY DEF Off, Job
<1> QED
  BY <1>1, CaseWritten

\* An invocation that ends and writes nothing.
LEMMA EndKeeps ==
  ASSUME GapInv, NEW a \in GapActor, Become(a, Off),
         UNCHANGED <<gap, asked, dossiers, ledger, admitted, answered>>
  PROVE  GapInv' /\ KeepsLive
<1>1. Off \in Job /\ Off.pc = "off"
  BY DEF Off, Job
<1>2. ledger' \in [PlanId -> {"open", "running", "completed"}]
  BY GapTypesNamed DEF GapInv
<1> QED
  BY <1>1, <1>2, BecomeKeeps

\* The columns of the row that go back to the queue.
LEMMA ClearedGood ==
  ASSUME NEW row \in CaseRow, NEW list, \E o \in ToSet(list) : o.dossier = row.dossier
  PROVE  /\ CaseGood(Cleared(row), list) /\ Cleared(row).status = "QUEUED"
         /\ Cleared(row).attempts = row.attempts
<1>1. 0 \in 0..MaxAttempts /\ "QUEUED" \in CaseStatus
  BY GapAssumption DEF CaseStatus
<1>2. /\ Cleared(row) \in CaseRow /\ Cleared(row).status = "QUEUED" /\ Cleared(row).token = 0
      /\ Cleared(row).dossier = row.dossier /\ Cleared(row).attempts = row.attempts
  BY <1>1 DEF Cleared, CaseRow
<1> QED
  BY <1>2 DEF CaseGood, HeldStatus, DoneStatus

\* What a row that nobody holds says of the holders.
LEMMA Unheld ==
  ASSUME NEW a \in GapActor, NEW row, gap.status \notin HeldStatus, row.status \notin HeldStatus
  PROVE  Unharmed(a, row)
BY DEF Unharmed, Owns, Claimed, HeldStatus

\* A sync moves the row.
LEMMA TransitionKeeps ==
  ASSUME GapInv, NEW a \in GapActor, Transition(a)
  PROVE  GapInv' /\ KeepsLive
<1>1. job[a] \in Moves /\ job[a].pc = "move"
  BY JobForm DEF GapInv, Transition, Busy
<1>2. CASE ~Unmoved(a)
  <2>1. Become(a, Off) /\ UNCHANGED <<gap, asked, dossiers, ledger, admitted, answered>>
    BY <1>2 DEF Transition
  <2> QED
    BY <2>1, EndKeeps
<1>3. CASE Unmoved(a)
  <2> DEFINE rec == Upserting(job[a].dossier, job[a].life)
             shut == [gap EXCEPT !.status = "CLOSED", !.token = 0, !.lapsed = FALSE]
  <2>1. /\ gap' = Cleared(gap) \/ gap' = shut
        /\ Become(a, rec) /\ UNCHANGED <<asked, dossiers, ledger, admitted, answered>>
    BY <1>3 DEF Transition
  <2>2. gap.status \in {"HANDED_OFF", "CLOSED"} /\ gap.status \notin HeldStatus
    BY <1>1, <1>3 DEF Moves, Unmoved, HeldStatus
  <2>3. CaseGood(gap, asked) /\ answered \subseteq Answer
    BY <2>2, GapTypesNamed DEF GapInv
  <2>4. rec \in Job /\ rec.pc = "upsert" /\ rec # job[a]
    BY <1>1 DEF Upserting, Moves, Job
  <2>5. gap \in CaseRow /\ \E o \in ToSet(asked) : o.dossier = gap.dossier
    BY <2>3 DEF CaseGood
  <2>6. CaseGood(Cleared(gap), asked) /\ Cleared(gap).status = "QUEUED"
        /\ Cleared(gap).attempts = gap.attempts
    BY <2>5, ClearedGood
  <2>7. shut.status = "CLOSED" /\ shut.attempts = gap.attempts /\ CaseGood(shut, asked)
    <3>1. 0 \in 0..MaxAttempts /\ "CLOSED" \in CaseStatus
      BY GapAssumption DEF CaseStatus
    <3>2. shut \in CaseRow /\ shut.status = "CLOSED" /\ shut.attempts = gap.attempts
          /\ shut.token = 0 /\ shut.dossier = gap.dossier
      BY <2>5, <3>1 DEF CaseRow
    <3> HIDE DEF shut
    <3> QED
      BY <2>5, <3>2 DEF CaseGood, HeldStatus, DoneStatus
  <2> HIDE DEF rec, shut
  <2>8. /\ CaseGood(gap', asked) /\ gap'.attempts = gap.attempts
        /\ gap'.status \notin HeldStatus /\ gap'.status \notin DoneStatus
    BY <2>1, <2>6, <2>7 DEF HeldStatus, DoneStatus
  <2>9. gap.attempts \in Int
    BY <2>5 DEF CaseRow
  <2>10. \A b \in GapActor : Unharmed(b, gap')
    BY <2>2, <2>8, Unheld
  <2>11. answered' \subseteq Answer /\ gap.attempts <= gap'.attempts
    BY <2>1, <2>3, <2>8, <2>9
  <2> QED
    BY <2>1, <2>2, <2>4, <2>8, <2>10, <2>11, CaseWritten
<1> QED
  BY <1>2, <1>3

\* A sync records its Dossier.
LEMMA UpsertKeeps ==
  ASSUME GapInv, NEW a \in GapActor, Upsert(a)
  PROVE  GapInv' /\ KeepsLive
<1> DEFINE d == job[a].dossier
           life == job[a].life
           kept == [gap EXCEPT !.dossier = d, !.need = life]
           new == [dossier |-> d, life |-> life]
<1>1. /\ job[a] \in Upserts /\ job[a].pc = "upsert" /\ job[a] # Off /\ Off \in Job
      /\ Off.pc = "off"
  BY JobForm DEF GapInv, Upsert, Busy, Off, Job
<1>2. d \in GapDossier /\ life \in Lifecycle /\ new \in Occurrence
  BY <1>1 DEF Upserts, Occurrence
<1>3. /\ job \in [GapActor -> Job] /\ ledger \in [PlanId -> {"open", "running", "completed"}]
      /\ dossiers \in Seq(Signature \cup {"none"}) /\ Len(dossiers) <= MaxDossiers
      /\ asked \in Seq(Occurrence) /\ admitted \in BOOLEAN /\ answered \subseteq Answer
      /\ \A i, j \in DOMAIN asked : asked[i].dossier = asked[j].dossier => i = j
  BY GapTypesNamed DEF GapInv
<1>4. /\ UNCHANGED <<dossiers, ledger, admitted, answered>> /\ Become(a, Off)
      /\ asked' = IF Listed(d) THEN asked ELSE Append(asked, new)
      /\ IF gap.status = "ABSENT" THEN gap' = FreshCase(d, life)
         ELSE \E due \in BOOLEAN : gap' = IF due /\ MayRecover(d) THEN Cleared(kept) ELSE kept
  BY DEF Upsert
<1>5. /\ asked' \in Seq(Occurrence)
      /\ \A i, j \in DOMAIN asked' : asked'[i].dossier = asked'[j].dossier => i = j
      /\ \E o \in ToSet(asked') : o.dossier = d
  <2>1. CASE Listed(d)
    BY <1>3, <1>4, <2>1 DEF Listed
  <2>2. CASE ~Listed(d)
    <3> HIDE DEF new
    <3>1. asked' = Append(asked, new) /\ new.dossier = d
      BY <1>4, <2>2 DEF new
    <3>2. \A i \in DOMAIN asked : asked[i].dossier # d
      BY <2>2 DEF Listed, ToSet
    <3>3. /\ DOMAIN asked = 1..Len(asked) /\ Len(asked) \in Nat
          /\ asked' \in Seq(Occurrence) /\ DOMAIN asked' = 1..Len(asked) + 1
          /\ asked'[Len(asked) + 1] = new /\ \A i \in 1..Len(asked) : asked'[i] = asked[i]
      BY <1>2, <1>3, <3>1
    <3>4. ASSUME NEW i \in DOMAIN asked', NEW j \in DOMAIN asked',
                 asked'[i].dossier = asked'[j].dossier
          PROVE  i = j
      BY <1>3, <3>1, <3>2, <3>3, <3>4
    <3>5. new \in ToSet(asked')
      BY <3>3 DEF ToSet
    <3> QED
      BY <3>1, <3>3, <3>4, <3>5
  <2> QED
    BY <2>1, <2>2
<1> HIDE DEF new, d, life
<1>6. /\ CaseGood(gap', asked')
      /\ gap.status # "ABSENT" => gap.attempts <= gap'.attempts
      /\ gap'.status \in DoneStatus => gap'.verdict.id = gap'.plan.id
      /\ \A b \in GapActor : b # a => Unharmed(b, gap')
  <2>1. CASE gap.status = "ABSENT"
    <3>1. FreshCase(d, life) \in CaseRow
      <4>1. 0 \in 0..MaxAttempts /\ "QUEUED" \in CaseStatus /\ FALSE \in BOOLEAN
        BY GapAssumption DEF CaseStatus
      <4> QED
        BY <1>2, <4>1 DEF FreshCase, CaseRow
    <3>2. /\ gap'.status = "QUEUED" /\ gap'.token = 0 /\ gap'.dossier = d
          /\ gap' = FreshCase(d, life)
      BY <1>4, <2>1 DEF FreshCase
    <3>3. CaseGood(gap', asked')
      BY <1>5, <3>1, <3>2 DEF CaseGood, HeldStatus, DoneStatus
    <3>4. \A b \in GapActor : Unharmed(b, gap')
      BY <2>1, <3>2, Unheld DEF HeldStatus
    <3> QED
      BY <2>1, <3>2, <3>3, <3>4 DEF DoneStatus
  <2>2. CASE gap.status # "ABSENT"
    <3>1. CaseGood(gap, asked) /\ gap \in CaseRow
      BY <2>2, GapTypesNamed DEF GapInv, CaseGood
    <3>2. /\ kept \in CaseRow /\ kept.dossier = d /\ kept.status = gap.status
          /\ kept.token = gap.token /\ kept.plan = gap.plan /\ kept.verdict = gap.verdict
          /\ kept.runKey = gap.runKey /\ kept.attempts = gap.attempts
      BY <1>2, <3>1 DEF CaseRow
    <3> HIDE DEF kept
    <3>3. gap.attempts \in Int
      BY <3>1 DEF CaseRow
    <3>4. CASE gap' = kept
      <4>1. CaseGood(kept, asked')
        BY <1>5, <3>1, <3>2 DEF CaseGood
      <4>2. \A b \in GapActor : Unharmed(b, kept)
        BY <3>2 DEF Unharmed
      <4>3. kept.status \in DoneStatus => kept.verdict.id = kept.plan.id
        BY <3>2 DEF GapInv, VerdictOfItsPlan, Finished, DoneStatus
      <4> QED
        BY <3>2, <3>3, <3>4, <4>1, <4>2, <4>3
    <3>5. CASE gap' = Cleared(kept) /\ MayRecover(d)
      <4>1. gap.status \notin HeldStatus
        BY <3>5 DEF MayRecover, Finished, HeldStatus
      <4>2. /\ CaseGood(Cleared(kept), asked') /\ Cleared(kept).status = "QUEUED"
            /\ Cleared(kept).attempts = gap.attempts
        BY <1>5, <3>2, ClearedGood
      <4>3. gap'.status = "QUEUED" /\ gap'.attempts = gap.attempts /\ CaseGood(gap', asked')
        BY <3>5, <4>2
      <4>4. \A b \in GapActor : Unharmed(b, gap')
        BY <4>1, <4>3, Unheld DEF HeldStatus
      <4> QED
        BY <3>3, <4>3, <4>4 DEF DoneStatus
    <3> QED
      BY <1>4, <2>2, <3>4, <3>5 DEF kept
  <2> QED
    BY <2>1, <2>2
<1>7. /\ job' \in [GapActor -> Job] /\ job'[a] = Off
      /\ \A b \in GapActor : b # a => job'[b] = job[b]
  BY <1>1, <1>3, <1>4 DEF Become
<1>8. GapTypeOK'
  BY <1>3, <1>4, <1>5, <1>6, <1>7, TypesNext
<1>9. gap'.status # "ABSENT"
  BY <1>6 DEF CaseGood, CaseRow, CaseStatus
<1> DEFINE M == {a}
<1>10. /\ M \in SUBSET GapActor /\ \A b, c \in M : b = c
       /\ \A b \in GapActor \ M : job'[b] = job[b] /\ Unharmed(b, gap')
       /\ \A b \in M : job'[b].pc = "off" /\ job'[b] # job[b]
  BY <1>1, <1>6, <1>7
<1> HIDE DEF M
<1> QED
  BY <1>6, <1>8, <1>9, <1>10, RowWritten

\* The case is claimed, with a token nobody had.
LEMMA ClaimCaseKeeps ==
  ASSUME GapInv, NEW a \in GapActor, ClaimCase(a)
  PROVE  GapInv' /\ KeepsLive
<1> DEFINE row == [gap EXCEPT !.status = "CLAIMED", !.token = gap.attempts + 1, !.lapsed = FALSE,
                              !.attempts = @ + 1]
           rec == [pc |-> "claimed", token |-> gap.attempts + 1,
                   id |-> [dossier |-> gap.dossier, need |-> gap.need]]
<1>1. /\ gap' = row /\ Become(a, rec) /\ UNCHANGED <<asked, dossiers, ledger, admitted, answered>>
      /\ GapClaimable /\ gap.attempts < MaxAttempts /\ job[a].pc = "off"
  BY DEF ClaimCase, Busy
<1>2. gap.status # "ABSENT"
  BY <1>1 DEF GapClaimable, Claimed
<1>3. CaseGood(gap, asked) /\ gap \in CaseRow /\ answered \subseteq Answer
  BY <1>2, GapTypesNamed DEF GapInv, CaseGood
<1>4. /\ gap.attempts \in 0..MaxAttempts /\ gap.dossier \in GapDossier /\ gap.need \in Lifecycle
      /\ MaxAttempts \in Nat
  BY <1>3, GapAssumption DEF CaseRow
<1>5. gap.attempts + 1 \in 1..MaxAttempts /\ gap.attempts + 1 \in 0..MaxAttempts
  BY <1>1, <1>4
<1>6. rec \in Job /\ rec.pc = "claimed" /\ rec.token = gap.attempts + 1
  BY <1>4, <1>5 DEF Job, PlanId
<1>7. /\ row \in CaseRow /\ row.status = "CLAIMED" /\ row.token = gap.attempts + 1
      /\ row.attempts = gap.attempts + 1 /\ row.dossier = gap.dossier
  BY <1>3, <1>5 DEF CaseRow, CaseStatus
<1> HIDE DEF row, rec
<1>8. CaseGood(row, asked)
  BY <1>3, <1>4, <1>7 DEF CaseGood, HeldStatus, DoneStatus
<1>9. ASSUME NEW b \in GapActor, b # a PROVE Unharmed(b, row)
  <2>1. SUFFICES ASSUME Holding(b) PROVE Unharmed(b, row)
    BY DEF Unharmed
  <2>2. job[b].token \in Int /\ job[b].token <= gap.attempts
    BY <2>1, JobForm DEF GapInv, Fenced, Holds
  <2>3. row.token # job[b].token
    BY <1>4, <1>7, <2>2
  <2>4. ~Owns(b)
    BY <1>1 DEF Owns, GapClaimable, Claimed
  <2> QED
    BY <2>3, <2>4 DEF Unharmed
<1>10. rec # job[a]
  BY <1>1, <1>6
<1>11. /\ gap.attempts <= row.attempts /\ row.status \notin DoneStatus
       /\ rec.token > gap.attempts /\ rec.token <= row.attempts /\ rec.pc # "searching"
  BY <1>4, <1>6, <1>7 DEF DoneStatus
<1> QED
  BY <1>1, <1>2, <1>3, <1>6, <1>8, <1>9, <1>10, <1>11, CaseWritten

\* An invocation whose token is the token of the row is the only one.
LEMMA HolderAlone ==
  ASSUME GapInv, NEW a \in GapActor, NEW b \in GapActor, b # a, Holding(a), Holding(b)
  PROVE  job[b].token # job[a].token
BY DEF GapInv, Fenced

\* The plan is frozen under a live claim.
LEMMA StartCaseKeeps ==
  ASSUME GapInv, NEW a \in GapActor, StartCase(a)
  PROVE  GapInv' /\ KeepsLive
<1> DEFINE row == [gap EXCEPT !.status = "RESEARCHING", !.plan = PlanOf(job[a].id)]
           rec == [job[a] EXCEPT !.pc = "searching"]
<1>1. /\ gap' = row /\ Become(a, rec) /\ UNCHANGED <<asked, dossiers, ledger, admitted, answered>>
      /\ Owns(a) /\ gap.dossier = job[a].id.dossier /\ job[a].pc = "claimed"
  BY DEF StartCase, Busy
<1>2. job[a] \in Holds /\ Holding(a)
  BY <1>1, JobForm DEF GapInv, Holding
<1>3. gap.status \in HeldStatus /\ gap.token = job[a].token /\ gap.status # "ABSENT"
  BY <1>1 DEF Owns, Claimed, HeldStatus
<1>4. CaseGood(gap, asked) /\ gap \in CaseRow /\ answered \subseteq Answer /\ asked \in Seq(Occurrence)
  BY <1>3, GapTypesNamed DEF GapInv, CaseGood
<1>5. PlanOf(job[a].id) \in Plan /\ PlanOf(job[a].id).id = job[a].id
  <2>1. PICK o \in ToSet(asked) : o.dossier = job[a].id.dossier
    BY <1>1, <1>4 DEF CaseGood
  <2> DEFINE c == CHOOSE p \in ToSet(asked) : p.dossier = job[a].id.dossier
  <2>2. c \in ToSet(asked)
    BY <2>1
  <2>3. c \in Occurrence
    <3> HIDE DEF c
    <3>1. PICK i \in DOMAIN asked : c = asked[i]
      BY <2>2 DEF ToSet
    <3> QED
      BY <1>4, <3>1
  <2>4. PlanOf(job[a].id) = [id |-> job[a].id, life |-> c.life]
    BY DEF PlanOf
  <2> HIDE DEF c
  <2>5. c.life \in Lifecycle /\ job[a].id \in PlanId
    BY <1>2, <2>3 DEF Occurrence, Holds
  <2> QED
    BY <2>4, <2>5 DEF Plan
<1>6. PlanOf(job[a].id) # NoPlan
  BY <1>2, <1>5 DEF NoPlan, NoId, Holds, PlanId, GapDossier
<1>7. /\ row \in CaseRow /\ row.status = "RESEARCHING" /\ row.token = gap.token
      /\ row.dossier = gap.dossier /\ row.attempts = gap.attempts /\ row.plan = PlanOf(job[a].id)
      /\ row.plan # NoPlan
  BY <1>4, <1>5, <1>6 DEF CaseRow, CaseStatus
<1>8. rec \in Job /\ rec.pc = "searching" /\ rec.token = job[a].token /\ rec.id = job[a].id
  BY <1>2 DEF Holds, Job
<1> HIDE DEF row, rec
<1>9. CaseGood(row, asked)
  BY <1>3, <1>4, <1>7 DEF CaseGood, HeldStatus, DoneStatus
<1>10. ASSUME NEW b \in GapActor, b # a PROVE Unharmed(b, row)
  BY <1>2, <1>3, <1>7, <1>10, HolderAlone DEF Unharmed, Owns
<1>11. gap.attempts \in Int
  BY <1>4 DEF CaseRow
<1>12. rec # job[a] /\ row.status \notin DoneStatus /\ row.plan.id = rec.id /\ gap.attempts <= row.attempts
  BY <1>1, <1>5, <1>7, <1>8, <1>11 DEF DoneStatus
<1> QED
  BY <1>1, <1>2, <1>3, <1>4, <1>7, <1>8, <1>9, <1>10, <1>12, CaseWritten

\* The verdict is written under a live claim, on the plan the search had.
LEMMA CompleteCaseKeeps ==
  ASSUME GapInv, NEW a \in GapActor, CompleteCase(a)
  PROVE  GapInv' /\ KeepsLive
<1>1. /\ Become(a, Off) /\ UNCHANGED <<asked, dossiers, ledger, admitted>>
      /\ answered' = answered \cup {[need |-> job[a].id.need, life |-> gap.plan.life]}
      /\ Owns(a) /\ gap.status = "RESEARCHING" /\ job[a].pc = "searching"
  BY DEF CompleteCase, Busy
<1>2. PICK outcome \in GapOutcome, retry \in BOOLEAN :
        gap' = [gap EXCEPT !.status = "COMPLETED", !.token = 0, !.lapsed = FALSE,
                  !.verdict = [id |-> job[a].id, outcome |-> outcome, retry |-> retry,
                               closed |-> Len(dossiers)]]
  BY DEF CompleteCase
<1> DEFINE verdict == [id |-> job[a].id, outcome |-> outcome, retry |-> retry,
                       closed |-> Len(dossiers)]
           row == [gap EXCEPT !.status = "COMPLETED", !.token = 0, !.lapsed = FALSE,
                              !.verdict = verdict]
<1>3. job[a] \in Holds /\ Holding(a) /\ job[a] # Off
  BY <1>1, JobForm DEF GapInv, Holding, Off
<1>4. gap.token = job[a].token /\ gap.plan.id = job[a].id
  BY <1>1 DEF Owns, GapInv, Fenced, HeldStatus
<1>5. /\ CaseGood(gap, asked) /\ gap \in CaseRow /\ answered \subseteq Answer
      /\ dossiers \in Seq(Signature \cup {"none"}) /\ Len(dossiers) <= MaxDossiers
  BY <1>1, GapTypesNamed DEF GapInv, CaseGood
<1>6. job[a].id \in PlanId /\ job[a].id.need \in Lifecycle /\ Len(dossiers) \in 0..MaxDossiers
  BY <1>3, <1>5, GapAssumption DEF Holds, PlanId
<1>7. verdict \in Verdict /\ verdict.id = job[a].id /\ verdict # NoVerdict
  <2>1. verdict \in Verdict /\ verdict.id = job[a].id
    BY <1>6 DEF Verdict
  <2>2. job[a].id.dossier # 0
    BY <1>6 DEF PlanId, GapDossier
  <2> QED
    BY <2>1, <2>2 DEF NoVerdict, NoId
<1> HIDE DEF verdict
<1>8. /\ row \in CaseRow /\ row.status = "COMPLETED" /\ row.token = 0 /\ row.plan = gap.plan
      /\ row.dossier = gap.dossier /\ row.attempts = gap.attempts /\ row.verdict = verdict
  <2>1. 0 \in 0..MaxAttempts /\ "COMPLETED" \in CaseStatus
    BY GapAssumption DEF CaseStatus
  <2> QED
    BY <1>5, <1>7, <2>1 DEF CaseRow
<1>9. gap' = row
  BY <1>2 DEF verdict
<1> HIDE DEF row
<1>10. CaseGood(row, asked)
  BY <1>1, <1>5, <1>7, <1>8 DEF CaseGood, HeldStatus, DoneStatus
<1>11. ASSUME NEW b \in GapActor, b # a PROVE Unharmed(b, row)
  BY <1>3, <1>4, <1>8, <1>11, HolderAlone DEF Unharmed, Owns, HeldStatus
<1>12. answered' \subseteq Answer
  <2>1. gap.plan.life \in Lifecycle
    BY <1>5 DEF CaseRow, Plan, NoPlan, Lifecycle
  <2> QED
    BY <1>1, <1>5, <1>6, <2>1 DEF Answer
<1>13. gap.attempts \in Int
  BY <1>5 DEF CaseRow
<1>14. gap.attempts <= row.attempts /\ row.verdict.id = row.plan.id
  BY <1>4, <1>7, <1>8, <1>13
<1> QED
  BY <1>1, <1>3, <1>9, <1>10, <1>11, <1>12, <1>14, CaseWrittenLast

\* After an error the claim goes back, if it is still there.
LEMMA ReleaseCaseKeeps ==
  ASSUME GapInv, NEW a \in GapActor, ReleaseCase(a)
  PROVE  GapInv' /\ KeepsLive
<1> DEFINE row == [gap EXCEPT !.status = "QUEUED", !.token = 0, !.lapsed = FALSE]
<1>1. /\ Become(a, Off) /\ UNCHANGED <<asked, dossiers, ledger, admitted, answered>>
      /\ gap' = IF Claimed /\ gap.token = job[a].token THEN row ELSE gap
  BY DEF ReleaseCase
<1>2. job[a] # Off /\ Holding(a)
  BY DEF ReleaseCase, Holding, Off
<1>3. CASE Claimed /\ gap.token = job[a].token
  <2>1. gap.status # "ABSENT"
    BY <1>3 DEF Claimed
  <2>2. CaseGood(gap, asked) /\ gap \in CaseRow /\ answered \subseteq Answer
    BY <2>1, GapTypesNamed DEF GapInv, CaseGood
  <2>3. 0 \in 0..MaxAttempts /\ "QUEUED" \in CaseStatus
    BY GapAssumption DEF CaseStatus
  <2>4. /\ row \in CaseRow /\ row.status = "QUEUED" /\ row.token = 0
        /\ row.dossier = gap.dossier /\ row.attempts = gap.attempts
    BY <2>2, <2>3 DEF CaseRow
  <2>5. gap' = row
    BY <1>1, <1>3
  <2> HIDE DEF row
  <2>6. CaseGood(row, asked)
    BY <2>2, <2>4 DEF CaseGood, HeldStatus, DoneStatus
  <2>7. ASSUME NEW b \in GapActor, b # a PROVE Unharmed(b, row)
    BY <1>2, <1>3, <2>4, <2>7, HolderAlone DEF Unharmed, Owns, HeldStatus
  <2>8. gap.attempts \in Int
    BY <2>2 DEF CaseRow
  <2>9. answered' \subseteq Answer /\ gap.attempts <= row.attempts /\ row.status \notin DoneStatus
    BY <1>1, <2>2, <2>4, <2>8 DEF DoneStatus
  <2> QED
    BY <1>1, <1>2, <2>1, <2>5, <2>6, <2>7, <2>9, CaseWrittenLast
<1>4. CASE ~(Claimed /\ gap.token = job[a].token)
  BY <1>1, <1>4, EndKeeps
<1> QED
  BY <1>3, <1>4

\* A lease runs out; the row keeps token and plan.
LEMMA LeaseLapsesKeeps ==
  ASSUME GapInv, LeaseLapses
  PROVE  GapInv' /\ KeepsLive
<1>1. /\ gap.status \in HeldStatus /\ gap' = [gap EXCEPT !.lapsed = TRUE]
      /\ UNCHANGED <<asked, dossiers, job, ledger, admitted, answered>>
  BY DEF LeaseLapses, Claimed, HeldStatus
<1>2. CaseGood(gap, asked) /\ gap \in CaseRow
  BY <1>1, GapTypesNamed DEF GapInv, CaseGood, HeldStatus
<1>3. /\ gap' \in CaseRow /\ gap'.status = gap.status /\ gap'.token = gap.token
      /\ gap'.dossier = gap.dossier /\ gap'.plan = gap.plan /\ gap'.attempts = gap.attempts
      /\ gap'.verdict = gap.verdict /\ gap'.runKey = gap.runKey
  BY <1>1, <1>2 DEF CaseRow
<1>4. CaseGood(gap', asked')
  BY <1>1, <1>2, <1>3 DEF CaseGood
<1>5. /\ job \in [GapActor -> Job] /\ ledger \in [PlanId -> {"open", "running", "completed"}]
      /\ dossiers \in Seq(Signature \cup {"none"}) /\ Len(dossiers) <= MaxDossiers
      /\ asked \in Seq(Occurrence) /\ admitted \in BOOLEAN /\ answered \subseteq Answer
      /\ \A i, j \in DOMAIN asked : asked[i].dossier = asked[j].dossier => i = j
  BY GapTypesNamed DEF GapInv
<1>6. GapTypeOK'
  BY <1>1, <1>4, <1>5, TypesNext
<1>7. gap.attempts \in Int
  BY <1>2 DEF CaseRow
<1>8. \A a \in GapActor : job'[a] = job[a] /\ Unharmed(a, gap')
  BY <1>1, <1>3 DEF Unharmed
<1>9. /\ gap'.status # "ABSENT" /\ gap'.status \notin DoneStatus /\ gap.attempts <= gap'.attempts
  BY <1>1, <1>3, <1>7 DEF HeldStatus, DoneStatus
<1> DEFINE M == {}
<1>10. M \in SUBSET GapActor /\ \A a \in GapActor : a \notin M
  OBVIOUS
<1>11. \A a \in M : FALSE
  OBVIOUS
<1> HIDE DEF M
<1> QED
  BY <1>6, <1>8, <1>9, <1>10, <1>11, RowWritten

\* A queued D7 case is closed before a research run.
LEMMA CloseLegacyKeeps ==
  ASSUME GapInv, CloseLegacy
  PROVE  GapInv' /\ KeepsLive
<1>1. /\ gap.status = "QUEUED" /\ gap' = [gap EXCEPT !.status = "CLOSED"]
      /\ UNCHANGED <<asked, dossiers, job, ledger, admitted, answered>>
  BY DEF CloseLegacy
<1>2. CaseGood(gap, asked) /\ gap \in CaseRow
  BY <1>1, GapTypesNamed DEF GapInv, CaseGood
<1>3. /\ gap' \in CaseRow /\ gap'.status = "CLOSED" /\ gap'.token = gap.token
      /\ gap'.dossier = gap.dossier /\ gap'.attempts = gap.attempts
  BY <1>1, <1>2 DEF CaseRow, CaseStatus
<1>4. CaseGood(gap', asked')
  BY <1>1, <1>2, <1>3 DEF CaseGood, HeldStatus, DoneStatus
<1>5. /\ job \in [GapActor -> Job] /\ ledger \in [PlanId -> {"open", "running", "completed"}]
      /\ dossiers \in Seq(Signature \cup {"none"}) /\ Len(dossiers) <= MaxDossiers
      /\ asked \in Seq(Occurrence) /\ admitted \in BOOLEAN /\ answered \subseteq Answer
      /\ \A i, j \in DOMAIN asked : asked[i].dossier = asked[j].dossier => i = j
  BY GapTypesNamed DEF GapInv
<1>6. GapTypeOK'
  BY <1>1, <1>4, <1>5, TypesNext
<1>7. gap.attempts \in Int
  BY <1>2 DEF CaseRow
<1>8. \A a \in GapActor : job'[a] = job[a] /\ Unharmed(a, gap')
  BY <1>1, <1>3, Unheld DEF HeldStatus
<1>9. /\ gap'.status # "ABSENT" /\ gap'.status \notin DoneStatus /\ gap.attempts <= gap'.attempts
  BY <1>3, <1>7 DEF DoneStatus
<1> DEFINE M == {}
<1>10. M \in SUBSET GapActor /\ \A a \in GapActor : a \notin M
  OBVIOUS
<1>11. \A a \in M : FALSE
  OBVIOUS
<1> HIDE DEF M
<1> QED
  BY <1>6, <1>8, <1>9, <1>10, <1>11, RowWritten

\* A completed case that is superseded is closed.
LEMMA CloseSupersededKeeps ==
  ASSUME GapInv, NEW a \in GapActor, CloseSuperseded(a)
  PROVE  GapInv' /\ KeepsLive
<1> DEFINE row == [gap EXCEPT !.status = "CLOSED"]
<1>1. /\ Become(a, Off) /\ UNCHANGED <<asked, dossiers, ledger, admitted, answered>>
      /\ gap' = IF gap.status = "COMPLETED" THEN row ELSE gap
      /\ job[a] # Off
  BY DEF CloseSuperseded, Busy, Off
<1>2. CASE gap.status = "COMPLETED"
  <2>1. CaseGood(gap, asked) /\ gap \in CaseRow /\ answered \subseteq Answer
    BY <1>2, GapTypesNamed DEF GapInv, CaseGood
  <2>2. /\ row \in CaseRow /\ row.status = "CLOSED" /\ row.token = gap.token
        /\ row.dossier = gap.dossier /\ row.attempts = gap.attempts
    BY <2>1 DEF CaseRow, CaseStatus
  <2>3. gap' = row
    BY <1>1, <1>2
  <2> HIDE DEF row
  <2>4. CaseGood(row, asked)
    BY <1>2, <2>1, <2>2 DEF CaseGood, HeldStatus, DoneStatus
  <2>5. gap.attempts \in Int
    BY <2>1 DEF CaseRow
  <2>6. \A b \in GapActor : Unharmed(b, row)
    BY <1>2, <2>2, Unheld DEF HeldStatus
  <2>7. answered' \subseteq Answer /\ gap.attempts <= row.attempts /\ row.status \notin DoneStatus
    BY <1>1, <2>1, <2>2, <2>5 DEF DoneStatus
  <2> QED
    BY <1>1, <1>2, <2>3, <2>4, <2>6, <2>7, CaseWrittenLast
<1>3. CASE gap.status # "COMPLETED"
  BY <1>1, <1>3, EndKeeps
<1> QED
  BY <1>2, <1>3

\* A finished case is marked handed off; plan and verdict stay.
LEMMA MarkHandedOffKeeps ==
  ASSUME GapInv, NEW a \in GapActor, MarkHandedOff(a)
  PROVE  GapInv' /\ KeepsLive
<1> DEFINE row == [gap EXCEPT !.status = "HANDED_OFF", !.runKey = job[a].id]
<1>1. /\ Become(a, Off) /\ UNCHANGED <<asked, dossiers, ledger, admitted, answered>>
      /\ (gap' = row /\ Finished) \/ gap' = gap
      /\ job[a] # Off /\ job[a].pc = "mark"
  BY DEF MarkHandedOff, Busy, Off
<1>2. CASE gap' = row /\ Finished
  <2>1. gap.status \in DoneStatus /\ gap.status # "ABSENT" /\ gap.status \notin HeldStatus
    BY <1>2 DEF Finished, DoneStatus, HeldStatus
  <2>2. CaseGood(gap, asked) /\ gap \in CaseRow /\ answered \subseteq Answer
    BY <2>1, GapTypesNamed DEF GapInv, CaseGood
  <2>3. job[a].id \in PlanId /\ job[a].id # NoId
    BY <1>1, JobForm DEF GapInv, HandsOff, PlanId, GapDossier, NoId
  <2>4. /\ row \in CaseRow /\ row.status = "HANDED_OFF" /\ row.token = gap.token
        /\ row.dossier = gap.dossier /\ row.attempts = gap.attempts /\ row.plan = gap.plan
        /\ row.verdict = gap.verdict /\ row.runKey # NoId
    BY <2>2, <2>3 DEF CaseRow, CaseStatus
  <2> HIDE DEF row
  <2>5. CaseGood(row, asked)
    BY <2>1, <2>2, <2>4 DEF CaseGood, HeldStatus, DoneStatus
  <2>6. gap.attempts \in Int
    BY <2>2 DEF CaseRow
  <2>7. \A b \in GapActor : Unharmed(b, row)
    BY <2>1, <2>4, Unheld DEF HeldStatus
  <2>8. row.verdict.id = row.plan.id
    BY <1>2, <2>4 DEF GapInv, VerdictOfItsPlan
  <2>9. answered' \subseteq Answer /\ gap.attempts <= row.attempts
    BY <1>1, <2>2, <2>4, <2>6
  <2> QED
    BY <1>1, <1>2, <2>1, <2>5, <2>7, <2>8, <2>9, CaseWrittenLast
<1>3. CASE gap' = gap
  BY <1>1, <1>3, EndKeeps
<1> QED
  BY <1>1, <1>2, <1>3

-----------------------------------------------------------------------------

\* Every step keeps the inductive invariant, and every live claim.
LEMMA GapStepKeeps ==
  ASSUME GapInv, [GapNext]_gapVars
  PROVE  GapInv' /\ KeepsLive
<1>1. CASE UNCHANGED gapVars
  <2>1. UNCHANGED <<gap, asked, dossiers, job, ledger, admitted, answered>>
    BY <1>1 DEF gapVars
  <2>2. GapTypeOK'
    BY <2>1 DEF GapInv, GapTypeOK, Claimed, Finished
  <2> QED
    BY <2>1, <2>2, RowKeeps DEF Holding
<1>2. CASE PersistDossier
  BY <1>2, PersistDossierKeeps
<1>3. CASE CloseLegacy
  BY <1>3, CloseLegacyKeeps
<1>4. CASE LeaseLapses
  BY <1>4, LeaseLapsesKeeps
<1>5. CASE HandoffRunEnds
  BY <1>5, HandoffRunEndsKeeps
<1>6. ASSUME NEW a \in GapActor, GapStep(a)
      PROVE  GapInv' /\ KeepsLive
  <2>1. CASE SyncRead(a)
    BY <2>1, SyncReadKeeps
  <2>2. CASE Transition(a)
    BY <2>2, TransitionKeeps
  <2>3. CASE Upsert(a)
    BY <2>3, UpsertKeeps
  <2>4. CASE ClaimCase(a)
    BY <2>4, ClaimCaseKeeps
  <2>5. CASE ReloadCase(a)
    BY <2>5, ReloadCaseKeeps
  <2>6. CASE StartCase(a)
    BY <2>6, StartCaseKeeps
  <2>7. CASE CompleteCase(a)
    BY <2>7, CompleteCaseKeeps
  <2>8. CASE ReleaseCase(a)
    BY <2>8, ReleaseCaseKeeps
  <2>9. CASE PostRun(a)
    BY <2>9, PostRunKeeps
  <2>10. CASE FindSuperseded(a) \/ GapKilled(a)
    BY <2>10, LightKeeps
  <2>11. CASE CloseSuperseded(a)
    BY <2>11, CloseSupersededKeeps
  <2>12. CASE MarkHandedOff(a)
    BY <2>12, MarkHandedOffKeeps
  <2> QED
    BY <1>6, <2>1, <2>2, <2>3, <2>4, <2>5, <2>6, <2>7, <2>8, <2>9, <2>10, <2>11, <2>12 DEF GapStep
<1> QED
  BY <1>1, <1>2, <1>3, <1>4, <1>5, <1>6 DEF GapNext

\* The inductive invariant holds in every reachable state.
LEMMA GapInvAlways == GapSpec => []GapInv
<1>1. GapInit => GapInv
  BY GapInitInv
<1>2. GapInv /\ [GapNext]_gapVars => GapInv'
  BY GapStepKeeps
<1> QED
  BY <1>1, <1>2, PTL DEF GapSpec

\* The row, its occurrences and the invocations have their types, and every status its
\* columns.
THEOREM GapTypes == GapSpec => []GapTypeOK
<1>1. GapInv => GapTypeOK
  BY DEF GapInv
<1> QED
  BY <1>1, GapInvAlways, PTL

\* A finished case carries the verdict of the plan frozen in its row, for any number of
\* invocations that claim, lose and complete it.
THEOREM VerdictMatchesPlan == GapSpec => []VerdictOfItsPlan
<1>1. GapInv => VerdictOfItsPlan
  BY DEF GapInv
<1> QED
  BY <1>1, GapInvAlways, PTL

\* No step of another invocation takes a live claim or the plan under it.
THEOREM LiveClaimHolds == GapSpec => LiveClaimIsKept
<1>1. GapInv /\ [GapNext]_gapVars
        => [\A a \in GapActor :
              (job[a].pc \in {"claimed", "searching"} /\ Owns(a) /\ job'[a] = job[a])
                => gap'.token = gap.token /\ gap'.plan = gap.plan]_gapVars
  BY GapStepKeeps DEF KeepsLive
<1> QED
  BY <1>1, GapInvAlways, PTL DEF GapSpec, LiveClaimIsKept

-----------------------------------------------------------------------------
(* The order of the discriminators. *)

\* A verdict was completed on a plan that records this discriminator.
Concluded(life) == \E v \in answered : v.life = life

\* A recorded discriminator, which only a case that D7 raises lacks.
Traced(life) == Earned(life) /\ (life = NoLife => D7)

\* The discriminator of a finished case is concluded.
RowInOrder ==
  /\ Earned(gap.need) /\ Earned(gap.plan.life)
  /\ gap.plan # NoPlan /\ gap.plan.life = NoLife => D7
  /\ gap.status \in DoneStatus => Concluded(gap.plan.life)

Recording == {"upsert", "move"}

\* The inductive invariant: what the row, its plan, the occurrences and the syncs at work
\* record is earned, and what a finished plan records is concluded.
OrderInv ==
  /\ \A i \in DOMAIN dossiers : (dossiers[i] = "none") = D7
  /\ gap.status # "ABSENT" => RowInOrder
  /\ \A o \in ToSet(asked) : Traced(o.life)
  /\ \A a \in GapActor : job[a].pc \in Recording => Traced(job[a].life)

\* What was earned stays so.
LEMMA TracedStays ==
  ASSUME answered \subseteq answered', D7 => D7'
  PROVE  /\ \A life : Earned(life) => Earned(life)'
         /\ \A life : Traced(life) => Traced(life)'
         /\ \A life : Concluded(life) => Concluded(life)'
<1>1. ASSUME NEW life, Earned(life) PROVE Earned(life)'
  BY <1>1 DEF Earned
<1>2. \A life : Earned(life) => Earned(life)'
  BY <1>1
<1> QED
  BY <1>2 DEF Traced, Concluded

\* The first discriminator needs nothing before it, nor does none at all.
LEMMA FirstIsEarned ==
  /\ Earned(NoLife)
  /\ \A sig \in Signature : Earned(FirstOf(sig))
BY DEF Earned, NoLife, FirstOf

\* The next discriminator is earned once this one is concluded.
LEMMA NextIsEarned ==
  ASSUME NEW life \in Lifecycle, Earned(life), Concluded(life)
  PROVE  Earned([life EXCEPT !.index = NextDiscriminator(life)])
<1> DEFINE next == [life EXCEPT !.index = NextDiscriminator(life)]
<1>1. life.index \in Nat /\ life = [sig |-> life.sig, index |-> life.index]
  BY GapAssumption DEF Lifecycle, NoLife
<1>2. next = [sig |-> life.sig, index |-> life.index + 1]
  BY <1>1 DEF NextDiscriminator
<1>3. SUFFICES ASSUME NEW i \in 0..next.index - 1
               PROVE  \E v \in answered : v.life = [next EXCEPT !.index = i]
  BY DEF Earned
<1> HIDE DEF next
<1>4. [next EXCEPT !.index = i] = [life EXCEPT !.index = i] /\ i \in 0..life.index
  <2>1. [life EXCEPT !.index = i] = [sig |-> life.sig, index |-> i]
    BY <1>1
  <2>2. [next EXCEPT !.index = i] = [sig |-> life.sig, index |-> i]
    BY <1>2
  <2>3. next.index = life.index + 1
    BY <1>2
  <2> QED
    BY <1>1, <2>1, <2>2, <2>3
<1>5. CASE i = life.index
  BY <1>1, <1>4, <1>5 DEF Concluded
<1>6. CASE i # life.index
  BY <1>1, <1>4, <1>6 DEF Earned
<1> QED
  BY <1>5, <1>6

\* What a sync takes for the lifecycle of the case is one that the case recorded.
LEMMA LifeSourceEarned ==
  ASSUME GapInv, OrderInv, gap.status # "ABSENT"
  PROVE  /\ LifeSource \in Lifecycle /\ Earned(LifeSource)
         /\ gap.plan.life # NoLife => LifeSource = gap.plan.life
<1>1. CaseGood(gap, asked) /\ asked \in Seq(Occurrence)
  BY GapTypesNamed DEF GapInv
<1>2. LifeSource \in Lifecycle
  BY <1>1, LifeSourceType DEF GapInv
<1>3. \A i \in DOMAIN asked : Earned(asked[i].life)
  BY <1>1 DEF OrderInv, Traced, ToSet
<1>4. Earned(gap.plan.life)
  BY DEF OrderInv, RowInOrder
<1>5. Earned(LifeSource)
  BY <1>3, <1>4, FirstIsEarned DEF LifeSource
<1> QED
  BY <1>2, <1>5 DEF LifeSource

\* What a sync decides is traced, and its move to the next discriminator earned.
LEMMA DecideTraced ==
  ASSUME GapInv, OrderInv, NEW sig \in Signature \cup {"none"}, (sig = "none") = D7
  PROVE  Traced(Decide(sig).life)
<1> DEFINE first == FirstOf(sig)
           prior == LifeSource
           next == [prior EXCEPT !.index = NextDiscriminator(prior)]
<1>1. CASE sig = "none"
  <2>1. Decide(sig).life = NoLife
    BY <1>1 DEF Decide
  <2> QED
    BY <1>1, <2>1, FirstIsEarned DEF Traced
<1>2. CASE sig # "none"
  <2>1. Earned(first) /\ first # NoLife /\ ~D7
    BY <1>2, FirstIsEarned DEF FirstOf, NoLife
  <2>2. CASE gap.status = "ABSENT"
    <3>1. Decide(sig).life = first
      BY <1>2, <2>2 DEF Decide
    <3> QED
      BY <2>1, <3>1 DEF Traced
  <2>3. CASE gap.status # "ABSENT"
    <3>1. prior \in Lifecycle /\ Earned(prior) /\ (gap.plan.life # NoLife => prior = gap.plan.life)
      BY <2>3, LifeSourceEarned
    <3>2. gap.status = "HANDED_OFF" => Concluded(prior) /\ gap.plan.life # NoLife
      <4>1. gap.status = "HANDED_OFF" => gap.plan # NoPlan
        BY GapTypesNamed DEF GapInv, CaseGood
      <4> QED
        BY <2>1, <2>3, <3>1, <4>1 DEF OrderInv, RowInOrder, DoneStatus
    <3>3. gap.status = "HANDED_OFF" => Earned(next)
      BY <3>1, <3>2, NextIsEarned
    <3>4. QueuedLife(prior, sig) \in {first, prior} /\
          (QueuedLife(prior, sig) = prior => prior = first \/ prior.sig = sig)
      BY DEF QueuedLife
    <3>5. prior.sig = sig => prior # NoLife
      BY <1>2 DEF NoLife
    <3>6. next # NoLife
      <4>1. next.index = prior.index + 1 /\ prior.index \in Nat
        BY <3>1, GapAssumption DEF Lifecycle, NoLife, NextDiscriminator
      <4> QED
        BY <4>1 DEF NoLife
    <3> HIDE DEF first, prior, next
    <3>7. CASE gap.status = "HANDED_OFF"
      <4>1. Decide(sig).life \in {first, next} \/ (Decide(sig).life = prior /\ prior # NoLife)
        BY <1>2, <3>7 DEF Decide, first, prior, next
      <4> QED
        BY <2>1, <3>1, <3>3, <3>6, <3>7, <4>1 DEF Traced
    <3>8. CASE gap.status = "CLOSED"
      <4>1. Decide(sig).life = first \/ (Decide(sig).life = prior /\ prior.sig = sig)
        BY <1>2, <3>8 DEF Decide, first, prior
      <4> QED
        BY <2>1, <3>1, <3>5, <4>1 DEF Traced
    <3>9. CASE gap.status \notin {"HANDED_OFF", "CLOSED"}
      <4>1. \/ Decide(sig).life = prior /\ prior # NoLife
            \/ Decide(sig).life = QueuedLife(prior, sig)
        BY <1>2, <2>3, <3>9 DEF Decide, prior
      <4> QED
        BY <2>1, <3>1, <3>4, <3>5, <4>1 DEF Traced
    <3> QED
      BY <3>7, <3>8, <3>9
  <2> QED
    BY <2>2, <2>3
<1> QED
  BY <1>1, <1>2

\* What a step must show: that the row is in order, and that new occurrences and syncs
\* are traced.
LEMMA OrderMoved ==
  ASSUME OrderInv, answered \subseteq answered', UNCHANGED dossiers,
         gap'.status # "ABSENT" => RowInOrder',
         \A o \in ToSet(asked') : o \in ToSet(asked) \/ Traced(o.life),
         \A a \in GapActor :
           job'[a].pc \in Recording =>
             Traced(job'[a].life) \/ (job[a].pc \in Recording /\ job'[a].life = job[a].life)
  PROVE  OrderInv'
<1>1. D7' = D7
  BY DEF D7
<1>2. \A life : Traced(life) => Traced(life)'
  BY <1>1, TracedStays
<1>3. \A i \in DOMAIN dossiers' : (dossiers'[i] = "none") = D7'
  BY <1>1 DEF OrderInv
<1>4. \A o \in ToSet(asked') : Traced(o.life)'
  BY <1>2 DEF OrderInv
<1>5. ASSUME NEW a \in GapActor, job'[a].pc \in Recording
      PROVE  \E life : life = job'[a].life /\ Traced(life)'
  <2>1. Traced(job'[a].life)
    BY <1>5 DEF OrderInv
  <2> QED
    BY <1>2, <2>1
<1>6. (\A a \in GapActor : job[a].pc \in Recording => Traced(job[a].life))'
  BY <1>5 DEF Traced, Earned
<1> QED
  BY <1>3, <1>4, <1>6 DEF OrderInv

\* An invocation that goes on with rec, which records nothing new.
LEMMA JobMoved ==
  ASSUME GapInv, OrderInv, NEW a \in GapActor, NEW rec, Become(a, rec),
         rec.pc \in Recording =>
           Traced(rec.life) \/ (job[a].pc \in Recording /\ rec.life = job[a].life)
  PROVE  \A b \in GapActor :
           job'[b].pc \in Recording =>
             Traced(job'[b].life) \/ (job[b].pc \in Recording /\ job'[b].life = job[b].life)
<1>1. job \in [GapActor -> Job]
  BY GapTypesNamed DEF GapInv
<1>2. job'[a] = rec /\ \A b \in GapActor : b # a => job'[b] = job[b]
  BY <1>1 DEF Become
<1> QED
  BY <1>2

\* A row that keeps its question and its plan stays in order, unless it is finished now.
LEMMA RowStays ==
  ASSUME OrderInv, gap.status # "ABSENT", answered \subseteq answered', D7' = D7,
         gap'.need = gap.need, gap'.plan = gap.plan,
         gap'.status \in DoneStatus => gap.status \in DoneStatus
  PROVE  RowInOrder'
<1>1. RowInOrder
  BY DEF OrderInv
<1>2. Earned(gap.need)' /\ Earned(gap.plan.life)'
  BY <1>1, TracedStays DEF RowInOrder
<1>3. gap'.status \in DoneStatus => Concluded(gap.plan.life)'
  BY <1>1, TracedStays DEF RowInOrder
<1> QED
  BY <1>1, <1>2, <1>3 DEF RowInOrder

\* A row without a plan and not finished is in order if its question is.
LEMMA RowCleared ==
  ASSUME answered \subseteq answered', D7 => D7', NEW row, gap' = row,
         Earned(row.need), row.plan = NoPlan, row.status \notin DoneStatus
  PROVE  RowInOrder'
<1>1. Earned(gap.need)'
  BY TracedStays
<1>2. NoPlan.life = NoLife
  BY DEF NoPlan
<1>3. Earned(NoLife)'
  BY FirstIsEarned, TracedStays
<1> QED
  BY <1>1, <1>2, <1>3 DEF RowInOrder

\* Steps that touch neither row nor occurrences.
LEMMA LightOrder ==
  ASSUME GapInv, OrderInv, NEW a \in GapActor,
         \/ ReloadCase(a) \/ PostRun(a) \/ FindSuperseded(a) \/ GapKilled(a)
  PROVE  OrderInv'
<1>1. /\ UNCHANGED <<gap, asked, dossiers, answered>>
      /\ \E rec : Become(a, rec) /\ rec.pc \notin Recording
  <2>1. CASE ReloadCase(a)
    <3> DEFINE rec == [job[a] EXCEPT !.id = [dossier |-> gap.dossier, need |-> gap.need]]
    <3>1. job[a].pc = "claimed" /\ job[a] \in Holds
      BY <2>1, JobForm DEF GapInv, ReloadCase, Busy, Holding
    <3>2. rec.pc = "claimed"
      BY <3>1 DEF Holds
    <3>3. Become(a, rec) /\ UNCHANGED <<gap, asked, dossiers, answered>>
      BY <2>1 DEF ReloadCase
    <3> HIDE DEF rec
    <3> QED
      BY <3>2, <3>3 DEF Recording
  <2>2. CASE PostRun(a)
    <3> DEFINE waiting(pc) == [pc |-> pc, id |-> gap.plan.id, outcome |-> gap.verdict.outcome]
    <3>1. /\ Become(a, waiting("mark")) \/ Become(a, waiting("await"))
          /\ UNCHANGED <<gap, asked, dossiers, answered>>
      BY <2>2 DEF PostRun
    <3>2. waiting("mark").pc = "mark" /\ waiting("await").pc = "await"
      OBVIOUS
    <3> HIDE DEF waiting
    <3> QED
      BY <3>1, <3>2 DEF Recording
  <2>3. CASE FindSuperseded(a) \/ GapKilled(a)
    <3>1. /\ Become(a, Off) \/ Become(a, [pc |-> "superseded"])
          /\ UNCHANGED <<gap, asked, dossiers, answered>>
      BY <2>3 DEF FindSuperseded, GapKilled
    <3>2. Off.pc = "off" /\ [pc |-> "superseded"].pc = "superseded"
      BY DEF Off
    <3> QED
      BY <3>1, <3>2 DEF Recording
  <2> QED
    BY <2>1, <2>2, <2>3
<1>2. gap'.status # "ABSENT" => RowInOrder'
  BY <1>1, RowStays DEF D7
<1>3. PICK rec : Become(a, rec) /\ rec.pc \notin Recording
  BY <1>1
<1> QED
  BY <1>1, <1>2, <1>3, JobMoved, OrderMoved

\* A sync decides: what it records is traced.
LEMMA SyncReadOrder ==
  ASSUME GapInv, OrderInv, NEW a \in GapActor, SyncRead(a)
  PROVE  OrderInv'
<1> DEFINE sig == Last(dossiers)
           d == Decide(sig)
           stay == Upserting(Len(dossiers), d.life)
           move == [pc |-> "move", dossier |-> Len(dossiers), life |-> d.life,
                    move |-> d.move, from |-> gap.status]
<1>1. /\ UNCHANGED <<gap, asked, dossiers, answered>>
      /\ Become(a, stay) \/ Become(a, move)
      /\ dossiers \in Seq(Signature \cup {"none"}) /\ dossiers # <<>>
  BY GapTypesNamed DEF SyncRead, GapInv
<1>2. sig \in Signature \cup {"none"} /\ (sig = "none") = D7
  BY <1>1 DEF Last, OrderInv
<1> HIDE DEF sig
<1>3. Traced(d.life)
  BY <1>2, DecideTraced
<1> HIDE DEF d
<1>4. stay.life = d.life /\ move.life = d.life
  BY DEF Upserting
<1>5. gap'.status # "ABSENT" => RowInOrder'
  BY <1>1, RowStays DEF D7
<1> HIDE DEF stay, move
<1>6. PICK rec : Become(a, rec) /\ rec.life = d.life
  BY <1>1, <1>4
<1> QED
  BY <1>1, <1>3, <1>5, <1>6, JobMoved, OrderMoved

\* A new Dossier carries a plan as the others do.
LEMMA PersistDossierOrder ==
  ASSUME GapInv, OrderInv, PersistDossier
  PROVE  OrderInv'
<1>1. PICK sig \in Signature \cup {"none"} :
        /\ dossiers # <<>> => (sig = "none") = D7
        /\ dossiers' = Append(dossiers, sig)
  BY DEF PersistDossier
<1>2. dossiers \in Seq(Signature \cup {"none"}) /\ UNCHANGED <<gap, asked, job, answered>>
  BY GapTypesNamed DEF PersistDossier, GapInv
<1>3. /\ Len(dossiers') = Len(dossiers) + 1 /\ dossiers' # <<>> /\ dossiers'[Len(dossiers) + 1] = sig
      /\ DOMAIN dossiers' = 1..Len(dossiers) + 1 /\ DOMAIN dossiers = 1..Len(dossiers)
      /\ \A i \in 1..Len(dossiers) : dossiers'[i] = dossiers[i]
  BY <1>1, <1>2
<1>4. CASE dossiers = <<>>
  <2>1. D7' = (sig = "none") /\ ~D7
    BY <1>3, <1>4 DEF D7
  <2>2. \A i \in DOMAIN dossiers' : (dossiers'[i] = "none") = D7'
    BY <1>3, <1>4, <2>1
  <2> QED
    BY <1>2, <2>1, <2>2 DEF OrderInv, RowInOrder, Traced, Earned, Concluded
<1>5. CASE dossiers # <<>>
  <2>1. Len(dossiers) \in Nat \ {0}
    BY <1>2, <1>5
  <2>2. D7' = D7
    BY <1>3, <1>5, <2>1 DEF D7
  <2>3. \A i \in DOMAIN dossiers' : (dossiers'[i] = "none") = D7'
    BY <1>1, <1>3, <1>5, <2>1, <2>2 DEF OrderInv
  <2> QED
    BY <1>2, <2>2, <2>3 DEF OrderInv, RowInOrder, Traced, Earned, Concluded
<1> QED
  BY <1>4, <1>5

\* The row moves back to the queue or is closed.
LEMMA TransitionOrder ==
  ASSUME GapInv, OrderInv, NEW a \in GapActor, Transition(a)
  PROVE  OrderInv'
<1> DEFINE up == Upserting(job[a].dossier, job[a].life)
           closed == [gap EXCEPT !.status = "CLOSED", !.token = 0, !.lapsed = FALSE]
<1>1. /\ UNCHANGED <<asked, dossiers, answered>> /\ job[a].pc = "move" /\ job[a] \in Moves
      /\ \/ /\ gap.status = job[a].from /\ Become(a, up)
            /\ gap' = IF job[a].move = "requeue" THEN Cleared(gap) ELSE closed
         \/ Become(a, Off) /\ gap' = gap
  BY JobForm DEF Transition, GapInv, Busy, Unmoved
<1>2. D7' = D7 /\ answered \subseteq answered'
  BY <1>1 DEF D7
<1>3. Off.pc \notin Recording /\ up.life = job[a].life /\ job[a].pc \in Recording
  BY <1>1 DEF Off, Recording, Upserting
<1> HIDE DEF up
<1>4. CASE Become(a, Off) /\ gap' = gap
  <2>1. gap'.status # "ABSENT" => RowInOrder'
    BY <1>2, <1>4, RowStays
  <2> QED
    BY <1>1, <1>2, <1>3, <1>4, <2>1, JobMoved, OrderMoved
<1>5. CASE gap.status = job[a].from /\ Become(a, up)
           /\ gap' = IF job[a].move = "requeue" THEN Cleared(gap) ELSE closed
  <2>1. gap.status # "ABSENT"
    BY <1>1, <1>5 DEF Moves
  <2>2. gap \in CaseRow /\ Earned(gap.need)
    BY <2>1, GapTypesNamed DEF GapInv, CaseGood, OrderInv, RowInOrder
  <2>3. ASSUME gap' = Cleared(gap) PROVE RowInOrder'
    <3>1. /\ Cleared(gap).need = gap.need /\ Cleared(gap).plan = NoPlan
          /\ Cleared(gap).status \notin DoneStatus
      BY <2>2 DEF Cleared, CaseRow, DoneStatus
    <3> QED
      BY <1>2, <2>2, <2>3, <3>1, RowCleared
  <2>4. ASSUME gap' = closed PROVE RowInOrder'
    <3>1. closed.need = gap.need /\ closed.plan = gap.plan /\ closed.status \notin DoneStatus
      BY <2>2 DEF CaseRow, DoneStatus
    <3> HIDE DEF closed
    <3>2. /\ gap'.need = gap.need /\ gap'.plan = gap.plan
          /\ gap'.status \in DoneStatus => gap.status \in DoneStatus
      BY <2>4, <3>1
    <3> QED
      BY <1>2, <2>1, <3>2, RowStays
  <2>5. RowInOrder'
    BY <1>5, <2>3, <2>4
  <2> QED
    BY <1>1, <1>2, <1>3, <1>5, <2>5, JobMoved, OrderMoved
<1> QED
  BY <1>1, <1>4, <1>5

\* An upsert writes the question that the sync decided, and records it once.
LEMMA UpsertOrder ==
  ASSUME GapInv, OrderInv, NEW a \in GapActor, Upsert(a)
  PROVE  OrderInv'
<1> DEFINE d == job[a].dossier
           life == job[a].life
           kept == [gap EXCEPT !.dossier = d, !.need = life]
           item == [dossier |-> d, life |-> life]
<1>1. /\ Become(a, Off) /\ UNCHANGED <<dossiers, ledger, admitted, answered>>
      /\ IF gap.status = "ABSENT" THEN gap' = FreshCase(d, life)
         ELSE gap' \in {kept, Cleared(kept)}
      /\ asked' \in {asked, Append(asked, item)}
      /\ job[a].pc = "upsert" /\ job[a] \in Upserts
  BY JobForm DEF Upsert, GapInv, Busy
<1>2. D7' = D7 /\ answered \subseteq answered'
  BY <1>1 DEF D7
<1>3. Traced(life) /\ Earned(life)
  BY <1>1 DEF OrderInv, Recording, Traced
<1>4. asked \in Seq(Occurrence) /\ item \in Occurrence
  BY <1>1, GapTypesNamed DEF GapInv, Occurrence, Upserts
<1>5. item.life = life
  OBVIOUS
<1> HIDE DEF item
<1>6. \A o \in ToSet(asked') : o \in ToSet(asked) \/ Traced(o.life)
  <2>1. CASE asked' = asked
    BY <2>1
  <2>2. CASE asked' = Append(asked, item)
    <3>1. \A i \in DOMAIN asked' : asked'[i] = item \/ (i \in DOMAIN asked /\ asked'[i] = asked[i])
      BY <1>4, <2>2
    <3> QED
      BY <1>3, <1>5, <3>1 DEF ToSet
  <2> QED
    BY <1>1, <2>1, <2>2
<1> HIDE DEF life, d
<1>7. RowInOrder'
  <2>1. CASE gap.status = "ABSENT"
    <3>1. /\ FreshCase(d, life).need = life /\ FreshCase(d, life).plan = NoPlan
          /\ FreshCase(d, life).status \notin DoneStatus
      BY DEF FreshCase, DoneStatus
    <3> QED
      BY <1>1, <1>2, <1>3, <2>1, <3>1, RowCleared
  <2>2. CASE gap.status # "ABSENT"
    <3>1. gap \in CaseRow /\ RowInOrder
      BY <2>2, GapTypesNamed DEF GapInv, CaseGood, OrderInv
    <3>2. kept.need = life /\ kept.plan = gap.plan /\ kept.status = gap.status
      BY <3>1 DEF CaseRow
    <3>3. Cleared(kept).need = life /\ Cleared(kept).plan = NoPlan
          /\ Cleared(kept).status \notin DoneStatus
      BY <3>1 DEF CaseRow, Cleared, DoneStatus
    <3> HIDE DEF kept
    <3>4. CASE gap' = kept
      <4>1. gap'.need = life /\ gap'.plan = gap.plan /\ gap'.status = gap.status
        BY <3>2, <3>4
      <4>2. /\ \A l : Earned(l) => Earned(l)'
            /\ \A l : Concluded(l) => Concluded(l)'
        BY <1>2, TracedStays
      <4>3. \E n : n = gap'.need /\ Earned(n)'
        BY <1>3, <4>1, <4>2
      <4>4. \E n : n = gap'.plan.life /\ Earned(n)'
        BY <3>1, <4>1, <4>2 DEF RowInOrder
      <4>5. gap'.status \in DoneStatus => \E n : n = gap'.plan.life /\ Concluded(n)'
        BY <3>1, <4>1, <4>2 DEF RowInOrder
      <4> QED
        BY <1>2, <3>1, <4>1, <4>3, <4>4, <4>5 DEF RowInOrder, Earned, Concluded
    <3>5. CASE gap' = Cleared(kept)
      BY <1>2, <1>3, <3>3, <3>5, RowCleared
    <3> QED
      BY <1>1, <2>2, <3>4, <3>5
  <2> QED
    BY <2>1, <2>2
<1>8. Off.pc \notin Recording
  BY DEF Off, Recording
<1> QED
  BY <1>1, <1>2, <1>6, <1>7, <1>8, JobMoved, OrderMoved

\* A row with a case: written by an invocation that ends or goes on, keeping question
\* and plan.
LEMMA KeptOrder ==
  ASSUME GapInv, OrderInv, UNCHANGED <<asked, dossiers>>, answered \subseteq answered',
         gap.status # "ABSENT", gap'.need = gap.need, gap'.plan = gap.plan,
         gap'.status \in DoneStatus => gap.status \in DoneStatus,
         \A b \in GapActor : job'[b].pc \in Recording => job'[b] = job[b]
  PROVE  OrderInv'
<1>1. D7' = D7
  BY DEF D7
<1>2. RowInOrder'
  BY <1>1, RowStays
<1> QED
  BY <1>2, OrderMoved

\* Where an invocation goes on without recording, only those that recorded still do.
LEMMA NothingRecorded ==
  ASSUME GapInv, NEW a \in GapActor, NEW rec, Become(a, rec), rec.pc \notin Recording
  PROVE  \A b \in GapActor : job'[b].pc \in Recording => job'[b] = job[b]
<1>1. job \in [GapActor -> Job]
  BY GapTypesNamed DEF GapInv
<1>2. job'[a] = rec /\ \A b \in GapActor : b # a => job'[b] = job[b]
  BY <1>1 DEF Become
<1> QED
  BY <1>2

\* The case is claimed.
LEMMA ClaimCaseOrder ==
  ASSUME GapInv, OrderInv, NEW a \in GapActor, ClaimCase(a)
  PROVE  OrderInv'
<1> DEFINE row == [gap EXCEPT !.status = "CLAIMED", !.token = gap.attempts + 1, !.lapsed = FALSE,
                              !.attempts = @ + 1]
           rec == [pc |-> "claimed", token |-> gap.attempts + 1,
                   id |-> [dossier |-> gap.dossier, need |-> gap.need]]
<1>1. /\ gap' = row /\ Become(a, rec) /\ UNCHANGED <<asked, dossiers, answered>>
      /\ gap.status # "ABSENT"
  BY DEF ClaimCase, GapClaimable, Claimed
<1>2. gap \in CaseRow
  BY <1>1, GapTypesNamed DEF GapInv, CaseGood
<1>3. row.need = gap.need /\ row.plan = gap.plan /\ row.status = "CLAIMED"
  BY <1>2 DEF CaseRow
<1>4. rec.pc = "claimed"
  OBVIOUS
<1> HIDE DEF row, rec
<1>5. \A b \in GapActor : job'[b].pc \in Recording => job'[b] = job[b]
  BY <1>1, <1>4, NothingRecorded DEF Recording
<1> QED
  BY <1>1, <1>3, <1>5, KeptOrder DEF DoneStatus

\* The plan that is frozen records what the occurrence of its Dossier does.
LEMMA StartCaseOrder ==
  ASSUME GapInv, OrderInv, NEW a \in GapActor, StartCase(a)
  PROVE  OrderInv'
<1> DEFINE plan == PlanOf(job[a].id)
           row == [gap EXCEPT !.status = "RESEARCHING", !.plan = plan]
           rec == [job[a] EXCEPT !.pc = "searching"]
<1>1. /\ gap' = row /\ Become(a, rec) /\ UNCHANGED <<asked, dossiers, answered>>
      /\ gap.dossier = job[a].id.dossier /\ Claimed /\ job[a].pc = "claimed"
  BY DEF StartCase, Owns, Busy
<1>2. gap.status # "ABSENT"
  BY <1>1 DEF Claimed
<1>3. CaseGood(gap, asked) /\ gap \in CaseRow /\ job[a] \in Holds
  BY <1>1, <1>2, GapTypesNamed, JobForm DEF GapInv, CaseGood, Holding
<1>4. Traced(plan.life)
  <2>1. PICK o \in ToSet(asked) : o.dossier = job[a].id.dossier
    BY <1>1, <1>3 DEF CaseGood
  <2> DEFINE c == CHOOSE p \in ToSet(asked) : p.dossier = job[a].id.dossier
  <2>2. c \in ToSet(asked)
    BY <2>1
  <2>3. plan.life = c.life
    BY DEF PlanOf
  <2> HIDE DEF c, plan
  <2> QED
    BY <2>2, <2>3 DEF OrderInv
<1>5. rec.pc = "searching"
  BY <1>3 DEF Holds
<1> HIDE DEF plan
<1>6. row.need = gap.need /\ row.plan = plan /\ row.status = "RESEARCHING"
  BY <1>3 DEF CaseRow
<1> HIDE DEF row, rec
<1>7. D7' = D7 /\ answered' = answered
  BY <1>1 DEF D7
<1>8. RowInOrder'
  <2>1. /\ \A l : Earned(l) => Earned(l)'
        /\ Earned(gap.need) /\ Earned(plan.life) /\ (plan.life = NoLife => D7)
    BY <1>2, <1>4, <1>7, TracedStays DEF OrderInv, RowInOrder, Traced
  <2>2. \E n : n = gap'.need /\ Earned(n)'
    BY <1>1, <1>6, <2>1
  <2>3. \E n : n = gap'.plan.life /\ Earned(n)'
    BY <1>1, <1>6, <2>1
  <2> QED
    BY <1>1, <1>6, <1>7, <2>1, <2>2, <2>3 DEF RowInOrder, Earned, DoneStatus
<1>9. \A b \in GapActor : job'[b].pc \in Recording => job'[b] = job[b]
  BY <1>1, <1>5, NothingRecorded DEF Recording
<1> QED
  BY <1>1, <1>7, <1>8, <1>9, OrderMoved

\* The verdict concludes the discriminator that the plan of the row records.
LEMMA CompleteCaseOrder ==
  ASSUME GapInv, OrderInv, NEW a \in GapActor, CompleteCase(a)
  PROVE  OrderInv'
<1>1. /\ Become(a, Off) /\ UNCHANGED <<asked, dossiers>>
      /\ answered' = answered \cup {[need |-> job[a].id.need, life |-> gap.plan.life]}
      /\ gap.status = "RESEARCHING"
  BY DEF CompleteCase
<1>2. PICK verdict : gap' = [gap EXCEPT !.status = "COMPLETED", !.token = 0, !.lapsed = FALSE,
                                        !.verdict = verdict]
  BY DEF CompleteCase
<1>3. gap \in CaseRow
  BY <1>1, GapTypesNamed DEF GapInv, CaseGood
<1>4. gap'.need = gap.need /\ gap'.plan = gap.plan
  BY <1>2, <1>3 DEF CaseRow
<1>5. D7' = D7 /\ answered \subseteq answered'
  BY <1>1 DEF D7
<1>6. RowInOrder'
  <2>1. RowInOrder
    BY <1>1 DEF OrderInv
  <2>2. \A l : Earned(l) => Earned(l)'
    BY <1>5, TracedStays
  <2>3. \E n : n = gap'.need /\ Earned(n)'
    BY <1>4, <2>1, <2>2 DEF RowInOrder
  <2>4. \E n : n = gap'.plan.life /\ Earned(n)'
    BY <1>4, <2>1, <2>2 DEF RowInOrder
  <2>5. \E v \in answered' : v.life = gap'.plan.life
    <3> DEFINE new == [need |-> job[a].id.need, life |-> gap.plan.life]
    <3>1. new \in answered' /\ new.life = gap.plan.life
      BY <1>1
    <3> HIDE DEF new
    <3> QED
      BY <1>4, <3>1
  <2> QED
    BY <1>4, <1>5, <2>1, <2>3, <2>4, <2>5 DEF RowInOrder, Earned, Concluded
<1>7. Off.pc \notin Recording
  BY DEF Off, Recording
<1>8. \A b \in GapActor : job'[b].pc \in Recording => job'[b] = job[b]
  BY <1>1, <1>7, NothingRecorded
<1> QED
  BY <1>1, <1>5, <1>6, <1>8, OrderMoved

\* A claim goes back, a superseded case is closed, a finished one marked.
LEMMA EndingOrder ==
  ASSUME GapInv, OrderInv, NEW a \in GapActor,
         ReleaseCase(a) \/ CloseSuperseded(a) \/ MarkHandedOff(a)
  PROVE  OrderInv'
<1>1. Become(a, Off) /\ UNCHANGED <<asked, dossiers, answered>>
  BY DEF ReleaseCase, CloseSuperseded, MarkHandedOff
<1>2. Off.pc \notin Recording
  BY DEF Off, Recording
<1>3. \A b \in GapActor : job'[b].pc \in Recording => job'[b] = job[b]
  BY <1>1, <1>2, NothingRecorded
<1>4. CASE gap' = gap
  <2>1. gap'.status # "ABSENT" => RowInOrder'
    BY <1>1, <1>4, RowStays DEF D7
  <2> QED
    BY <1>1, <1>3, <2>1, OrderMoved
<1>5. ASSUME gap' # gap PROVE OrderInv'
  <2>1. /\ gap.status # "ABSENT"
        /\ \/ gap' = [gap EXCEPT !.status = "QUEUED", !.token = 0, !.lapsed = FALSE]
           \/ gap' = [gap EXCEPT !.status = "CLOSED"]
           \/ gap' = [gap EXCEPT !.status = "HANDED_OFF", !.runKey = job[a].id] /\ Finished
    BY <1>5 DEF ReleaseCase, CloseSuperseded, MarkHandedOff, Claimed, Finished
  <2>2. gap \in CaseRow
    BY <2>1, GapTypesNamed DEF GapInv, CaseGood
  <2>3. /\ gap'.need = gap.need /\ gap'.plan = gap.plan
        /\ gap'.status \in DoneStatus => gap.status \in DoneStatus
    BY <2>1, <2>2 DEF CaseRow, DoneStatus, Finished
  <2> QED
    BY <1>1, <1>3, <2>1, <2>3, KeptOrder
<1> QED
  BY <1>4, <1>5

\* A lease runs out, a queued D7 case is closed.
LEMMA ClockOrder ==
  ASSUME GapInv, OrderInv, LeaseLapses \/ CloseLegacy
  PROVE  OrderInv'
<1>1. /\ UNCHANGED <<asked, dossiers, job, answered>> /\ gap.status # "ABSENT"
      /\ gap' = [gap EXCEPT !.lapsed = TRUE] \/ gap' = [gap EXCEPT !.status = "CLOSED"]
  BY DEF LeaseLapses, CloseLegacy, Claimed
<1>2. gap \in CaseRow
  BY <1>1, GapTypesNamed DEF GapInv, CaseGood
<1>3. /\ gap'.need = gap.need /\ gap'.plan = gap.plan
      /\ gap'.status \in DoneStatus => gap.status \in DoneStatus
  BY <1>1, <1>2 DEF CaseRow, DoneStatus
<1> QED
  BY <1>1, <1>3, KeptOrder

\* A handoff run answers those who wait, none of whom records.
LEMMA HandoffRunEndsOrder ==
  ASSUME GapInv, OrderInv, HandoffRunEnds
  PROVE  OrderInv'
<1>1. PICK key \in PlanId, end \in {"completed", "blocked", "failed"} :
        /\ job' = [a \in GapActor |->
                     IF ~(Busy(a, "await") /\ job[a].id = key) THEN job[a]
                     ELSE IF end = "failed" THEN Off ELSE [job[a] EXCEPT !.pc = "mark"]]
        /\ UNCHANGED <<gap, asked, dossiers, answered>>
  BY DEF HandoffRunEnds
<1>2. ASSUME NEW b \in GapActor, job'[b].pc \in Recording PROVE job'[b] = job[b]
  <2>1. CASE Busy(b, "await")
    <3>1. job[b] \in HandsOff
      BY <2>1, JobForm DEF Busy, GapInv
    <3>2. [job[b] EXCEPT !.pc = "mark"].pc = "mark" /\ Off.pc = "off"
      BY <3>1 DEF HandsOff, Off
    <3>3. job'[b] \in {job[b], Off, [job[b] EXCEPT !.pc = "mark"]}
      BY <1>1
    <3> QED
      BY <1>2, <3>2, <3>3 DEF Recording
  <2>2. CASE ~Busy(b, "await")
    BY <1>1, <2>2
  <2> QED
    BY <2>1, <2>2
<1>3. gap'.status # "ABSENT" => RowInOrder'
  BY <1>1, RowStays DEF D7
<1> QED
  BY <1>1, <1>2, <1>3, OrderMoved

\* Every step keeps the order.
LEMMA OrderStepKeeps ==
  ASSUME GapInv, OrderInv, [GapNext]_gapVars
  PROVE  OrderInv'
<1>1. CASE UNCHANGED gapVars
  <2>1. UNCHANGED <<gap, asked, dossiers, job, answered>>
    BY <1>1 DEF gapVars
  <2>2. gap'.status # "ABSENT" => RowInOrder'
    BY <2>1, RowStays DEF D7
  <2> QED
    BY <2>1, <2>2, OrderMoved
<1>2. CASE PersistDossier
  BY <1>2, PersistDossierOrder
<1>3. CASE LeaseLapses \/ CloseLegacy
  BY <1>3, ClockOrder
<1>4. CASE HandoffRunEnds
  BY <1>4, HandoffRunEndsOrder
<1>5. ASSUME NEW a \in GapActor, GapStep(a)
      PROVE  OrderInv'
  <2>1. CASE SyncRead(a)
    BY <2>1, SyncReadOrder
  <2>2. CASE Transition(a)
    BY <2>2, TransitionOrder
  <2>3. CASE Upsert(a)
    BY <2>3, UpsertOrder
  <2>4. CASE ClaimCase(a)
    BY <2>4, ClaimCaseOrder
  <2>5. CASE StartCase(a)
    BY <2>5, StartCaseOrder
  <2>6. CASE CompleteCase(a)
    BY <2>6, CompleteCaseOrder
  <2>7. CASE ReleaseCase(a) \/ CloseSuperseded(a) \/ MarkHandedOff(a)
    BY <2>7, EndingOrder
  <2>8. CASE ReloadCase(a) \/ PostRun(a) \/ FindSuperseded(a) \/ GapKilled(a)
    BY <2>8, LightOrder
  <2> QED
    BY <1>5, <2>1, <2>2, <2>3, <2>4, <2>5, <2>6, <2>7, <2>8 DEF GapStep
<1> QED
  BY <1>1, <1>2, <1>3, <1>4, <1>5 DEF GapNext

\* The row and the occurrences reach a discriminator only after a verdict on every plan
\* that froze one of those before, for any number of invocations that sync, claim,
\* requeue and write the case at once, and any number of Dossiers and signatures.
THEOREM AdvancesInOrder == GapSpec => []AdvancedInOrder
<1>1. GapInit => OrderInv
  BY DEF GapInit, OrderInv, Absent, Off, Recording, ToSet
<1>2. GapInv /\ OrderInv /\ [GapNext]_gapVars => OrderInv'
  BY OrderStepKeeps
<1>3. OrderInv => AdvancedInOrder
  BY DEF OrderInv, RowInOrder, Traced, AdvancedInOrder
<1> QED
  BY <1>1, <1>2, <1>3, GapInvAlways, PTL DEF GapSpec
=============================================================================
