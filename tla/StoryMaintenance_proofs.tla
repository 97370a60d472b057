------------------------ MODULE StoryMaintenance_proofs ------------------------
(* Theorems about StoryMaintenance, for every choice of its constants. *)
EXTENDS StoryMaintenance, WellFoundedInduction, TLAPS

-----------------------------------------------------------------------------
(* Facts about the values. *)

LEMMA EmptyInputsType ==
  ASSUME NEW b \in BOOLEAN, NEW n \in Nat
  PROVE  EmptyInputs(b, n) \in Inputs
BY DEF EmptyInputs, Inputs, Unread, Versions

LEMMA InputsFields ==
  ASSUME NEW x \in Inputs
  PROVE  /\ x.seeded \in BOOLEAN /\ x.asOf \in Nat /\ x.reads \in BOOLEAN
         /\ x.seen \in Versions /\ \A v \in Versions : [x EXCEPT !.seen = v] \in Inputs
         /\ x.targets \in Targets \cup {None}
         /\ \A t \in Targets \cup {None} : [x EXCEPT !.targets = t] \in Inputs
         /\ [x EXCEPT !.reads = TRUE] \in Inputs
         /\ [x EXCEPT !.reads = TRUE].targets = x.targets
BY DEF Inputs

LEMMA IdleType == IdleInvocation \in Invocations /\ Fits(IdleInvocation)
<1>1. NoInputs \in Inputs
  BY EmptyInputsType DEF NoInputs
<1> QED BY <1>1 DEF IdleInvocation, Invocations, Labels, Fits, Targeted, Assessing

\* What the type invariant says of one invocation.
LEMMA InvFields ==
  ASSUME TypeOK, NEW e \in Invocation
  PROVE  /\ inv[e] \in Invocations /\ Fits(inv[e])
         /\ inv[e].memory \in Inputs /\ inv[e].saved \in Inputs
         /\ inv[e].run \in Run \cup {None} /\ inv[e].targets \in Targets \cup {None}
         /\ inv[e].plan \in SUBSET Row /\ inv[e].todo \in SUBSET Story
         /\ inv[e].story \in Story \cup {None} /\ inv[e].fresh \in BOOLEAN
BY DEF TypeOK, Invocations

\* A step that replaces the local state of one invocation by a good one.
LEMMA InvStep ==
  ASSUME TypeOK, NEW e \in Invocation, NEW i \in Invocations, Fits(i),
         inv' = [inv EXCEPT ![e] = i]
  PROVE  inv' \in [Invocation -> Invocations] /\ \A f \in Invocation : Fits(inv'[f])
<1>1. inv \in [Invocation -> Invocations] /\ \A f \in Invocation : Fits(inv[f])
  BY DEF TypeOK
<1> QED BY <1>1

LEMMA TypeInit == Init => TypeOK
<1>1. NoInputs \in Inputs
  BY EmptyInputsType DEF NoInputs
<1>2. NoAssessment \in Assessment
  BY DEF NoAssessment, Assessment, Verdict
<1> QED BY <1>1, <1>2, IdleType DEF Init, TypeOK, RowStatus, RunStatus, NoStage, Verdict, Unread, Versions

-----------------------------------------------------------------------------
(* Type correctness, one lemma for each group of actions. *)

LEMMA TypeEnvironment ==
  ASSUME TypeOK,
         (\E q \in Row : EnqueueLinkedEvidence(q)) \/ (\E s \in Story : SynthesizeStory(s))
  PROVE  TypeOK'
<1>1. CASE \E q \in Row : EnqueueLinkedEvidence(q)
  BY <1>1 DEF TypeOK, EnqueueLinkedEvidence, RowStatus, runVars
<1>2. CASE \E s \in Story : SynthesizeStory(s)
  BY <1>2 DEF TypeOK, SynthesizeStory, queueVars, runVars
<1> QED BY <1>1, <1>2

LEMMA ContinueType ==
  ASSUME NEW i \in Invocations, i.run \in Run, NEW m \in Inputs
  PROVE  LET j == [i EXCEPT !.memory = m, !.saved = NoInputs,
                            !.pc = IF m.reads THEN "hygiene" ELSE "readStories"]
         IN j \in Invocations /\ Fits(j)
<1>1. NoInputs \in Inputs
  BY EmptyInputsType DEF NoInputs
<1> QED BY <1>1 DEF Invocations, Labels, Fits, Targeted, Assessing

LEMMA TypeOpen ==
  ASSUME TypeOK, NEW e \in Invocation, NEW r \in Run, OpenRun(e, r)
  PROVE  TypeOK'
<1>1. inputs[r] \in Inputs /\ inv[e] \in Invocations
  BY DEF TypeOK
<1>2. inv' \in [Invocation -> Invocations] /\ \A f \in Invocation : Fits(inv'[f])
  <2>1. CASE inputs[r].seeded
    <3> DEFINE i == [inv[e] EXCEPT !.run = r]
               j == [i EXCEPT !.memory = inputs[r], !.saved = NoInputs,
                              !.pc = IF inputs[r].reads THEN "hygiene" ELSE "readStories"]
    <3>1. i \in Invocations /\ i.run \in Run
      BY <1>1 DEF Invocations
    <3>2. inv' = [inv EXCEPT ![e] = j]
      BY <2>1, <1>1 DEF OpenRun, Continue, TypeOK
    <3>3. j \in Invocations /\ Fits(j)
      BY <3>1, <1>1, ContinueType
    <3> HIDE DEF i, j
    <3> QED BY <3>2, <3>3, InvStep
  <2>2. CASE ~inputs[r].seeded
    <3> DEFINE j == [inv[e] EXCEPT !.run = r, !.saved = inputs[r],
                                   !.pc = IF runStatus[r] = "none" THEN "create" ELSE "seed"]
    <3>1. j \in Invocations /\ Fits(j)
      BY <1>1 DEF Invocations, Labels, Fits, Targeted, Assessing
    <3>2. inv' = [inv EXCEPT ![e] = j]
      BY <2>2 DEF OpenRun, TypeOK
    <3> QED BY <3>1, <3>2, InvStep
  <2> QED BY <2>1, <2>2
<1>3. opened' \in [Run -> Nat]
  BY DEF OpenRun, TypeOK
<1> QED BY <1>2, <1>3 DEF OpenRun, TypeOK, queueVars, runVars

LEMMA TypeCreate ==
  ASSUME TypeOK, NEW e \in Invocation, CreateRun(e)
  PROVE  TypeOK'
<1> DEFINE r == inv[e].run
           new == EmptyInputs(FALSE, clock + 1)
           j == [inv[e] EXCEPT !.saved = new, !.pc = "seed"]
<1>1. inv[e] \in Invocations /\ r \in Run
  BY InvFields DEF CreateRun, At, Fits
<1>2. new \in Inputs /\ clock + 1 \in Nat
  <2>1. clock + 1 \in Nat
    BY DEF TypeOK
  <2> QED BY <2>1, EmptyInputsType
<1>3. /\ inv' = [inv EXCEPT ![e] = j]
      /\ inputs' = [inputs EXCEPT ![r] = new]
      /\ runStatus' = [runStatus EXCEPT ![r] = "started"]
      /\ clock' = clock + 1
  BY DEF CreateRun, TypeOK
<1>4. j \in Invocations /\ Fits(j)
  <2> HIDE DEF new
  <2> QED BY <1>1, <1>2 DEF Invocations, Labels, Fits, Targeted, Assessing
<1> HIDE DEF r, new, j
<1>5. inv' \in [Invocation -> Invocations] /\ \A f \in Invocation : Fits(inv'[f])
  BY <1>3, <1>4, InvStep
<1>6. inputs' \in [Run -> Inputs]
  BY <1>1, <1>2, <1>3 DEF TypeOK
<1>7. runStatus' \in [Run -> RunStatus]
  BY <1>1, <1>3 DEF TypeOK, RunStatus
<1> QED BY <1>2, <1>3, <1>5, <1>6, <1>7 DEF CreateRun, TypeOK, queueVars

LEMMA TypeSeed ==
  ASSUME TypeOK, NEW e \in Invocation, SeedInputs(e)
  PROVE  TypeOK'
<1> DEFINE r == inv[e].run
           seeded == EmptyInputs(TRUE, inv[e].saved.asOf)
           j == [inv[e] EXCEPT !.memory = seeded, !.saved = NoInputs,
                               !.pc = IF seeded.reads THEN "hygiene" ELSE "readStories"]
<1>1. inv[e] \in Invocations /\ r \in Run /\ seeded \in Inputs
  BY InvFields, InputsFields, EmptyInputsType DEF SeedInputs, At, Fits
<1>2. inv' = [inv EXCEPT ![e] = j]
  BY DEF SeedInputs, Continue, TypeOK
<1>3. j \in Invocations /\ Fits(j)
  <2> HIDE DEF seeded
  <2> QED BY <1>1, ContinueType
<1>4. inv' \in [Invocation -> Invocations] /\ \A f \in Invocation : Fits(inv'[f])
  <2> HIDE DEF j
  <2> QED BY <1>2, <1>3, InvStep
<1>5. inputs' \in [Run -> Inputs]
  BY <1>1 DEF SeedInputs, TypeOK
<1> QED BY <1>4, <1>5 DEF SeedInputs, TypeOK, queueVars

LEMMA TypeReads ==
  ASSUME TypeOK, NEW e \in Invocation, ReadStories(e) \/ ReadMetadata(e) \/ PersistFrozenReads(e)
  PROVE  TypeOK'
<1>1. inv[e] \in Invocations /\ inv[e].run \in Run
  BY InvFields DEF ReadStories, ReadMetadata, PersistFrozenReads, At, Fits
<1>4. CASE ReadStories(e)
  <2> DEFINE v == [s \in Story |-> story[s].versionAt]
             m == [inv[e].memory EXCEPT !.seen = v]
             j == [inv[e] EXCEPT !.memory = m, !.pc = "readMeta"]
  <2>1. v \in Versions
    BY DEF TypeOK, Versions
  <2>2. inv' = [inv EXCEPT ![e] = j]
    BY <1>1, <1>4 DEF ReadStories, TypeOK, Invocations
  <2> HIDE DEF v
  <2>3. m \in Inputs
    BY <2>1, InvFields, InputsFields
  <2> HIDE DEF m
  <2>4. j \in Invocations /\ Fits(j)
    BY <1>1, <2>3 DEF Invocations, Labels, Fits, Targeted, Assessing
  <2> HIDE DEF j
  <2>5. inv' \in [Invocation -> Invocations] /\ \A f \in Invocation : Fits(inv'[f])
    BY <2>2, <2>4, InvStep
  <2> QED BY <1>4, <2>5 DEF ReadStories, TypeOK, queueVars, runVars
<1>2. CASE ReadMetadata(e)
  <2> DEFINE j == [inv[e] EXCEPT !.saved = inputs[inv[e].run], !.pc = "saveMeta"]
  <2>1. inputs[inv[e].run] \in Inputs
    BY <1>1 DEF TypeOK
  <2>2. j \in Invocations /\ Fits(j)
    BY <1>1, <2>1 DEF Invocations, Labels, Fits, Targeted, Assessing
  <2>3. inv' = [inv EXCEPT ![e] = j]
    BY <1>2 DEF ReadMetadata, TypeOK
  <2> HIDE DEF j
  <2>4. inv' \in [Invocation -> Invocations] /\ \A f \in Invocation : Fits(inv'[f])
    BY <2>2, <2>3, InvStep
  <2> QED BY <1>2, <2>4 DEF ReadMetadata, TypeOK, queueVars, runVars
<1>3. CASE PersistFrozenReads(e)
  <2> DEFINE m == [inv[e].memory EXCEPT !.reads = TRUE]
             durable == IF m.targets # None THEN m.targets ELSE inv[e].saved.targets
             j == [inv[e] EXCEPT !.memory = m, !.saved = NoInputs, !.pc = "hygiene"]
  <2>1. m \in Inputs
    BY InvFields, InputsFields
  <2>2. durable \in Targets \cup {None}
    BY <2>1, InvFields, InputsFields
  <2>3. [m EXCEPT !.targets = durable] \in Inputs
    <3> HIDE DEF m, durable
    <3> QED BY <2>1, <2>2, InputsFields
  <2>4. j \in Invocations /\ Fits(j)
    <3>1. NoInputs \in Inputs
      BY EmptyInputsType DEF NoInputs
    <3> HIDE DEF m
    <3> QED BY <1>1, <2>1, <3>1 DEF Invocations, Labels, Fits, Targeted, Assessing
  <2>5. /\ inv' = [inv EXCEPT ![e] = j]
        /\ inputs' = [inputs EXCEPT ![inv[e].run] = [m EXCEPT !.targets = durable]]
    BY <1>3 DEF PersistFrozenReads, TypeOK
  <2> HIDE DEF m, durable, j
  <2>6. inv' \in [Invocation -> Invocations] /\ \A f \in Invocation : Fits(inv'[f])
    BY <2>4, <2>5, InvStep
  <2>7. inputs' \in [Run -> Inputs]
    BY <2>3, <2>5, <1>1 DEF TypeOK
  <2> QED BY <1>3, <2>6, <2>7 DEF PersistFrozenReads, TypeOK, queueVars
<1> QED BY <1>2, <1>3, <1>4

LEMMA TypeHygiene ==
  ASSUME TypeOK, NEW e \in Invocation, PlanHygiene(e) \/ CancelRedundant(e)
  PROVE  TypeOK'
<1>1. inv[e] \in Invocations /\ inv[e].run \in Run
  BY InvFields DEF PlanHygiene, CancelRedundant, At, Fits
<1>2. CASE PlanHygiene(e)
  <2>1. PICK plan \in SUBSET Row :
          inv' = [inv EXCEPT ![e] = [inv[e] EXCEPT !.plan = plan,
                                       !.pc = IF plan = {} THEN "select" ELSE "cancel"]]
    BY <1>2 DEF PlanHygiene, Actionable, Duplicates, TypeOK
  <2> DEFINE j == [inv[e] EXCEPT !.plan = plan, !.pc = IF plan = {} THEN "select" ELSE "cancel"]
  <2>2. j \in Invocations /\ Fits(j)
    BY <1>1 DEF Invocations, Labels, Fits, Targeted, Assessing
  <2> HIDE DEF j
  <2>3. inv' \in [Invocation -> Invocations] /\ \A f \in Invocation : Fits(inv'[f])
    BY <2>1, <2>2, InvStep DEF j
  <2> QED BY <1>2, <2>3 DEF PlanHygiene, TypeOK, queueVars, runVars
<1>3. CASE CancelRedundant(e)
  <2>0. PICK later \in SUBSET inv[e].plan, next \in {"select", "cancel"} :
          inv' = [inv EXCEPT ![e].plan = later, ![e].pc = next]
    BY <1>3 DEF CancelRedundant
  <2> DEFINE j == [inv[e] EXCEPT !.plan = later, !.pc = next]
  <2>1. j \in Invocations /\ Fits(j)
    BY <1>1, <2>0 DEF Invocations, Labels, Fits, Targeted, Assessing
  <2>2. inv' = [inv EXCEPT ![e] = j]
    BY <2>0 DEF TypeOK
  <2> HIDE DEF j
  <2>3. inv' \in [Invocation -> Invocations] /\ \A f \in Invocation : Fits(inv'[f])
    BY <2>1, <2>2, InvStep
  <2>4. status' \in [Row -> RowStatus]
    BY <1>3 DEF CancelRedundant, TypeOK, RowStatus
  <2> QED BY <1>3, <2>3, <2>4 DEF CancelRedundant, TypeOK, runVars
<1> QED BY <1>2, <1>3

-----------------------------------------------------------------------------
(* Selections: they stay selections when Stories are dropped from them. *)

LEMMA TargetsFields ==
  ASSUME NEW t \in Targets
  PROVE  /\ t.at \in Nat /\ t.seen \in Versions /\ DOMAIN t.rows \subseteq Story
         /\ t.rows \in [DOMAIN t.rows -> SUBSET Row]
         /\ \A s \in DOMAIN t.rows : \A q \in t.rows[s] : StoryOf[q] = s
         /\ t = [at |-> t.at, seen |-> t.seen, rows |-> t.rows]
BY DEF Targets, RequestsOf

LEMMA MakeTargets ==
  ASSUME NEW n \in Nat, NEW v \in Versions, NEW S \in SUBSET Story, NEW f \in [S -> SUBSET Row],
         \A s \in S : \A q \in f[s] : StoryOf[q] = s
  PROVE  [at |-> n, seen |-> v, rows |-> f] \in Targets
BY DEF Targets, RequestsOf

\* Keeping only some Stories of a selection.
LEMMA RestrictTargets ==
  ASSUME NEW t \in Targets, NEW K \in SUBSET (DOMAIN t.rows)
  PROVE  [t EXCEPT !.rows = [s \in K |-> t.rows[s]]] \in Targets
<1>1. /\ t.at \in Nat /\ t.seen \in Versions /\ K \in SUBSET Story /\ [s \in K |-> t.rows[s]] \in [K -> SUBSET Row]
      /\ \A s \in K : \A q \in [z \in K |-> t.rows[z]][s] : StoryOf[q] = s
  BY TargetsFields
<1>2. [t EXCEPT !.rows = [s \in K |-> t.rows[s]]] = [at |-> t.at, seen |-> t.seen, rows |-> [s \in K |-> t.rows[s]]]
  BY TargetsFields
<1> QED BY <1>1, <1>2, MakeTargets

LEMMA OwnedTargetsType ==
  ASSUME NEW t \in Targets, NEW got \in SUBSET Row
  PROVE  OwnedTargets(t, got) \in Targets
<1> DEFINE K == {s \in DOMAIN t.rows : t.rows[s] \subseteq got}
<1>1. K \in SUBSET (DOMAIN t.rows)
  OBVIOUS
<1> HIDE DEF K
<1>2. [t EXCEPT !.rows = [s \in K |-> t.rows[s]]] \in Targets
  BY <1>1, RestrictTargets
<1> QED BY <1>2 DEF OwnedTargets, K

\* The common continuation of selecting, claiming and freezing.
LEMMA ProceedType ==
  ASSUME TypeOK, NEW e \in Invocation, inv[e].run \in Run,
         NEW t \in Targets, NEW fresh \in BOOLEAN, Proceed(e, t, fresh)
  PROVE  inv' \in [Invocation -> Invocations] /\ \A f \in Invocation : Fits(inv'[f])
<1>1. PICK next \in {"freeze", "creator", "stage", "finish"} :
        inv' = [inv EXCEPT ![e].targets = t, ![e].memory.targets = IF At(e, "freeze") THEN t ELSE @,
                           ![e].plan = {}, ![e].fresh = fresh, ![e].pc = next]
  BY DEF Proceed
<1> DEFINE m == [inv[e].memory EXCEPT !.targets = IF At(e, "freeze") THEN t ELSE @]
           j == [inv[e] EXCEPT !.targets = t, !.memory = m, !.plan = {}, !.fresh = fresh, !.pc = next]
<1>2. inv[e] \in Invocations /\ inv[e].memory \in Inputs
  BY InvFields
<1>3. m \in Inputs
  <2>1. (IF At(e, "freeze") THEN t ELSE inv[e].memory.targets) \in Targets \cup {None}
    BY <1>2, InputsFields
  <2> QED BY <1>2, <2>1, InputsFields
<1>4. inv' = [inv EXCEPT ![e] = j]
  BY <1>1, <1>2 DEF TypeOK, Invocations
<1>5. j \in Invocations /\ Fits(j)
  <2> HIDE DEF m
  <2> QED BY <1>2, <1>3 DEF Invocations, Labels, Fits, Targeted, Assessing
<1> HIDE DEF j
<1> QED BY <1>4, <1>5, InvStep

LEMMA TypeSelect ==
  ASSUME TypeOK, NEW e \in Invocation, SelectTargets(e)
  PROVE  TypeOK'
<1>1. inv[e] \in Invocations /\ inv[e].run \in Run /\ inv[e].memory \in Inputs
  BY InvFields DEF SelectTargets, At, Fits
<1>2. PICK f \in Selections :
        LET fresh == inv[e].memory.targets = None
            t == IF fresh THEN [at |-> inv[e].memory.asOf, seen |-> inv[e].memory.seen, rows |-> f] ELSE inv[e].memory.targets
        IN IF RowsOf(t) = {} THEN Proceed(e, t, fresh)
           ELSE inv' = [inv EXCEPT ![e].targets = t, ![e].fresh = fresh, ![e].pc = "claim"]
  BY DEF SelectTargets, SelectedAt
<1> DEFINE fresh == inv[e].memory.targets = None
           t == IF fresh THEN [at |-> inv[e].memory.asOf, seen |-> inv[e].memory.seen, rows |-> f] ELSE inv[e].memory.targets
           j == [inv[e] EXCEPT !.targets = t, !.fresh = fresh, !.pc = "claim"]
<1>3. [at |-> inv[e].memory.asOf, seen |-> inv[e].memory.seen, rows |-> f] \in Targets
  <2>1. PICK S \in SUBSET Story : /\ f \in [S -> SUBSET Row]
                                  /\ \A s \in S : f[s] \subseteq Available(s)
    BY <1>2 DEF Selections
  <2>2. \A s \in S : \A q \in f[s] : StoryOf[q] = s
    BY <2>1 DEF Available
  <2> QED BY <2>1, <2>2, <1>1, InputsFields, MakeTargets
<1>4. t \in Targets
  BY <1>1, <1>3, InputsFields
<1>5. fresh \in BOOLEAN
  OBVIOUS
<1>6. \/ Proceed(e, t, fresh)
      \/ inv' = [inv EXCEPT ![e] = j]
  <2>1. inv[e].run \in Run /\ inv \in [Invocation -> Invocations]
    BY <1>1 DEF TypeOK
  <2> QED BY <1>2, <2>1
<1>7. j \in Invocations /\ Fits(j)
  <2> HIDE DEF t, fresh
  <2> QED BY <1>1, <1>4, <1>5 DEF Invocations, Labels, Fits, Targeted, Assessing
<1> HIDE DEF t, fresh, j
<1>8. inv' \in [Invocation -> Invocations] /\ \A g \in Invocation : Fits(inv'[g])
  BY <1>1, <1>4, <1>5, <1>6, <1>7, InvStep, ProceedType
<1> QED BY <1>8 DEF SelectTargets, TypeOK, queueVars, runVars

\* A run that fails leaves its invocation idle.
LEMMA FailType ==
  ASSUME TypeOK, NEW e \in Invocation, inv[e].run \in Run, Fail(e)
  PROVE  /\ inv' \in [Invocation -> Invocations] /\ \A f \in Invocation : Fits(inv'[f])
         /\ runStatus' \in [Run -> RunStatus]
<1>1. inv' \in [Invocation -> Invocations] /\ \A f \in Invocation : Fits(inv'[f])
  BY IdleType, InvStep DEF Fail
<1>2. runStatus' \in [Run -> RunStatus]
  BY DEF Fail, TypeOK, RunStatus
<1> QED BY <1>1, <1>2

LEMMA TypeClaim ==
  ASSUME TypeOK, NEW e \in Invocation, ClaimTargets(e)
  PROVE  TypeOK'
<1>1. inv[e] \in Invocations /\ inv[e].run \in Run /\ inv[e].targets \in Targets /\ inv[e].fresh \in BOOLEAN
  BY InvFields DEF ClaimTargets, At, Fits, Targeted
<1>2. PICK old \in SUBSET Expirable : \E got \in SUBSET Claimable(e, Recovered(old)) :
        LET claimed == [q \in Row |-> IF q \in got THEN "processing" ELSE Recovered(old)[q]]
            kept == OwnedTargets(inv[e].targets, got)
        IN \/ /\ status' = claimed
              /\ owner' = [q \in Row |-> IF q \in got THEN inv[e].run
                                         ELSE IF q \in Abandoned(old) THEN None ELSE owner[q]]
              /\ IF got \subseteq RowsOf(kept)
                 THEN Proceed(e, kept, inv[e].fresh)
                 ELSE inv' = [inv EXCEPT ![e].plan = got, ![e].pc = "release"]
              /\ UNCHANGED runStatus
           \/ Fail(e) /\ UNCHANGED queueVars
  BY DEF ClaimTargets
<1>3. PICK got \in SUBSET Claimable(e, Recovered(old)) :
        LET claimed == [q \in Row |-> IF q \in got THEN "processing" ELSE Recovered(old)[q]]
            kept == OwnedTargets(inv[e].targets, got)
        IN \/ /\ status' = claimed
              /\ owner' = [q \in Row |-> IF q \in got THEN inv[e].run
                                         ELSE IF q \in Abandoned(old) THEN None ELSE owner[q]]
              /\ IF got \subseteq RowsOf(kept)
                 THEN Proceed(e, kept, inv[e].fresh)
                 ELSE inv' = [inv EXCEPT ![e].plan = got, ![e].pc = "release"]
              /\ UNCHANGED runStatus
           \/ Fail(e) /\ UNCHANGED queueVars
  BY <1>2
<1>4. got \in SUBSET Row
  <2>1. Claimable(e, Recovered(old)) \subseteq Row
    BY <1>1, TargetsFields DEF Claimable, RowsOf
  <2> QED BY <1>3, <2>1
<1>5. CASE Fail(e) /\ UNCHANGED queueVars
  BY <1>1, <1>5, FailType DEF ClaimTargets, TypeOK, queueVars
<1>6. CASE /\ status' = [q \in Row |-> IF q \in got THEN "processing" ELSE Recovered(old)[q]]
           /\ owner' = [q \in Row |-> IF q \in got THEN inv[e].run
                                      ELSE IF q \in Abandoned(old) THEN None ELSE owner[q]]
           /\ IF got \subseteq RowsOf(OwnedTargets(inv[e].targets, got))
              THEN Proceed(e, OwnedTargets(inv[e].targets, got), inv[e].fresh)
              ELSE inv' = [inv EXCEPT ![e].plan = got, ![e].pc = "release"]
           /\ UNCHANGED runStatus
  <2>1. status' \in [Row -> RowStatus]
    BY <1>6 DEF Recovered, TypeOK, RowStatus
  <2>2. owner' \in [Row -> Run \cup {None}]
    BY <1>1, <1>6 DEF TypeOK
  <2>3. OwnedTargets(inv[e].targets, got) \in Targets
    BY <1>1, <1>4, OwnedTargetsType
  <2>4. inv' \in [Invocation -> Invocations] /\ \A f \in Invocation : Fits(inv'[f])
    <3>1. CASE Proceed(e, OwnedTargets(inv[e].targets, got), inv[e].fresh)
      BY <1>1, <2>3, <3>1, ProceedType
    <3>2. CASE inv' = [inv EXCEPT ![e].plan = got, ![e].pc = "release"]
      <4> DEFINE j == [inv[e] EXCEPT !.plan = got, !.pc = "release"]
      <4>1. j \in Invocations /\ Fits(j)
        BY <1>1, <1>4 DEF Invocations, Labels, Fits, Targeted, Assessing
      <4>2. inv' = [inv EXCEPT ![e] = j]
        BY <3>2 DEF TypeOK
      <4> HIDE DEF j
      <4> QED BY <4>1, <4>2, InvStep
    <3> QED BY <1>6, <3>1, <3>2
  <2> QED BY <1>6, <2>1, <2>2, <2>4 DEF ClaimTargets, TypeOK
<1> QED BY <1>3, <1>5, <1>6

LEMMA TypeRelease ==
  ASSUME TypeOK, NEW e \in Invocation, ReleasePartialClaims(e)
  PROVE  TypeOK'
<1> DEFINE kept == OwnedTargets(inv[e].targets, inv[e].plan)
<1>1. /\ inv[e].run \in Run /\ inv[e].targets \in Targets /\ inv[e].fresh \in BOOLEAN
      /\ inv[e].plan \in SUBSET Row
  BY InvFields DEF ReleasePartialClaims, At, Fits, Targeted
<1>2. kept \in Targets
  BY <1>1, OwnedTargetsType
<1>3. Proceed(e, kept, inv[e].fresh)
  BY DEF ReleasePartialClaims
<1> HIDE DEF kept
<1>4. inv' \in [Invocation -> Invocations] /\ \A f \in Invocation : Fits(inv'[f])
  BY <1>1, <1>2, <1>3, ProceedType
<1>5. status' \in [Row -> RowStatus] /\ owner' \in [Row -> Run \cup {None}]
  BY DEF ReleasePartialClaims, TypeOK, RowStatus
<1> QED BY <1>4, <1>5 DEF ReleasePartialClaims, TypeOK, runVars

LEMMA TypeFreeze ==
  ASSUME TypeOK, NEW e \in Invocation, FreezeTargets(e)
  PROVE  TypeOK'
<1> DEFINE r == inv[e].run
           frozen == IF inputs[r].targets # None THEN inputs[r].targets ELSE inv[e].targets
<1>1. r \in Run /\ inv[e].targets \in Targets
  BY InvFields DEF FreezeTargets, At, Fits, Targeted
<1>2. inputs[r] \in Inputs
  BY <1>1 DEF TypeOK
<1>3. frozen \in Targets
  BY <1>1, <1>2, InputsFields
<1>4. Proceed(e, frozen, FALSE) /\ inputs' = [inputs EXCEPT ![r].targets = frozen]
  BY DEF FreezeTargets
<1>5. inputs' = [inputs EXCEPT ![r] = [inputs[r] EXCEPT !.targets = frozen]]
  BY <1>1, <1>4 DEF TypeOK
<1>6. [inputs[r] EXCEPT !.targets = frozen] \in Inputs
  BY <1>2, <1>3, InputsFields
<1>7. inputs' \in [Run -> Inputs]
  BY <1>1, <1>5, <1>6 DEF TypeOK
<1> HIDE DEF frozen
<1>8. inv' \in [Invocation -> Invocations] /\ \A f \in Invocation : Fits(inv'[f])
  BY <1>1, <1>3, <1>4, ProceedType
<1> QED BY <1>7, <1>8 DEF FreezeTargets, TypeOK, queueVars

LEMMA TypeCreatorOnly ==
  ASSUME TypeOK, NEW e \in Invocation, ResolveCreatorOnly(e)
  PROVE  TypeOK'
<1> DEFINE left == DOMAIN inv[e].targets.rows \ CreatorOnlyNonMaterial(inv[e].targets)
           t == [inv[e].targets EXCEPT !.rows = [s \in left |-> inv[e].targets.rows[s]]]
<1>1. inv[e].run \in Run /\ inv[e].targets \in Targets
  BY InvFields DEF ResolveCreatorOnly, At, Fits, Targeted
<1>2. t \in Targets
  <2>1. left \in SUBSET (DOMAIN inv[e].targets.rows)
    OBVIOUS
  <2> HIDE DEF left
  <2> QED BY <1>1, <2>1, RestrictTargets
<1>3. Proceed(e, t, FALSE)
  BY DEF ResolveCreatorOnly
<1> HIDE DEF t
<1>4. inv' \in [Invocation -> Invocations] /\ \A f \in Invocation : Fits(inv'[f])
  BY <1>1, <1>2, <1>3, ProceedType
<1>5. status' \in [Row -> RowStatus]
  BY DEF ResolveCreatorOnly, TypeOK, RowStatus
<1> QED BY <1>4, <1>5 DEF ResolveCreatorOnly, TypeOK, runVars

-----------------------------------------------------------------------------
(* Type correctness of the stage and of the assessments. *)

LEMMA UseOutputType ==
  ASSUME TypeOK, NEW e \in Invocation, inv[e].run \in Run, inv[e].targets \in Targets,
         NEW output, UseOutput(e, output)
  PROVE  inv' \in [Invocation -> Invocations] /\ \A f \in Invocation : Fits(inv'[f])
<1>1. PICK label \in {"assess", "omitted"} :
        inv' = [inv EXCEPT ![e].todo = DOMAIN inv[e].targets.rows \ OmittedTargets(e, output),
                           ![e].pc = label]
  BY DEF UseOutput
<1> DEFINE todo == DOMAIN inv[e].targets.rows \ OmittedTargets(e, output)
           j == [inv[e] EXCEPT !.todo = todo, !.pc = label]
<1>2. todo \subseteq DOMAIN inv[e].targets.rows /\ todo \subseteq Story
  BY TargetsFields
<1>3. inv' = [inv EXCEPT ![e] = j]
  BY <1>1 DEF TypeOK
<1>4. inv[e] \in Invocations
  BY InvFields
<1>5. j \in Invocations /\ Fits(j)
  <2> HIDE DEF todo
  <2> QED BY <1>2, <1>4 DEF Invocations, Labels, Fits, Targeted, Assessing
<1> HIDE DEF j
<1> QED BY <1>3, <1>5, InvStep

LEMMA TypeStage ==
  ASSUME TypeOK, NEW e \in Invocation,
         ReuseStage(e) \/ ClaimStage(e) \/ StageBusy(e) \/ FinishStage(e) \/ FailStage(e)
  PROVE  TypeOK'
<1>1. inv[e] \in Invocations /\ inv[e].run \in Run /\ inv[e].targets \in Targets
  BY InvFields DEF ReuseStage, ClaimStage, StageBusy, FinishStage, FailStage, At, Fits, Targeted
<1> DEFINE Stages == [state : {"none", "claimed", "abandoned", "completed"},
                      by : Invocation \cup {None}, seen : Versions, output : [Story -> Verdict]]
<1>2. NoStage \in Stages /\ [NoStage EXCEPT !.state = "claimed", !.by = e] \in Stages
  BY DEF NoStage, Verdict, Unread, Versions
<1>3. stage \in [Run -> Stages]
  BY DEF TypeOK
<1>4. CASE ReuseStage(e)
  <2>1. inv' \in [Invocation -> Invocations] /\ \A f \in Invocation : Fits(inv'[f])
    BY <1>1, <1>4, UseOutputType DEF ReuseStage
  <2> QED BY <1>4, <2>1 DEF ReuseStage, TypeOK, queueVars, runVars
<1>5. CASE ClaimStage(e)
  <2> DEFINE j == [inv[e] EXCEPT !.pc = "model"]
  <2>1. inv' = [inv EXCEPT ![e] = j]
    BY <1>5 DEF ClaimStage, Goto, TypeOK
  <2>2. j \in Invocations /\ Fits(j)
    BY <1>1 DEF Invocations, Labels, Fits, Targeted, Assessing
  <2> HIDE DEF j
  <2>3. inv' \in [Invocation -> Invocations] /\ \A f \in Invocation : Fits(inv'[f])
    BY <2>1, <2>2, InvStep
  <2>4. stage' \in [Run -> Stages]
    <3>1. stage' = [stage EXCEPT ![inv[e].run] = [NoStage EXCEPT !.state = "claimed", !.by = e]]
      BY <1>5 DEF ClaimStage
    <3> HIDE DEF Stages
    <3> QED BY <1>1, <1>2, <1>3, <3>1
  <2> QED BY <1>5, <2>3, <2>4 DEF ClaimStage, TypeOK, queueVars
<1>6. CASE StageBusy(e)
  <2>1. inv' \in [Invocation -> Invocations] /\ \A f \in Invocation : Fits(inv'[f])
    BY <1>6, IdleType, InvStep DEF StageBusy
  <2> QED BY <1>6, <2>1 DEF StageBusy, TypeOK, queueVars, runVars
<1>7. CASE FinishStage(e)
  <2>1. PICK verdicts \in [DOMAIN inv[e].targets.rows -> Verdict] :
          LET output == [s \in Story |-> IF s \in DOMAIN verdicts THEN verdicts[s] ELSE "omitted"]
          IN /\ stage' = [stage EXCEPT ![inv[e].run] = [state |-> "completed", by |-> None, seen |-> inv[e].targets.seen, output |-> output]]
             /\ UseOutput(e, output)
    BY <1>7 DEF FinishStage
  <2> DEFINE output == [s \in Story |-> IF s \in DOMAIN verdicts THEN verdicts[s] ELSE "omitted"]
  <2>2. output \in [Story -> Verdict]
    BY <2>1 DEF Verdict
  <2> HIDE DEF output
  <2>3. [state |-> "completed", by |-> None, seen |-> inv[e].targets.seen, output |-> output] \in Stages
    BY <1>1, <2>2, TargetsFields
  <2>4. /\ stage' = [stage EXCEPT ![inv[e].run] = [state |-> "completed", by |-> None, seen |-> inv[e].targets.seen, output |-> output]]
        /\ UseOutput(e, output)
    BY <2>1 DEF output
  <2>5. stage' \in [Run -> Stages]
    <3> HIDE DEF Stages
    <3> QED BY <1>1, <1>3, <2>3, <2>4
  <2>6. inv' \in [Invocation -> Invocations] /\ \A f \in Invocation : Fits(inv'[f])
    BY <1>1, <2>4, UseOutputType
  <2> QED BY <1>7, <2>5, <2>6 DEF FinishStage, TypeOK, queueVars
<1>8. CASE FailStage(e)
  <2>1. inv' \in [Invocation -> Invocations] /\ \A f \in Invocation : Fits(inv'[f])
    BY <1>8, IdleType, InvStep DEF FailStage
  <2>2. stage' \in [Run -> Stages]
    <3>1. stage' = [stage EXCEPT ![inv[e].run] = NoStage]
      BY <1>8 DEF FailStage
    <3> HIDE DEF Stages
    <3> QED BY <1>1, <1>2, <1>3, <3>1
  <2>3. runStatus' \in [Run -> RunStatus]
    BY <1>8 DEF FailStage, TypeOK, RunStatus
  <2> QED BY <1>8, <2>1, <2>2, <2>3 DEF FailStage, TypeOK, queueVars
<1> QED BY <1>4, <1>5, <1>6, <1>7, <1>8

LEMMA TypeMark ==
  ASSUME TypeOK, NEW e \in Invocation, MarkOmittedRetryable(e)
  PROVE  TypeOK'
<1> DEFINE j == [inv[e] EXCEPT !.pc = "assess"]
<1>1. inv[e] \in Invocations /\ Fits(inv[e]) /\ inv[e].pc = "omitted"
  BY InvFields DEF MarkOmittedRetryable, At
<1>2. j \in Invocations /\ Fits(j)
  BY <1>1 DEF Invocations, Labels, Fits, Targeted, Assessing
<1>3. inv' = [inv EXCEPT ![e] = j]
  BY DEF MarkOmittedRetryable, Goto, TypeOK
<1> HIDE DEF j
<1>4. inv' \in [Invocation -> Invocations] /\ \A f \in Invocation : Fits(inv'[f])
  BY <1>2, <1>3, InvStep
<1>5. status' \in [Row -> RowStatus]
  BY DEF MarkOmittedRetryable, TypeOK, RowStatus
<1> QED BY <1>4, <1>5 DEF MarkOmittedRetryable, TypeOK, runVars

\* Replacing the assessment of one Story by one run.
LEMMA AssessmentStep ==
  ASSUME TypeOK, NEW r \in Run, NEW s \in Story, NEW a \in Assessment,
         assessment' = [assessment EXCEPT ![r][s] = a]
  PROVE  assessment' \in [Run -> [Story -> Assessment]]
<1>1. assessment \in [Run -> [Story -> Assessment]]
  BY DEF TypeOK
<1> QED BY <1>1

\* Neither verdict, state nor note takes an assessment out of its type.
LEMMA AssessmentFields ==
  ASSUME TypeOK, NEW r \in Run, NEW s \in Story
  PROVE  /\ assessment[r][s] \in Assessment /\ assessment[r][s].verdict \in Verdict
         /\ \A v \in Verdict : [assessment[r][s] EXCEPT !.state = "applied", !.verdict = v] \in Assessment
         /\ \A b \in BOOLEAN : [assessment[r][s] EXCEPT !.verdict = "unchanged", !.stale = b] \in Assessment
<1>1. assessment[r][s] \in Assessment
  BY DEF TypeOK
<1> QED BY <1>1 DEF Assessment, Verdict

LEMMA TypeInsert ==
  ASSUME TypeOK, NEW e \in Invocation, InsertAssessment(e)
  PROVE  TypeOK'
<1> DEFINE r == inv[e].run
           t == inv[e].targets
<1>1. /\ inv[e] \in Invocations /\ r \in Run /\ t \in Targets /\ inv[e].todo \subseteq DOMAIN t.rows
      /\ inv[e].pc = "assess"
  BY InvFields DEF InsertAssessment, At, Fits
<1>2. PICK s \in inv[e].todo :
        LET next == [inv EXCEPT ![e].story = s, ![e].todo = @ \ {s}, ![e].pc = "apply"]
            skip == [inv EXCEPT ![e].todo = @ \ {s}]
        IN \/ /\ assessment' = [assessment EXCEPT ![r][s] =
                   [state |-> "open", at |-> t.at, seen |-> stage[r].seen[s], rows |-> t.rows[s],
                    verdict |-> stage[r].output[s], stale |-> FALSE]]
              /\ inv' = next
              /\ UNCHANGED runStatus
           \/ inv' \in {skip, next} /\ UNCHANGED <<assessment, runStatus>>
           \/ Fail(e) /\ UNCHANGED assessment
  BY DEF InsertAssessment
<1>3. s \in Story /\ s \in DOMAIN t.rows /\ t.rows[s] \in SUBSET Row /\ t.at \in Nat
  BY <1>1, TargetsFields
<1>4. UNCHANGED <<status, owner, inputs, stage, story, opened, clock>>
  BY DEF InsertAssessment, queueVars
<1> DEFINE skip == [inv[e] EXCEPT !.todo = @ \ {s}]
           next == [inv[e] EXCEPT !.story = s, !.todo = @ \ {s}, !.pc = "apply"]
           a == [state |-> "open", at |-> t.at, seen |-> stage[r].seen[s], rows |-> t.rows[s],
                 verdict |-> stage[r].output[s], stale |-> FALSE]
<1>5. skip \in Invocations /\ Fits(skip)
  BY <1>1 DEF Invocations, Labels, Fits, Targeted, Assessing
<1>6. next \in Invocations /\ Fits(next)
  BY <1>1, <1>3 DEF Invocations, Labels, Fits, Targeted, Assessing
<1>7. a \in Assessment
  <2>1. stage[r].output[s] \in Verdict /\ stage[r].seen[s] \in Nat
    BY <1>1, <1>3 DEF TypeOK, Versions
  <2> QED BY <2>1, <1>3 DEF Assessment
<1>8. \/ /\ assessment' = [assessment EXCEPT ![r][s] = a]
         /\ inv' = [inv EXCEPT ![e] = next]
         /\ UNCHANGED runStatus
      \/ /\ inv' = [inv EXCEPT ![e] = skip] \/ inv' = [inv EXCEPT ![e] = next]
         /\ UNCHANGED <<assessment, runStatus>>
      \/ Fail(e) /\ UNCHANGED assessment
  BY <1>2 DEF TypeOK
<1> HIDE DEF skip, next, a, r
<1>9. assessment' \in [Run -> [Story -> Assessment]]
  <2>1. CASE assessment' = [assessment EXCEPT ![r][s] = a]
    BY <2>1, <1>1, <1>3, <1>7, AssessmentStep
  <2> QED BY <2>1, <1>8 DEF TypeOK
<1>10. /\ inv' \in [Invocation -> Invocations] /\ \A f \in Invocation : Fits(inv'[f])
       /\ runStatus' \in [Run -> RunStatus]
  <2>1. CASE Fail(e)
    BY <1>1, <2>1, FailType DEF r
  <2>2. CASE inv' = [inv EXCEPT ![e] = next] /\ UNCHANGED runStatus
    BY <1>6, <2>2, InvStep DEF TypeOK
  <2>3. CASE inv' = [inv EXCEPT ![e] = skip] /\ UNCHANGED runStatus
    BY <1>5, <2>3, InvStep DEF TypeOK
  <2> QED BY <1>8, <2>1, <2>2, <2>3
<1> QED BY <1>4, <1>9, <1>10 DEF TypeOK

\* Completing a review keeps the queue and the assessments in their types.
LEMMA CompleteReviewType ==
  ASSUME TypeOK, NEW r \in Run, NEW s \in Story, NEW v \in Verdict, CompleteReview(r, s, v)
  PROVE  status' \in [Row -> RowStatus] /\ assessment' \in [Run -> [Story -> Assessment]]
<1> DEFINE a == [assessment[r][s] EXCEPT !.state = "applied", !.verdict = v]
<1>1. a \in Assessment
  BY AssessmentFields
<1>2. assessment' = [assessment EXCEPT ![r][s] = a]
  BY DEF CompleteReview, TypeOK
<1> HIDE DEF a
<1>3. assessment' \in [Run -> [Story -> Assessment]]
  BY <1>1, <1>2, AssessmentStep
<1>4. status' \in [Row -> RowStatus]
  BY DEF CompleteReview, TypeOK, RowStatus
<1> QED BY <1>3, <1>4

LEMMA StoryType ==
  ASSUME TypeOK, NEW r \in Run, NEW s \in Story,
         NewVersion(s, r, "maintenance") \/ AttachCatalyst(s, r) \/ UNCHANGED <<clock, story>>
  PROVE  clock' \in Nat /\ story' \in [Story -> [versionAt : Nat, by : Run \cup {None},
                                                 via : {"synthesis", "maintenance", "catalyst"}]]
<1> DEFINE Stories == [versionAt : Nat, by : Run \cup {None},
                       via : {"synthesis", "maintenance", "catalyst"}]
<1>1. story \in [Story -> Stories] /\ clock \in Nat
  BY DEF TypeOK
<1>2. ASSUME NEW how \in {"maintenance", "catalyst"}, NewVersion(s, r, how)
      PROVE  clock' \in Nat /\ story' \in [Story -> Stories]
  <2> DEFINE v == [versionAt |-> clock + 1, by |-> r, via |-> how]
  <2>1. v \in Stories /\ clock' \in Nat /\ story' = [story EXCEPT ![s] = v]
    BY <1>1, <1>2 DEF NewVersion
  <2> HIDE DEF v, Stories
  <2> QED BY <1>1, <2>1
<1>3. CASE UNCHANGED <<clock, story>>
  BY <1>1, <1>3
<1> QED BY <1>2, <1>3 DEF AttachCatalyst

LEMMA TypeApply ==
  ASSUME TypeOK, NEW e \in Invocation,
         \/ ApplyAgain(e) \/ ApplySuperseded(e) \/ ApplyChange(e) \/ ApplyUnchanged(e)
         \/ ApplyStale(e) \/ ApplyOwnershipLost(e)
  PROVE  TypeOK'
<1> DEFINE r == inv[e].run
           s == inv[e].story
           back == [inv[e] EXCEPT !.story = None, !.pc = "assess"]
<1>1. /\ inv[e] \in Invocations /\ Fits(inv[e]) /\ inv[e].pc = "apply"
      /\ r \in Run /\ s \in Story
  <2>1. inv[e] \in Invocations /\ Fits(inv[e]) /\ inv[e].pc = "apply"
    BY InvFields DEF ApplyAgain, ApplySuperseded, ApplyChange, ApplyUnchanged, ApplyStale,
                     ApplyOwnershipLost, At
  <2> QED BY <2>1, TargetsFields DEF Fits, Targeted, Assessing
<1>2. back \in Invocations /\ Fits(back)
  BY <1>1 DEF Invocations, Labels, Fits, Targeted, Assessing
<1>3. inv' = [inv EXCEPT ![e] = back] => inv' \in [Invocation -> Invocations] /\ \A f \in Invocation : Fits(inv'[f])
  <2> HIDE DEF back
  <2> QED BY <1>2, InvStep
<1>4. CASE ApplyAgain(e)
  <2>1. inv' = [inv EXCEPT ![e] = back]
    BY <1>4 DEF ApplyAgain, TypeOK
  <2> QED BY <1>3, <1>4, <2>1 DEF ApplyAgain, TypeOK, queueVars, runVars
<1>5. CASE ApplySuperseded(e) \/ ApplyChange(e) \/ ApplyUnchanged(e)
  <2>1. \E v \in Verdict : CompleteReview(r, s, v)
    BY <1>1, <1>5, AssessmentFields DEF ApplySuperseded, ApplyChange, ApplyUnchanged, Verdict
  <2>2. status' \in [Row -> RowStatus] /\ assessment' \in [Run -> [Story -> Assessment]]
    BY <1>1, <2>1, CompleteReviewType
  <2>3. NewVersion(s, r, "maintenance") \/ AttachCatalyst(s, r) \/ UNCHANGED <<clock, story>>
    BY <1>5 DEF ApplySuperseded, ApplyChange, ApplyUnchanged
  <2>4. inv' = [inv EXCEPT ![e] = back]
    BY <1>5 DEF ApplySuperseded, ApplyChange, ApplyUnchanged, TypeOK
  <2>5. UNCHANGED <<opened, owner, runVars>>
    BY <1>5 DEF ApplySuperseded, ApplyChange, ApplyUnchanged
  <2> HIDE DEF r, s, back
  <2> QED BY <1>1, <1>3, <2>2, <2>3, <2>4, <2>5, StoryType DEF TypeOK, runVars
<1>6. CASE ApplyStale(e) \/ ApplyOwnershipLost(e)
  <2>1. PICK label \in {"stale", "lost"} : inv' = [inv EXCEPT ![e].pc = label]
    BY <1>6 DEF ApplyStale, ApplyOwnershipLost, Goto
  <2> DEFINE j == [inv[e] EXCEPT !.pc = label]
  <2>2. j \in Invocations /\ Fits(j)
    BY <1>1 DEF Invocations, Labels, Fits, Targeted, Assessing
  <2>3. inv' = [inv EXCEPT ![e] = j]
    BY <2>1 DEF TypeOK
  <2> HIDE DEF j
  <2>4. inv' \in [Invocation -> Invocations] /\ \A f \in Invocation : Fits(inv'[f])
    BY <2>2, <2>3, InvStep
  <2> QED BY <1>6, <2>4 DEF ApplyStale, ApplyOwnershipLost, TypeOK, queueVars, runVars
<1> QED BY <1>4, <1>5, <1>6

LEMMA NeutraliseType ==
  ASSUME TypeOK, NEW r \in Run, NEW s \in Story, NEW b \in BOOLEAN, Neutralise(r, s, b)
  PROVE  assessment' \in [Run -> [Story -> Assessment]]
<1> DEFINE a == [assessment[r][s] EXCEPT !.verdict = "unchanged", !.stale = b]
<1>1. a \in Assessment
  BY AssessmentFields
<1>2. assessment' = assessment \/ assessment' = [assessment EXCEPT ![r][s] = a]
  BY DEF Neutralise, TypeOK
<1> HIDE DEF a
<1> QED BY <1>1, <1>2, AssessmentStep DEF TypeOK

LEMMA TypeRecord ==
  ASSUME TypeOK, NEW e \in Invocation,
         RecordOwnershipLost(e) \/ RecordStaleAssessment(e) \/ RequeueStaleTarget(e)
  PROVE  TypeOK'
<1> DEFINE r == inv[e].run
           s == inv[e].story
<1>1. /\ inv[e] \in Invocations /\ Fits(inv[e]) /\ inv[e].pc \in {"lost", "stale", "requeue"}
      /\ r \in Run /\ s \in Story
  <2>1. inv[e] \in Invocations /\ Fits(inv[e]) /\ inv[e].pc \in {"lost", "stale", "requeue"}
    BY InvFields DEF RecordOwnershipLost, RecordStaleAssessment, RequeueStaleTarget, At
  <2> QED BY <2>1, TargetsFields DEF Fits, Targeted, Assessing
<1> DEFINE back == [inv[e] EXCEPT !.story = None, !.pc = "assess"]
           more == [inv[e] EXCEPT !.pc = "requeue"]
<1>2. back \in Invocations /\ Fits(back) /\ more \in Invocations /\ Fits(more)
  BY <1>1 DEF Invocations, Labels, Fits, Targeted, Assessing
<1>3. inv' = [inv EXCEPT ![e] = back] \/ inv' = [inv EXCEPT ![e] = more]
  BY DEF RecordOwnershipLost, RecordStaleAssessment, RequeueStaleTarget, Goto, TypeOK
<1>4. inv' \in [Invocation -> Invocations] /\ \A f \in Invocation : Fits(inv'[f])
  <2> HIDE DEF back, more
  <2>1. CASE inv' = [inv EXCEPT ![e] = back]
    BY <1>2, <2>1, InvStep
  <2>2. CASE inv' = [inv EXCEPT ![e] = more]
    BY <1>2, <2>2, InvStep
  <2> QED BY <1>3, <2>1, <2>2
<1>5. assessment' \in [Run -> [Story -> Assessment]]
  <2>1. (\E b \in BOOLEAN : Neutralise(r, s, b)) \/ UNCHANGED assessment
    BY DEF RecordOwnershipLost, RecordStaleAssessment, RequeueStaleTarget
  <2> QED BY <1>1, <2>1, NeutraliseType DEF TypeOK
<1>6. status' \in [Row -> RowStatus] /\ owner' \in [Row -> Run \cup {None}]
  <2>1. CASE RequeueStaleTarget(e)
    BY <2>1 DEF RequeueStaleTarget, TypeOK, RowStatus
  <2>2. CASE RecordOwnershipLost(e) \/ RecordStaleAssessment(e)
    BY <2>2 DEF RecordOwnershipLost, RecordStaleAssessment, TypeOK, queueVars
  <2> QED BY <2>1, <2>2
<1>7. UNCHANGED <<opened, runVars, story, clock>>
  BY DEF RecordOwnershipLost, RecordStaleAssessment, RequeueStaleTarget
<1> QED BY <1>4, <1>5, <1>6, <1>7 DEF TypeOK, runVars

LEMMA TypeEnd ==
  ASSUME TypeOK, NEW e \in Invocation,
         CompleteRun(e) \/ LeaveRun(e) \/ DatabaseError(e) \/ Crash(e)
  PROVE  TypeOK'
<1>1. inv[e] \in Invocations /\ inv[e].run \in Run /\ inv[e].memory \in Inputs
  BY InvFields DEF CompleteRun, LeaveRun, DatabaseError, Crash, Finished, At, Fits, Targeted
<1>2. inv' \in [Invocation -> Invocations] /\ \A f \in Invocation : Fits(inv'[f])
  <2>1. inv' = [inv EXCEPT ![e] = IdleInvocation]
    BY DEF CompleteRun, LeaveRun, DatabaseError, Crash, Fail
  <2> QED BY <2>1, IdleType, InvStep
<1>3. runStatus' \in [Run -> RunStatus]
  BY <1>1 DEF CompleteRun, LeaveRun, DatabaseError, Crash, Fail, TypeOK, RunStatus
<1>4. inputs' \in [Run -> Inputs]
  BY <1>1 DEF CompleteRun, LeaveRun, DatabaseError, Crash, TypeOK
<1>5. stage' \in [Run -> [state : {"none", "claimed", "abandoned", "completed"},
                          by : Invocation \cup {None}, seen : Versions, output : [Story -> Verdict]]]
  <2> DEFINE Stages == [state : {"none", "claimed", "abandoned", "completed"},
                        by : Invocation \cup {None}, seen : Versions, output : [Story -> Verdict]]
  <2>1. stage \in [Run -> Stages]
    BY DEF TypeOK
  <2>2. [NoStage EXCEPT !.state = "abandoned"] \in Stages
    BY DEF NoStage, Verdict, Unread, Versions
  <2> HIDE DEF Stages
  <2>3. Crash(e) => stage' \in [Run -> Stages]
    BY <2>1, <2>2 DEF Crash
  <2>4. CompleteRun(e) \/ LeaveRun(e) \/ DatabaseError(e) => stage' \in [Run -> Stages]
    BY <2>1 DEF CompleteRun, LeaveRun, DatabaseError
  <2> USE DEF Stages
  <2> QED BY <2>3, <2>4
<1>6. UNCHANGED <<opened, queueVars, assessment, story, clock>>
  BY DEF CompleteRun, LeaveRun, DatabaseError, Crash
<1> QED BY <1>2, <1>3, <1>4, <1>5, <1>6 DEF TypeOK, queueVars

-----------------------------------------------------------------------------
\* Every reachable state is type correct; in particular an invocation that is about to
\* write an assessment always has a run, a selection and a Story of it.
THEOREM TypeCorrect == Spec => []TypeOK
<1>1. Init => TypeOK
  BY TypeInit
<1>2. TypeOK /\ [Next]_vars => TypeOK'
  <2> SUFFICES ASSUME TypeOK, [Next]_vars
               PROVE  TypeOK'
    OBVIOUS
  <2>1. CASE UNCHANGED vars
    BY <2>1 DEF vars, TypeOK
  <2>2. CASE (\E q \in Row : EnqueueLinkedEvidence(q)) \/ (\E s \in Story : SynthesizeStory(s))
    BY <2>2, TypeEnvironment
  <2>3. CASE \E e \in Invocation, r \in Run : OpenRun(e, r)
    BY <2>3, TypeOpen
  <2>4. ASSUME NEW e \in Invocation, Step(e)
        PROVE  TypeOK'
    BY <2>4, TypeCreate, TypeSeed, TypeReads, TypeHygiene, TypeSelect, TypeClaim, TypeRelease,
       TypeFreeze, TypeCreatorOnly, TypeStage, TypeMark, TypeInsert, TypeApply, TypeRecord, TypeEnd
       DEF Step
  <2> QED BY <2>1, <2>2, <2>3, <2>4 DEF Next
<1> QED BY <1>1, <1>2, PTL DEF Spec

-----------------------------------------------------------------------------
(* No request is dropped as done. *)

\* Completing a review applies it, and rows that it lists stay listed.
LEMMA CompleteReviewApplies ==
  ASSUME TypeOK, NEW r \in Run, NEW s \in Story, NEW v, CompleteReview(r, s, v)
  PROVE  /\ assessment'[r][s].state = "applied" /\ assessment'[r][s].rows = assessment[r][s].rows
         /\ \A o \in Run, z \in Story : Applied(o, z) =>
              Applied(o, z)' /\ assessment'[o][z].rows = assessment[o][z].rows
<1>1. assessment \in [Run -> [Story -> Assessment]]
  BY DEF TypeOK
<1> DEFINE a == [assessment[r][s] EXCEPT !.state = "applied", !.verdict = v]
<1>2. assessment' = [assessment EXCEPT ![r] = [assessment[r] EXCEPT ![s] = a]]
  BY <1>1 DEF CompleteReview
<1>3. a.state = "applied" /\ a.rows = assessment[r][s].rows
  BY <1>1 DEF Assessment
<1> HIDE DEF a
<1> QED BY <1>1, <1>2, <1>3 DEF Applied

\* The steps of an invocation that write an assessment.
LEMMA OnlyReviews ==
  ASSUME NEW e \in Invocation, Step(e), ~UNCHANGED assessment
  PROVE  \/ InsertAssessment(e) \/ ApplySuperseded(e) \/ ApplyChange(e) \/ ApplyUnchanged(e)
         \/ RecordOwnershipLost(e) \/ RecordStaleAssessment(e)
BY DEF Step, CreateRun, SeedInputs, ReadStories, ReadMetadata, PersistFrozenReads, PlanHygiene,
       CancelRedundant, SelectTargets, ClaimTargets, ReleasePartialClaims, FreezeTargets,
       ResolveCreatorOnly, ReuseStage, ClaimStage, StageBusy, FinishStage, FailStage,
       MarkOmittedRetryable, ApplyAgain, ApplyStale, ApplyOwnershipLost,
       RequeueStaleTarget, CompleteRun, LeaveRun, DatabaseError, Crash

\* An applied assessment is never taken back, nor does its list of rows change.
LEMMA AppliedStays ==
  ASSUME TypeOK, [Next]_vars, NEW r \in Run, NEW s \in Story, Applied(r, s)
  PROVE  Applied(r, s)' /\ assessment'[r][s].rows = assessment[r][s].rows
<1>1. CASE UNCHANGED assessment
  BY <1>1 DEF Applied
<1>2. ASSUME NEW e \in Invocation, InsertAssessment(e), ~UNCHANGED assessment
      PROVE  Applied(r, s)' /\ assessment'[r][s].rows = assessment[r][s].rows
  <2> DEFINE o == inv[e].run
  <2>1. PICK z \in inv[e].todo : \E a :
          assessment[o][z].state = "none" /\ assessment' = [assessment EXCEPT ![o][z] = a]
    BY <1>2 DEF InsertAssessment
  <2>2. o # r \/ z # s
    BY <2>1 DEF Applied
  <2> HIDE DEF o
  <2> QED BY <2>1, <2>2 DEF Applied, TypeOK
<1>3. ASSUME NEW e \in Invocation, ApplySuperseded(e) \/ ApplyChange(e) \/ ApplyUnchanged(e)
      PROVE  Applied(r, s)' /\ assessment'[r][s].rows = assessment[r][s].rows
  <2>1. inv[e].run \in Run /\ inv[e].story \in Story
    BY <1>3, InvFields, TargetsFields
       DEF ApplySuperseded, ApplyChange, ApplyUnchanged, At, Fits, Assessing, Targeted
  <2>2. \E v : CompleteReview(inv[e].run, inv[e].story, v)
    BY <1>3 DEF ApplySuperseded, ApplyChange, ApplyUnchanged
  <2> QED BY <2>1, <2>2, CompleteReviewApplies
<1>4. ASSUME NEW e \in Invocation, RecordOwnershipLost(e) \/ RecordStaleAssessment(e)
      PROVE  Applied(r, s)' /\ assessment'[r][s].rows = assessment[r][s].rows
  <2> DEFINE o == inv[e].run
             z == inv[e].story
  <2>1. CASE o = r /\ z = s
    BY <1>4, <2>1 DEF RecordOwnershipLost, RecordStaleAssessment, Neutralise, Applied
  <2>2. CASE ~(o = r /\ z = s)
    <3>1. \E b : Neutralise(o, z, b)
      BY <1>4 DEF RecordOwnershipLost, RecordStaleAssessment
    <3> HIDE DEF o, z
    <3> QED BY <2>2, <3>1 DEF Neutralise, Applied, TypeOK
  <2> QED BY <2>1, <2>2
<1>5. ASSUME NEW e \in Invocation, Step(e), ~UNCHANGED assessment
      PROVE  \/ InsertAssessment(e) \/ ApplySuperseded(e) \/ ApplyChange(e) \/ ApplyUnchanged(e)
             \/ RecordOwnershipLost(e) \/ RecordStaleAssessment(e)
  BY <1>5, OnlyReviews
<1> QED BY <1>1, <1>2, <1>3, <1>4, <1>5
        DEF Next, EnqueueLinkedEvidence, SynthesizeStory, OpenRun, vars

\* The only ways for a row to become completed.
LEMMA CompletedByReview ==
  ASSUME TypeOK, [Next]_vars, NEW q \in Row, status[q] # "completed", status'[q] = "completed"
  PROVE  StoryOf[q] \in CreatorOnly
         \/ \E r \in Run, s \in Story : q \in assessment[r][s].rows /\ \E v : CompleteReview(r, s, v)
<1>1. ~UNCHANGED status
  OBVIOUS
<1>2. ASSUME NEW p \in Row, EnqueueLinkedEvidence(p)
      PROVE  FALSE
  BY <1>2 DEF EnqueueLinkedEvidence, TypeOK
<1>3. PICK e \in Invocation : Step(e)
  BY <1>1, <1>2 DEF Next, SynthesizeStory, OpenRun, queueVars, vars
<1>4. CASE ResolveCreatorOnly(e)
  <2>1. inv[e].targets \in Targets
    BY <1>4, InvFields DEF ResolveCreatorOnly, At, Fits, Targeted
  <2>2. PICK s \in CreatorOnlyNonMaterial(inv[e].targets) : q \in inv[e].targets.rows[s]
    BY <1>4 DEF ResolveCreatorOnly
  <2> QED BY <2>1, <2>2, TargetsFields DEF CreatorOnlyNonMaterial
<1>5. CASE ApplySuperseded(e) \/ ApplyChange(e) \/ ApplyUnchanged(e)
  <2> DEFINE r == inv[e].run
             s == inv[e].story
  <2>1. r \in Run /\ s \in Story
    BY <1>5, InvFields, TargetsFields
       DEF ApplySuperseded, ApplyChange, ApplyUnchanged, At, Fits, Assessing, Targeted
  <2>2. PICK v : CompleteReview(r, s, v)
    BY <1>5 DEF ApplySuperseded, ApplyChange, ApplyUnchanged
  <2>3. q \in assessment[r][s].rows
    BY <2>2 DEF CompleteReview
  <2> QED BY <2>1, <2>2, <2>3
<1>6. CASE ~(ResolveCreatorOnly(e) \/ ApplySuperseded(e) \/ ApplyChange(e) \/ ApplyUnchanged(e))
  <2>1. ASSUME ClaimTargets(e)
        PROVE  FALSE
    BY <1>1, <2>1 DEF ClaimTargets, Recovered, queueVars
  <2>2. ASSUME \/ CancelRedundant(e) \/ ReleasePartialClaims(e)
               \/ MarkOmittedRetryable(e) \/ RequeueStaleTarget(e)
        PROVE  FALSE
    BY <2>2 DEF CancelRedundant, ReleasePartialClaims, MarkOmittedRetryable, RequeueStaleTarget
  <2> QED BY <1>1, <1>3, <1>6, <2>1, <2>2
          DEF Step, CreateRun, SeedInputs, ReadStories, ReadMetadata, PersistFrozenReads, PlanHygiene,
              SelectTargets, FreezeTargets, ReuseStage, ClaimStage, StageBusy, FinishStage,
              FailStage, InsertAssessment, ApplyAgain, ApplyStale, ApplyOwnershipLost,
              RecordOwnershipLost, RecordStaleAssessment, CompleteRun, LeaveRun, DatabaseError,
              Crash, queueVars
<1> QED BY <1>4, <1>5, <1>6

\* A completed request was served, or only creator commentary asked for it, whatever
\* happens to runs and invocations.
THEOREM CompletedIsServed == Spec => []CompletedServed
<1>1. Init => CompletedServed
  BY DEF Init, CompletedServed
<1>2. TypeOK /\ CompletedServed /\ [Next]_vars => CompletedServed'
  <2> SUFFICES ASSUME TypeOK, CompletedServed, [Next]_vars, NEW q \in Row, status'[q] = "completed"
               PROVE  q \in AppliedRows' \/ StoryOf[q] \in CreatorOnly
    BY DEF CompletedServed
  <2>1. ASSUME NEW r \in Run, NEW s \in Story, Applied(r, s), q \in assessment[r][s].rows
        PROVE  q \in AppliedRows'
    <3>1. Applied(r, s)' /\ q \in assessment'[r][s].rows
      BY <2>1, AppliedStays
    <3> QED BY <3>1 DEF AppliedRows
  <2>2. CASE status[q] = "completed"
    BY <2>1, <2>2 DEF CompletedServed, AppliedRows
  <2>3. CASE status[q] # "completed"
    <3>1. SUFFICES ASSUME NEW r \in Run, NEW s \in Story, q \in assessment[r][s].rows,
                          NEW v, CompleteReview(r, s, v)
                   PROVE  q \in AppliedRows'
      BY <2>3, CompletedByReview
    <3>2. assessment'[r][s].state = "applied" /\ q \in assessment'[r][s].rows
      BY <3>1, CompleteReviewApplies
    <3> QED BY <3>2 DEF AppliedRows, Applied
  <2> QED BY <2>2, <2>3
<1>3. Spec => []TypeOK
  BY TypeCorrect
<1> QED BY <1>1, <1>2, <1>3, PTL DEF Spec

-----------------------------------------------------------------------------
(***************************************************************************)
(* What a run assesses is what it froze, and a request is used up by one   *)
(* review.  Both rest on what a run keeps between two round trips of the   *)
(* one invocation that works on it: the inductive invariant RunInv.        *)
(***************************************************************************)

\* An engine run never has two live invocations.
Solo == \A e, f \in Invocation : (inv[e].run \in Run /\ inv[f].run = inv[e].run) => e = f

\* The targets t are Stories of the frozen selection, each with all of its rows.
PartOf(t, frozen) ==
  /\ frozen # None
  /\ t.at = frozen.at
  /\ DOMAIN t.rows \subseteq DOMAIN frozen.rows
  /\ \A s \in DOMAIN t.rows : t.rows[s] = frozen.rows[s]

\* The frozen inputs x, the assessments a and the Market Belief stage st of one run.
RunOK(x, a, st) ==
  /\ ~x.seeded => x.targets = None /\ \A s \in Story : a[s].state = "none"
  /\ \A s \in Story : a[s].state # "none" =>
       /\ x.targets # None /\ s \in DOMAIN x.targets.rows
       /\ a[s].rows = x.targets.rows[s] /\ a[s].at = x.targets.at
       /\ st.state = "completed" /\ st.output[s] # "omitted"
  /\ st.by # None => st.state = "claimed"

\* What the local state i of invocation e says of its run.
Opening == {"idle", "create", "seed"}
Judged == {"omitted", "assess"} \cup Assessing
Settled == Judged \cup {"creator", "stage", "model", "finish"}
InvocationOK(e, i, x, a, st) ==
  /\ i.pc \in {"create", "seed"} => ~x.seeded
  /\ i.pc \notin Opening => x.seeded /\ i.memory.seeded /\ i.memory.targets = x.targets
  /\ i.pc = "saveMeta" => i.saved.targets = x.targets
  /\ (i.pc \in Settled \/ (i.pc \in {"claim", "release"} /\ ~i.fresh)) => PartOf(i.targets, x.targets)
  /\ i.pc = "model" => st.state = "claimed" /\ st.by = e
  /\ i.pc \in Judged => st.state = "completed" /\ \A s \in i.todo : st.output[s] # "omitted"
  /\ i.pc \in Assessing => a[i.story].state # "none"

RunInv ==
  /\ Solo
  /\ \A r \in Run : RunOK(inputs[r], assessment[r], stage[r])
  /\ \A e \in Invocation : inv[e].run \in Run =>
       InvocationOK(e, inv[e], inputs[inv[e].run], assessment[inv[e].run], stage[inv[e].run])

\* What the invariant says of a live invocation and its run.
LEMMA RunFacts ==
  ASSUME TypeOK, RunInv, NEW e \in Invocation, inv[e].pc # "idle"
  PROVE  LET r == inv[e].run IN
         /\ r \in Run /\ inv[e] \in Invocations
         /\ \A f \in Invocation \ {e} : inv[f].run # r
         /\ RunOK(inputs[r], assessment[r], stage[r])
         /\ InvocationOK(e, inv[e], inputs[r], assessment[r], stage[r])
<1>1. inv[e].run \in Run /\ inv[e] \in Invocations
  BY InvFields DEF Fits
<1> QED BY <1>1 DEF RunInv, Solo

\* A step of invocation e concerns one run r, on which no other invocation works; the
\* stages that e holds may be given up.
LEMMA RunFrame ==
  ASSUME TypeOK, RunInv, NEW e \in Invocation, NEW r \in Run, NEW j,
         \A f \in Invocation \ {e} : inv[f].run # r,
         inv' = [inv EXCEPT ![e] = j], j.run \in {r, None},
         \A o \in Run \ {r} :
           /\ inputs'[o] = inputs[o] /\ assessment'[o] = assessment[o]
           /\ stage'[o] = stage[o]
              \/ (stage[o].by = e /\ stage'[o] = [NoStage EXCEPT !.state = "abandoned"]),
         RunOK(inputs'[r], assessment'[r], stage'[r]),
         j.run = r => InvocationOK(e, j, inputs'[r], assessment'[r], stage'[r])
  PROVE  RunInv'
<1>1. inv \in [Invocation -> Invocations] /\ None \notin Run /\ e # None
  BY NoneAssumption DEF TypeOK
<1>2. inv'[e] = j /\ \A f \in Invocation \ {e} : inv'[f] = inv[f]
  BY <1>1
<1>3. Solo'
  BY <1>1, <1>2 DEF RunInv, Solo
<1>4. ASSUME NEW o \in Run \ {r}
      PROVE  /\ RunOK(inputs'[o], assessment'[o], stage'[o])
             /\ \A f \in Invocation \ {e} : inv[f].run = o =>
                  InvocationOK(f, inv[f], inputs'[o], assessment'[o], stage'[o])
  <2>1. RunOK(inputs[o], assessment[o], stage[o])
    BY DEF RunInv
  <2>2. \A f \in Invocation : inv[f].run = o => InvocationOK(f, inv[f], inputs[o], assessment[o], stage[o])
    BY DEF RunInv
  <2>3. inputs'[o] = inputs[o] /\ assessment'[o] = assessment[o]
    OBVIOUS
  <2>4. CASE stage'[o] = stage[o]
    BY <2>1, <2>2, <2>3, <2>4
  <2>5. CASE stage[o].by = e /\ stage'[o] = [NoStage EXCEPT !.state = "abandoned"]
    <3>1. stage[o].state = "claimed" /\ \A s \in Story : assessment[o][s].state = "none"
      BY <1>1, <2>1, <2>5 DEF RunOK
    <3>2. stage'[o].by = None
      BY <2>5 DEF NoStage
    <3>3. RunOK(inputs'[o], assessment'[o], stage'[o])
      BY <2>1, <2>3, <3>1, <3>2 DEF RunOK
    <3>4. ASSUME NEW f \in Invocation \ {e}, inv[f].run = o
          PROVE  InvocationOK(f, inv[f], inputs'[o], assessment'[o], stage'[o])
      <4>1. InvocationOK(f, inv[f], inputs[o], assessment[o], stage[o])
        BY <2>2, <3>4
      <4>2. inv[f].pc # "model" /\ inv[f].pc \notin Judged
        BY <4>1, <2>5, <3>1 DEF InvocationOK
      <4> QED BY <4>1, <4>2, <2>3 DEF InvocationOK, Judged
    <3> QED BY <3>3, <3>4
  <2> QED BY <2>4, <2>5
<1>5. ASSUME NEW f \in Invocation, inv'[f].run \in Run
      PROVE  InvocationOK(f, inv'[f], inputs'[inv'[f].run], assessment'[inv'[f].run], stage'[inv'[f].run])
  <2>1. CASE f = e
    BY <1>1, <1>2, <1>5, <2>1
  <2>2. CASE f # e
    BY <1>2, <1>4, <1>5, <2>2
  <2> QED BY <2>1, <2>2
<1>6. \A o \in Run : RunOK(inputs'[o], assessment'[o], stage'[o])
  BY <1>4
<1> QED BY <1>3, <1>5, <1>6 DEF RunInv

\* A step that only changes the local state of an invocation.
LEMMA RunLocal ==
  ASSUME TypeOK, RunInv, NEW e \in Invocation, inv[e].pc # "idle", NEW j,
         inv' = [inv EXCEPT ![e] = j], UNCHANGED <<inputs, stage, assessment>>,
         j.run = inv[e].run,
         InvocationOK(e, j, inputs[inv[e].run], assessment[inv[e].run], stage[inv[e].run])
  PROVE  RunInv'
<1> DEFINE r == inv[e].run
<1>1. /\ r \in Run /\ \A f \in Invocation \ {e} : inv[f].run # r
      /\ RunOK(inputs[r], assessment[r], stage[r])
  BY RunFacts
<1> HIDE DEF r
<1>2. j.run \in {r, None} /\ InvocationOK(e, j, inputs'[r], assessment'[r], stage'[r])
  BY DEF r
<1> QED BY <1>1, <1>2, RunFrame

\* An invocation ends.
LEMMA RunLeave ==
  ASSUME TypeOK, RunInv, NEW e \in Invocation, inv[e].pc # "idle",
         inv' = [inv EXCEPT ![e] = IdleInvocation], UNCHANGED <<inputs, assessment>>,
         \A o \in Run : stage'[o] = stage[o]
           \/ (stage[o].by = e /\ stage'[o] = [NoStage EXCEPT !.state = "abandoned"])
  PROVE  RunInv'
<1> DEFINE r == inv[e].run
<1>1. /\ r \in Run /\ \A f \in Invocation \ {e} : inv[f].run # r
      /\ RunOK(inputs[r], assessment[r], stage[r])
  BY RunFacts
<1>2. IdleInvocation.run = None /\ None # r /\ e # None
  BY <1>1, NoneAssumption DEF IdleInvocation
<1>3. RunOK(inputs'[r], assessment'[r], stage'[r])
  <2>1. CASE stage'[r] = stage[r]
    BY <1>1, <2>1
  <2>2. CASE stage[r].by = e /\ stage'[r] = [NoStage EXCEPT !.state = "abandoned"]
    <3>1. stage'[r].by = None
      BY <2>2 DEF NoStage
    <3> QED BY <1>1, <1>2, <2>2, <3>1 DEF RunOK
  <2> QED BY <1>1, <2>1, <2>2
<1> HIDE DEF r
<1>4. IdleInvocation.run # r
  BY <1>2
<1> QED BY <1>1, <1>2, <1>3, <1>4, RunFrame

\* What the invariant needs to know of the environment: nothing.
LEMMA RunEnvironment ==
  ASSUME RunInv, UNCHANGED <<inputs, stage, assessment, inv>>
  PROVE  RunInv'
BY DEF RunInv, Solo

LEMMA RunOpen ==
  ASSUME TypeOK, RunInv, SerialRuns, NEW e \in Invocation, NEW r \in Run, OpenRun(e, r)
  PROVE  RunInv'
<1>1. inputs[r] \in Inputs /\ inv[e] \in Invocations /\ inv \in [Invocation -> Invocations]
  BY DEF TypeOK
<1>2. /\ \A f \in Invocation : inv[f].run # r
      /\ UNCHANGED <<inputs, stage, assessment>>
  BY DEF OpenRun, runVars
<1>3. RunOK(inputs[r], assessment[r], stage[r])
  BY DEF RunInv
<1>4. PICK j : /\ inv' = [inv EXCEPT ![e] = j] /\ j.run = r
               /\ InvocationOK(e, j, inputs[r], assessment[r], stage[r])
  <2>1. CASE inputs[r].seeded
    <3> DEFINE j == [inv[e] EXCEPT !.run = r, !.memory = inputs[r], !.saved = NoInputs,
                                   !.pc = IF inputs[r].reads THEN "hygiene" ELSE "readStories"]
    <3>1. inv' = [inv EXCEPT ![e] = j]
      BY <2>1, <1>1 DEF OpenRun, Continue, Invocations
    <3>2. /\ j.run = r /\ j.pc \in {"hygiene", "readStories"} /\ j.memory = inputs[r]
      BY <1>1 DEF Invocations
    <3>3. InvocationOK(e, j, inputs[r], assessment[r], stage[r])
      <4> HIDE DEF j
      <4> QED BY <2>1, <3>2 DEF InvocationOK, Opening, Settled, Judged, Assessing
    <3> QED BY <3>1, <3>2, <3>3
  <2>2. CASE ~inputs[r].seeded
    <3> DEFINE j == [inv[e] EXCEPT !.run = r, !.saved = inputs[r],
                                   !.pc = IF runStatus[r] = "none" THEN "create" ELSE "seed"]
    <3>1. inv' = [inv EXCEPT ![e] = j]
      BY <2>2, <1>1 DEF OpenRun
    <3>2. j.run = r /\ j.pc \in {"create", "seed"}
      BY <1>1 DEF Invocations
    <3>3. InvocationOK(e, j, inputs[r], assessment[r], stage[r])
      <4> HIDE DEF j
      <4> QED BY <2>2, <3>2 DEF InvocationOK, Opening, Settled, Judged, Assessing
    <3> QED BY <3>1, <3>2, <3>3
  <2> QED BY <2>1, <2>2
<1>5. /\ \A o \in Run \ {r} : inputs'[o] = inputs[o] /\ assessment'[o] = assessment[o] /\ stage'[o] = stage[o]
      /\ RunOK(inputs'[r], assessment'[r], stage'[r])
      /\ InvocationOK(e, j, inputs'[r], assessment'[r], stage'[r])
  BY <1>2, <1>3, <1>4
<1> QED BY <1>2, <1>4, <1>5, RunFrame

\* An invocation that writes the frozen inputs of its run.
LEMMA RunWrites ==
  ASSUME TypeOK, RunInv, NEW e \in Invocation, inv[e].pc # "idle", NEW j, NEW x,
         inv' = [inv EXCEPT ![e] = j], j.run \in {inv[e].run, None},
         inputs' = [inputs EXCEPT ![inv[e].run] = x], UNCHANGED <<stage, assessment>>,
         RunOK(x, assessment[inv[e].run], stage[inv[e].run]),
         j.run = inv[e].run => InvocationOK(e, j, x, assessment[inv[e].run], stage[inv[e].run])
  PROVE  RunInv'
<1> DEFINE r == inv[e].run
<1>1. r \in Run /\ \A f \in Invocation \ {e} : inv[f].run # r
  BY RunFacts
<1>2. inputs'[r] = x /\ \A o \in Run \ {r} : inputs'[o] = inputs[o]
  BY <1>1 DEF TypeOK
<1>3. RunOK(inputs'[r], assessment'[r], stage'[r])
  BY <1>2
<1>4. j.run = r => InvocationOK(e, j, inputs'[r], assessment'[r], stage'[r])
  BY <1>2
<1>5. \A o \in Run \ {r} : inputs'[o] = inputs[o] /\ assessment'[o] = assessment[o] /\ stage'[o] = stage[o]
  BY <1>2
<1>6. j.run \in {r, None}
  OBVIOUS
<1> HIDE DEF r
<1> QED BY <1>1, <1>3, <1>4, <1>5, <1>6, RunFrame

LEMMA RunSeed ==
  ASSUME TypeOK, RunInv, NEW e \in Invocation, CreateRun(e) \/ SeedInputs(e)
  PROVE  RunInv'
<1> DEFINE r == inv[e].run
<1>1. inv[e].pc \in {"create", "seed"} /\ inv[e].pc # "idle"
  BY DEF CreateRun, SeedInputs, At
<1>2. /\ r \in Run /\ inv[e] \in Invocations /\ inputs[r] \in Inputs
      /\ RunOK(inputs[r], assessment[r], stage[r])
      /\ InvocationOK(e, inv[e], inputs[r], assessment[r], stage[r])
  BY <1>1, RunFacts DEF TypeOK
<1>3. ~inputs[r].seeded
  BY <1>1, <1>2 DEF InvocationOK
<1>4. ASSUME NEW x, x.targets = None
      PROVE  RunOK(x, assessment[r], stage[r])
  BY <1>2, <1>3, <1>4 DEF RunOK
<1>5. CASE CreateRun(e)
  <2> DEFINE x == EmptyInputs(FALSE, clock + 1)
             j == [inv[e] EXCEPT !.saved = x, !.pc = "seed"]
  <2>1. /\ inv' = [inv EXCEPT ![e] = j]
        /\ inputs' = [inputs EXCEPT ![r] = x] /\ UNCHANGED <<stage, assessment>>
    BY <1>5 DEF CreateRun, TypeOK
  <2>2. ~x.seeded /\ x.targets = None
    BY DEF EmptyInputs
  <2>3. j.run = r /\ j.pc = "seed"
    BY <1>2 DEF Invocations
  <2> HIDE DEF x, j
  <2>4. InvocationOK(e, j, x, assessment[r], stage[r])
    BY <2>2, <2>3 DEF InvocationOK, Opening, Settled, Judged, Assessing
  <2> QED BY <1>1, <1>4, <2>1, <2>2, <2>3, <2>4, RunWrites
<1>6. CASE SeedInputs(e)
  <2> DEFINE x == EmptyInputs(TRUE, inv[e].saved.asOf)
             j == [inv[e] EXCEPT !.memory = x, !.saved = NoInputs, !.pc = "readStories"]
  <2>1. /\ inv' = [inv EXCEPT ![e] = j]
        /\ inputs' = [inputs EXCEPT ![r] = x] /\ UNCHANGED <<stage, assessment>>
    BY <1>6 DEF SeedInputs, Continue, EmptyInputs, TypeOK
  <2>2. x.seeded /\ x.targets = None
    BY DEF EmptyInputs
  <2>3. j.run = r /\ j.pc = "readStories" /\ j.memory = x
    BY <1>2 DEF Invocations
  <2> HIDE DEF x, j
  <2>4. InvocationOK(e, j, x, assessment[r], stage[r])
    BY <2>2, <2>3 DEF InvocationOK, Opening, Settled, Judged, Assessing
  <2> QED BY <1>1, <1>4, <2>1, <2>2, <2>3, <2>4, RunWrites
<1> QED BY <1>5, <1>6

LEMMA RunReads ==
  ASSUME TypeOK, RunInv, NEW e \in Invocation, ReadStories(e) \/ ReadMetadata(e) \/ PersistFrozenReads(e)
  PROVE  RunInv'
<1> DEFINE r == inv[e].run
<1>1. inv[e].pc \in {"readStories", "readMeta", "saveMeta"} /\ inv[e].pc # "idle"
  BY DEF ReadStories, ReadMetadata, PersistFrozenReads, At
<1>2. /\ r \in Run /\ inv[e] \in Invocations /\ inputs[r] \in Inputs /\ inv[e].memory \in Inputs
      /\ RunOK(inputs[r], assessment[r], stage[r])
      /\ InvocationOK(e, inv[e], inputs[r], assessment[r], stage[r])
  BY <1>1, RunFacts, InvFields DEF TypeOK
<1>3. /\ inputs[r].seeded /\ inv[e].memory.seeded /\ inv[e].memory.targets = inputs[r].targets
      /\ inv[e].pc = "saveMeta" => inv[e].saved.targets = inputs[r].targets
  BY <1>1, <1>2 DEF InvocationOK, Opening
<1>6. CASE ReadStories(e)
  <2> DEFINE m == [inv[e].memory EXCEPT !.seen = [s \in Story |-> story[s].versionAt]]
             j == [inv[e] EXCEPT !.memory = m, !.pc = "readMeta"]
  <2>1. inv' = [inv EXCEPT ![e] = j] /\ UNCHANGED <<inputs, stage, assessment>>
    BY <1>2, <1>6 DEF ReadStories, TypeOK, runVars, Invocations
  <2>2. m.seeded = inv[e].memory.seeded /\ m.targets = inv[e].memory.targets
    BY <1>2 DEF Inputs
  <2> HIDE DEF m
  <2>3. j.run = r /\ j.pc = "readMeta" /\ j.memory = m
    BY <1>2 DEF Invocations
  <2> HIDE DEF j
  <2>4. InvocationOK(e, j, inputs[r], assessment[r], stage[r])
    BY <1>3, <2>2, <2>3 DEF InvocationOK, Opening, Settled, Judged, Assessing
  <2> QED BY <1>1, <2>1, <2>3, <2>4, RunLocal
<1>4. CASE ReadMetadata(e)
  <2> DEFINE j == [inv[e] EXCEPT !.saved = inputs[r], !.pc = "saveMeta"]
  <2>1. inv' = [inv EXCEPT ![e] = j] /\ UNCHANGED <<inputs, stage, assessment>>
    BY <1>4 DEF ReadMetadata, TypeOK, runVars
  <2>2. j.run = r /\ j.pc = "saveMeta" /\ j.memory = inv[e].memory /\ j.saved = inputs[r]
    BY <1>2 DEF Invocations
  <2> HIDE DEF j
  <2>3. InvocationOK(e, j, inputs[r], assessment[r], stage[r])
    BY <1>3, <2>2 DEF InvocationOK, Opening, Settled, Judged, Assessing
  <2> QED BY <1>1, <2>1, <2>2, <2>3, RunLocal
<1>5. CASE PersistFrozenReads(e)
  <2> DEFINE m == [inv[e].memory EXCEPT !.reads = TRUE]
             durable == IF m.targets # None THEN m.targets ELSE inv[e].saved.targets
             x == [m EXCEPT !.targets = durable]
             j == [inv[e] EXCEPT !.memory = m, !.saved = NoInputs, !.pc = "hygiene"]
  <2>1. /\ inv' = [inv EXCEPT ![e] = j]
        /\ inputs' = [inputs EXCEPT ![r] = x] /\ UNCHANGED <<stage, assessment>>
    BY <1>5 DEF PersistFrozenReads, TypeOK
  <2>2. m.seeded /\ m.targets = inputs[r].targets /\ m \in Inputs
    BY <1>2, <1>3 DEF Inputs
  <2>3. durable = inputs[r].targets
    BY <1>3, <1>5, <2>2 DEF PersistFrozenReads, At
  <2>4. x.seeded /\ x.targets = inputs[r].targets
    <3> HIDE DEF m, durable
    <3> QED BY <2>2, <2>3 DEF Inputs
  <2>5. j.run = r /\ j.pc = "hygiene" /\ j.memory = m
    BY <1>2 DEF Invocations
  <2> HIDE DEF x, j, m, durable
  <2>6. RunOK(x, assessment[r], stage[r])
    BY <1>2, <2>4 DEF RunOK
  <2>7. InvocationOK(e, j, x, assessment[r], stage[r])
    BY <2>2, <2>4, <2>5 DEF InvocationOK, Opening, Settled, Judged, Assessing
  <2> QED BY <1>1, <2>1, <2>5, <2>6, <2>7, RunWrites
<1> QED BY <1>4, <1>5, <1>6

LEMMA RunHygiene ==
  ASSUME TypeOK, RunInv, NEW e \in Invocation, PlanHygiene(e) \/ CancelRedundant(e)
  PROVE  RunInv'
<1> DEFINE r == inv[e].run
<1>1. inv[e].pc \in {"hygiene", "cancel"} /\ inv[e].pc # "idle"
  BY DEF PlanHygiene, CancelRedundant, At
<1>2. /\ r \in Run /\ inv[e] \in Invocations
      /\ InvocationOK(e, inv[e], inputs[r], assessment[r], stage[r])
  BY <1>1, RunFacts
<1>3. PICK plan \in SUBSET Row, next \in {"select", "cancel"} :
        inv' = [inv EXCEPT ![e].plan = plan, ![e].pc = next]
  <2>1. CASE PlanHygiene(e)
    <3>1. PICK plan \in SUBSET Row :
            inv' = [inv EXCEPT ![e].plan = plan, ![e].pc = IF plan = {} THEN "select" ELSE "cancel"]
      BY <2>1 DEF PlanHygiene, Actionable, Duplicates
    <3> QED BY <3>1
  <2>2. CASE CancelRedundant(e)
    <3>1. PICK plan \in SUBSET inv[e].plan :
            inv' = [inv EXCEPT ![e].plan = plan, ![e].pc = IF plan = {} THEN "select" ELSE "cancel"]
      BY <2>2 DEF CancelRedundant
    <3>2. inv[e].plan \in SUBSET Row
      BY InvFields
    <3> QED BY <3>1, <3>2
  <2> QED BY <2>1, <2>2
<1> DEFINE j == [inv[e] EXCEPT !.plan = plan, !.pc = next]
<1>4. inv' = [inv EXCEPT ![e] = j] /\ UNCHANGED <<inputs, stage, assessment>>
  BY <1>3 DEF PlanHygiene, CancelRedundant, TypeOK, runVars
<1>5. j.run = r /\ j.pc \in {"select", "cancel"} /\ j.memory = inv[e].memory
  BY <1>2 DEF Invocations
<1> HIDE DEF j
<1>6. InvocationOK(e, j, inputs[r], assessment[r], stage[r])
  BY <1>1, <1>2, <1>5 DEF InvocationOK, Opening, Settled, Judged, Assessing
<1> QED BY <1>1, <1>4, <1>5, <1>6, RunLocal

\* Leaving Stories out of a part of the frozen selection.
LEMMA PartRestrict ==
  ASSUME NEW t \in Targets, NEW K \in SUBSET (DOMAIN t.rows), NEW frozen, PartOf(t, frozen)
  PROVE  PartOf([t EXCEPT !.rows = [s \in K |-> t.rows[s]]], frozen)
<1>1. [t EXCEPT !.rows = [s \in K |-> t.rows[s]]] = [at |-> t.at, seen |-> t.seen, rows |-> [s \in K |-> t.rows[s]]]
  BY TargetsFields
<1> QED BY <1>1 DEF PartOf

LEMMA PartOwned ==
  ASSUME NEW t \in Targets, NEW got, NEW frozen, PartOf(t, frozen)
  PROVE  PartOf(OwnedTargets(t, got), frozen)
<1> DEFINE K == {s \in DOMAIN t.rows : t.rows[s] \subseteq got}
<1>1. K \in SUBSET (DOMAIN t.rows)
  OBVIOUS
<1> HIDE DEF K
<1>2. PartOf([t EXCEPT !.rows = [s \in K |-> t.rows[s]]], frozen)
  BY <1>1, PartRestrict
<1> QED BY <1>2 DEF OwnedTargets, K

\* The targets with which an invocation proceeds are part of the frozen ones, unless
\* it is about to freeze them.
LEMMA RunProceed ==
  ASSUME TypeOK, RunInv, NEW e \in Invocation, inv[e].pc \in {"select", "claim", "release", "creator"},
         NEW t, NEW fresh \in BOOLEAN, Proceed(e, t, fresh), UNCHANGED <<inputs, stage, assessment>>,
         ~fresh => PartOf(t, inputs[inv[e].run].targets)
  PROVE  RunInv'
<1> DEFINE r == inv[e].run
<1>1. inv[e].pc # "idle" /\ inv[e].pc \notin Opening /\ ~At(e, "freeze")
  BY DEF Opening, At
<1>2. /\ r \in Run /\ inv[e] \in Invocations
      /\ InvocationOK(e, inv[e], inputs[r], assessment[r], stage[r])
  BY <1>1, RunFacts
<1>3. PICK next \in {"freeze", "creator", "stage", "finish"} :
        /\ fresh => next = "freeze"
        /\ inv' = [inv EXCEPT ![e].targets = t, ![e].memory.targets = IF At(e, "freeze") THEN t ELSE @,
                              ![e].plan = {}, ![e].fresh = fresh, ![e].pc = next]
  BY DEF Proceed
<1> DEFINE m == [inv[e].memory EXCEPT !.targets = IF At(e, "freeze") THEN t ELSE @]
           j == [inv[e] EXCEPT !.targets = t, !.memory = m, !.plan = {}, !.fresh = fresh, !.pc = next]
<1>4. inv' = [inv EXCEPT ![e] = j]
  BY <1>2, <1>3 DEF TypeOK, Invocations
<1>5. m.seeded = inv[e].memory.seeded /\ m.targets = inv[e].memory.targets
  BY <1>1, InvFields DEF Inputs
<1>6. j.run = r /\ j.pc = next /\ j.memory = m /\ j.targets = t
  <2> HIDE DEF m
  <2> QED BY <1>2 DEF Invocations
<1> HIDE DEF j, m
<1>7. InvocationOK(e, j, inputs[r], assessment[r], stage[r])
  <2>1. inputs[r].seeded /\ j.memory.seeded /\ j.memory.targets = inputs[r].targets
    BY <1>1, <1>2, <1>5, <1>6 DEF InvocationOK
  <2>2. j.pc = "freeze" \/ PartOf(j.targets, inputs[r].targets)
    BY <1>3, <1>6
  <2> QED BY <1>3, <1>6, <2>1, <2>2 DEF InvocationOK, Opening, Settled, Judged, Assessing
<1> QED BY <1>1, <1>4, <1>6, <1>7, RunLocal

LEMMA RunSelect ==
  ASSUME TypeOK, RunInv, NEW e \in Invocation, SelectTargets(e)
  PROVE  RunInv'
<1> DEFINE r == inv[e].run
<1>1. inv[e].pc = "select" /\ inv[e].pc # "idle" /\ UNCHANGED <<inputs, stage, assessment>>
  BY DEF SelectTargets, At, runVars
<1>2. /\ r \in Run /\ inv[e] \in Invocations /\ inputs[r] \in Inputs
      /\ InvocationOK(e, inv[e], inputs[r], assessment[r], stage[r])
  BY <1>1, RunFacts DEF TypeOK
<1>3. inputs[r].seeded /\ inv[e].memory.seeded /\ inv[e].memory.targets = inputs[r].targets
  BY <1>1, <1>2 DEF InvocationOK, Opening
<1>4. PICK t, fresh :
        /\ fresh \in BOOLEAN
        /\ ~fresh => t = inv[e].memory.targets /\ t # None
        /\ \/ Proceed(e, t, fresh)
           \/ inv' = [inv EXCEPT ![e].targets = t, ![e].fresh = fresh, ![e].pc = "claim"]
  <2>1. PICK f \in Selections :
          LET fresh == inv[e].memory.targets = None
              t == IF fresh THEN [at |-> inv[e].memory.asOf, seen |-> inv[e].memory.seen, rows |-> f] ELSE inv[e].memory.targets
          IN \/ Proceed(e, t, fresh)
             \/ inv' = [inv EXCEPT ![e].targets = t, ![e].fresh = fresh, ![e].pc = "claim"]
    BY DEF SelectTargets, SelectedAt
  <2> DEFINE fresh == inv[e].memory.targets = None
             t == IF fresh THEN [at |-> inv[e].memory.asOf, seen |-> inv[e].memory.seen, rows |-> f] ELSE inv[e].memory.targets
  <2>2. fresh \in BOOLEAN /\ (~fresh => t = inv[e].memory.targets /\ t # None)
    OBVIOUS
  <2>3. \/ Proceed(e, t, fresh)
        \/ inv' = [inv EXCEPT ![e].targets = t, ![e].fresh = fresh, ![e].pc = "claim"]
    BY <2>1
  <2> HIDE DEF t, fresh
  <2> QED BY <2>2, <2>3
<1>5. ~fresh => PartOf(t, inputs[r].targets)
  BY <1>3, <1>4 DEF PartOf
<1>6. CASE Proceed(e, t, fresh)
  BY <1>1, <1>4, <1>5, <1>6, RunProceed
<1>7. CASE inv' = [inv EXCEPT ![e].targets = t, ![e].fresh = fresh, ![e].pc = "claim"]
  <2> DEFINE j == [inv[e] EXCEPT !.targets = t, !.fresh = fresh, !.pc = "claim"]
  <2>1. inv' = [inv EXCEPT ![e] = j]
    BY <1>7 DEF TypeOK
  <2>2. j.run = r /\ j.pc = "claim" /\ j.fresh = fresh /\ j.targets = t /\ j.memory = inv[e].memory
    BY <1>2 DEF Invocations
  <2> HIDE DEF j
  <2>3. InvocationOK(e, j, inputs[r], assessment[r], stage[r])
    BY <1>3, <1>5, <2>2 DEF InvocationOK, Opening, Settled, Judged, Assessing
  <2> QED BY <1>1, <2>1, <2>2, <2>3, RunLocal
<1> QED BY <1>4, <1>6, <1>7

LEMMA RunClaim ==
  ASSUME TypeOK, RunInv, NEW e \in Invocation, ClaimTargets(e) \/ ReleasePartialClaims(e)
  PROVE  RunInv'
<1> DEFINE r == inv[e].run
<1>1. /\ inv[e].pc \in {"claim", "release"} /\ inv[e].pc # "idle"
      /\ UNCHANGED <<inputs, stage, assessment>>
  BY DEF ClaimTargets, ReleasePartialClaims, At, runVars
<1>2. /\ r \in Run /\ inv[e] \in Invocations /\ inv[e].targets \in Targets /\ inv[e].fresh \in BOOLEAN
      /\ InvocationOK(e, inv[e], inputs[r], assessment[r], stage[r])
  BY <1>1, RunFacts, InvFields DEF Fits, Targeted
<1>3. PICK got : \/ Proceed(e, OwnedTargets(inv[e].targets, got), inv[e].fresh)
                 \/ inv' = [inv EXCEPT ![e].plan = got, ![e].pc = "release"]
                 \/ inv' = [inv EXCEPT ![e] = IdleInvocation]
  <2>1. CASE ClaimTargets(e)
    BY <2>1 DEF ClaimTargets, Fail
  <2>2. CASE ReleasePartialClaims(e)
    BY <2>2 DEF ReleasePartialClaims
  <2> QED BY <2>1, <2>2
<1>4. CASE Proceed(e, OwnedTargets(inv[e].targets, got), inv[e].fresh)
  <2>1. ~inv[e].fresh => PartOf(OwnedTargets(inv[e].targets, got), inputs[r].targets)
    BY <1>1, <1>2, PartOwned DEF InvocationOK
  <2> QED BY <1>1, <1>2, <1>4, <2>1, RunProceed
<1>5. CASE inv' = [inv EXCEPT ![e].plan = got, ![e].pc = "release"]
  <2> DEFINE j == [inv[e] EXCEPT !.plan = got, !.pc = "release"]
  <2>1. inv' = [inv EXCEPT ![e] = j]
    BY <1>5 DEF TypeOK
  <2>2. /\ j.run = r /\ j.pc = "release" /\ j.fresh = inv[e].fresh
        /\ j.targets = inv[e].targets /\ j.memory = inv[e].memory
    BY <1>2 DEF Invocations
  <2> HIDE DEF j
  <2>3. InvocationOK(e, j, inputs[r], assessment[r], stage[r])
    BY <1>1, <1>2, <2>2 DEF InvocationOK, Opening, Settled, Judged, Assessing
  <2> QED BY <1>1, <2>1, <2>2, <2>3, RunLocal
<1>6. CASE inv' = [inv EXCEPT ![e] = IdleInvocation]
  BY <1>1, <1>6, RunLeave
<1> QED BY <1>3, <1>4, <1>5, <1>6

LEMMA RunFreeze ==
  ASSUME TypeOK, RunInv, NEW e \in Invocation, FreezeTargets(e)
  PROVE  RunInv'
<1> DEFINE r == inv[e].run
           frozen == IF inputs[r].targets # None THEN inputs[r].targets ELSE inv[e].targets
           x == [inputs[r] EXCEPT !.targets = frozen]
<1>1. inv[e].pc = "freeze" /\ inv[e].pc # "idle" /\ At(e, "freeze")
  BY DEF FreezeTargets, At
<1>2. /\ r \in Run /\ inv[e] \in Invocations /\ inv[e].targets \in Targets /\ inputs[r] \in Inputs
      /\ RunOK(inputs[r], assessment[r], stage[r])
      /\ InvocationOK(e, inv[e], inputs[r], assessment[r], stage[r])
  BY <1>1, RunFacts, InvFields DEF TypeOK, Fits, Targeted
<1>3. inputs[r].seeded /\ inv[e].memory.seeded
  BY <1>1, <1>2 DEF InvocationOK, Opening
<1>4. x.seeded /\ x.targets = frozen /\ frozen # None
  BY <1>2, <1>3, NoTargetsAssumption DEF Inputs
<1>5. RunOK(x, assessment[r], stage[r])
  <2> HIDE DEF x
  <2> QED BY <1>2, <1>4 DEF RunOK
<1>6. inputs' = [inputs EXCEPT ![r] = x] /\ UNCHANGED <<stage, assessment>> /\ Proceed(e, frozen, FALSE)
  BY <1>2 DEF FreezeTargets, TypeOK
<1> HIDE DEF x, frozen
<1>7. PICK next \in {"creator", "stage", "finish"} :
        inv' = [inv EXCEPT ![e].targets = frozen,
                           ![e].memory.targets = IF At(e, "freeze") THEN frozen ELSE @,
                           ![e].plan = {}, ![e].fresh = FALSE, ![e].pc = next]
  BY <1>6 DEF Proceed
<1> DEFINE m == [inv[e].memory EXCEPT !.targets = IF At(e, "freeze") THEN frozen ELSE @]
           j == [inv[e] EXCEPT !.targets = frozen, !.memory = m, !.plan = {}, !.fresh = FALSE, !.pc = next]
<1>8. inv' = [inv EXCEPT ![e] = j]
  BY <1>2, <1>7 DEF TypeOK, Invocations
<1>9. m.seeded /\ m.targets = frozen
  BY <1>1, <1>3, InvFields DEF Inputs
<1>10. j.run = r /\ j.pc = next /\ j.memory = m /\ j.targets = frozen
  <2> HIDE DEF m
  <2> QED BY <1>2 DEF Invocations
<1> HIDE DEF j, m
<1>11. InvocationOK(e, j, x, assessment[r], stage[r])
  <2>1. PartOf(j.targets, x.targets)
    BY <1>4, <1>10 DEF PartOf
  <2> QED BY <1>4, <1>7, <1>9, <1>10, <2>1 DEF InvocationOK, Opening, Settled, Judged, Assessing
<1> QED BY <1>1, <1>5, <1>6, <1>8, <1>10, <1>11, RunWrites

LEMMA RunCreator ==
  ASSUME TypeOK, RunInv, NEW e \in Invocation, ResolveCreatorOnly(e)
  PROVE  RunInv'
<1> DEFINE r == inv[e].run
           t == inv[e].targets
           left == DOMAIN t.rows \ CreatorOnlyNonMaterial(t)
           less == [t EXCEPT !.rows = [s \in left |-> t.rows[s]]]
<1>1. /\ inv[e].pc = "creator" /\ inv[e].pc # "idle"
      /\ UNCHANGED <<inputs, stage, assessment>> /\ Proceed(e, less, FALSE)
  BY DEF ResolveCreatorOnly, At, runVars
<1>2. t \in Targets /\ InvocationOK(e, inv[e], inputs[r], assessment[r], stage[r])
  BY <1>1, RunFacts, InvFields DEF Fits, Targeted
<1>3. PartOf(t, inputs[r].targets)
  BY <1>1, <1>2 DEF InvocationOK, Settled
<1>4. left \in SUBSET (DOMAIN t.rows)
  OBVIOUS
<1>5. PartOf(less, inputs[r].targets)
  <2> HIDE DEF left
  <2> QED BY <1>2, <1>3, <1>4, PartRestrict
<1> HIDE DEF less
<1> QED BY <1>1, <1>5, RunProceed

\* With a completed stage at hand, the Stories left to do are those it assessed.
LEMMA RunUseOutput ==
  ASSUME TypeOK, RunInv, NEW e \in Invocation, inv[e].pc \in {"stage", "model"},
         NEW st, st.state = "completed", UseOutput(e, st.output), UNCHANGED <<inputs, assessment>>,
         stage'[inv[e].run] = st, \A o \in Run \ {inv[e].run} : stage'[o] = stage[o],
         RunOK(inputs[inv[e].run], assessment[inv[e].run], st)
  PROVE  RunInv'
<1> DEFINE r == inv[e].run
           t == inv[e].targets
           todo == DOMAIN t.rows \ OmittedTargets(e, st.output)
<1>1. inv[e].pc # "idle"
  OBVIOUS
<1>2. /\ r \in Run /\ inv[e] \in Invocations
      /\ InvocationOK(e, inv[e], inputs[r], assessment[r], stage[r])
      /\ \A f \in Invocation \ {e} : inv[f].run # r
  BY <1>1, RunFacts
<1>3. \A s \in todo : st.output[s] # "omitted"
  BY DEF OmittedTargets
<1>4. PICK next \in {"assess", "omitted"} : inv' = [inv EXCEPT ![e].todo = todo, ![e].pc = next]
  BY DEF UseOutput
<1> DEFINE j == [inv[e] EXCEPT !.todo = todo, !.pc = next]
<1>5. inv' = [inv EXCEPT ![e] = j]
  BY <1>4 DEF TypeOK
<1>6. j.run = r /\ j.pc = next /\ j.todo = todo /\ j.memory = inv[e].memory /\ j.targets = inv[e].targets
  <2> HIDE DEF todo
  <2> QED BY <1>2 DEF Invocations
<1> HIDE DEF j, todo, t
<1>7. InvocationOK(e, j, inputs'[r], assessment'[r], stage'[r])
  BY <1>2, <1>3, <1>4, <1>6 DEF InvocationOK, Opening, Settled, Judged, Assessing
<1>8. RunOK(inputs'[r], assessment'[r], stage'[r])
  OBVIOUS
<1>9. j.run \in {r, None}
  BY <1>6
<1>10. \A o \in Run \ {r} : inputs'[o] = inputs[o] /\ assessment'[o] = assessment[o] /\ stage'[o] = stage[o]
  OBVIOUS
<1> HIDE DEF r
<1> QED BY <1>2, <1>5, <1>7, <1>8, <1>9, <1>10, RunFrame

LEMMA RunStage ==
  ASSUME TypeOK, RunInv, NEW e \in Invocation,
         ReuseStage(e) \/ ClaimStage(e) \/ StageBusy(e) \/ FinishStage(e) \/ FailStage(e)
  PROVE  RunInv'
<1> DEFINE r == inv[e].run
<1>1. /\ inv[e].pc \in {"stage", "model"} /\ inv[e].pc # "idle"
      /\ UNCHANGED <<inputs, assessment>>
  BY DEF ReuseStage, ClaimStage, StageBusy, FinishStage, FailStage, At, runVars
<1>2. /\ r \in Run /\ inv[e] \in Invocations
      /\ InvocationOK(e, inv[e], inputs[r], assessment[r], stage[r])
      /\ RunOK(inputs[r], assessment[r], stage[r])
      /\ \A f \in Invocation \ {e} : inv[f].run # r
  BY <1>1, RunFacts
<1>3. ASSUME NEW st, st.by = None \/ st.state = "claimed", stage[r].state # "completed"
      PROVE  RunOK(inputs[r], assessment[r], st)
  BY <1>2, <1>3 DEF RunOK
<1>4. inv[e].pc = "model" => stage[r].state = "claimed"
  BY <1>2 DEF InvocationOK
<1>5. ASSUME NEW st, stage' = [stage EXCEPT ![r] = st]
      PROVE  stage'[r] = st /\ \A o \in Run \ {r} : stage'[o] = stage[o]
  BY <1>2, <1>5 DEF TypeOK
<1>6. CASE ReuseStage(e)
  <2>1. stage'[r] = stage[r] /\ \A o \in Run \ {r} : stage'[o] = stage[o]
    BY <1>6 DEF ReuseStage, runVars
  <2>2. stage[r].state = "completed" /\ UseOutput(e, stage[r].output)
    BY <1>6 DEF ReuseStage
  <2> QED BY <1>1, <1>2, <2>1, <2>2, RunUseOutput
<1>7. CASE ClaimStage(e)
  <2> DEFINE st == [NoStage EXCEPT !.state = "claimed", !.by = e]
             j == [inv[e] EXCEPT !.pc = "model"]
  <2>1. inv' = [inv EXCEPT ![e] = j] /\ stage' = [stage EXCEPT ![r] = st] /\ stage[r].state # "completed"
    BY <1>7 DEF ClaimStage, Goto, TypeOK
  <2>2. inv[e].pc = "stage"
    BY <1>7 DEF ClaimStage, At
  <2>3. st.state = "claimed" /\ st.by = e
    BY DEF NoStage
  <2>4. j.run = r /\ j.pc = "model" /\ j.memory = inv[e].memory /\ j.targets = inv[e].targets
    BY <1>2 DEF Invocations
  <2> HIDE DEF st, j
  <2>5. InvocationOK(e, j, inputs'[r], assessment'[r], st)
    BY <1>1, <1>2, <2>2, <2>3, <2>4 DEF InvocationOK, Opening, Settled, Judged, Assessing
  <2>6. stage'[r] = st /\ \A o \in Run \ {r} : stage'[o] = stage[o]
    BY <1>5, <2>1
  <2>7. RunOK(inputs'[r], assessment'[r], stage'[r])
    BY <1>1, <1>3, <2>1, <2>3, <2>6
  <2>8. /\ j.run \in {r, None} /\ InvocationOK(e, j, inputs'[r], assessment'[r], stage'[r])
        /\ \A o \in Run \ {r} : inputs'[o] = inputs[o] /\ assessment'[o] = assessment[o] /\ stage'[o] = stage[o]
    BY <1>1, <2>4, <2>5, <2>6
  <2> HIDE DEF r
  <2> QED BY <1>2, <2>1, <2>7, <2>8, RunFrame
<1>8. CASE StageBusy(e)
  <2>1. inv' = [inv EXCEPT ![e] = IdleInvocation] /\ \A o \in Run : stage'[o] = stage[o]
    BY <1>8 DEF StageBusy, runVars
  <2> QED BY <1>1, <2>1, RunLeave
<1>9. CASE FinishStage(e)
  <2>1. PICK output :
          /\ stage' = [stage EXCEPT ![r] = [state |-> "completed", by |-> None, seen |-> inv[e].targets.seen, output |-> output]]
          /\ UseOutput(e, output)
    BY <1>9 DEF FinishStage
  <2> DEFINE st == [state |-> "completed", by |-> None, seen |-> inv[e].targets.seen, output |-> output]
  <2>2. st.state = "completed" /\ st.by = None /\ st.output = output
    OBVIOUS
  <2>3. stage' = [stage EXCEPT ![r] = st] /\ UseOutput(e, st.output)
    BY <2>1
  <2>4. stage[r].state # "completed"
    BY <1>4, <1>9 DEF FinishStage, At
  <2> HIDE DEF st
  <2>5. stage'[r] = st /\ \A o \in Run \ {r} : stage'[o] = stage[o]
    BY <1>5, <2>3
  <2>6. RunOK(inputs[r], assessment[r], st)
    BY <1>3, <2>2, <2>4
  <2> QED BY <1>1, <2>2, <2>3, <2>5, <2>6, RunUseOutput
<1>10. CASE FailStage(e)
  <2>1. inv' = [inv EXCEPT ![e] = IdleInvocation] /\ stage' = [stage EXCEPT ![r] = NoStage]
    BY <1>10 DEF FailStage
  <2>2. stage'[r] = NoStage /\ \A o \in Run \ {r} : stage'[o] = stage[o]
    BY <1>5, <2>1
  <2>3. NoStage.by = None
    BY DEF NoStage
  <2>4. stage[r].state # "completed"
    BY <1>4, <1>10 DEF FailStage, At
  <2>5. RunOK(inputs'[r], assessment'[r], stage'[r])
    BY <1>1, <1>3, <2>2, <2>3, <2>4
  <2>6. IdleInvocation.run \in {r, None} /\ IdleInvocation.run # r
    BY <1>2, NoneAssumption DEF IdleInvocation
  <2>7. \A o \in Run \ {r} : inputs'[o] = inputs[o] /\ assessment'[o] = assessment[o] /\ stage'[o] = stage[o]
    BY <1>1, <2>2
  <2> HIDE DEF r
  <2> QED BY <1>2, <2>1, <2>5, <2>6, <2>7, RunFrame
<1> QED BY <1>6, <1>7, <1>8, <1>9, <1>10

\* One assessment of a run may change, if it is about a frozen Story that was not omitted.
LEMMA RunOKChange ==
  ASSUME NEW x, NEW a, NEW b, NEW st, NEW s, RunOK(x, a, st), x.seeded, st.state = "completed",
         x.targets # None, s \in DOMAIN x.targets.rows,
         b[s].rows = x.targets.rows[s], b[s].at = x.targets.at, st.output[s] # "omitted",
         \A z \in Story \ {s} : b[z] = a[z]
  PROVE  RunOK(x, b, st)
<1>1. ASSUME NEW z \in Story, b[z].state # "none"
      PROVE  /\ x.targets # None /\ z \in DOMAIN x.targets.rows
             /\ b[z].rows = x.targets.rows[z] /\ b[z].at = x.targets.at
             /\ st.state = "completed" /\ st.output[z] # "omitted"
  <2>1. CASE z = s
    BY <2>1
  <2>2. CASE z # s
    BY <1>1, <2>2 DEF RunOK
  <2> QED BY <2>1, <2>2
<1>2. st.by # None => st.state = "claimed"
  BY DEF RunOK
<1> QED BY <1>1, <1>2 DEF RunOK

\* A step that changes one assessment of its run.
LEMMA RunAssesses ==
  ASSUME TypeOK, RunInv, NEW e \in Invocation, inv[e].pc \in Judged, NEW j, NEW s \in Story, NEW a,
         inv' = [inv EXCEPT ![e] = j], j.run = inv[e].run, UNCHANGED <<inputs, stage>>,
         assessment' = [assessment EXCEPT ![inv[e].run][s] = a],
         a.state # "none",
         \/ /\ s \in inv[e].todo /\ s \in DOMAIN inv[e].targets.rows
            /\ a.rows = inv[e].targets.rows[s] /\ a.at = inv[e].targets.at
         \/ /\ assessment[inv[e].run][s].state # "none"
            /\ a.rows = assessment[inv[e].run][s].rows /\ a.at = assessment[inv[e].run][s].at,
         j.pc \in {"assess", "apply", "requeue"}, j.memory = inv[e].memory,
         j.targets = inv[e].targets, j.todo \subseteq inv[e].todo, j.pc # "assess" => j.story = s
  PROVE  RunInv'
<1> DEFINE r == inv[e].run
<1>1. inv[e].pc # "idle"
  BY DEF Judged, Assessing
<1>2. /\ r \in Run
      /\ InvocationOK(e, inv[e], inputs[r], assessment[r], stage[r])
      /\ RunOK(inputs[r], assessment[r], stage[r])
      /\ \A f \in Invocation \ {e} : inv[f].run # r
  BY <1>1, RunFacts
<1>3. /\ assessment'[r][s] = a
      /\ \A z \in Story \ {s} : assessment'[r][z] = assessment[r][z]
      /\ \A o \in Run \ {r} : assessment'[o] = assessment[o]
  BY <1>2 DEF TypeOK
<1>4. /\ inputs[r].seeded /\ PartOf(inv[e].targets, inputs[r].targets)
      /\ stage[r].state = "completed" /\ \A z \in inv[e].todo : stage[r].output[z] # "omitted"
  BY <1>2 DEF InvocationOK, Opening, Settled, Judged, Assessing
<1>5. /\ inputs[r].targets # None /\ s \in DOMAIN inputs[r].targets.rows
      /\ a.rows = inputs[r].targets.rows[s] /\ a.at = inputs[r].targets.at
      /\ stage[r].output[s] # "omitted"
  BY <1>2, <1>4 DEF RunOK, PartOf
<1>6. RunOK(inputs'[r], assessment'[r], stage'[r])
  <2> DEFINE x == inputs[r]
             c == assessment[r]
             b == assessment'[r]
             st == stage[r]
  <2>1. /\ RunOK(x, c, st) /\ x.seeded /\ st.state = "completed"
        /\ x.targets # None /\ s \in DOMAIN x.targets.rows
        /\ b[s].rows = x.targets.rows[s] /\ b[s].at = x.targets.at
        /\ st.output[s] # "omitted"
    BY <1>2, <1>3, <1>4, <1>5
  <2>2. \A z \in Story \ {s} : b[z] = c[z]
    BY <1>3
  <2>3. inputs'[r] = x /\ stage'[r] = st
    OBVIOUS
  <2> HIDE DEF x, b, c, st
  <2>4. RunOK(x, b, st)
    BY <2>1, <2>2, RunOKChange
  <2> QED BY <2>3, <2>4 DEF b
<1>7. InvocationOK(e, j, inputs'[r], assessment'[r], stage'[r])
  <2> DEFINE x == inputs[r]
             st == stage[r]
             b == assessment'[r]
  <2>1. x.seeded /\ j.memory.seeded /\ j.memory.targets = x.targets
    BY <1>2 DEF InvocationOK, Opening, Judged, Assessing
  <2>2. PartOf(j.targets, x.targets)
    BY <1>4
  <2>3. st.state = "completed" /\ \A z \in j.todo : st.output[z] # "omitted"
    BY <1>4
  <2>4. j.pc # "assess" => b[j.story].state # "none"
    BY <1>3
  <2>5. inputs'[r] = x /\ stage'[r] = st
    OBVIOUS
  <2> HIDE DEF x, st, b
  <2>6. InvocationOK(e, j, x, b, st)
    BY <2>1, <2>2, <2>3, <2>4 DEF InvocationOK, Opening, Settled, Judged, Assessing
  <2> QED BY <2>5, <2>6 DEF b
<1>8. /\ j.run \in {r, None}
      /\ \A o \in Run \ {r} : inputs'[o] = inputs[o] /\ assessment'[o] = assessment[o] /\ stage'[o] = stage[o]
  BY <1>3
<1> HIDE DEF r
<1> QED BY <1>2, <1>6, <1>7, <1>8, RunFrame

\* A step that only moves on among the Stories left to do.
LEMMA RunMoves ==
  ASSUME TypeOK, RunInv, NEW e \in Invocation, inv[e].pc \in Judged, NEW j,
         inv' = [inv EXCEPT ![e] = j], j.run = inv[e].run, UNCHANGED <<inputs, stage, assessment>>,
         j.pc \in Judged, j.memory = inv[e].memory,
         j.targets = inv[e].targets, j.todo \subseteq inv[e].todo,
         j.pc \in Assessing => assessment[inv[e].run][j.story].state # "none"
  PROVE  RunInv'
<1>1. inv[e].pc # "idle"
  BY DEF Judged, Assessing
<1>2. InvocationOK(e, inv[e], inputs[inv[e].run], assessment[inv[e].run], stage[inv[e].run])
  BY <1>1, RunFacts
<1>3. InvocationOK(e, j, inputs[inv[e].run], assessment[inv[e].run], stage[inv[e].run])
  BY <1>2 DEF InvocationOK, Opening, Settled, Judged, Assessing
<1> QED BY <1>1, <1>3, RunLocal

LEMMA RunInsert ==
  ASSUME TypeOK, RunInv, NEW e \in Invocation, MarkOmittedRetryable(e) \/ InsertAssessment(e)
  PROVE  RunInv'
<1> DEFINE r == inv[e].run
           t == inv[e].targets
<1>1. inv[e].pc \in {"omitted", "assess"} /\ inv[e].pc # "idle" /\ UNCHANGED <<inputs, stage>>
  BY DEF MarkOmittedRetryable, InsertAssessment, At, runVars
<1>2. /\ r \in Run /\ inv[e] \in Invocations /\ t \in Targets /\ inv[e].todo \subseteq DOMAIN t.rows
      /\ inv[e].pc \in Judged
  BY <1>1, RunFacts, InvFields DEF Fits, Judged
<1>3. CASE MarkOmittedRetryable(e)
  <2> DEFINE j == [inv[e] EXCEPT !.pc = "assess"]
  <2>1. inv' = [inv EXCEPT ![e] = j] /\ UNCHANGED <<inputs, stage, assessment>>
    BY <1>3 DEF MarkOmittedRetryable, Goto, TypeOK, runVars
  <2>2. /\ j.run = r /\ j.pc = "assess" /\ j.memory = inv[e].memory /\ j.targets = t
        /\ j.todo = inv[e].todo
    BY <1>2 DEF Invocations
  <2> HIDE DEF j
  <2>3. j.pc \in Judged /\ j.pc \notin Assessing
    BY <2>2 DEF Judged, Assessing
  <2> QED BY <1>2, <2>1, <2>2, <2>3, RunMoves
<1>4. CASE InsertAssessment(e)
  <2>1. PICK s \in inv[e].todo :
          LET next == [inv EXCEPT ![e].story = s, ![e].todo = @ \ {s}, ![e].pc = "apply"]
              skip == [inv EXCEPT ![e].todo = @ \ {s}]
          IN \/ /\ assessment' = [assessment EXCEPT ![r][s] =
                     [state |-> "open", at |-> t.at, seen |-> stage[r].seen[s], rows |-> t.rows[s],
                      verdict |-> stage[r].output[s], stale |-> FALSE]]
                /\ inv' = next
             \/ /\ assessment[r][s].state # "none"
                /\ inv' \in {skip, next} /\ UNCHANGED assessment
             \/ Fail(e) /\ UNCHANGED assessment
    BY <1>4 DEF InsertAssessment
  <2> DEFINE next == [inv[e] EXCEPT !.story = s, !.todo = @ \ {s}, !.pc = "apply"]
             skip == [inv[e] EXCEPT !.todo = @ \ {s}]
             a == [state |-> "open", at |-> t.at, seen |-> stage[r].seen[s], rows |-> t.rows[s],
                   verdict |-> stage[r].output[s], stale |-> FALSE]
  <2>2. \/ assessment' = [assessment EXCEPT ![r][s] = a] /\ inv' = [inv EXCEPT ![e] = next]
        \/ /\ assessment[r][s].state # "none"
           /\ inv' = [inv EXCEPT ![e] = skip] \/ inv' = [inv EXCEPT ![e] = next]
           /\ UNCHANGED assessment
        \/ inv' = [inv EXCEPT ![e] = IdleInvocation] /\ UNCHANGED assessment
    BY <2>1 DEF Fail, TypeOK
  <2>3. s \in Story /\ s \in DOMAIN t.rows
    BY <1>2, TargetsFields
  <2>4. /\ next.run = r /\ next.pc = "apply" /\ next.memory = inv[e].memory /\ next.targets = t
        /\ next.todo \subseteq inv[e].todo /\ next.story = s
    BY <1>2 DEF Invocations
  <2>5. /\ skip.run = r /\ skip.pc = inv[e].pc /\ skip.memory = inv[e].memory /\ skip.targets = t
        /\ skip.todo \subseteq inv[e].todo
    BY <1>2 DEF Invocations
  <2>6. a.state # "none" /\ a.rows = t.rows[s] /\ a.at = t.at
    OBVIOUS
  <2>7. "apply" \in Judged /\ "apply" \in {"assess", "apply", "requeue"} /\ "apply" # "assess"
        /\ inv[e].pc \notin Assessing
    BY <1>1 DEF Judged, Assessing
  <2> HIDE DEF next, skip, a
  <2>8. CASE assessment' = [assessment EXCEPT ![r][s] = a] /\ inv' = [inv EXCEPT ![e] = next]
    BY <1>1, <1>2, <2>3, <2>4, <2>6, <2>7, <2>8, RunAssesses
  <2>9. CASE /\ assessment[r][s].state # "none" /\ inv' = [inv EXCEPT ![e] = skip]
             /\ UNCHANGED assessment
    BY <1>1, <1>2, <2>5, <2>7, <2>9, RunMoves
  <2>10. CASE /\ assessment[r][s].state # "none" /\ inv' = [inv EXCEPT ![e] = next]
              /\ UNCHANGED assessment
    BY <1>1, <1>2, <2>4, <2>7, <2>10, RunMoves
  <2>11. CASE inv' = [inv EXCEPT ![e] = IdleInvocation] /\ UNCHANGED assessment
    BY <1>1, <2>11, RunLeave
  <2> QED BY <2>2, <2>8, <2>9, <2>10, <2>11
<1> QED BY <1>3, <1>4

\* Completing or neutralising a review replaces one assessment, and neither its rows nor
\* its selection time nor the version it speaks of.
LEMMA ReviewChanges ==
  ASSUME TypeOK, NEW r \in Run, NEW s \in Story, assessment[r][s].state # "none",
         (\E v : CompleteReview(r, s, v)) \/ (\E b : Neutralise(r, s, b) /\ ~Applied(r, s))
  PROVE  \E a : /\ assessment' = [assessment EXCEPT ![r][s] = a] /\ a.state # "none"
                /\ a.rows = assessment[r][s].rows /\ a.at = assessment[r][s].at
                /\ a.seen = assessment[r][s].seen
<1>1. CASE \E v : CompleteReview(r, s, v)
  <2>1. PICK v : CompleteReview(r, s, v)
    BY <1>1
  <2> DEFINE a == [assessment[r][s] EXCEPT !.state = "applied", !.verdict = v]
  <2>2. assessment' = [assessment EXCEPT ![r][s] = a]
    BY <2>1 DEF CompleteReview, TypeOK
  <2>3. /\ a.state # "none" /\ a.rows = assessment[r][s].rows /\ a.at = assessment[r][s].at
        /\ a.seen = assessment[r][s].seen
    <3>1. assessment[r][s] \in Assessment
      BY AssessmentFields
    <3> QED BY <3>1 DEF Assessment
  <2> HIDE DEF a
  <2> QED BY <2>2, <2>3
<1>2. CASE \E b : Neutralise(r, s, b) /\ ~Applied(r, s)
  <2>1. PICK b : Neutralise(r, s, b) /\ ~Applied(r, s)
    BY <1>2
  <2>4. assessment' = [assessment EXCEPT ![r][s].verdict = "unchanged", ![r][s].stale = b]
    BY <2>1 DEF Neutralise
  <2>5. assessment \in [Run -> [Story -> Assessment]]
    BY DEF TypeOK
  <2> DEFINE a == [assessment[r][s] EXCEPT !.verdict = "unchanged", !.stale = b]
  <2>2. assessment' = [assessment EXCEPT ![r][s] = a]
    BY <2>4, <2>5
  <2>3. /\ a.state # "none" /\ a.rows = assessment[r][s].rows /\ a.at = assessment[r][s].at
        /\ a.seen = assessment[r][s].seen
    <3>1. assessment[r][s] \in Assessment
      BY AssessmentFields
    <3> QED BY <3>1 DEF Assessment
  <2> HIDE DEF a
  <2> QED BY <2>2, <2>3
<1> QED BY <1>1, <1>2

LEMMA RunApply ==
  ASSUME TypeOK, RunInv, NEW e \in Invocation,
         \/ ApplyAgain(e) \/ ApplySuperseded(e) \/ ApplyChange(e) \/ ApplyUnchanged(e)
         \/ ApplyStale(e) \/ ApplyOwnershipLost(e)
         \/ RecordOwnershipLost(e) \/ RecordStaleAssessment(e) \/ RequeueStaleTarget(e)
  PROVE  RunInv'
<1> DEFINE r == inv[e].run
           s == inv[e].story
           back == [inv[e] EXCEPT !.story = None, !.pc = "assess"]
<1>1. inv[e].pc \in Assessing /\ inv[e].pc # "idle" /\ inv[e].pc \in Judged /\ UNCHANGED <<inputs, stage>>
  BY DEF ApplyAgain, ApplySuperseded, ApplyChange, ApplyUnchanged, ApplyStale, ApplyOwnershipLost,
         RecordOwnershipLost, RecordStaleAssessment, RequeueStaleTarget, At, runVars, Judged, Assessing
<1>2. /\ r \in Run /\ inv[e] \in Invocations /\ s \in Story
      /\ InvocationOK(e, inv[e], inputs[r], assessment[r], stage[r])
  BY <1>1, RunFacts, InvFields, TargetsFields DEF Fits
<1>3. assessment[r][s].state # "none"
  BY <1>1, <1>2 DEF InvocationOK
<1>4. /\ back.run = r /\ back.pc = "assess" /\ back.memory = inv[e].memory
      /\ back.targets = inv[e].targets /\ back.todo \subseteq inv[e].todo
  BY <1>2 DEF Invocations
<1>5. "assess" \in Judged /\ "assess" \notin Assessing /\ Assessing \subseteq Judged
  BY DEF Judged, Assessing
<1>6. CASE ApplyAgain(e) \/ RequeueStaleTarget(e)
  <2>1. inv' = [inv EXCEPT ![e] = back] /\ UNCHANGED <<inputs, stage, assessment>>
    BY <1>1, <1>6 DEF ApplyAgain, RequeueStaleTarget, TypeOK
  <2> HIDE DEF back
  <2> QED BY <1>1, <1>4, <1>5, <2>1, RunMoves
<1>7. CASE ApplyStale(e) \/ ApplyOwnershipLost(e)
  <2>1. PICK label \in {"stale", "lost"} : inv' = [inv EXCEPT ![e].pc = label]
    BY <1>7 DEF ApplyStale, ApplyOwnershipLost, Goto
  <2> DEFINE j == [inv[e] EXCEPT !.pc = label]
  <2>2. inv' = [inv EXCEPT ![e] = j] /\ UNCHANGED <<inputs, stage, assessment>>
    BY <1>1, <1>7, <2>1 DEF ApplyStale, ApplyOwnershipLost, TypeOK
  <2>3. /\ j.run = r /\ j.pc = label /\ j.memory = inv[e].memory
        /\ j.targets = inv[e].targets /\ j.todo \subseteq inv[e].todo /\ j.story = s
    BY <1>2 DEF Invocations
  <2>4. label \in Judged
    BY DEF Judged, Assessing
  <2> HIDE DEF j
  <2> QED BY <1>1, <1>3, <2>2, <2>3, <2>4, RunMoves
<1>8. CASE \/ ApplySuperseded(e) \/ ApplyChange(e) \/ ApplyUnchanged(e)
           \/ RecordOwnershipLost(e) \/ RecordStaleAssessment(e)
  <2> DEFINE more == [inv[e] EXCEPT !.pc = "requeue"]
  <2>1. inv' = [inv EXCEPT ![e] = back] \/ inv' = [inv EXCEPT ![e] = more]
    BY <1>8 DEF ApplySuperseded, ApplyChange, ApplyUnchanged, RecordOwnershipLost,
                RecordStaleAssessment, Goto, TypeOK
  <2>2. (\E v : CompleteReview(r, s, v)) \/ (\E b : Neutralise(r, s, b))
    BY <1>8 DEF ApplySuperseded, ApplyChange, ApplyUnchanged, RecordOwnershipLost, RecordStaleAssessment
  <2>3. /\ more.run = r /\ more.pc = "requeue" /\ more.memory = inv[e].memory
        /\ more.targets = inv[e].targets /\ more.todo \subseteq inv[e].todo /\ more.story = s
    BY <1>2 DEF Invocations
  <2>4. "requeue" \in Judged
    BY DEF Judged, Assessing
  <2> HIDE DEF back, more, r, s
  <2>5. ASSUME NEW j \in {back, more}, inv' = [inv EXCEPT ![e] = j]
        PROVE  RunInv'
    <3>1. /\ j.run = r /\ j.pc \in {"assess", "requeue"} /\ j.pc \in Judged /\ j.memory = inv[e].memory
          /\ j.targets = inv[e].targets /\ j.todo \subseteq inv[e].todo
          /\ j.pc # "assess" => j.story = s
      BY <1>4, <1>5, <2>3, <2>4
    <3>2. j.pc \in {"assess", "apply", "requeue"} /\ (j.pc \in Assessing => j.story = s)
      BY <1>5, <3>1
    <3>3. CASE UNCHANGED assessment
      BY <1>1, <1>3, <2>5, <3>1, <3>2, <3>3, RunMoves DEF r
    <3>4. CASE ~UNCHANGED assessment
      <4>1. PICK a : /\ assessment' = [assessment EXCEPT ![r][s] = a] /\ a.state # "none"
                     /\ a.rows = assessment[r][s].rows /\ a.at = assessment[r][s].at
        BY <1>2, <1>3, <2>2, <3>4, ReviewChanges DEF Neutralise
      <4> QED BY <1>1, <1>2, <1>3, <2>5, <3>1, <3>2, <4>1, RunAssesses DEF r
    <3> QED BY <3>3, <3>4
  <2> QED BY <2>1, <2>5
<1> QED BY <1>6, <1>7, <1>8

LEMMA RunEnd ==
  ASSUME TypeOK, RunInv, NEW e \in Invocation,
         CompleteRun(e) \/ LeaveRun(e) \/ DatabaseError(e) \/ Crash(e)
  PROVE  RunInv'
<1> DEFINE r == inv[e].run
<1>1. /\ inv[e].pc # "idle" /\ UNCHANGED assessment /\ inv' = [inv EXCEPT ![e] = IdleInvocation]
  BY DEF CompleteRun, LeaveRun, DatabaseError, Crash, Finished, At, Fail
<1>2. /\ r \in Run /\ inv[e] \in Invocations
      /\ InvocationOK(e, inv[e], inputs[r], assessment[r], stage[r])
      /\ RunOK(inputs[r], assessment[r], stage[r])
  BY <1>1, RunFacts
<1>3. CASE LeaveRun(e) \/ DatabaseError(e) \/ Crash(e)
  <2>1. /\ UNCHANGED inputs
        /\ \A o \in Run : stage'[o] = stage[o]
             \/ (stage[o].by = e /\ stage'[o] = [NoStage EXCEPT !.state = "abandoned"])
    BY <1>3 DEF LeaveRun, DatabaseError, Crash
  <2> QED BY <1>1, <2>1, RunLeave
<1>4. CASE CompleteRun(e)
  <2> DEFINE m == inv[e].memory
  <2>1. m.seeded /\ m.targets = inputs[r].targets
    BY <1>2, <1>4 DEF CompleteRun, Finished, At, InvocationOK, Opening
  <2>2. inputs' = [inputs EXCEPT ![r] = m] /\ UNCHANGED <<stage, assessment>>
    BY <1>4 DEF CompleteRun
  <2> HIDE DEF m
  <2>3. RunOK(m, assessment[r], stage[r])
    BY <1>2, <2>1 DEF RunOK
  <2>4. IdleInvocation.run \in {r, None} /\ IdleInvocation.run # r
    BY <1>2, NoneAssumption DEF IdleInvocation
  <2> QED BY <1>1, <2>2, <2>3, <2>4, RunWrites
<1> QED BY <1>3, <1>4

\* Every step keeps what an invocation remembers in agreement with its run.
LEMMA RunNext ==
  ASSUME TypeOK, RunInv, SerialRuns, [Next]_vars
  PROVE  RunInv'
<1>1. CASE UNCHANGED vars
  BY <1>1, RunEnvironment DEF vars
<1>2. CASE (\E q \in Row : EnqueueLinkedEvidence(q)) \/ (\E s \in Story : SynthesizeStory(s))
  BY <1>2, RunEnvironment DEF EnqueueLinkedEvidence, SynthesizeStory, runVars
<1>3. CASE \E e \in Invocation, r \in Run : OpenRun(e, r)
  BY <1>3, RunOpen
<1>4. ASSUME NEW e \in Invocation, Step(e)
      PROVE  RunInv'
  BY <1>4, RunSeed, RunReads, RunHygiene, RunSelect, RunClaim, RunFreeze, RunCreator, RunStage,
     RunInsert, RunApply, RunEnd
     DEF Step
<1> QED BY <1>1, <1>2, <1>3, <1>4 DEF Next

LEMMA RunInit == Init => RunInv
<1>1. NoInputs.seeded = FALSE /\ NoInputs.targets = None
  BY DEF NoInputs, EmptyInputs
<1>2. NoAssessment.state = "none" /\ NoStage.by = None
  BY DEF NoAssessment, NoStage
<1>3. IdleInvocation.run = None /\ None \notin Run
  BY NoneAssumption DEF IdleInvocation
<1> QED BY <1>1, <1>2, <1>3 DEF Init, RunInv, Solo, RunOK

\* As long as a run has one live invocation at a time, whatever a run assesses is what
\* it froze, with the rows and the selection time it froze, across crashes, resumed
\* invocations and repeated freezes.
THEOREM AssessedIsFrozen ==
  ASSUME SerialRuns
  PROVE  Spec => []AssessedAsFrozen
<1>1. Init => RunInv
  BY RunInit
<1>2. TypeOK /\ RunInv /\ [Next]_vars => RunInv'
  BY RunNext
<1>3. RunInv => AssessedAsFrozen
  BY DEF RunInv, RunOK, AssessedAsFrozen, HasContract
<1>4. Spec => []TypeOK
  BY TypeCorrect
<1> QED BY <1>1, <1>2, <1>3, <1>4, PTL DEF Spec

-----------------------------------------------------------------------------
(***************************************************************************)
(* No update of a Story is lost.  A reading of the Stories travels with the *)
(* time of the run's start, from the invocation to the frozen inputs, the  *)
(* targets, the output of the stage and the assessments.  Wherever it is,  *)
(* a Story whose version is not after that time is the one that was read.  *)
(***************************************************************************)

\* A content with version `seen`, dated `at`, against the current version of the Story.
Shown(at, seen, version, now) == at <= now /\ (version <= at => seen = version)
AllShown(at, seen, st, now) == \A s \in Story : Shown(at, seen[s], st[s].versionAt, now)
TargetsShown(t, st, now) == t # None => AllShown(t.at, t.seen, st, now)
InputsShown(x, st, now) ==
  /\ x.asOf <= now
  /\ x.reads => AllShown(x.asOf, x.seen, st, now)
  /\ TargetsShown(x.targets, st, now)

\* Before its reads an invocation remembers the time alone.
Opened == {"idle", "create", "seed", "readStories"}
InvocationShown(i, st, now) ==
  /\ InputsShown(i.memory, st, now) /\ InputsShown(i.saved, st, now)
  /\ i.pc \notin Opened => AllShown(i.memory.asOf, i.memory.seen, st, now)
  /\ TargetsShown(i.targets, st, now)

VersionsPast == \A s \in Story : story[s].versionAt <= clock
SeenInv ==
  /\ VersionsPast
  /\ \A r \in Run : InputsShown(inputs[r], story, clock)
  /\ \A e \in Invocation : InvocationShown(inv[e], story, clock)
  /\ \A r \in Run : stage[r].state = "completed" =>
       inputs[r].targets # None /\ AllShown(inputs[r].targets.at, stage[r].seen, story, clock)
  /\ \A r \in Run, s \in Story : assessment[r][s].state # "none" =>
       Shown(assessment[r][s].at, assessment[r][s].seen, story[s].versionAt, clock)

\* The steps that change a Story or the clock.
LEMMA StoryMoves ==
  ASSUME TypeOK, [Next]_vars
  PROVE  \/ UNCHANGED story /\ clock' \in {clock, clock + 1}
         \/ \E z \in Story, how \in {"synthesis", "catalyst"} : \E r : NewVersion(z, r, how)
         \/ \E e \in Invocation : ApplyChange(e)
<1> DEFINE Goal == \/ UNCHANGED story /\ clock' \in {clock, clock + 1}
                   \/ \E z \in Story, how \in {"synthesis", "catalyst"} : \E r : NewVersion(z, r, how)
                   \/ \E e \in Invocation : ApplyChange(e)
<1>1. ASSUME NEW s \in Story, SynthesizeStory(s)
      PROVE  Goal
  BY <1>1 DEF SynthesizeStory, NewVersion
<1>2. ASSUME NEW e \in Invocation, ApplySuperseded(e) \/ ApplyUnchanged(e)
      PROVE  Goal
  <2>1. inv[e].story \in Story
    BY <1>2, InvFields, TargetsFields DEF ApplySuperseded, ApplyUnchanged, At, Fits, Assessing, Targeted
  <2>2. AttachCatalyst(inv[e].story, inv[e].run) \/ UNCHANGED <<clock, story>>
    BY <1>2 DEF ApplySuperseded, ApplyUnchanged
  <2> QED BY <2>1, <2>2 DEF AttachCatalyst
<1>3. ASSUME NEW e \in Invocation, Step(e), ~ApplySuperseded(e), ~ApplyUnchanged(e)
      PROVE  Goal
  BY <1>3 DEF Step, CreateRun, SeedInputs, ReadStories, ReadMetadata, PersistFrozenReads, PlanHygiene,
              CancelRedundant, SelectTargets, ClaimTargets, ReleasePartialClaims, FreezeTargets,
              ResolveCreatorOnly, ReuseStage, ClaimStage, StageBusy, FinishStage, FailStage,
              MarkOmittedRetryable, InsertAssessment, ApplyAgain, ApplyStale, ApplyOwnershipLost,
              RecordOwnershipLost, RecordStaleAssessment, RequeueStaleTarget, CompleteRun, LeaveRun,
              DatabaseError, Crash
<1>4. UNCHANGED <<story, clock>> => Goal
  OBVIOUS
<1> HIDE DEF Goal
<1>5. Goal
  BY <1>1, <1>2, <1>3, <1>4 DEF Next, EnqueueLinkedEvidence, OpenRun, vars
<1> QED BY <1>5 DEF Goal

\* A new version is dated after everything before it.
LEMMA VersionsGrow ==
  ASSUME TypeOK, VersionsPast, [Next]_vars
  PROVE  /\ clock \in Nat /\ clock' \in Nat /\ clock' >= clock /\ VersionsPast'
         /\ \A s \in Story : story'[s].versionAt \in Nat /\
              (story'[s].versionAt = story[s].versionAt \/ story'[s].versionAt > clock)
<1>1. /\ clock \in Nat
      /\ story \in [Story -> [versionAt : Nat, by : Run \cup {None}, via : {"synthesis", "maintenance", "catalyst"}]]
  BY DEF TypeOK
<1>2. ASSUME NEW z \in Story, NEW r, NEW how, NewVersion(z, r, how)
      PROVE  /\ clock' = clock + 1 /\ story'[z].versionAt = clock + 1
             /\ \A s \in Story \ {z} : story'[s] = story[s]
  BY <1>1, <1>2 DEF NewVersion
<1>3. ASSUME NEW z \in Story, NEW r, NEW how, NewVersion(z, r, how)
      PROVE  /\ clock' \in Nat /\ clock' >= clock /\ VersionsPast'
             /\ \A s \in Story : story'[s].versionAt \in Nat /\
                  (story'[s].versionAt = story[s].versionAt \/ story'[s].versionAt > clock)
  <2>1. \A s \in Story : story[s].versionAt \in Nat /\ story[s].versionAt <= clock
    BY <1>1 DEF VersionsPast
  <2>2. \A s \in Story : s = z \/ story'[s] = story[s]
    BY <1>3, <1>2
  <2>3. clock' = clock + 1 /\ story'[z].versionAt = clock + 1
    BY <1>3, <1>2
  <2> QED BY <1>1, <2>1, <2>2, <2>3 DEF VersionsPast
<1>4. CASE UNCHANGED story /\ clock' \in {clock, clock + 1}
  BY <1>1, <1>4 DEF VersionsPast
<1>5. ASSUME NEW e \in Invocation, ApplyChange(e)
      PROVE  inv[e].story \in Story /\ NewVersion(inv[e].story, inv[e].run, "maintenance")
  BY <1>5, InvFields, TargetsFields DEF ApplyChange, At, Fits, Assessing, Targeted
<1> QED BY <1>1, <1>3, <1>4, <1>5, StoryMoves

\* What was shown stays shown: a new version is dated after it.
LEMMA ShownStays ==
  ASSUME TypeOK, VersionsPast, [Next]_vars
  PROVE  /\ \A at \in Nat, s \in Story : \A seen :
              Shown(at, seen, story[s].versionAt, clock) => Shown(at, seen, story'[s].versionAt, clock')
         /\ \A at \in Nat : \A seen :
              AllShown(at, seen, story, clock) => AllShown(at, seen, story', clock')
         /\ \A t \in Targets \cup {None} :
              TargetsShown(t, story, clock) => TargetsShown(t, story', clock')
         /\ \A x \in Inputs : InputsShown(x, story, clock) => InputsShown(x, story', clock')
         /\ \A i \in Invocations : InvocationShown(i, story, clock) => InvocationShown(i, story', clock')
<1>1. ASSUME NEW at \in Nat, NEW s \in Story, NEW seen, Shown(at, seen, story[s].versionAt, clock)
      PROVE  Shown(at, seen, story'[s].versionAt, clock')
  <2>1. /\ clock \in Nat /\ clock' \in Nat /\ clock' >= clock
        /\ story'[s].versionAt = story[s].versionAt \/ story'[s].versionAt > clock
    BY VersionsGrow
  <2>2. story'[s].versionAt \in Int
    BY VersionsGrow
  <2> QED BY <1>1, <2>1, <2>2 DEF Shown
<1>2. ASSUME NEW at \in Nat, NEW seen, AllShown(at, seen, story, clock)
      PROVE  AllShown(at, seen, story', clock')
  BY <1>1, <1>2 DEF AllShown
<1>3. ASSUME NEW t \in Targets \cup {None}, TargetsShown(t, story, clock)
      PROVE  TargetsShown(t, story', clock')
  BY <1>2, <1>3 DEF TargetsShown, Targets
<1>4. ASSUME NEW x \in Inputs, InputsShown(x, story, clock)
      PROVE  InputsShown(x, story', clock')
  <2>1. x.asOf \in Nat /\ x.targets \in Targets \cup {None}
    BY InputsFields
  <2>2. x.asOf <= clock'
    BY <1>4, <2>1, VersionsGrow DEF InputsShown
  <2> QED BY <1>2, <1>3, <1>4, <2>1, <2>2 DEF InputsShown
<1>5. ASSUME NEW i \in Invocations, InvocationShown(i, story, clock)
      PROVE  InvocationShown(i, story', clock')
  <2>1. /\ i.memory \in Inputs /\ i.saved \in Inputs /\ i.memory.asOf \in Nat
        /\ i.targets \in Targets \cup {None}
    BY InputsFields DEF Invocations
  <2> QED BY <1>2, <1>3, <1>4, <1>5, <2>1 DEF InvocationShown
<1>6. \A at \in Nat, s \in Story : \A seen :
        Shown(at, seen, story[s].versionAt, clock) => Shown(at, seen, story'[s].versionAt, clock')
  BY <1>1
<1>7. \A at \in Nat : \A seen :
        AllShown(at, seen, story, clock) => AllShown(at, seen, story', clock')
  BY <1>2
<1> QED BY <1>3, <1>4, <1>5, <1>6, <1>7

\* The steps that write the frozen inputs of a run.
LEMMA InputsMoves ==
  ASSUME TypeOK, [Next]_vars, ~UNCHANGED inputs
  PROVE  \E e \in Invocation : \/ CreateRun(e) \/ SeedInputs(e) \/ PersistFrozenReads(e)
                               \/ FreezeTargets(e) \/ CompleteRun(e)
<1>1. ASSUME NEW e \in Invocation, Step(e)
      PROVE  \/ CreateRun(e) \/ SeedInputs(e) \/ PersistFrozenReads(e)
             \/ FreezeTargets(e) \/ CompleteRun(e)
  BY <1>1 DEF Step, ReadStories, ReadMetadata, PlanHygiene, CancelRedundant, SelectTargets, ClaimTargets,
              ReleasePartialClaims, ResolveCreatorOnly, ReuseStage, ClaimStage, StageBusy, FinishStage,
              FailStage, MarkOmittedRetryable, InsertAssessment, ApplyAgain, ApplySuperseded,
              ApplyChange, ApplyUnchanged, ApplyStale, ApplyOwnershipLost, RecordOwnershipLost,
              RecordStaleAssessment, RequeueStaleTarget, LeaveRun, DatabaseError, Crash, runVars
<1> QED BY <1>1 DEF Next, EnqueueLinkedEvidence, SynthesizeStory, OpenRun, vars, runVars

\* Frozen targets are never replaced.
LEMMA FrozenStays ==
  ASSUME TypeOK, RunInv, [Next]_vars, NEW r \in Run, inputs[r].targets # None
  PROVE  inputs'[r].targets = inputs[r].targets
<1>1. CASE UNCHANGED inputs
  BY <1>1
<1>2. ASSUME NEW e \in Invocation, inv[e].pc # "idle", NEW x, inputs' = [inputs EXCEPT ![inv[e].run] = x],
             inputs[inv[e].run].targets # None => x.targets = inputs[inv[e].run].targets
      PROVE  inputs'[r].targets = inputs[r].targets
  <2>1. inv[e].run \in Run
    BY <1>2, RunFacts
  <2> QED BY <1>2, <2>1 DEF TypeOK
<1>3. ASSUME NEW e \in Invocation, CreateRun(e) \/ SeedInputs(e)
      PROVE  inputs'[r].targets = inputs[r].targets
  <2>1. inv[e].pc \in {"create", "seed"} /\ inv[e].pc # "idle"
    BY <1>3 DEF CreateRun, SeedInputs, At
  <2>2. inputs[inv[e].run].targets = None
    BY <2>1, RunFacts DEF RunOK, InvocationOK
  <2>3. PICK x : inputs' = [inputs EXCEPT ![inv[e].run] = x]
    BY <1>3 DEF CreateRun, SeedInputs
  <2> QED BY <1>2, <2>1, <2>2, <2>3
<1>4. ASSUME NEW e \in Invocation, PersistFrozenReads(e)
      PROVE  inputs'[r].targets = inputs[r].targets
  <2> DEFINE m == [inv[e].memory EXCEPT !.reads = TRUE]
             durable == IF m.targets # None THEN m.targets ELSE inv[e].saved.targets
             x == [m EXCEPT !.targets = durable]
  <2>1. inv[e].pc = "saveMeta" /\ inv[e].pc # "idle"
    BY <1>4 DEF PersistFrozenReads, At
  <2>2. /\ inv[e].memory.targets = inputs[inv[e].run].targets
        /\ inv[e].memory \in Inputs
    BY <2>1, RunFacts, InvFields DEF InvocationOK, Opening
  <2>3. inputs' = [inputs EXCEPT ![inv[e].run] = x]
    BY <1>4 DEF PersistFrozenReads
  <2>4. m \in Inputs /\ m.targets = inv[e].memory.targets
    BY <2>2, InputsFields
  <2> HIDE DEF m
  <2>5. x.targets = durable
    BY <2>4 DEF Inputs
  <2> HIDE DEF x
  <2> QED BY <1>2, <2>1, <2>2, <2>3, <2>4, <2>5
<1>5. ASSUME NEW e \in Invocation, FreezeTargets(e)
      PROVE  inputs'[r].targets = inputs[r].targets
  <2> DEFINE q == inv[e].run
  <2>1. q \in Run /\ inv[e].pc # "idle"
    BY <1>5, RunFacts DEF FreezeTargets, At
  <2>2. inputs' = [inputs EXCEPT ![q].targets =
                     IF inputs[q].targets # None THEN inputs[q].targets ELSE inv[e].targets]
    BY <1>5 DEF FreezeTargets
  <2> HIDE DEF q
  <2> QED BY <2>1, <2>2 DEF TypeOK, Inputs
<1>6. ASSUME NEW e \in Invocation, CompleteRun(e)
      PROVE  inputs'[r].targets = inputs[r].targets
  <2>1. inv[e].pc \notin Opening /\ inv[e].pc # "idle"
    BY <1>6 DEF CompleteRun, Finished, At, Opening
  <2>2. inv[e].memory.targets = inputs[inv[e].run].targets
    BY <2>1, RunFacts DEF InvocationOK
  <2> QED BY <1>2, <1>6, <2>1, <2>2 DEF CompleteRun
<1> QED BY <1>1, <1>3, <1>4, <1>5, <1>6, InputsMoves

\* The output of a stage comes from a model that was shown what its targets say.
LEMMA StageMoves ==
  ASSUME TypeOK, RunInv, [Next]_vars, NEW r \in Run, stage'[r].state = "completed"
  PROVE  \/ stage'[r] = stage[r]
         \/ \E e \in Invocation : /\ inv[e].run = r /\ PartOf(inv[e].targets, inputs[r].targets)
                                  /\ inv[e].targets # None /\ UNCHANGED <<inputs, story, clock>>
                                  /\ stage'[r].seen = inv[e].targets.seen
<1>1. ASSUME NEW e \in Invocation, FinishStage(e)
      PROVE  \/ stage'[r] = stage[r]
             \/ /\ inv[e].run = r /\ PartOf(inv[e].targets, inputs[r].targets)
                /\ inv[e].targets # None /\ UNCHANGED <<inputs, story, clock>> /\ stage'[r].seen = inv[e].targets.seen
  <2>1. inv[e].pc = "model" /\ inv[e].pc # "idle"
    BY <1>1 DEF FinishStage, At
  <2>2. inv[e].run \in Run /\ PartOf(inv[e].targets, inputs[inv[e].run].targets)
    BY <2>1, RunFacts DEF InvocationOK, Settled
  <2>3. PICK output : stage' = [stage EXCEPT ![inv[e].run] =
          [state |-> "completed", by |-> None, seen |-> inv[e].targets.seen, output |-> output]]
    BY <1>1 DEF FinishStage
  <2>4. inv[e].targets # None /\ UNCHANGED <<inputs, story, clock>>
    BY <1>1, <2>1, InvFields, NoTargetsAssumption DEF FinishStage, Fits, Targeted
  <2> QED BY <2>2, <2>3, <2>4 DEF TypeOK
<1>2. ASSUME NEW e \in Invocation, ClaimStage(e) \/ FailStage(e) \/ Crash(e)
      PROVE  stage'[r] = stage[r]
  <2>1. CASE ClaimStage(e) \/ FailStage(e)
    <3>1. PICK st : st.state # "completed" /\ stage' = [stage EXCEPT ![inv[e].run] = st]
      BY <2>1 DEF ClaimStage, FailStage, NoStage
    <3> QED BY <3>1 DEF TypeOK
  <2>2. CASE Crash(e)
    BY <2>2 DEF Crash, NoStage
  <2> QED BY <1>2, <2>1, <2>2
<1>3. ASSUME NEW e \in Invocation, Step(e), ~FinishStage(e), ~ClaimStage(e), ~FailStage(e), ~Crash(e)
      PROVE  UNCHANGED stage
  BY <1>3 DEF Step, CreateRun, SeedInputs, ReadStories, ReadMetadata, PersistFrozenReads, PlanHygiene,
              CancelRedundant, SelectTargets, ClaimTargets, ReleasePartialClaims, FreezeTargets,
              ResolveCreatorOnly, ReuseStage, StageBusy, MarkOmittedRetryable, InsertAssessment,
              ApplyAgain, ApplySuperseded, ApplyChange, ApplyUnchanged, ApplyStale,
              ApplyOwnershipLost, RecordOwnershipLost, RecordStaleAssessment, RequeueStaleTarget,
              CompleteRun, LeaveRun, DatabaseError, runVars
<1> QED BY <1>1, <1>2, <1>3 DEF Next, EnqueueLinkedEvidence, SynthesizeStory, OpenRun, vars, runVars

\* A new assessment is dated by the frozen targets and speaks of what the model was shown;
\* later steps keep both.
LEMMA AssessmentMoves ==
  ASSUME TypeOK, RunInv, [Next]_vars, NEW r \in Run, NEW s \in Story, assessment'[r][s].state # "none"
  PROVE  \/ /\ assessment[r][s].state # "none"
            /\ assessment'[r][s].at = assessment[r][s].at
            /\ assessment'[r][s].seen = assessment[r][s].seen
         \/ /\ stage[r].state = "completed" /\ UNCHANGED <<story, clock>>
            /\ assessment'[r][s].at = inputs[r].targets.at
            /\ assessment'[r][s].seen = stage[r].seen[s]
<1> DEFINE Kept == /\ assessment[r][s].state # "none"
                   /\ assessment'[r][s].at = assessment[r][s].at
                   /\ assessment'[r][s].seen = assessment[r][s].seen
<1>1. UNCHANGED assessment => Kept
  OBVIOUS
<1>2. ASSUME NEW e \in Invocation, InsertAssessment(e), ~UNCHANGED assessment
      PROVE  \/ Kept
             \/ /\ stage[r].state = "completed" /\ UNCHANGED <<story, clock>>
                /\ assessment'[r][s].at = inputs[r].targets.at
                /\ assessment'[r][s].seen = stage[r].seen[s]
  <2> DEFINE o == inv[e].run
  <2>1. inv[e].pc = "assess" /\ inv[e].pc # "idle" /\ UNCHANGED <<story, clock>>
    BY <1>2 DEF InsertAssessment, At
  <2>2. /\ o \in Run /\ stage[o].state = "completed"
        /\ inv[e].targets.at = inputs[o].targets.at
    BY <2>1, RunFacts DEF InvocationOK, Settled, Judged, PartOf
  <2>3. PICK z \in inv[e].todo : assessment' = [assessment EXCEPT ![o][z] =
          [state |-> "open", at |-> inv[e].targets.at, seen |-> stage[o].seen[z],
           rows |-> inv[e].targets.rows[z], verdict |-> stage[o].output[z], stale |-> FALSE]]
    BY <1>2 DEF InsertAssessment
  <2> HIDE DEF o
  <2>4. CASE o = r /\ z = s
    BY <2>1, <2>2, <2>3, <2>4 DEF TypeOK
  <2>5. CASE o # r \/ z # s
    BY <2>3, <2>5 DEF TypeOK
  <2> QED BY <2>4, <2>5
<1>3. ASSUME NEW e \in Invocation, NEW z \in Story, inv[e].run \in Run,
             assessment[inv[e].run][z].state # "none",
             \/ \E v : CompleteReview(inv[e].run, z, v)
             \/ \E b : Neutralise(inv[e].run, z, b) /\ ~Applied(inv[e].run, z)
      PROVE  Kept
  <2>1. PICK a : /\ assessment' = [assessment EXCEPT ![inv[e].run][z] = a] /\ a.state # "none"
                 /\ a.rows = assessment[inv[e].run][z].rows /\ a.at = assessment[inv[e].run][z].at
                 /\ a.seen = assessment[inv[e].run][z].seen
    BY <1>3, ReviewChanges
  <2> QED BY <1>3, <2>1 DEF TypeOK
<1>4. ASSUME NEW e \in Invocation,
             \/ ApplySuperseded(e) \/ ApplyChange(e) \/ ApplyUnchanged(e)
             \/ RecordOwnershipLost(e) \/ RecordStaleAssessment(e)
      PROVE  Kept
  <2>1. inv[e].pc \in Assessing /\ inv[e].pc # "idle"
    BY <1>4 DEF ApplySuperseded, ApplyChange, ApplyUnchanged, RecordOwnershipLost,
                RecordStaleAssessment, At, Assessing
  <2>2. inv[e].run \in Run /\ inv[e].story \in Story /\ assessment[inv[e].run][inv[e].story].state # "none"
    BY <2>1, RunFacts, InvFields, TargetsFields DEF Fits, InvocationOK
  <2>3. \/ \E v : CompleteReview(inv[e].run, inv[e].story, v)
        \/ \E b : Neutralise(inv[e].run, inv[e].story, b)
    BY <1>4 DEF ApplySuperseded, ApplyChange, ApplyUnchanged, RecordOwnershipLost, RecordStaleAssessment
  <2>4. \/ UNCHANGED assessment
        \/ \E v : CompleteReview(inv[e].run, inv[e].story, v)
        \/ \E b : Neutralise(inv[e].run, inv[e].story, b) /\ ~Applied(inv[e].run, inv[e].story)
    BY <2>3 DEF Neutralise
  <2> HIDE DEF Kept
  <2> QED BY <1>1, <1>3, <2>2, <2>4
<1>5. ASSUME NEW e \in Invocation, Step(e), ~UNCHANGED assessment
      PROVE  \/ InsertAssessment(e) \/ ApplySuperseded(e) \/ ApplyChange(e) \/ ApplyUnchanged(e)
             \/ RecordOwnershipLost(e) \/ RecordStaleAssessment(e)
  BY <1>5, OnlyReviews
<1> HIDE DEF Kept
<1>6. UNCHANGED assessment \/ \E e \in Invocation : Step(e)
  BY DEF Next, EnqueueLinkedEvidence, SynthesizeStory, OpenRun, vars
<1>7. Kept \/ (/\ stage[r].state = "completed" /\ UNCHANGED <<story, clock>>
               /\ assessment'[r][s].at = inputs[r].targets.at
               /\ assessment'[r][s].seen = stage[r].seen[s])
  BY <1>1, <1>2, <1>4, <1>5, <1>6
<1> QED BY <1>7 DEF Kept

\* The invocation ends, or keeps what it has read and selected.
KeepsOrEnds(e) ==
  \/ inv' = [inv EXCEPT ![e] = IdleInvocation]
  \/ \E i : /\ inv' = [inv EXCEPT ![e] = i] /\ inv[e].pc \notin Opened
            /\ i.memory = inv[e].memory /\ i.saved = inv[e].saved /\ i.targets = inv[e].targets

\* The steps in which an invocation neither reads nor selects.
LEMMA KeepsReading ==
  ASSUME TypeOK, NEW e \in Invocation, Step(e), ~CreateRun(e), ~SeedInputs(e), ~ReadStories(e),
         ~ReadMetadata(e), ~PersistFrozenReads(e), ~SelectTargets(e), ~ClaimTargets(e),
         ~ReleasePartialClaims(e), ~FreezeTargets(e), ~ResolveCreatorOnly(e)
  PROVE  KeepsOrEnds(e)
<1> DEFINE Same(i) == i.memory = inv[e].memory /\ i.saved = inv[e].saved /\ i.targets = inv[e].targets
<1>1. inv[e] \in Invocations
  BY InvFields
<1>2. ASSUME NEW next, NEW s, NEW todo, inv[e].pc \notin Opened,
             \/ inv' = [inv EXCEPT ![e].pc = next]
             \/ inv' = [inv EXCEPT ![e].plan = todo, ![e].pc = next]
             \/ inv' = [inv EXCEPT ![e].todo = todo, ![e].pc = next]
             \/ inv' = [inv EXCEPT ![e].story = s, ![e].pc = next]
      PROVE  KeepsOrEnds(e)
  <2> DEFINE a == [inv[e] EXCEPT !.pc = next]
             b == [inv[e] EXCEPT !.plan = todo, !.pc = next]
             c == [inv[e] EXCEPT !.todo = todo, !.pc = next]
             d == [inv[e] EXCEPT !.story = s, !.pc = next]
  <2>1. \/ inv' = [inv EXCEPT ![e] = a] \/ inv' = [inv EXCEPT ![e] = b]
        \/ inv' = [inv EXCEPT ![e] = c] \/ inv' = [inv EXCEPT ![e] = d]
    BY <1>2 DEF TypeOK
  <2>2. Same(a) /\ Same(b) /\ Same(c) /\ Same(d)
    BY <1>1 DEF Invocations
  <2> HIDE DEF a, b, c, d
  <2> QED BY <1>2, <2>1, <2>2 DEF KeepsOrEnds
<1>3. CASE PlanHygiene(e) \/ CancelRedundant(e)
  <2>1. inv[e].pc \notin Opened
    BY <1>3 DEF PlanHygiene, CancelRedundant, At, Opened
  <2>2. PICK plan, next : inv' = [inv EXCEPT ![e].plan = plan, ![e].pc = next]
    BY <1>3 DEF PlanHygiene, CancelRedundant
  <2> QED BY <1>2, <2>1, <2>2
<1>4. CASE ReuseStage(e) \/ FinishStage(e)
  <2>1. inv[e].pc \notin Opened
    BY <1>4 DEF ReuseStage, FinishStage, At, Opened
  <2>2. PICK output : UseOutput(e, output)
    BY <1>4 DEF ReuseStage, FinishStage
  <2>3. PICK todo, next : inv' = [inv EXCEPT ![e].todo = todo, ![e].pc = next]
    BY <2>2 DEF UseOutput
  <2> QED BY <1>2, <2>1, <2>3
<1>5. CASE StageBusy(e) \/ FailStage(e) \/ CompleteRun(e) \/ LeaveRun(e) \/ DatabaseError(e) \/ Crash(e)
  BY <1>5 DEF StageBusy, FailStage, CompleteRun, LeaveRun, DatabaseError, Crash, Fail, KeepsOrEnds
<1>6. CASE \/ ClaimStage(e) \/ MarkOmittedRetryable(e) \/ ApplyStale(e) \/ ApplyOwnershipLost(e)
           \/ RecordStaleAssessment(e)
  <2>1. inv[e].pc \notin Opened
    BY <1>6 DEF ClaimStage, MarkOmittedRetryable, ApplyStale, ApplyOwnershipLost,
                RecordStaleAssessment, At, Opened
  <2>2. PICK next : inv' = [inv EXCEPT ![e].pc = next]
    BY <1>6 DEF ClaimStage, MarkOmittedRetryable, ApplyStale, ApplyOwnershipLost, RecordStaleAssessment, Goto
  <2> QED BY <1>2, <2>1, <2>2
<1>7. CASE \/ ApplyAgain(e) \/ ApplySuperseded(e) \/ ApplyChange(e) \/ ApplyUnchanged(e)
           \/ RecordOwnershipLost(e) \/ RequeueStaleTarget(e)
  <2>1. inv[e].pc \notin Opened
    BY <1>7 DEF ApplyAgain, ApplySuperseded, ApplyChange, ApplyUnchanged, RecordOwnershipLost,
                RequeueStaleTarget, At, Opened
  <2>2. inv' = [inv EXCEPT ![e].story = None, ![e].pc = "assess"]
    BY <1>7 DEF ApplyAgain, ApplySuperseded, ApplyChange, ApplyUnchanged, RecordOwnershipLost, RequeueStaleTarget
  <2> QED BY <1>2, <2>1, <2>2
<1>8. CASE InsertAssessment(e)
  <2>1. inv[e].pc \notin Opened
    BY <1>8 DEF InsertAssessment, At, Opened
  <2>2. PICK s \in inv[e].todo :
          \/ inv' = [inv EXCEPT ![e].story = s, ![e].todo = @ \ {s}, ![e].pc = "apply"]
          \/ inv' = [inv EXCEPT ![e].todo = @ \ {s}]
          \/ inv' = [inv EXCEPT ![e] = IdleInvocation]
    BY <1>8 DEF InsertAssessment, Fail
  <2> DEFINE next == [inv[e] EXCEPT !.story = s, !.todo = @ \ {s}, !.pc = "apply"]
             skip == [inv[e] EXCEPT !.todo = @ \ {s}]
  <2>3. \/ inv' = [inv EXCEPT ![e] = next] \/ inv' = [inv EXCEPT ![e] = skip]
        \/ inv' = [inv EXCEPT ![e] = IdleInvocation]
    BY <2>2 DEF TypeOK
  <2>4. Same(next) /\ Same(skip)
    BY <1>1 DEF Invocations
  <2> HIDE DEF next, skip
  <2> QED BY <2>1, <2>3, <2>4 DEF KeepsOrEnds
<1> QED BY <1>3, <1>4, <1>5, <1>6, <1>7, <1>8 DEF Step

\* What is shown of the parts is shown of an invocation.
LEMMA MakeShown ==
  ASSUME NEW i, NEW st, NEW now, InputsShown(i.memory, st, now), InputsShown(i.saved, st, now),
         i.pc \in Opened \/ AllShown(i.memory.asOf, i.memory.seen, st, now),
         TargetsShown(i.targets, st, now)
  PROVE  InvocationShown(i, st, now)
BY DEF InvocationShown

LEMMA EmptyShown ==
  ASSUME NEW b, NEW n \in Nat, NEW st, NEW now \in Nat, n <= now
  PROVE  InputsShown(EmptyInputs(b, n), st, now)
BY DEF EmptyInputs, InputsShown, TargetsShown

LEMMA NothingShown ==
  ASSUME NEW st, NEW now \in Nat
  PROVE  InputsShown(NoInputs, st, now) /\ InvocationShown(IdleInvocation, st, now)
<1>1. InputsShown(NoInputs, st, now)
  BY DEF EmptyInputs, NoInputs, InputsShown, TargetsShown
<1>2. /\ IdleInvocation.memory = NoInputs /\ IdleInvocation.saved = NoInputs
      /\ IdleInvocation.pc \in Opened /\ IdleInvocation.targets = None
  BY DEF IdleInvocation, Opened
<1> HIDE DEF IdleInvocation
<1> QED BY <1>1, <1>2 DEF InvocationShown, TargetsShown

\* Restricted to some Stories, targets were read when they were.
LEMMA RestrictShown ==
  ASSUME NEW t \in Targets, NEW K \in SUBSET (DOMAIN t.rows), NEW st, NEW now, TargetsShown(t, st, now)
  PROVE  TargetsShown([t EXCEPT !.rows = [s \in K |-> t.rows[s]]], st, now)
<1>1. [t EXCEPT !.rows = [s \in K |-> t.rows[s]]] = [at |-> t.at, seen |-> t.seen, rows |-> [s \in K |-> t.rows[s]]]
  BY TargetsFields
<1>2. AllShown(t.at, t.seen, st, now)
  BY NoTargetsAssumption DEF TargetsShown
<1> QED BY <1>1, <1>2 DEF TargetsShown

LEMMA OwnedShown ==
  ASSUME NEW t \in Targets, NEW got, NEW st, NEW now, TargetsShown(t, st, now)
  PROVE  TargetsShown(OwnedTargets(t, got), st, now)
<1> DEFINE K == {s \in DOMAIN t.rows : t.rows[s] \subseteq got}
<1>1. K \in SUBSET (DOMAIN t.rows)
  OBVIOUS
<1> HIDE DEF K
<1>2. TargetsShown([t EXCEPT !.rows = [s \in K |-> t.rows[s]]], st, now)
  BY <1>1, RestrictShown
<1> QED BY <1>2 DEF OwnedTargets, K

\* A step of one invocation leaves the readings of the others shown.
LEMMA SeenOthers ==
  ASSUME TypeOK, SeenInv, [Next]_vars, NEW e \in Invocation, NEW j,
         inv' = [inv EXCEPT ![e] = j], InvocationShown(j, story', clock')
  PROVE  \A f \in Invocation : InvocationShown(inv'[f], story', clock')
<1>1. inv \in [Invocation -> Invocations] /\ VersionsPast
  BY DEF TypeOK, SeenInv
<1>2. ASSUME NEW f \in Invocation \ {e}
      PROVE  InvocationShown(inv'[f], story', clock')
  <2>1. inv[f] \in Invocations /\ inv'[f] = inv[f] /\ InvocationShown(inv[f], story, clock)
    BY <1>1 DEF SeenInv
  <2>2. InvocationShown(inv[f], story', clock')
    BY <1>1, <2>1, ShownStays
  <2> QED BY <2>1, <2>2
<1>3. inv'[e] = j
  BY <1>1
<1> QED BY <1>2, <1>3

\* Targets that were shown may be continued with.
LEMMA SeenProceed ==
  ASSUME TypeOK, SeenInv, [Next]_vars, NEW e \in Invocation, inv[e].pc \notin Opened,
         UNCHANGED <<story, clock>>, NEW t \in Targets, TargetsShown(t, story, clock),
         NEW fresh, Proceed(e, t, fresh)
  PROVE  \A f \in Invocation : InvocationShown(inv'[f], story', clock')
<1>1. PICK next \in {"freeze", "creator", "stage", "finish"} :
        inv' = [inv EXCEPT ![e].targets = t, ![e].memory.targets = IF At(e, "freeze") THEN t ELSE @,
                           ![e].plan = {}, ![e].fresh = fresh, ![e].pc = next]
  BY DEF Proceed
<1> DEFINE m == [inv[e].memory EXCEPT !.targets = IF At(e, "freeze") THEN t ELSE @]
           j == [inv[e] EXCEPT !.targets = t, !.memory = m, !.plan = {}, !.fresh = fresh, !.pc = next]
<1>2. inv[e] \in Invocations /\ inv[e].memory \in Inputs /\ InvocationShown(inv[e], story, clock)
  BY InvFields DEF SeenInv
<1>3. inv' = [inv EXCEPT ![e] = j]
  BY <1>1, <1>2 DEF TypeOK, Invocations
<1>4. /\ m.asOf = inv[e].memory.asOf /\ m.seen = inv[e].memory.seen /\ m.reads = inv[e].memory.reads
      /\ m.targets = t \/ m.targets = inv[e].memory.targets
  BY <1>2 DEF Inputs
<1> HIDE DEF m
<1>5. j.memory = m /\ j.saved = inv[e].saved /\ j.targets = t
  BY <1>2 DEF Invocations
<1> HIDE DEF j
<1>6. /\ InputsShown(inv[e].memory, story, clock) /\ InputsShown(inv[e].saved, story, clock)
      /\ AllShown(inv[e].memory.asOf, inv[e].memory.seen, story, clock)
  BY <1>2 DEF InvocationShown
<1>7. InputsShown(m, story, clock)
  BY <1>4, <1>6 DEF InputsShown
<1>8. AllShown(m.asOf, m.seen, story, clock)
  BY <1>4, <1>6
<1>9. InvocationShown(j, story, clock)
  BY <1>5, <1>6, <1>7, <1>8 DEF InvocationShown
<1>10. InvocationShown(j, story', clock')
  BY <1>9
<1> QED BY <1>3, <1>10, SeenOthers

\* What an invocation continues from has been read, or the reads come next.
LEMMA SeenContinue ==
  ASSUME TypeOK, SeenInv, NEW e \in Invocation, NEW m, InputsShown(m, story, clock), NEW r, NEW w,
         w = Continue(e, m) \/ w = [Continue(e, m) EXCEPT ![e].run = r]
  PROVE  \E j : w = [inv EXCEPT ![e] = j] /\ InvocationShown(j, story, clock)
<1> DEFINE next == IF m.reads THEN "hygiene" ELSE "readStories"
           i == [inv[e] EXCEPT !.memory = m, !.saved = NoInputs, !.pc = next]
           j == [i EXCEPT !.run = r]
<1>1. inv[e] \in Invocations /\ InvocationShown(inv[e], story, clock)
  BY InvFields DEF SeenInv
<1>2. Continue(e, m) = [inv EXCEPT ![e] = i]
  BY DEF Continue, TypeOK
<1>3. [Continue(e, m) EXCEPT ![e].run = r] = [inv EXCEPT ![e] = j]
  <2> HIDE DEF i
  <2> QED BY <1>2 DEF TypeOK
<1> HIDE DEF next
<1>4. /\ i.memory = m /\ i.saved = NoInputs /\ i.targets = inv[e].targets /\ i.pc = next
      /\ j.memory = m /\ j.saved = NoInputs /\ j.targets = inv[e].targets /\ j.pc = next
  BY <1>1 DEF Invocations
<1> HIDE DEF i, j
<1>5. InputsShown(NoInputs, story, clock)
  BY NothingShown DEF TypeOK
<1>6. next \in Opened \/ AllShown(m.asOf, m.seen, story, clock)
  BY DEF next, InputsShown, Opened
<1>7. InvocationShown(i, story, clock) /\ InvocationShown(j, story, clock)
  BY <1>1, <1>4, <1>5, <1>6 DEF InvocationShown
<1> QED BY <1>2, <1>3, <1>7

\* Opening a run, and reading.
LEMMA SeenOpening ==
  ASSUME TypeOK, RunInv, SeenInv, [Next]_vars, NEW e \in Invocation,
         \/ \E r \in Run : OpenRun(e, r)
         \/ CreateRun(e) \/ SeedInputs(e) \/ ReadStories(e) \/ ReadMetadata(e) \/ PersistFrozenReads(e)
  PROVE  \A f \in Invocation : InvocationShown(inv'[f], story', clock')
<1>1. /\ inv[e] \in Invocations /\ inv[e].memory \in Inputs /\ inv[e].saved \in Inputs
      /\ InputsShown(inv[e].memory, story, clock) /\ InputsShown(inv[e].saved, story, clock)
      /\ TargetsShown(inv[e].targets, story, clock)
      /\ clock \in Nat /\ InputsShown(NoInputs, story, clock)
  BY InvFields, NothingShown DEF SeenInv, InvocationShown, TypeOK
<1>2. ASSUME NEW j, inv' = [inv EXCEPT ![e] = j], InvocationShown(j, story, clock), UNCHANGED <<story, clock>>
      PROVE  \A f \in Invocation : InvocationShown(inv'[f], story', clock')
  <2>1. InvocationShown(j, story', clock')
    BY <1>2
  <2> QED BY <1>2, <2>1, SeenOthers
<1>3. ASSUME NEW r \in Run, OpenRun(e, r)
      PROVE  \A f \in Invocation : InvocationShown(inv'[f], story', clock')
  <2>1. InputsShown(inputs[r], story, clock) /\ UNCHANGED <<story, clock>> /\ inv[e].pc = "idle"
    BY <1>3 DEF SeenInv, OpenRun, At
  <2>2. CASE inputs[r].seeded
    <3>1. inv' = [Continue(e, inputs[r]) EXCEPT ![e].run = r]
      BY <1>3, <2>2 DEF OpenRun
    <3>2. PICK j : inv' = [inv EXCEPT ![e] = j] /\ InvocationShown(j, story, clock)
      BY <2>1, <3>1, SeenContinue
    <3> QED BY <1>2, <2>1, <3>2
  <2>3. CASE ~inputs[r].seeded
    <3>1. PICK next \in {"create", "seed"} :
            inv' = [inv EXCEPT ![e].run = r, ![e].saved = inputs[r], ![e].pc = next]
      BY <1>3, <2>3 DEF OpenRun
    <3> DEFINE j == [inv[e] EXCEPT !.run = r, !.saved = inputs[r], !.pc = next]
    <3>2. inv' = [inv EXCEPT ![e] = j]
      BY <3>1 DEF TypeOK
    <3>3. j.memory = inv[e].memory /\ j.saved = inputs[r] /\ j.targets = inv[e].targets /\ j.pc \in Opened
      BY <1>1 DEF Invocations, Opened
    <3> HIDE DEF j
    <3>4. InvocationShown(j, story, clock)
      BY <1>1, <2>1, <3>3, MakeShown
    <3> QED BY <1>2, <2>1, <3>2, <3>4
  <2> QED BY <2>2, <2>3
<1>4. CASE CreateRun(e)
  <2> DEFINE x == EmptyInputs(FALSE, clock + 1)
             j == [inv[e] EXCEPT !.saved = x, !.pc = "seed"]
  <2>1. inv' = [inv EXCEPT ![e] = j] /\ clock' = clock + 1
    BY <1>4 DEF CreateRun, TypeOK
  <2>2. InputsShown(x, story', clock')
    BY <1>1, <2>1 DEF EmptyInputs, InputsShown, TargetsShown
  <2> HIDE DEF x
  <2>3. j.memory = inv[e].memory /\ j.saved = x /\ j.targets = inv[e].targets /\ j.pc \in Opened
    BY <1>1 DEF Invocations, Opened
  <2> HIDE DEF j
  <2>4. InputsShown(inv[e].memory, story', clock') /\ TargetsShown(inv[e].targets, story', clock')
    BY <1>1, ShownStays, InvFields DEF SeenInv
  <2>5. InvocationShown(j, story', clock')
    BY <2>2, <2>3, <2>4 DEF InvocationShown
  <2> QED BY <2>1, <2>5, SeenOthers
<1>5. CASE SeedInputs(e)
  <2>1. InputsShown(EmptyInputs(TRUE, inv[e].saved.asOf), story, clock)
    BY <1>1, EmptyShown, InputsFields DEF InputsShown
  <2>2. UNCHANGED <<story, clock>> /\ inv' = Continue(e, EmptyInputs(TRUE, inv[e].saved.asOf))
    BY <1>5 DEF SeedInputs
  <2> QED BY <1>2, <2>1, <2>2, SeenContinue
<1>6. CASE ReadStories(e)
  <2> DEFINE v == [s \in Story |-> story[s].versionAt]
             m == [inv[e].memory EXCEPT !.seen = v]
             j == [inv[e] EXCEPT !.memory = m, !.pc = "readMeta"]
  <2>1. inv' = [inv EXCEPT ![e] = j] /\ UNCHANGED <<story, clock>>
    BY <1>1, <1>6 DEF ReadStories, TypeOK
  <2>2. m.asOf = inv[e].memory.asOf /\ m.seen = v /\ m.reads = inv[e].memory.reads
        /\ m.targets = inv[e].memory.targets
    BY <1>1 DEF Inputs
  <2>3. inv[e].memory.asOf <= clock
    BY <1>1 DEF InputsShown
  <2>4. AllShown(m.asOf, v, story, clock)
    BY <2>2, <2>3 DEF AllShown, Shown
  <2> HIDE DEF m, v
  <2>5. j.memory = m /\ j.saved = inv[e].saved /\ j.targets = inv[e].targets
    BY <1>1 DEF Invocations
  <2> HIDE DEF j
  <2>6. InputsShown(m, story, clock)
    BY <1>1, <2>2, <2>4 DEF InputsShown
  <2>7. InvocationShown(j, story, clock)
    BY <1>1, <2>2, <2>4, <2>5, <2>6 DEF InvocationShown
  <2> QED BY <1>2, <2>1, <2>7
<1>7. CASE ReadMetadata(e)
  <2> DEFINE j == [inv[e] EXCEPT !.saved = inputs[inv[e].run], !.pc = "saveMeta"]
  <2>1. inv[e].pc = "readMeta" /\ inv[e].pc # "idle"
    BY <1>7 DEF ReadMetadata, At
  <2>2. InputsShown(inputs[inv[e].run], story, clock)
    BY <2>1, RunFacts DEF SeenInv
  <2>3. AllShown(inv[e].memory.asOf, inv[e].memory.seen, story, clock)
    BY <2>1 DEF SeenInv, InvocationShown, Opened
  <2>4. inv' = [inv EXCEPT ![e] = j] /\ UNCHANGED <<story, clock>>
    BY <1>7 DEF ReadMetadata, TypeOK
  <2>5. j.memory = inv[e].memory /\ j.saved = inputs[inv[e].run] /\ j.targets = inv[e].targets
    BY <1>1 DEF Invocations
  <2> HIDE DEF j
  <2>6. InvocationShown(j, story, clock)
    BY <1>1, <2>2, <2>3, <2>5 DEF InvocationShown
  <2> QED BY <1>2, <2>4, <2>6
<1>8. CASE PersistFrozenReads(e)
  <2> DEFINE m == [inv[e].memory EXCEPT !.reads = TRUE]
             j == [inv[e] EXCEPT !.memory = m, !.saved = NoInputs, !.pc = "hygiene"]
  <2>1. AllShown(inv[e].memory.asOf, inv[e].memory.seen, story, clock)
    BY <1>8 DEF PersistFrozenReads, At, SeenInv, InvocationShown, Opened
  <2>2. inv' = [inv EXCEPT ![e] = j] /\ UNCHANGED <<story, clock>>
    BY <1>8 DEF PersistFrozenReads, TypeOK
  <2>3. m.asOf = inv[e].memory.asOf /\ m.seen = inv[e].memory.seen /\ m.targets = inv[e].memory.targets
    BY <1>1 DEF Inputs
  <2> HIDE DEF m
  <2>4. j.memory = m /\ j.saved = NoInputs /\ j.targets = inv[e].targets
    BY <1>1 DEF Invocations
  <2> HIDE DEF j
  <2>5. InputsShown(m, story, clock)
    BY <1>1, <2>1, <2>3 DEF InputsShown
  <2>6. InvocationShown(j, story, clock)
    BY <1>1, <2>1, <2>3, <2>4, <2>5 DEF InvocationShown
  <2> QED BY <1>2, <2>2, <2>6
<1> QED BY <1>3, <1>4, <1>5, <1>6, <1>7, <1>8

\* Selecting, claiming and freezing.
LEMMA SeenSelecting ==
  ASSUME TypeOK, RunInv, SeenInv, [Next]_vars, NEW e \in Invocation,
         \/ SelectTargets(e) \/ ClaimTargets(e) \/ ReleasePartialClaims(e) \/ FreezeTargets(e)
         \/ ResolveCreatorOnly(e)
  PROVE  \A f \in Invocation : InvocationShown(inv'[f], story', clock')
<1>1. /\ inv[e] \in Invocations /\ inv[e].memory \in Inputs
      /\ inv[e].pc \notin Opened /\ inv[e].pc # "idle"
      /\ InvocationShown(inv[e], story, clock) /\ UNCHANGED <<story, clock>>
  BY InvFields DEF SelectTargets, ClaimTargets, ReleasePartialClaims, FreezeTargets, ResolveCreatorOnly,
                   At, Opened, SeenInv
<1>2. /\ InputsShown(inv[e].memory, story, clock) /\ InputsShown(inv[e].saved, story, clock)
      /\ AllShown(inv[e].memory.asOf, inv[e].memory.seen, story, clock)
      /\ TargetsShown(inv[e].targets, story, clock)
  BY <1>1 DEF InvocationShown
<1>3. ASSUME NEW t, TargetsShown(t, story, clock),
             \/ \E plan : inv' = [inv EXCEPT ![e].plan = plan, ![e].pc = "release"]
                          /\ t = inv[e].targets
             \/ \E fresh : inv' = [inv EXCEPT ![e].targets = t, ![e].fresh = fresh, ![e].pc = "claim"]
      PROVE  \A f \in Invocation : InvocationShown(inv'[f], story', clock')
  <2>1. PICK j : /\ inv' = [inv EXCEPT ![e] = j]
                 /\ j.memory = inv[e].memory /\ j.saved = inv[e].saved /\ j.targets = t
    <3>1. CASE \E plan : inv' = [inv EXCEPT ![e].plan = plan, ![e].pc = "release"] /\ t = inv[e].targets
      <4>1. PICK plan : inv' = [inv EXCEPT ![e].plan = plan, ![e].pc = "release"]
        BY <3>1
      <4> DEFINE a == [inv[e] EXCEPT !.plan = plan, !.pc = "release"]
      <4>2. inv' = [inv EXCEPT ![e] = a]
        BY <4>1 DEF TypeOK
      <4>3. a.memory = inv[e].memory /\ a.saved = inv[e].saved /\ a.targets = inv[e].targets
        BY <1>1 DEF Invocations
      <4> HIDE DEF a
      <4> QED BY <3>1, <4>2, <4>3
    <3>2. CASE \E fresh : inv' = [inv EXCEPT ![e].targets = t, ![e].fresh = fresh, ![e].pc = "claim"]
      <4>1. PICK fresh : inv' = [inv EXCEPT ![e].targets = t, ![e].fresh = fresh, ![e].pc = "claim"]
        BY <3>2
      <4> DEFINE b == [inv[e] EXCEPT !.targets = t, !.fresh = fresh, !.pc = "claim"]
      <4>2. inv' = [inv EXCEPT ![e] = b]
        BY <4>1 DEF TypeOK
      <4>3. b.memory = inv[e].memory /\ b.saved = inv[e].saved /\ b.targets = t
        BY <1>1 DEF Invocations
      <4> HIDE DEF b
      <4> QED BY <4>2, <4>3
    <3> QED BY <1>3, <3>1, <3>2
  <2>2. InvocationShown(j, story, clock)
    BY <1>2, <1>3, <2>1 DEF InvocationShown
  <2>3. InvocationShown(j, story', clock')
    BY <1>1, <2>2
  <2> QED BY <2>1, <2>3, SeenOthers
<1>4. CASE SelectTargets(e)
  <2>1. PICK f \in Selections :
          LET fresh == inv[e].memory.targets = None
              t == IF fresh THEN [at |-> inv[e].memory.asOf, seen |-> inv[e].memory.seen, rows |-> f]
                   ELSE inv[e].memory.targets
          IN IF RowsOf(t) = {} THEN Proceed(e, t, fresh)
             ELSE inv' = [inv EXCEPT ![e].targets = t, ![e].fresh = fresh, ![e].pc = "claim"]
    BY <1>4 DEF SelectTargets, SelectedAt
  <2> DEFINE new == [at |-> inv[e].memory.asOf, seen |-> inv[e].memory.seen, rows |-> f]
             fresh == inv[e].memory.targets = None
             t == IF fresh THEN new ELSE inv[e].memory.targets
  <2>2. new \in Targets
    <3>1. PICK S \in SUBSET Story : /\ f \in [S -> SUBSET Row]
                                    /\ \A s \in S : f[s] \subseteq Available(s)
      BY <2>1 DEF Selections
    <3>2. \A s \in S : \A q \in f[s] : StoryOf[q] = s
      BY <3>1 DEF Available
    <3> QED BY <3>1, <3>2, <1>1, InputsFields, MakeTargets
  <2>3. TargetsShown(new, story, clock)
    BY <1>2 DEF TargetsShown
  <2>4. \/ Proceed(e, t, fresh)
        \/ inv' = [inv EXCEPT ![e].targets = t, ![e].fresh = fresh, ![e].pc = "claim"]
    BY <2>1
  <2> HIDE DEF new
  <2>5. t \in Targets /\ TargetsShown(t, story, clock)
    <3>1. TargetsShown(inv[e].memory.targets, story, clock) /\ inv[e].memory.targets \in Targets \cup {None}
      BY <1>1, <1>2, InputsFields DEF InputsShown
    <3> QED BY <2>2, <2>3, <3>1
  <2> HIDE DEF t, fresh
  <2>6. CASE Proceed(e, t, fresh)
    BY <1>1, <2>5, <2>6, SeenProceed
  <2>7. CASE inv' = [inv EXCEPT ![e].targets = t, ![e].fresh = fresh, ![e].pc = "claim"]
    BY <1>3, <2>5, <2>7
  <2> QED BY <2>4, <2>6, <2>7
<1>5. CASE ClaimTargets(e)
  <2>1. inv[e].targets \in Targets
    BY <1>5, InvFields DEF ClaimTargets, At, Fits, Targeted
  <2>2. PICK old \in SUBSET Expirable : \E got \in SUBSET Claimable(e, Recovered(old)) :
          \/ Proceed(e, OwnedTargets(inv[e].targets, got), inv[e].fresh)
          \/ inv' = [inv EXCEPT ![e].plan = got, ![e].pc = "release"]
          \/ Fail(e)
    BY <1>5 DEF ClaimTargets
  <2>3. PICK got \in SUBSET Claimable(e, Recovered(old)) :
          \/ Proceed(e, OwnedTargets(inv[e].targets, got), inv[e].fresh)
          \/ inv' = [inv EXCEPT ![e].plan = got, ![e].pc = "release"]
          \/ Fail(e)
    BY <2>2
  <2>4. CASE Fail(e)
    <3>1. inv' = [inv EXCEPT ![e] = IdleInvocation]
      BY <2>4 DEF Fail
    <3>2. InvocationShown(IdleInvocation, story', clock')
      BY NothingShown, VersionsGrow DEF SeenInv
    <3> QED BY <3>1, <3>2, SeenOthers
  <2>5. CASE inv' = [inv EXCEPT ![e].plan = got, ![e].pc = "release"]
    BY <1>2, <1>3, <2>5
  <2>6. CASE Proceed(e, OwnedTargets(inv[e].targets, got), inv[e].fresh)
    <3>1. got \in SUBSET Row
      BY <2>1, <2>3, TargetsFields DEF Claimable, RowsOf
    <3>2. OwnedTargets(inv[e].targets, got) \in Targets
      BY <2>1, <3>1, OwnedTargetsType
    <3>3. TargetsShown(OwnedTargets(inv[e].targets, got), story, clock)
      BY <1>2, <2>1, OwnedShown
    <3> QED BY <1>1, <2>6, <3>2, <3>3, SeenProceed
  <2> QED BY <2>3, <2>4, <2>5, <2>6
<1>6. CASE ReleasePartialClaims(e)
  <2> DEFINE kept == OwnedTargets(inv[e].targets, inv[e].plan)
  <2>1. inv[e].targets \in Targets /\ inv[e].plan \in SUBSET Row
    BY <1>6, InvFields DEF ReleasePartialClaims, At, Fits, Targeted
  <2>2. kept \in Targets /\ TargetsShown(kept, story, clock)
    BY <1>2, <2>1, OwnedTargetsType, OwnedShown
  <2>3. Proceed(e, kept, inv[e].fresh)
    BY <1>6 DEF ReleasePartialClaims
  <2> HIDE DEF kept
  <2> QED BY <1>1, <2>2, <2>3, SeenProceed
<1>7. CASE FreezeTargets(e)
  <2> DEFINE r == inv[e].run
             frozen == IF inputs[r].targets # None THEN inputs[r].targets ELSE inv[e].targets
  <2>1. r \in Run /\ inv[e].targets \in Targets
    BY <1>7, InvFields DEF FreezeTargets, At, Fits, Targeted
  <2>2. inputs[r].targets \in Targets \cup {None} /\ TargetsShown(inputs[r].targets, story, clock)
    BY <2>1, InputsFields DEF TypeOK, SeenInv, InputsShown
  <2>3. frozen \in Targets /\ TargetsShown(frozen, story, clock)
    BY <1>2, <2>1, <2>2
  <2>4. Proceed(e, frozen, FALSE)
    BY <1>7 DEF FreezeTargets
  <2> HIDE DEF frozen
  <2> QED BY <1>1, <2>3, <2>4, SeenProceed
<1>8. CASE ResolveCreatorOnly(e)
  <2> DEFINE left == DOMAIN inv[e].targets.rows \ CreatorOnlyNonMaterial(inv[e].targets)
             t == [inv[e].targets EXCEPT !.rows = [s \in left |-> inv[e].targets.rows[s]]]
  <2>1. inv[e].targets \in Targets /\ left \in SUBSET (DOMAIN inv[e].targets.rows)
    BY <1>8, InvFields DEF ResolveCreatorOnly, At, Fits, Targeted
  <2>2. Proceed(e, t, FALSE)
    BY <1>8 DEF ResolveCreatorOnly
  <2> HIDE DEF left
  <2>3. t \in Targets /\ TargetsShown(t, story, clock)
    BY <1>2, <2>1, RestrictTargets, RestrictShown
  <2> HIDE DEF t
  <2> QED BY <1>1, <2>2, <2>3, SeenProceed
<1> QED BY <1>4, <1>5, <1>6, <1>7, <1>8

LEMMA SeenInvocations ==
  ASSUME TypeOK, RunInv, SeenInv, [Next]_vars
  PROVE  \A f \in Invocation : InvocationShown(inv'[f], story', clock')
<1>1. CASE UNCHANGED inv
  BY <1>1, ShownStays, InvFields DEF SeenInv
<1>2. ASSUME NEW e \in Invocation, KeepsOrEnds(e)
      PROVE  \A f \in Invocation : InvocationShown(inv'[f], story', clock')
  <2>1. CASE inv' = [inv EXCEPT ![e] = IdleInvocation]
    <3>1. InvocationShown(IdleInvocation, story', clock')
      BY NothingShown, VersionsGrow DEF SeenInv
    <3> QED BY <2>1, <3>1, SeenOthers
  <2>2. ASSUME NEW i, inv' = [inv EXCEPT ![e] = i], inv[e].pc \notin Opened,
               i.memory = inv[e].memory, i.saved = inv[e].saved, i.targets = inv[e].targets
        PROVE  \A f \in Invocation : InvocationShown(inv'[f], story', clock')
    <3>1. InvocationShown(inv[e], story', clock')
      BY ShownStays, InvFields DEF SeenInv
    <3>2. InvocationShown(i, story', clock')
      BY <2>2, <3>1 DEF InvocationShown
    <3> QED BY <2>2, <3>2, SeenOthers
  <2> QED BY <1>2, <2>1, <2>2 DEF KeepsOrEnds
<1>3. ASSUME NEW e \in Invocation, Step(e)
      PROVE  \A f \in Invocation : InvocationShown(inv'[f], story', clock')
  <2>1. CASE \/ CreateRun(e) \/ SeedInputs(e) \/ ReadStories(e) \/ ReadMetadata(e) \/ PersistFrozenReads(e)
    BY <2>1, SeenOpening
  <2>2. CASE \/ SelectTargets(e) \/ ClaimTargets(e) \/ ReleasePartialClaims(e) \/ FreezeTargets(e)
             \/ ResolveCreatorOnly(e)
    BY <2>2, SeenSelecting
  <2> QED BY <1>2, <1>3, <2>1, <2>2, KeepsReading
<1>4. ASSUME NEW e \in Invocation, NEW r \in Run, OpenRun(e, r)
      PROVE  \A f \in Invocation : InvocationShown(inv'[f], story', clock')
  BY <1>4, SeenOpening
<1> QED BY <1>1, <1>3, <1>4 DEF Next, EnqueueLinkedEvidence, SynthesizeStory, vars

\* Frozen inputs hold what was read.
LEMMA SeenInputs ==
  ASSUME TypeOK, RunInv, SeenInv, [Next]_vars
  PROVE  \A r \in Run : InputsShown(inputs'[r], story', clock')
<1>1. ASSUME NEW r \in Run
      PROVE  InputsShown(inputs[r], story', clock')
  BY ShownStays DEF SeenInv, TypeOK
<1>2. ASSUME NEW e \in Invocation, inv[e].pc # "idle", NEW x, InputsShown(x, story', clock'),
             inputs' = [inputs EXCEPT ![inv[e].run] = x]
      PROVE  \A r \in Run : InputsShown(inputs'[r], story', clock')
  BY <1>1, <1>2, RunFacts DEF TypeOK
<1>3. CASE UNCHANGED inputs
  BY <1>1, <1>3
<1>4. ASSUME NEW e \in Invocation, CreateRun(e)
      PROVE  \A r \in Run : InputsShown(inputs'[r], story', clock')
  <2>1. inv[e].pc # "idle" /\ inputs' = [inputs EXCEPT ![inv[e].run] = EmptyInputs(FALSE, clock + 1)]
    BY <1>4 DEF CreateRun, At
  <2>2. InputsShown(EmptyInputs(FALSE, clock + 1), story', clock')
    BY <1>4 DEF CreateRun, TypeOK, EmptyInputs, InputsShown, TargetsShown
  <2> QED BY <1>2, <2>1, <2>2
<1>5. ASSUME NEW e \in Invocation,
             SeedInputs(e) \/ PersistFrozenReads(e) \/ FreezeTargets(e) \/ CompleteRun(e)
      PROVE  \A r \in Run : InputsShown(inputs'[r], story', clock')
  <2>1. /\ inv[e].pc # "idle" /\ inv[e].run \in Run /\ UNCHANGED <<story, clock>>
        /\ inv[e].memory \in Inputs /\ inputs[inv[e].run] \in Inputs
        /\ InvocationShown(inv[e], story, clock) /\ InputsShown(inputs[inv[e].run], story, clock)
    BY <1>5, InvFields, RunFacts DEF SeedInputs, PersistFrozenReads, FreezeTargets, CompleteRun, Finished,
                                     At, SeenInv, TypeOK
  <2>2. /\ InputsShown(inv[e].memory, story, clock) /\ InputsShown(inv[e].saved, story, clock)
        /\ TargetsShown(inv[e].targets, story, clock)
        /\ inv[e].pc \notin Opened => AllShown(inv[e].memory.asOf, inv[e].memory.seen, story, clock)
    BY <2>1 DEF InvocationShown
  <2>3. PICK x : inputs' = [inputs EXCEPT ![inv[e].run] = x] /\ InputsShown(x, story, clock)
    <3>1. CASE SeedInputs(e)
      <4>1. InputsShown(EmptyInputs(TRUE, inv[e].saved.asOf), story, clock)
        BY <2>2 DEF EmptyInputs, InputsShown, TargetsShown
      <4> QED BY <3>1, <4>1 DEF SeedInputs
    <3>2. CASE PersistFrozenReads(e)
      <4> DEFINE m == [inv[e].memory EXCEPT !.reads = TRUE]
                 durable == IF m.targets # None THEN m.targets ELSE inv[e].saved.targets
                 x == [m EXCEPT !.targets = durable]
      <4>1. inputs' = [inputs EXCEPT ![inv[e].run] = x]
        BY <3>2 DEF PersistFrozenReads
      <4>2. /\ m \in Inputs /\ m.asOf = inv[e].memory.asOf /\ m.seen = inv[e].memory.seen
            /\ m.targets = inv[e].memory.targets
        BY <2>1, InputsFields DEF Inputs
      <4> HIDE DEF m
      <4>3. TargetsShown(durable, story, clock)
        BY <2>2, <4>2 DEF InputsShown
      <4> HIDE DEF durable
      <4>4. x.asOf = m.asOf /\ x.seen = m.seen /\ x.targets = durable
        BY <4>2 DEF Inputs
      <4> HIDE DEF x
      <4>5. AllShown(inv[e].memory.asOf, inv[e].memory.seen, story, clock)
        BY <2>2, <3>2 DEF PersistFrozenReads, At, Opened
      <4>6. InputsShown(x, story, clock)
        BY <2>2, <4>2, <4>3, <4>4, <4>5 DEF InputsShown
      <4> QED BY <4>1, <4>6
    <3>3. CASE FreezeTargets(e)
      <4> DEFINE frozen == IF inputs[inv[e].run].targets # None THEN inputs[inv[e].run].targets
                           ELSE inv[e].targets
                 x == [inputs[inv[e].run] EXCEPT !.targets = frozen]
      <4>1. inputs' = [inputs EXCEPT ![inv[e].run] = x]
        BY <2>1, <3>3 DEF FreezeTargets, TypeOK
      <4>2. TargetsShown(frozen, story, clock)
        BY <2>1, <2>2 DEF InputsShown
      <4> HIDE DEF frozen
      <4>3. /\ x.asOf = inputs[inv[e].run].asOf /\ x.seen = inputs[inv[e].run].seen
            /\ x.reads = inputs[inv[e].run].reads /\ x.targets = frozen
        BY <2>1 DEF Inputs
      <4> HIDE DEF x
      <4>4. InputsShown(x, story, clock)
        BY <2>1, <4>2, <4>3 DEF InputsShown
      <4> QED BY <4>1, <4>4
    <3>4. CASE CompleteRun(e)
      BY <2>2, <3>4 DEF CompleteRun
    <3> QED BY <1>5, <3>1, <3>2, <3>3, <3>4
  <2>4. InputsShown(x, story', clock')
    BY <2>1, <2>3
  <2> QED BY <1>2, <2>1, <2>3, <2>4
<1> QED BY <1>3, <1>4, <1>5, InputsMoves

LEMMA SeenNext ==
  ASSUME TypeOK, RunInv, SeenInv, [Next]_vars
  PROVE  SeenInv'
<1>1. VersionsPast'
  BY VersionsGrow DEF SeenInv
<1>2. ASSUME NEW r \in Run, stage'[r].state = "completed"
      PROVE  /\ inputs'[r].targets # None
             /\ AllShown(inputs'[r].targets.at, stage'[r].seen, story', clock')
  <2>1. CASE stage'[r] = stage[r]
    <3>1. /\ inputs[r].targets # None
          /\ AllShown(inputs[r].targets.at, stage[r].seen, story, clock)
      BY <1>2, <2>1 DEF SeenInv
    <3>2. inputs'[r].targets = inputs[r].targets
      BY <3>1, FrozenStays
    <3>3. inputs[r].targets.at \in Nat
      BY <3>1, InputsFields, TargetsFields DEF TypeOK
    <3>4. AllShown(inputs[r].targets.at, stage[r].seen, story', clock')
      BY <3>1, <3>3, ShownStays DEF SeenInv
    <3> QED BY <2>1, <3>1, <3>2, <3>4
  <2>2. CASE stage'[r] # stage[r]
    <3>1. PICK e \in Invocation : /\ PartOf(inv[e].targets, inputs[r].targets)
                                  /\ inv[e].targets # None /\ UNCHANGED <<inputs, story, clock>>
                                  /\ stage'[r].seen = inv[e].targets.seen
      BY <1>2, <2>2, StageMoves
    <3>2. /\ inputs[r].targets # None /\ inv[e].targets.at = inputs[r].targets.at
      BY <3>1 DEF PartOf
    <3>3. TargetsShown(inv[e].targets, story, clock)
      BY DEF SeenInv, InvocationShown
    <3>4. inv[e].targets # None => AllShown(inv[e].targets.at, inv[e].targets.seen, story, clock)
      BY <3>3 DEF TargetsShown
    <3> QED BY <3>1, <3>2, <3>4
  <2> QED BY <2>1, <2>2
<1>3. ASSUME NEW r \in Run, NEW s \in Story, assessment'[r][s].state # "none"
      PROVE  Shown(assessment'[r][s].at, assessment'[r][s].seen, story'[s].versionAt, clock')
  <2>1. CASE /\ assessment[r][s].state # "none"
             /\ assessment'[r][s].at = assessment[r][s].at
             /\ assessment'[r][s].seen = assessment[r][s].seen
    <3>1. assessment[r][s].at \in Nat
      BY DEF TypeOK, Assessment
    <3>2. Shown(assessment[r][s].at, assessment[r][s].seen, story[s].versionAt, clock)
      BY <2>1 DEF SeenInv
    <3> QED BY <2>1, <3>1, <3>2, ShownStays DEF SeenInv
  <2>2. CASE /\ stage[r].state = "completed" /\ UNCHANGED <<story, clock>>
             /\ assessment'[r][s].at = inputs[r].targets.at
             /\ assessment'[r][s].seen = stage[r].seen[s]
    <3>1. AllShown(inputs[r].targets.at, stage[r].seen, story, clock)
      BY <2>2 DEF SeenInv
    <3> QED BY <2>2, <3>1 DEF AllShown
  <2> QED BY <1>3, <2>1, <2>2, AssessmentMoves
<1> QED BY <1>1, <1>2, <1>3, SeenInputs, SeenInvocations DEF SeenInv

LEMMA SeenInit == Init => SeenInv
<1> SUFFICES ASSUME Init PROVE SeenInv
  OBVIOUS
<1>1. clock = 0 /\ \A s \in Story : story[s].versionAt = 0
  BY DEF Init
<1>2. \A r \in Run : InputsShown(inputs[r], story, clock)
  BY <1>1, NothingShown DEF Init
<1>3. \A e \in Invocation : InvocationShown(inv[e], story, clock)
  BY <1>1, NothingShown DEF Init
<1>4. /\ \A r \in Run : stage[r].state = "none"
      /\ \A r \in Run, s \in Story : assessment[r][s].state = "none"
  BY DEF Init, NoStage, NoAssessment
<1> QED BY <1>1, <1>2, <1>3, <1>4 DEF SeenInv, VersionsPast

\* Whatever a review changes has the version that the model was shown.
LEMMA SeenStep ==
  ASSUME TypeOK, RunInv, SeenInv, [Next]_vars, NEW s \in Story,
         story'[s] # story[s], story'[s].via = "maintenance"
  PROVE  story[s].versionAt = assessment[story'[s].by][s].seen
<1>1. story \in [Story -> [versionAt : Nat, by : Run \cup {None}, via : {"synthesis", "maintenance", "catalyst"}]]
  BY DEF TypeOK
<1>2. PICK e \in Invocation : ApplyChange(e)
  <2>1. ASSUME NEW z \in Story, NEW how \in {"synthesis", "catalyst"}, NEW r, NewVersion(z, r, how)
        PROVE  FALSE
    <3>1. story'[z].via = how /\ \A x \in Story \ {z} : story'[x] = story[x]
      BY <1>1, <2>1 DEF NewVersion
    <3> QED BY <3>1
  <2> QED BY <2>1, StoryMoves
<1> DEFINE r == inv[e].run
           z == inv[e].story
<1>3. inv[e].pc = "apply" /\ inv[e].pc # "idle"
  BY <1>2 DEF ApplyChange, At
<1>4. r \in Run /\ z \in Story /\ assessment[r][z].state # "none"
  BY <1>3, RunFacts, InvFields, TargetsFields DEF InvocationOK, Targeted, Assessing, Fits
<1>5. /\ ~StaleVersion(r, z) /\ NewVersion(z, r, "maintenance")
  BY <1>2 DEF ApplyChange
<1> HIDE DEF r, z
<1>6. s = z /\ story'[s].by = r
  BY <1>1, <1>4, <1>5 DEF NewVersion
<1>7. Shown(assessment[r][s].at, assessment[r][s].seen, story[s].versionAt, clock)
  BY <1>4, <1>6 DEF SeenInv
<1>8. assessment[r][s].at \in Nat /\ story[s].versionAt \in Nat
  BY <1>1, <1>4 DEF TypeOK, Assessment
<1> QED BY <1>5, <1>6, <1>7, <1>8 DEF StaleVersion, Shown

\* Maintenance changes a Story only in the version that the model was shown, if a run
\* never has two live invocations: the reading of the Stories, the freezing of the
\* targets, the model's judgement and the writing of the Story may be done by different
\* invocations, in between which anything may crash, be resumed or be synthesized anew.
THEOREM SeenIsChanged ==
  ASSUME SerialRuns
  PROVE  Spec => ChangesWhatWasSeen
<1>1. Init => RunInv /\ SeenInv
  BY RunInit, SeenInit
<1>2. TypeOK /\ RunInv /\ SeenInv /\ [Next]_vars => RunInv' /\ SeenInv'
  BY RunNext, SeenNext
<1>3. TypeOK /\ RunInv /\ SeenInv /\ [Next]_vars =>
        [\A s \in Story : (story'[s] # story[s] /\ story'[s].via = "maintenance") =>
           story[s].versionAt = assessment[story'[s].by][s].seen]_vars
  BY SeenStep
<1>4. Spec => []TypeOK
  BY TypeCorrect
<1> QED BY <1>1, <1>2, <1>3, <1>4, PTL DEF Spec, ChangesWhatWasSeen

-----------------------------------------------------------------------------
(* A request is used up by one review. *)

\* The rows of an applied assessment are done, and in the hands of its run.
AppliedDone ==
  \A r \in Run, s \in Story : Applied(r, s) =>
    \A q \in assessment[r][s].rows : status[q] = "completed" /\ owner[q] = r

\* An assessment lists requests about its own Story only.
LEMMA AssessedRows ==
  ASSUME TypeOK, RunInv, NEW r \in Run, NEW s \in Story, assessment[r][s].state # "none"
  PROVE  /\ \A q \in assessment[r][s].rows : q \in Row /\ StoryOf[q] = s
         /\ HasContract(r, s) /\ stage[r].output[s] # "omitted"
<1>1. RunOK(inputs[r], assessment[r], stage[r])
  BY DEF RunInv
<1>2. /\ inputs[r].targets # None /\ s \in DOMAIN inputs[r].targets.rows
      /\ assessment[r][s].rows = inputs[r].targets.rows[s] /\ stage[r].output[s] # "omitted"
  BY <1>1 DEF RunOK
<1>3. inputs[r].targets \in Targets
  BY <1>2, InputsFields DEF TypeOK
<1> QED BY <1>2, <1>3, TargetsFields DEF HasContract

\* A completed request is touched again by nothing but the put-back of the targets
\* that the model omitted, which filters by the owner alone.
LEMMA CompletedStays ==
  ASSUME TypeOK, [Next]_vars, NEW q \in Row, status[q] = "completed"
  PROVE  \/ status'[q] = "completed" /\ owner'[q] = owner[q]
         \/ \E e \in Invocation :
              /\ MarkOmittedRetryable(e) /\ owner[q] = inv[e].run
              /\ \E s \in OmittedTargets(e, stage[inv[e].run].output) : q \in inv[e].targets.rows[s]
<1>1. ASSUME NEW e \in Invocation, ClaimTargets(e)
      PROVE  status'[q] = "completed" /\ owner'[q] = owner[q]
  <2>1. PICK old \in SUBSET Expirable : \E got \in SUBSET Claimable(e, Recovered(old)) :
          \/ /\ status' = [p \in Row |-> IF p \in got THEN "processing" ELSE Recovered(old)[p]]
             /\ owner' = [p \in Row |-> IF p \in got THEN inv[e].run
                                        ELSE IF p \in Abandoned(old) THEN None ELSE owner[p]]
          \/ UNCHANGED queueVars
    BY <1>1 DEF ClaimTargets
  <2>2. q \notin Abandoned(old)
    BY DEF Abandoned, Expirable
  <2>3. Recovered(old)[q] = "completed"
    BY <2>2 DEF Recovered
  <2>4. \A got \in SUBSET Claimable(e, Recovered(old)) : q \notin got
    BY <2>3 DEF Claimable, Waiting
  <2> QED BY <2>1, <2>2, <2>3, <2>4 DEF queueVars
<1>2. ASSUME NEW e \in Invocation, CancelRedundant(e) \/ ReleasePartialClaims(e) \/ RequeueStaleTarget(e)
      PROVE  status'[q] = "completed" /\ owner'[q] = owner[q]
  BY <1>2 DEF CancelRedundant, ReleasePartialClaims, RequeueStaleTarget, Waiting
<1>3. ASSUME NEW e \in Invocation,
             \/ ResolveCreatorOnly(e) \/ ApplySuperseded(e) \/ ApplyChange(e) \/ ApplyUnchanged(e)
      PROVE  status'[q] = "completed" /\ owner'[q] = owner[q]
  BY <1>3 DEF ResolveCreatorOnly, ApplySuperseded, ApplyChange, ApplyUnchanged, CompleteReview
<1>4. ASSUME NEW e \in Invocation, MarkOmittedRetryable(e), ~(status'[q] = "completed" /\ owner'[q] = owner[q])
      PROVE  /\ owner[q] = inv[e].run
             /\ \E s \in OmittedTargets(e, stage[inv[e].run].output) : q \in inv[e].targets.rows[s]
  BY <1>4 DEF MarkOmittedRetryable
<1>5. CASE UNCHANGED queueVars
  BY <1>5 DEF queueVars
<1>6. ASSUME NEW p \in Row, EnqueueLinkedEvidence(p)
      PROVE  status'[q] = "completed" /\ owner'[q] = owner[q]
  BY <1>6 DEF EnqueueLinkedEvidence, TypeOK
<1>7. ASSUME NEW e \in Invocation, Step(e)
      PROVE  \/ UNCHANGED queueVars \/ ClaimTargets(e) \/ CancelRedundant(e) \/ ReleasePartialClaims(e)
             \/ RequeueStaleTarget(e) \/ ResolveCreatorOnly(e) \/ ApplySuperseded(e) \/ ApplyChange(e)
             \/ ApplyUnchanged(e) \/ MarkOmittedRetryable(e)
  BY <1>7 DEF Step, CreateRun, SeedInputs, ReadStories, ReadMetadata, PersistFrozenReads, PlanHygiene,
              SelectTargets, FreezeTargets, ReuseStage, ClaimStage, StageBusy, FinishStage,
              FailStage, InsertAssessment, ApplyAgain, ApplyStale, ApplyOwnershipLost,
              RecordOwnershipLost, RecordStaleAssessment, CompleteRun, LeaveRun, DatabaseError,
              Crash
<1>8. CASE (\E s \in Story : SynthesizeStory(s)) \/ (\E e \in Invocation, r \in Run : OpenRun(e, r))
  BY <1>5, <1>8 DEF SynthesizeStory, OpenRun
<1>9. CASE UNCHANGED vars
  BY <1>5, <1>9 DEF vars, queueVars
<1> QED BY <1>1, <1>2, <1>3, <1>4, <1>5, <1>6, <1>7, <1>8, <1>9 DEF Next

\* An assessment becomes applied in one transaction, which checks the ownership.
LEMMA NewlyApplied ==
  ASSUME TypeOK, [Next]_vars, NEW r \in Run, NEW s \in Story, ~Applied(r, s), Applied(r, s)'
  PROVE  \E e \in Invocation :
           /\ At(e, "apply") /\ inv[e].run = r /\ inv[e].story = s
           /\ OwnershipKept(r, s, assessment[r][s].rows)
           /\ UNCHANGED owner /\ \E v : CompleteReview(r, s, v)
<1>1. ~UNCHANGED assessment
  BY DEF Applied
<1>2. PICK e \in Invocation : Step(e)
  BY <1>1 DEF Next, EnqueueLinkedEvidence, SynthesizeStory, OpenRun, vars
<1>3. \/ InsertAssessment(e) \/ ApplySuperseded(e) \/ ApplyChange(e) \/ ApplyUnchanged(e)
      \/ RecordOwnershipLost(e) \/ RecordStaleAssessment(e)
  BY <1>1, <1>2
     DEF Step, CreateRun, SeedInputs, ReadStories, ReadMetadata, PersistFrozenReads, PlanHygiene,
         CancelRedundant, SelectTargets, ClaimTargets, ReleasePartialClaims, FreezeTargets,
         ResolveCreatorOnly, ReuseStage, ClaimStage, StageBusy, FinishStage, FailStage,
         MarkOmittedRetryable, ApplyAgain, ApplyStale, ApplyOwnershipLost,
         RequeueStaleTarget, CompleteRun, LeaveRun, DatabaseError, Crash
<1> DEFINE o == inv[e].run
<1>4. ASSUME NEW z \in Story, o \in Run, NEW a, assessment' = [assessment EXCEPT ![o][z] = a],
             r # o \/ s # z \/ a.state # "applied"
      PROVE  FALSE
  <2> HIDE DEF o
  <2> QED BY <1>4 DEF Applied, TypeOK
<1>5. ~InsertAssessment(e)
  <2> SUFFICES ASSUME InsertAssessment(e)
               PROVE  FALSE
    OBVIOUS
  <2>1. o \in Run /\ inv[e].todo \subseteq Story
    BY InvFields DEF InsertAssessment, At, Fits
  <2>2. PICK z \in inv[e].todo :
          assessment' = [assessment EXCEPT ![o][z] =
            [state |-> "open", at |-> inv[e].targets.at, seen |-> stage[o].seen[z], rows |-> inv[e].targets.rows[z],
             verdict |-> stage[o].output[z], stale |-> FALSE]]
    BY <1>1 DEF InsertAssessment
  <2> DEFINE a == [state |-> "open", at |-> inv[e].targets.at, seen |-> stage[o].seen[z], rows |-> inv[e].targets.rows[z],
                   verdict |-> stage[o].output[z], stale |-> FALSE]
  <2>3. assessment' = [assessment EXCEPT ![o][z] = a] /\ a.state # "applied"
    BY <2>2
  <2> HIDE DEF a, o
  <2> QED BY <1>4, <2>1, <2>2, <2>3
<1>6. ~(RecordOwnershipLost(e) \/ RecordStaleAssessment(e))
  <2> SUFFICES ASSUME RecordOwnershipLost(e) \/ RecordStaleAssessment(e)
               PROVE  FALSE
    OBVIOUS
  <2> DEFINE z == inv[e].story
  <2>1. o \in Run /\ z \in Story
    BY InvFields, TargetsFields DEF RecordOwnershipLost, RecordStaleAssessment, At, Fits, Assessing, Targeted
  <2>2. PICK b : Neutralise(o, z, b) /\ ~Applied(o, z)
    BY <1>1 DEF RecordOwnershipLost, RecordStaleAssessment, Neutralise
  <2> HIDE DEF o, z
  <2> DEFINE a == [assessment[o][z] EXCEPT !.verdict = "unchanged", !.stale = b]
  <2>3. assessment' = [assessment EXCEPT ![o][z] = a]
    BY <2>1, <2>2 DEF Neutralise, TypeOK
  <2>4. a.state # "applied"
    <3>1. assessment[o][z] \in Assessment /\ assessment[o][z].state # "applied"
      BY <2>1, <2>2, AssessmentFields DEF Applied
    <3> QED BY <3>1 DEF Assessment
  <2> HIDE DEF a
  <2> QED BY <1>4, <2>1, <2>3, <2>4
<1>7. CASE ApplySuperseded(e) \/ ApplyChange(e) \/ ApplyUnchanged(e)
  <2> DEFINE z == inv[e].story
  <2>1. o \in Run /\ z \in Story /\ At(e, "apply")
    BY <1>7, InvFields, TargetsFields
       DEF ApplySuperseded, ApplyChange, ApplyUnchanged, At, Fits, Assessing, Targeted
  <2>2. /\ OwnershipKept(o, z, assessment[o][z].rows) /\ UNCHANGED owner
        /\ \E v : CompleteReview(o, z, v)
    BY <1>7 DEF ApplySuperseded, ApplyChange, ApplyUnchanged
  <2>3. o = r /\ z = s
    <3> HIDE DEF o, z
    <3>1. PICK v : CompleteReview(o, z, v)
      BY <2>2
    <3> DEFINE a == [assessment[o][z] EXCEPT !.state = "applied", !.verdict = v]
    <3>2. assessment' = [assessment EXCEPT ![o][z] = a]
      BY <2>1, <3>1 DEF CompleteReview, TypeOK
    <3> HIDE DEF a
    <3> QED BY <1>4, <2>1, <3>2
  <2> QED BY <2>1, <2>2, <2>3
<1> QED BY <1>3, <1>5, <1>6, <1>7

LEMMA DoneNext ==
  ASSUME TypeOK, RunInv, AppliedDone, [Next]_vars
  PROVE  AppliedDone'
<1> SUFFICES ASSUME NEW r \in Run, NEW s \in Story, Applied(r, s)', NEW q \in assessment'[r][s].rows
             PROVE  status'[q] = "completed" /\ owner'[q] = r
  BY DEF AppliedDone
<1>1. CASE Applied(r, s)
  <2>1. q \in assessment[r][s].rows /\ assessment[r][s].state # "none"
    BY <1>1, AppliedStays DEF Applied
  <2>2. q \in Row /\ StoryOf[q] = s /\ stage[r].output[s] # "omitted"
    BY <2>1, AssessedRows
  <2>3. status[q] = "completed" /\ owner[q] = r
    BY <1>1, <2>1 DEF AppliedDone
  <2>4. ASSUME NEW e \in Invocation, MarkOmittedRetryable(e), owner[q] = inv[e].run,
               NEW z \in OmittedTargets(e, stage[inv[e].run].output), q \in inv[e].targets.rows[z]
        PROVE  FALSE
    <3>1. inv[e].targets \in Targets
      BY <2>4, InvFields DEF MarkOmittedRetryable, At, Fits
    <3>2. z = s /\ stage[r].output[z] = "omitted"
      BY <2>2, <2>3, <2>4, <3>1, TargetsFields DEF OmittedTargets
    <3> QED BY <2>2, <3>2
  <2> QED BY <2>2, <2>3, <2>4, CompletedStays
<1>2. CASE ~Applied(r, s)
  <2>1. PICK e \in Invocation :
          /\ At(e, "apply") /\ inv[e].run = r /\ inv[e].story = s
          /\ OwnershipKept(r, s, assessment[r][s].rows)
          /\ UNCHANGED owner /\ \E v : CompleteReview(r, s, v)
    BY <1>2, NewlyApplied
  <2>2. assessment[r][s].state # "none"
    BY <2>1 DEF At, RunInv, InvocationOK, Assessing
  <2>3. PICK v : CompleteReview(r, s, v)
    BY <2>1
  <2>4. q \in assessment[r][s].rows
    BY <2>3, CompleteReviewApplies
  <2>5. q \in Row /\ HasContract(r, s)
    BY <2>2, <2>4, AssessedRows
  <2>6. status[q] = "processing" /\ owner[q] = r
    BY <2>1, <2>4, <2>5 DEF OwnershipKept, OwnedBy
  <2> QED BY <2>1, <2>3, <2>4, <2>5, <2>6 DEF CompleteReview
<1> QED BY <1>1, <1>2

\* As long as a run has one live invocation at a time, no request is used up by two
\* reviews, however often runs fail, resume and take over each other's claims: a request
\* in an applied assessment stays completed, in the hands of the run that applied it.
THEOREM RequestServedOnce ==
  ASSUME SerialRuns
  PROVE  Spec => []ServedOnce
<1>1. Init => RunInv /\ AppliedDone
  <2>1. NoAssessment.state = "none"
    BY DEF NoAssessment
  <2> QED BY <2>1, RunInit DEF Init, AppliedDone, Applied
<1>2. TypeOK /\ RunInv /\ AppliedDone /\ [Next]_vars => RunInv' /\ AppliedDone'
  BY RunNext, DoneNext
<1>3. TypeOK /\ RunInv /\ AppliedDone => ServedOnce
  <2> SUFFICES ASSUME TypeOK, RunInv, AppliedDone, NEW r1 \in Run, NEW r2 \in Run,
                      NEW s1 \in Story, NEW s2 \in Story, Applied(r1, s1), Applied(r2, s2),
                      NEW q, q \in assessment[r1][s1].rows, q \in assessment[r2][s2].rows
               PROVE  r1 = r2 /\ s1 = s2
    BY DEF ServedOnce
  <2>1. assessment[r1][s1].state # "none" /\ assessment[r2][s2].state # "none"
    BY DEF Applied
  <2>2. StoryOf[q] = s1 /\ StoryOf[q] = s2
    BY <2>1, AssessedRows
  <2>3. owner[q] = r1 /\ owner[q] = r2
    BY DEF AppliedDone
  <2> QED BY <2>2, <2>3
<1>4. Spec => []TypeOK
  BY TypeCorrect
<1> QED BY <1>1, <1>2, <1>3, <1>4, PTL DEF Spec

-----------------------------------------------------------------------------
(***************************************************************************)
(* Hygiene never cancels the last request.  A plan is made on a snapshot   *)
(* and carried out later, when other invocations may have cancelled the    *)
(* rows that it rests on: what holds of every planned row is that it is    *)
(* covered, and the first row that covers it is not in any such plan       *)
(* without being covered itself.                                           *)
(***************************************************************************)

Standing(p) == status[p] \notin {"absent", "cancelled"} \/ p \in AppliedRows \cup Supersedable
SameRequest(p, q) == StoryOf[p] = StoryOf[q] /\ EvidenceOf[p] = EvidenceOf[q]
Covered(q) ==
  \/ q \in AppliedRows \cup Supersedable
  \/ \E p \in Row : p < q /\ SameRequest(p, q) /\ Standing(p)

\* The inductive invariant: what is cancelled and what is planned to be is covered.
HygieneInv ==
  /\ \A q \in Row : status[q] = "cancelled" => Covered(q)
  /\ \A e \in Invocation : At(e, "cancel") => \A q \in inv[e].plan : Covered(q)

\* The least-number principle for sets of numbers.
LEMMA SmallestOf ==
  ASSUME NEW T \in SUBSET Nat, T # {}
  PROVE  \E m \in T : \A k \in T : ~(k < m)
<1>1. PICK m \in T : \A k \in T : <<k, m>> \notin OpToRel(<, Nat)
  BY NatLessThanWellFounded, WFMin
<1>2. \A k \in T : k < m => <<k, m>> \in OpToRel(<, Nat)
  BY DEF OpToRel
<1> QED BY <1>1, <1>2

\* A row leaves the queue by cancellation only.
LEMMA LeavesByCancel ==
  ASSUME TypeOK, [Next]_vars, NEW q \in Row, status[q] # "cancelled", status'[q] \in {"absent", "cancelled"}
  PROVE  status[q] = "absent" \/ \E e \in Invocation : CancelRedundant(e) /\ q \in inv[e].plan
<1>1. SUFFICES ASSUME status[q] # "absent"
               PROVE  \E e \in Invocation : CancelRedundant(e) /\ q \in inv[e].plan
  OBVIOUS
<1>2. status[q] # status'[q]
  BY <1>1
<1>3. PICK e \in Invocation : Step(e)
  BY <1>1, <1>2 DEF Next, EnqueueLinkedEvidence, SynthesizeStory, OpenRun, queueVars, vars, TypeOK
<1>4. ~ClaimTargets(e)
  BY <1>1, <1>2 DEF ClaimTargets, Recovered, queueVars
<1>5. ~(ReleasePartialClaims(e) \/ ResolveCreatorOnly(e) \/ MarkOmittedRetryable(e) \/ RequeueStaleTarget(e))
  BY <1>2 DEF ReleasePartialClaims, ResolveCreatorOnly, MarkOmittedRetryable, RequeueStaleTarget
<1>6. ~(ApplySuperseded(e) \/ ApplyChange(e) \/ ApplyUnchanged(e))
  BY <1>2 DEF ApplySuperseded, ApplyChange, ApplyUnchanged, CompleteReview
<1>7. CancelRedundant(e)
  BY <1>2, <1>3, <1>4, <1>5, <1>6
     DEF Step, CreateRun, SeedInputs, ReadStories, ReadMetadata, PersistFrozenReads, PlanHygiene,
         SelectTargets, FreezeTargets, ReuseStage, ClaimStage, StageBusy, FinishStage,
         FailStage, InsertAssessment, ApplyAgain, ApplyStale, ApplyOwnershipLost,
         RecordOwnershipLost, RecordStaleAssessment, CompleteRun, LeaveRun, DatabaseError,
         Crash, queueVars
<1>8. q \in inv[e].plan
  BY <1>2, <1>7 DEF CancelRedundant
<1> QED BY <1>7, <1>8

LEMMA AppliedRowsGrow ==
  ASSUME TypeOK, [Next]_vars, NEW q \in AppliedRows
  PROVE  q \in AppliedRows'
<1>1. PICK r \in Run, s \in Story : Applied(r, s) /\ q \in assessment[r][s].rows
  BY DEF AppliedRows
<1>2. Applied(r, s)' /\ q \in assessment'[r][s].rows
  BY <1>1, AppliedStays
<1>3. q \in Row
  BY DEF AppliedRows
<1> QED BY <1>2, <1>3 DEF AppliedRows

\* A covered row stays covered: of the rows that cover it the first one is not cancelled,
\* or it is covered by nothing but its Evidence or its review.
LEMMA CoveredStays ==
  ASSUME TypeOK, HygieneInv, [Next]_vars, NEW q \in Row, Covered(q)
  PROVE  Covered(q)'
<1>1. CASE q \in AppliedRows \cup Supersedable
  BY <1>1, AppliedRowsGrow DEF Covered
<1>2. CASE q \notin AppliedRows \cup Supersedable
  <2> DEFINE T == {p \in Row : p < q /\ SameRequest(p, q) /\ Standing(p)}
  <2>1. T # {} /\ T \in SUBSET Nat
    BY <1>2, RowAssumption DEF Covered
  <2>2. PICK m \in T : \A k \in T : ~(k < m)
    BY <2>1, SmallestOf
  <2>3. m \in Row /\ m < q /\ SameRequest(m, q) /\ Standing(m) /\ m \in Nat /\ q \in Nat
    BY <2>2, RowAssumption
  <2>4. Standing(m)'
    <3>1. CASE m \in AppliedRows \cup Supersedable
      BY <3>1, AppliedRowsGrow DEF Standing
    <3>2. CASE m \notin AppliedRows \cup Supersedable
      <4>1. status[m] \notin {"absent", "cancelled"}
        BY <2>3, <3>2 DEF Standing
      <4>2. ~\E e \in Invocation : CancelRedundant(e) /\ m \in inv[e].plan
        <5> SUFFICES ASSUME NEW e \in Invocation, CancelRedundant(e), m \in inv[e].plan
                     PROVE  FALSE
          OBVIOUS
        <5>1. Covered(m)
          BY DEF HygieneInv, CancelRedundant
        <5>2. PICK p \in Row : p < m /\ SameRequest(p, m) /\ Standing(p)
          BY <3>2, <5>1 DEF Covered
        <5>3. p \in Nat /\ p < q /\ SameRequest(p, q)
          BY <2>3, <5>2, RowAssumption DEF SameRequest
        <5> QED BY <2>2, <5>2, <5>3
      <4>3. status'[m] \notin {"absent", "cancelled"}
        BY <2>3, <4>1, <4>2, LeavesByCancel
      <4> QED BY <4>3 DEF Standing
    <3> QED BY <3>1, <3>2
  <2> QED BY <2>3, <2>4 DEF Covered, SameRequest
<1> QED BY <1>1, <1>2

\* Only hygiene makes a plan and works it off; every other step leads elsewhere.
LEMMA OnlyHygienePlans ==
  ASSUME TypeOK, NEW e \in Invocation, Step(e), ~PlanHygiene(e), ~CancelRedundant(e)
  PROVE  \E i : inv' = [inv EXCEPT ![e] = i] /\ i.pc # "cancel"
<1>1. inv[e] \in Invocations /\ inv[e].memory \in Inputs
  BY InvFields
<1>2. ASSUME NEW m, NEW sv, NEW next \in {"seed", "saveMeta", "hygiene", "readStories"},
             inv' = [inv EXCEPT ![e].memory = m, ![e].saved = sv, ![e].pc = next]
      PROVE  \E i : inv' = [inv EXCEPT ![e] = i] /\ i.pc # "cancel"
  <2> DEFINE i == [inv[e] EXCEPT !.memory = m, !.saved = sv, !.pc = next]
  <2>1. inv' = [inv EXCEPT ![e] = i] /\ i.pc # "cancel"
    BY <1>1, <1>2 DEF TypeOK, Invocations
  <2> HIDE DEF i
  <2> QED BY <2>1
<1>3. ASSUME NEW next \in Labels \ {"cancel"}, NEW sv, inv' = [inv EXCEPT ![e].saved = sv, ![e].pc = next]
      PROVE  \E i : inv' = [inv EXCEPT ![e] = i] /\ i.pc # "cancel"
  <2> DEFINE i == [inv[e] EXCEPT !.saved = sv, !.pc = next]
  <2>1. inv' = [inv EXCEPT ![e] = i] /\ i.pc # "cancel"
    BY <1>1, <1>3 DEF TypeOK, Invocations
  <2> HIDE DEF i
  <2> QED BY <2>1
<1>4. ASSUME NEW next \in Labels \ {"cancel"}, NEW s, NEW todo,
             \/ inv' = [inv EXCEPT ![e].pc = next]
             \/ inv' = [inv EXCEPT ![e].plan = todo, ![e].pc = next]
             \/ inv' = [inv EXCEPT ![e].todo = todo, ![e].pc = next]
             \/ inv' = [inv EXCEPT ![e].story = s, ![e].pc = next]
             \/ inv' = [inv EXCEPT ![e].story = s, ![e].todo = todo, ![e].pc = next]
             \/ inv' = [inv EXCEPT ![e].targets = todo, ![e].fresh = s, ![e].pc = next]
      PROVE  \E i : inv' = [inv EXCEPT ![e] = i] /\ i.pc # "cancel"
  <2> DEFINE a == [inv[e] EXCEPT !.pc = next]
             b == [inv[e] EXCEPT !.plan = todo, !.pc = next]
             c == [inv[e] EXCEPT !.todo = todo, !.pc = next]
             d == [inv[e] EXCEPT !.story = s, !.pc = next]
             f == [inv[e] EXCEPT !.story = s, !.todo = todo, !.pc = next]
             g == [inv[e] EXCEPT !.targets = todo, !.fresh = s, !.pc = next]
  <2>1. \/ inv' = [inv EXCEPT ![e] = a] \/ inv' = [inv EXCEPT ![e] = b] \/ inv' = [inv EXCEPT ![e] = c]
        \/ inv' = [inv EXCEPT ![e] = d] \/ inv' = [inv EXCEPT ![e] = f] \/ inv' = [inv EXCEPT ![e] = g]
    BY <1>4 DEF TypeOK
  <2>2. /\ a.pc # "cancel" /\ b.pc # "cancel" /\ c.pc # "cancel"
        /\ d.pc # "cancel" /\ f.pc # "cancel" /\ g.pc # "cancel"
    BY <1>1 DEF Invocations
  <2> HIDE DEF a, b, c, d, f, g
  <2> QED BY <2>1, <2>2
<1>5. ASSUME inv' = [inv EXCEPT ![e] = IdleInvocation]
      PROVE  \E i : inv' = [inv EXCEPT ![e] = i] /\ i.pc # "cancel"
  <2>1. IdleInvocation.pc # "cancel"
    BY DEF IdleInvocation
  <2> QED BY <1>5, <2>1
<1>6. ASSUME NEW t, NEW fresh, Proceed(e, t, fresh)
      PROVE  \E i : inv' = [inv EXCEPT ![e] = i] /\ i.pc # "cancel"
  <2>1. PICK next \in {"freeze", "creator", "stage", "finish"} :
          inv' = [inv EXCEPT ![e].targets = t, ![e].memory.targets = IF At(e, "freeze") THEN t ELSE @,
                             ![e].plan = {}, ![e].fresh = fresh, ![e].pc = next]
    BY <1>6 DEF Proceed
  <2> DEFINE m == [inv[e].memory EXCEPT !.targets = IF At(e, "freeze") THEN t ELSE @]
             i == [inv[e] EXCEPT !.targets = t, !.memory = m, !.plan = {}, !.fresh = fresh, !.pc = next]
  <2>2. inv' = [inv EXCEPT ![e] = i]
    BY <1>1, <2>1 DEF TypeOK, Invocations
  <2>3. i.pc # "cancel"
    <3> HIDE DEF m
    <3> QED BY <1>1 DEF Invocations
  <2> HIDE DEF i
  <2> QED BY <2>2, <2>3
<1>7. CASE CreateRun(e) \/ SeedInputs(e) \/ ReadMetadata(e) \/ PersistFrozenReads(e)
  <2>1. CASE CreateRun(e) \/ ReadMetadata(e)
    <3>1. \/ inv' = [inv EXCEPT ![e].saved = EmptyInputs(FALSE, clock + 1), ![e].pc = "seed"]
          \/ inv' = [inv EXCEPT ![e].saved = inputs[inv[e].run], ![e].pc = "saveMeta"]
      BY <2>1 DEF CreateRun, ReadMetadata
    <3> QED BY <1>3, <3>1 DEF Labels
  <2>2. CASE SeedInputs(e)
    BY <1>2, <2>2 DEF SeedInputs, Continue
  <2>3. CASE PersistFrozenReads(e)
    BY <1>2, <2>3 DEF PersistFrozenReads
  <2> QED BY <1>7, <2>1, <2>2, <2>3
<1>8. CASE ReadStories(e)
  <2> DEFINE m == [inv[e].memory EXCEPT !.seen = [s \in Story |-> story[s].versionAt]]
             i == [inv[e] EXCEPT !.memory = m, !.pc = "readMeta"]
  <2>1. inv' = [inv EXCEPT ![e] = i]
    BY <1>1, <1>8 DEF ReadStories, TypeOK, Invocations
  <2> HIDE DEF m
  <2>2. i.pc # "cancel"
    BY <1>1 DEF Invocations
  <2> HIDE DEF i
  <2> QED BY <2>1, <2>2
<1>9. CASE SelectTargets(e)
  <2>1. PICK t, fresh : \/ Proceed(e, t, fresh)
                        \/ inv' = [inv EXCEPT ![e].targets = t, ![e].fresh = fresh, ![e].pc = "claim"]
    BY <1>9 DEF SelectTargets
  <2> QED BY <1>4, <1>6, <2>1 DEF Labels
<1>10. CASE ClaimTargets(e) \/ ReleasePartialClaims(e)
  <2>1. PICK t, fresh, got : \/ Proceed(e, t, fresh)
                             \/ inv' = [inv EXCEPT ![e].plan = got, ![e].pc = "release"]
                             \/ inv' = [inv EXCEPT ![e] = IdleInvocation]
    BY <1>10 DEF ClaimTargets, ReleasePartialClaims, Fail
  <2> QED BY <1>4, <1>5, <1>6, <2>1 DEF Labels
<1>11. CASE FreezeTargets(e) \/ ResolveCreatorOnly(e)
  <2>1. PICK t : Proceed(e, t, FALSE)
    BY <1>11 DEF FreezeTargets, ResolveCreatorOnly
  <2> QED BY <1>6, <2>1
<1>12. CASE ReuseStage(e) \/ FinishStage(e)
  <2>1. PICK output : UseOutput(e, output)
    BY <1>12 DEF ReuseStage, FinishStage
  <2> DEFINE todo == DOMAIN inv[e].targets.rows \ OmittedTargets(e, output)
  <2>2. PICK next \in {"assess", "omitted"} : inv' = [inv EXCEPT ![e].todo = todo, ![e].pc = next]
    BY <2>1 DEF UseOutput
  <2> HIDE DEF todo
  <2> QED BY <1>4, <2>2 DEF Labels
<1>13. CASE StageBusy(e) \/ FailStage(e) \/ CompleteRun(e) \/ LeaveRun(e) \/ DatabaseError(e) \/ Crash(e)
  BY <1>5, <1>13 DEF StageBusy, FailStage, CompleteRun, LeaveRun, DatabaseError, Crash, Fail
<1>14. CASE \/ ClaimStage(e) \/ MarkOmittedRetryable(e) \/ ApplyStale(e) \/ ApplyOwnershipLost(e)
            \/ RecordStaleAssessment(e)
  <2>1. PICK next \in {"model", "assess", "stale", "lost", "requeue"} : inv' = [inv EXCEPT ![e].pc = next]
    BY <1>14 DEF ClaimStage, MarkOmittedRetryable, ApplyStale, ApplyOwnershipLost, RecordStaleAssessment, Goto
  <2> QED BY <1>4, <2>1 DEF Labels
<1>15. CASE \/ ApplyAgain(e) \/ ApplySuperseded(e) \/ ApplyChange(e) \/ ApplyUnchanged(e)
            \/ RecordOwnershipLost(e) \/ RequeueStaleTarget(e)
  <2>1. inv' = [inv EXCEPT ![e].story = None, ![e].pc = "assess"]
    BY <1>15 DEF ApplyAgain, ApplySuperseded, ApplyChange, ApplyUnchanged, RecordOwnershipLost, RequeueStaleTarget
  <2> QED BY <1>4, <2>1 DEF Labels
<1>16. CASE InsertAssessment(e)
  <2>1. PICK s \in inv[e].todo :
          \/ inv' = [inv EXCEPT ![e].story = s, ![e].todo = @ \ {s}, ![e].pc = "apply"]
          \/ inv' = [inv EXCEPT ![e].todo = @ \ {s}]
          \/ inv' = [inv EXCEPT ![e] = IdleInvocation]
    BY <1>16 DEF InsertAssessment, Fail
  <2>2. CASE inv' = [inv EXCEPT ![e].todo = @ \ {s}]
    <3> DEFINE i == [inv[e] EXCEPT !.todo = @ \ {s}]
    <3>1. inv' = [inv EXCEPT ![e] = i] /\ i.pc = "assess"
      BY <1>1, <1>16, <2>2 DEF InsertAssessment, At, TypeOK, Invocations
    <3> HIDE DEF i
    <3> QED BY <3>1
  <2>3. CASE inv' = [inv EXCEPT ![e].story = s, ![e].todo = @ \ {s}, ![e].pc = "apply"]
    <3> DEFINE i == [inv[e] EXCEPT !.story = s, !.todo = @ \ {s}, !.pc = "apply"]
    <3>1. inv' = [inv EXCEPT ![e] = i] /\ i.pc = "apply"
      BY <1>1, <2>3 DEF TypeOK, Invocations
    <3> HIDE DEF i
    <3> QED BY <3>1
  <2> QED BY <1>5, <2>1, <2>2, <2>3
<1> QED BY <1>7, <1>8, <1>9, <1>10, <1>11, <1>12, <1>13, <1>14, <1>15, <1>16 DEF Step

\* What is still planned was planned before, or hygiene has just planned it.
LEMMA PlanStays ==
  ASSUME TypeOK, [Next]_vars, NEW e \in Invocation, At(e, "cancel")'
  PROVE  PlanHygiene(e) \/ (At(e, "cancel") /\ inv'[e].plan \subseteq inv[e].plan)
<1> SUFFICES PlanHygiene(e) \/ CancelRedundant(e) \/ inv'[e] = inv[e]
  <2>1. CASE CancelRedundant(e)
    <3>1. PICK later \in SUBSET inv[e].plan, next \in Labels :
            inv' = [inv EXCEPT ![e].plan = later, ![e].pc = next]
      BY <2>1 DEF CancelRedundant, Labels
    <3>2. inv'[e].plan = later
      BY <3>1, InvFields DEF TypeOK, Invocations
    <3> QED BY <2>1, <3>1, <3>2 DEF CancelRedundant
  <2>2. CASE inv'[e] = inv[e]
    BY <2>2 DEF At
  <2> QED BY <2>1, <2>2
<1>1. inv'[e].pc = "cancel" /\ inv \in [Invocation -> Invocations]
  BY DEF At, TypeOK
<1>2. ASSUME NEW f \in Invocation, Step(f)
      PROVE  PlanHygiene(e) \/ CancelRedundant(e) \/ inv'[e] = inv[e]
  <2>1. CASE (PlanHygiene(f) \/ CancelRedundant(f)) /\ f # e
    BY <1>1, <2>1 DEF PlanHygiene, CancelRedundant
  <2>2. CASE ~PlanHygiene(f) /\ ~CancelRedundant(f)
    BY <1>1, <1>2, <2>2, OnlyHygienePlans
  <2> QED BY <2>1, <2>2
<1>3. ASSUME NEW f \in Invocation, NEW r \in Run, OpenRun(f, r)
      PROVE  inv'[e] = inv[e]
  <2>1. CASE f # e
    BY <1>1, <1>3, <2>1 DEF OpenRun, Continue
  <2>2. CASE f = e
    <3>1. inputs[r] \in Inputs
      BY DEF TypeOK
    <3>2. inv'[e].pc \in {"hygiene", "readStories", "create", "seed"}
      BY <1>1, <1>3, <2>2, <3>1 DEF OpenRun, Continue, Invocations
    <3> QED BY <1>1, <3>2
  <2> QED BY <2>1, <2>2
<1>4. CASE UNCHANGED inv
  BY <1>4
<1> QED BY <1>2, <1>3, <1>4 DEF Next, EnqueueLinkedEvidence, SynthesizeStory, vars

LEMMA HygieneNext ==
  ASSUME TypeOK, HygieneInv, [Next]_vars
  PROVE  HygieneInv'
<1>1. ASSUME NEW q \in Row, status'[q] = "cancelled"
      PROVE  Covered(q)'
  <2>1. Covered(q)
    <3>1. CASE status[q] = "cancelled"
      BY <3>1 DEF HygieneInv
    <3>2. CASE status[q] # "cancelled"
      <4>1. status[q] # "absent"
        <5> SUFFICES ASSUME status[q] = "absent"
                     PROVE  FALSE
          OBVIOUS
        <5>1. ~\E e \in Invocation : CancelRedundant(e)
          BY <1>1 DEF CancelRedundant, Waiting
        <5>2. ~\E p \in Row : EnqueueLinkedEvidence(p)
          BY <1>1 DEF EnqueueLinkedEvidence, TypeOK
        <5>3. ~\E e \in Invocation : ClaimTargets(e)
          BY <1>1 DEF ClaimTargets, Recovered, queueVars
        <5>4. ~\E e \in Invocation :
                \/ ReleasePartialClaims(e) \/ ResolveCreatorOnly(e)
                \/ MarkOmittedRetryable(e) \/ RequeueStaleTarget(e)
          BY <1>1 DEF ReleasePartialClaims, ResolveCreatorOnly, MarkOmittedRetryable, RequeueStaleTarget
        <5>5. ~\E e \in Invocation : ApplySuperseded(e) \/ ApplyChange(e) \/ ApplyUnchanged(e)
          BY <1>1 DEF ApplySuperseded, ApplyChange, ApplyUnchanged, CompleteReview
        <5>6. status'[q] # status[q]
          BY <1>1
        <5>7. ASSUME NEW e \in Invocation, Step(e)
              PROVE  \/ UNCHANGED status \/ CancelRedundant(e) \/ ClaimTargets(e)
                     \/ ReleasePartialClaims(e) \/ ResolveCreatorOnly(e)
                     \/ MarkOmittedRetryable(e) \/ RequeueStaleTarget(e)
                     \/ ApplySuperseded(e) \/ ApplyChange(e) \/ ApplyUnchanged(e)
          BY <5>7 DEF queueVars, Step, CreateRun, SeedInputs, ReadStories, ReadMetadata, PersistFrozenReads,
                      PlanHygiene, SelectTargets, FreezeTargets, ReuseStage, ClaimStage, StageBusy,
                      FinishStage, FailStage, InsertAssessment, ApplyAgain, ApplyStale, ApplyOwnershipLost,
                      RecordOwnershipLost, RecordStaleAssessment, CompleteRun, LeaveRun,
                      DatabaseError, Crash
        <5>8. ~\E e \in Invocation : Step(e)
          BY <5>1, <5>3, <5>4, <5>5, <5>6, <5>7
        <5> QED BY <5>2, <5>6, <5>8 DEF Next, SynthesizeStory, OpenRun, vars, queueVars
      <4>2. PICK e \in Invocation : CancelRedundant(e) /\ q \in inv[e].plan
        BY <1>1, <3>2, <4>1, LeavesByCancel
      <4> QED BY <4>2 DEF HygieneInv, CancelRedundant
    <3> QED BY <3>1, <3>2
  <2> QED BY <2>1, CoveredStays
<1>2. ASSUME NEW e \in Invocation, At(e, "cancel")', NEW q \in inv'[e].plan
      PROVE  Covered(q)'
  <2>1. q \in Row /\ Covered(q)
    <3>1. CASE At(e, "cancel") /\ inv'[e].plan \subseteq inv[e].plan
      BY <1>2, <3>1, InvFields DEF HygieneInv
    <3>2. CASE PlanHygiene(e)
      <4>1. PICK known \in {{}, AppliedRows}, superseded \in SUBSET (Supersedable \cap Actionable) :
              LET plan == (Actionable \cap known) \cup Duplicates(Actionable \ known) \cup superseded
              IN inv' = [inv EXCEPT ![e].plan = plan, ![e].pc = IF plan = {} THEN "select" ELSE "cancel"]
        BY <3>2 DEF PlanHygiene
      <4> DEFINE plan == (Actionable \cap known) \cup Duplicates(Actionable \ known) \cup superseded
      <4>2. inv'[e].plan = plan
        <5> HIDE DEF plan
        <5>1. inv' = [inv EXCEPT ![e].plan = plan, ![e].pc = IF plan = {} THEN "select" ELSE "cancel"]
          BY <4>1 DEF plan
        <5> QED BY <5>1, InvFields DEF TypeOK, Invocations
      <4>3. q \in plan /\ q \in Row
        BY <1>2, <4>2 DEF Actionable, Duplicates
      <4>4. CASE q \in known \/ q \in superseded
        BY <4>1, <4>3, <4>4 DEF Covered
      <4>5. CASE q \in Duplicates(Actionable \ known)
        <5>1. PICK p \in Actionable : p < q /\ StoryOf[p] = StoryOf[q] /\ EvidenceOf[p] = EvidenceOf[q]
          BY <4>5 DEF Duplicates
        <5>2. p \in Row /\ Standing(p) /\ SameRequest(p, q)
          BY <5>1 DEF Actionable, Waiting, Standing, SameRequest
        <5> QED BY <4>3, <5>1, <5>2 DEF Covered
      <4> QED BY <4>3, <4>4, <4>5
    <3> QED BY <1>2, <3>1, <3>2, PlanStays
  <2> QED BY <2>1, CoveredStays
<1> QED BY <1>1, <1>2 DEF HygieneInv

\* Queue hygiene never cancels the last request that asks for a review, whatever other
\* invocations do between the snapshot that it plans on and the cancellation.
THEOREM CancelledCovered == Spec => []CancelledIsCovered
<1>1. Init => HygieneInv
  BY DEF Init, HygieneInv, At, IdleInvocation
<1>2. TypeOK /\ HygieneInv /\ [Next]_vars => HygieneInv'
  BY HygieneNext
<1>3. HygieneInv => CancelledIsCovered
  BY DEF HygieneInv, CancelledIsCovered, Covered, Standing, SameRequest
<1>4. Spec => []TypeOK
  BY TypeCorrect
<1> QED BY <1>1, <1>2, <1>3, <1>4, PTL DEF Spec
=============================================================================
