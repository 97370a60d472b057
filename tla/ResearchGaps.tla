----------------------------- MODULE ResearchGaps -----------------------------
(* One Research Gap case (a row of research_gap_cases with its occurrences) from *)
(* the Dossier that raises it to the canonical research run that gets its        *)
(* answer: src/lib/research-gap-lifecycle.ts, research-gap-manual-web-run.ts,    *)
(* research-gap-manual-handoff-run.ts, research-gap-auto-handoff.ts, the         *)
(* functions of the research_gap migrations, and the replay rule of              *)
(* app/api/research-update/route.ts.  GapActors are concurrent server            *)
(* invocations (cron, GitHub, API): each is idle or carries out one of sync,     *)
(* research and handoff, a database round trip per action.                       *)
EXTENDS Naturals, Sequences, SequencesExt

CONSTANTS GapActor,     \* concurrent invocations
          Signature,    \* planSignature of a causal discriminator plan
          Depth,        \* discriminators of a plan
          MaxDossiers,  \* bound: Dossiers persisted
          RecoveryCap,  \* attempt_count at which oil recovery stops
          MaxAttempts   \* bound: claims of the case

ASSUME GapAssumption ==
  /\ Depth \in Nat \ {0} /\ MaxDossiers \in Nat \ {0}
  /\ RecoveryCap \in Nat /\ MaxAttempts \in Nat

VARIABLES gap,       \* the row, or Absent
          asked,     \* research_gap_case_occurrences, in the order they were inserted
          dossiers,  \* signature each Dossier carries for this gap
          job,       \* what each invocation is doing
          ledger,    \* research_runs of the handoff runs, by the plan in the run key:
                     \* "open" stands for no run, a blocked, failed or dead one
          admitted,  \* canonical Evidence carries the id of the case
          answered   \* history: of each completed verdict the discriminator the row asked
                     \* for and the one its frozen plan records

gapVars == <<gap, asked, dossiers, job, ledger, admitted, answered>>

NoLife == [sig |-> "none", index |-> 0]
Lifecycle == [sig: Signature, index: 0..Depth - 1] \cup {NoLife}
GapDossier == 1..MaxDossiers

\* planId hashes the Dossier and the requirements; the plan also freezes the
\* lifecycle that the occurrence of the Dossier recorded.
PlanId == [dossier: GapDossier, need: Lifecycle]
Plan == [id: PlanId, life: Lifecycle]
NoId == [dossier |-> 0, need |-> NoLife]
NoPlan == [id |-> NoId, life |-> NoLife]

GapOutcome == {"UNRESOLVED", "CONFIRMING"}
Verdict == [id: PlanId, outcome: GapOutcome, retry: BOOLEAN, closed: 0..MaxDossiers]
NoVerdict == [id |-> NoId, outcome |-> "none", retry |-> FALSE, closed |-> 0]

Absent == [status |-> "ABSENT"]
FreshCase(d, life) ==
  [status |-> "QUEUED", dossier |-> d, need |-> life, token |-> 0,
   lapsed |-> FALSE, attempts |-> 0, plan |-> NoPlan, verdict |-> NoVerdict, runKey |-> NoId]

Off == [pc |-> "off"]
Claimed == gap.status \in {"CLAIMED", "RESEARCHING"}
Finished == gap.status \in {"COMPLETED", "HANDED_OFF"}

GapInit ==
  /\ gap = Absent
  /\ asked = <<>> /\ dossiers = <<>>
  /\ job = [a \in GapActor |-> Off]
  /\ ledger = [k \in PlanId |-> "open"]
  /\ admitted = FALSE /\ answered = {}

Become(a, next) == job' = [job EXCEPT ![a] = next]
Busy(a, pc) == job[a].pc = pc

\* A Dossier is persisted; a gap that D7 raises never carries a discriminator plan.
D7 == dossiers # <<>> /\ dossiers[1] = "none"
PersistDossier ==
  /\ Len(dossiers) < MaxDossiers
  /\ \E sig \in Signature \cup {"none"} :
       /\ dossiers # <<>> => (sig = "none") = D7
       /\ dossiers' = Append(dossiers, sig)
  /\ UNCHANGED <<gap, asked, job, ledger, admitted, answered>>

-----------------------------------------------------------------------------
(* Sync: read the row and decide, move the row if it has to be, upsert. *)

\* The lifecycle in the plan, or the highest index of the newest signature asked.
LifeSource ==
  LET known == {i \in DOMAIN asked : asked[i].life # NoLife}
      newest == {i \in known : \A j \in known : j <= i}
      same == {i \in known : \E n \in newest : asked[i].life.sig = asked[n].life.sig}
      highest == {i \in same : \A j \in same : asked[j].life.index <= asked[i].life.index}
  IN IF gap.plan.life # NoLife THEN gap.plan.life
     ELSE IF highest = {} THEN NoLife ELSE asked[CHOOSE i \in highest : TRUE].life

NextDiscriminator(prior) == prior.index + 1
FirstOf(sig) == [sig |-> sig, index |-> 0]

\* Mutant: work that waits in the queue moves on to the next discriminator.
QueuedOnward(prior, sig) ==
  IF prior.sig = sig /\ NextDiscriminator(prior) < Depth
    THEN [prior EXCEPT !.index = NextDiscriminator(prior)] ELSE FirstOf(sig)

\* Queued work keeps its discriminator while the plan is the same.
QueuedLife(prior, sig) == IF prior.sig = sig THEN prior ELSE FirstOf(sig)

\* decideResearchGapDiscriminatorLifecycle: lifecycle to record, and move of the row.
Decide(sig) ==
  LET first == FirstOf(sig)
      verdict(life, move) == [life |-> life, move |-> move]
      prior == LifeSource
  IN IF sig = "none" THEN verdict(NoLife, "none") ELSE
     CASE gap.status = "ABSENT" -> verdict(first, "none")
       [] gap.status = "HANDED_OFF" ->
            CASE prior = NoLife -> verdict(first, "none")
              [] prior # NoLife /\ ~admitted -> verdict(prior, "none")
              [] prior # NoLife /\ admitted /\ prior.sig # sig -> verdict(first, "requeue")
              [] OTHER -> IF NextDiscriminator(prior) >= Depth THEN verdict(prior, "close")
                          ELSE verdict([prior EXCEPT !.index = NextDiscriminator(prior)], "requeue")
       [] gap.status = "CLOSED" ->
            IF prior.sig = sig THEN verdict(prior, "none") ELSE verdict(first, "requeue")
       [] prior # NoLife /\ gap.status \in {"CLAIMED", "RESEARCHING", "COMPLETED"} -> verdict(prior, "none")
       [] OTHER -> verdict(QueuedLife(prior, sig), "none")

Upserting(d, life) == [pc |-> "upsert", dossier |-> d, life |-> life]

\* Reads of the newest Dossier, the row, its occurrences and the admitted Evidence.
SyncRead(a) ==
  /\ Busy(a, "off") /\ dossiers # <<>>
  /\ LET d == Decide(Last(dossiers))
     IN IF d.move = "none" THEN Become(a, Upserting(Len(dossiers), d.life))
        ELSE Become(a, [pc |-> "move", dossier |-> Len(dossiers), life |-> d.life,
                        move |-> d.move, from |-> gap.status])
  /\ UNCHANGED <<gap, asked, dossiers, ledger, admitted, answered>>

Cleared(row) == [row EXCEPT !.status = "QUEUED", !.token = 0, !.lapsed = FALSE,
                            !.plan = NoPlan, !.verdict = NoVerdict, !.runKey = NoId]

\* Mutant: the update names the row only.
UnmovedById(a) == TRUE

\* Compare-and-set on the status the decision was made from.
Unmoved(a) == gap.status = job[a].from

\* transitionResearchGapCase; the sync fails if another invocation moved the row.
Transition(a) ==
  /\ Busy(a, "move")
  /\ \/ /\ Unmoved(a)
        /\ gap' = IF job[a].move = "requeue" THEN Cleared(gap)
                  ELSE [gap EXCEPT !.status = "CLOSED", !.token = 0, !.lapsed = FALSE]
        /\ Become(a, Upserting(job[a].dossier, job[a].life))
     \/ ~Unmoved(a) /\ Become(a, Off) /\ UNCHANGED gap
  /\ UNCHANGED <<asked, dossiers, ledger, admitted, answered>>

\* A newer Dossier wakes an unresolved attempt whose sources were out of reach.
MayRecover(d) ==
  /\ Finished /\ gap.verdict.outcome = "UNRESOLVED" /\ gap.verdict.retry
  /\ gap.attempts < RecoveryCap
  /\ d > gap.dossier /\ d > gap.verdict.closed

\* Mutant: the occurrence is inserted again.
ListedNever(d) == FALSE

Listed(d) == \E o \in ToSet(asked) : o.dossier = d

\* upsert_research_gap_case: one occurrence per Dossier; `due` is whether the
\* cooldown of the recovery is over.
Upsert(a) ==
  /\ Busy(a, "upsert")
  /\ LET d == job[a].dossier
         life == job[a].life
         kept == [gap EXCEPT !.dossier = d, !.need = life]
     IN /\ IF gap.status = "ABSENT" THEN gap' = FreshCase(d, life)
           ELSE \E due \in BOOLEAN : gap' = IF due /\ MayRecover(d) THEN Cleared(kept) ELSE kept
        /\ asked' = IF Listed(d) THEN asked ELSE Append(asked, [dossier |-> d, life |-> life])
  /\ Become(a, Off)
  /\ UNCHANGED <<dossiers, ledger, admitted, answered>>

\* closeLegacyQueuedDossierStoryD7ResearchGapCases, before a research run.
CloseLegacy ==
  /\ D7 /\ gap.status = "QUEUED"
  /\ gap' = [gap EXCEPT !.status = "CLOSED"]
  /\ UNCHANGED <<asked, dossiers, job, ledger, admitted, answered>>

-----------------------------------------------------------------------------
(* Research: claim, freeze the plan, search, complete or release. *)

\* Mutant: an expired claim is not taken over.
GapClaimableQueued == gap.status = "QUEUED"

GapClaimable == gap.status = "QUEUED" \/ (Claimed /\ gap.lapsed)

\* claim_research_gap_cases: the new random token is the number of the attempt.
ClaimCase(a) ==
  /\ Busy(a, "off") /\ GapClaimable /\ gap.attempts < MaxAttempts
  /\ gap' = [gap EXCEPT !.status = "CLAIMED", !.token = gap.attempts + 1, !.lapsed = FALSE,
                        !.attempts = @ + 1]
  /\ Become(a, [pc |-> "claimed", token |-> gap.attempts + 1,
                id |-> [dossier |-> gap.dossier, need |-> gap.need]])
  /\ UNCHANGED <<asked, dossiers, ledger, admitted, answered>>

\* Mutant: any running case of that id.
OwnsById(a) == Claimed

Owns(a) == Claimed /\ gap.token = job[a].token /\ ~gap.lapsed

\* The plan of the row as it was claimed, with the lifecycle of its occurrence.
PlanOf(id) == [id |-> id,
               life |-> (CHOOSE o \in ToSet(asked) : o.dossier = id.dossier).life]

\* start_research_gap_case, fenced by the Dossier the plan rests on.
StartCase(a) ==
  /\ Busy(a, "claimed") /\ Owns(a) /\ gap.dossier = job[a].id.dossier
  /\ gap' = [gap EXCEPT !.status = "RESEARCHING", !.plan = PlanOf(job[a].id)]
  /\ Become(a, [job[a] EXCEPT !.pc = "searching"])
  /\ UNCHANGED <<asked, dossiers, ledger, admitted, answered>>

\* The start action of the execution route reads its own row again first.
ReloadCase(a) ==
  /\ Busy(a, "claimed") /\ gap.status = "CLAIMED" /\ gap.token = job[a].token
  /\ Become(a, [job[a] EXCEPT !.id = [dossier |-> gap.dossier, need |-> gap.need]])
  /\ UNCHANGED <<gap, asked, dossiers, ledger, admitted, answered>>

\* complete_research_gap_case with the verdict of the search on the plan.
CompleteCase(a) ==
  /\ Busy(a, "searching") /\ gap.status = "RESEARCHING" /\ Owns(a)
  /\ \E outcome \in GapOutcome, retry \in BOOLEAN :
       /\ retry => outcome = "UNRESOLVED"
       /\ gap' = [gap EXCEPT !.status = "COMPLETED", !.token = 0, !.lapsed = FALSE,
                    !.verdict = [id |-> job[a].id, outcome |-> outcome, retry |-> retry,
                                 closed |-> Len(dossiers)]]
  /\ answered' = answered \cup {[need |-> job[a].id.need, life |-> gap.plan.life]}
  /\ Become(a, Off)
  /\ UNCHANGED <<asked, dossiers, ledger, admitted>>

\* release_research_gap_case after any error, also when start or complete found
\* the claim or the Dossier gone; the lease may have lapsed.
ReleaseCase(a) ==
  /\ job[a].pc \in {"claimed", "searching"}
  /\ gap' = IF Claimed /\ gap.token = job[a].token
              THEN [gap EXCEPT !.status = "QUEUED", !.token = 0, !.lapsed = FALSE] ELSE gap
  /\ Become(a, Off)
  /\ UNCHANGED <<asked, dossiers, ledger, admitted, answered>>

LeaseLapses ==
  /\ Claimed /\ ~gap.lapsed
  /\ gap' = [gap EXCEPT !.lapsed = TRUE]
  /\ UNCHANGED <<asked, dossiers, job, ledger, admitted, answered>>

-----------------------------------------------------------------------------
(* Handoff: post the run of a finished case, mark the case. *)

\* The cron picks a completed case, a request may name a handed-off one; the row is
\* read again (with the same answer) and its run posted.  /api/research-update
\* replays a completed run with 200, one updated within 15 minutes with 202, and
\* starts any other (again).
PostRun(a) ==
  /\ Busy(a, "off") /\ Finished
  /\ gap.status = "HANDED_OFF" => gap.runKey = gap.plan.id
  /\ LET key == gap.plan.id
         waiting(pc) == [pc |-> pc, id |-> key, outcome |-> gap.verdict.outcome]
     IN IF ledger[key] \in {"completed", "running"}
          THEN Become(a, waiting("mark")) /\ UNCHANGED ledger
          ELSE Become(a, waiting("await")) /\ ledger' = [ledger EXCEPT ![key] = "running"]
  /\ UNCHANGED <<gap, asked, dossiers, admitted, answered>>

\* A D7 case that the current D7 state or a Story review superseded is closed instead.
FindSuperseded(a) ==
  /\ Busy(a, "off") /\ D7 /\ gap.status = "COMPLETED"
  /\ Become(a, [pc |-> "superseded"])
  /\ UNCHANGED <<gap, asked, dossiers, ledger, admitted, answered>>

\* closeSupersededCompletedD7ResearchGapCase.
CloseSuperseded(a) ==
  /\ Busy(a, "superseded")
  /\ gap' = IF gap.status = "COMPLETED" THEN [gap EXCEPT !.status = "CLOSED"] ELSE gap
  /\ Become(a, Off)
  /\ UNCHANGED <<asked, dossiers, ledger, admitted, answered>>

\* The run ends in a process of its own and answers the invocation that started it,
\* if that still waits: 200 when completed, 202 when blocked, an error otherwise.
HandoffRunEnds ==
  \E key \in PlanId, end \in {"completed", "blocked", "failed"} :
    /\ ledger[key] = "running"
    /\ ledger' = [ledger EXCEPT ![key] = IF end = "completed" THEN end ELSE "open"]
    /\ \E some \in BOOLEAN : admitted' = (admitted \/ some)
    /\ job' = [a \in GapActor |->
                 IF ~(Busy(a, "await") /\ job[a].id = key) THEN job[a]
                 ELSE IF end = "failed" THEN Off ELSE [job[a] EXCEPT !.pc = "mark"]]
    /\ UNCHANGED <<gap, asked, dossiers, answered>>

\* mark_research_gap_case_handed_off compares outcome and run key, not the plan.
MarkHandedOff(a) ==
  /\ Busy(a, "mark")
  /\ gap' = IF /\ Finished /\ gap.verdict.outcome = job[a].outcome
               /\ gap.status = "HANDED_OFF" => gap.runKey = job[a].id
              THEN [gap EXCEPT !.status = "HANDED_OFF", !.runKey = job[a].id] ELSE gap
  /\ Become(a, Off)
  /\ UNCHANGED <<asked, dossiers, ledger, admitted, answered>>

GapKilled(a) ==
  /\ job[a] # Off /\ Become(a, Off)
  /\ UNCHANGED <<gap, asked, dossiers, ledger, admitted, answered>>

-----------------------------------------------------------------------------
GapStep(a) ==
  \/ SyncRead(a) \/ Transition(a) \/ Upsert(a)
  \/ ClaimCase(a) \/ ReloadCase(a) \/ StartCase(a) \/ CompleteCase(a) \/ ReleaseCase(a)
  \/ PostRun(a) \/ FindSuperseded(a) \/ CloseSuperseded(a) \/ MarkHandedOff(a)
  \/ GapKilled(a)

GapNext == \/ PersistDossier \/ CloseLegacy \/ LeaseLapses \/ HandoffRunEnds
           \/ \E a \in GapActor : GapStep(a)

\* Leases run out, the platform ends every invocation, and of the cron invocations
\* that come again and again some reach the claim.
GapFairness ==
  /\ WF_gapVars(LeaseLapses)
  /\ \A a \in GapActor : WF_gapVars(GapKilled(a))
  /\ SF_gapVars(\E a \in GapActor : ClaimCase(a))

GapSpec == GapInit /\ [][GapNext]_gapVars /\ GapFairness

-----------------------------------------------------------------------------
Job == {Off, [pc |-> "superseded"]}
  \cup [pc: {"upsert"}, dossier: GapDossier, life: Lifecycle]
  \cup [pc: {"move"}, dossier: GapDossier, life: Lifecycle, move: {"requeue", "close"},
        from: {"HANDED_OFF", "CLOSED"}]
  \cup [pc: {"claimed", "searching"}, token: 1..MaxAttempts, id: PlanId]
  \cup [pc: {"await", "mark"}, id: PlanId, outcome: GapOutcome]

\* Types, and the columns that go with each status: a token with a claim, a plan
\* with research, a verdict with a finished case, a run key with a handoff.
GapTypeOK ==
  /\ job \in [GapActor -> Job]
  /\ ledger \in [PlanId -> {"open", "running", "completed"}]
  /\ dossiers \in Seq(Signature \cup {"none"}) /\ Len(dossiers) <= MaxDossiers
  /\ asked \in Seq([dossier: GapDossier, life: Lifecycle])
  /\ \A i, j \in DOMAIN asked : asked[i].dossier = asked[j].dossier => i = j
  /\ admitted \in BOOLEAN /\ answered \subseteq [need: Lifecycle, life: Lifecycle]
  /\ \/ gap.status = "ABSENT" /\ asked = <<>>
     \/ /\ gap \in [status: {"QUEUED", "CLAIMED", "RESEARCHING", "COMPLETED", "HANDED_OFF", "CLOSED"},
                    dossier: GapDossier, need: Lifecycle, token: 0..MaxAttempts,
                    lapsed: BOOLEAN, attempts: 0..MaxAttempts, plan: Plan \cup {NoPlan},
                    verdict: Verdict \cup {NoVerdict}, runKey: PlanId \cup {NoId}]
        /\ \E o \in ToSet(asked) : o.dossier = gap.dossier
        /\ (gap.token # 0) = Claimed
        /\ gap.status \in {"RESEARCHING", "COMPLETED", "HANDED_OFF"} => gap.plan # NoPlan
        /\ Finished => gap.verdict # NoVerdict
        /\ gap.status = "HANDED_OFF" => gap.runKey # NoId

\* The verdict of a finished case is about the plan frozen in the same row, however
\* claims lapsed, were taken over and were completed late.
VerdictOfItsPlan == Finished => gap.verdict.id = gap.plan.id

\* Every discriminator before this one was the one frozen in a plan that came to a
\* verdict.
Earned(life) == \A i \in 0..life.index - 1 :
                  \E v \in answered : v.life = [life EXCEPT !.index = i]

\* The lifecycle moves on one discriminator at a time, each time after a verdict on
\* the plan that froze the one before, in the row as in what the occurrences record,
\* however many invocations sync the case at once.
AdvancedInOrder ==
  /\ gap.status # "ABSENT" => Earned(gap.need)
  /\ \A o \in ToSet(asked) : Earned(o.life)

\* The code says more, that the handoff "admitted the active discriminator": the row
\* asks for a discriminator only after the row asked for the one before and got a
\* verdict on it.
AskedInOrder ==
  gap.status # "ABSENT" /\ gap.need.index > 0
    => \E v \in answered : v.need = [gap.need EXCEPT !.index = @ - 1]

\* Nobody but the invocation that holds a live claim ends it or changes its plan.
LiveClaimIsKept ==
  [][\A a \in GapActor :
       (job[a].pc \in {"claimed", "searching"} /\ Owns(a) /\ job'[a] = job[a])
         => gap'.token = gap.token /\ gap'.plan = gap.plan]_gapVars

\* A dead invocation does not keep the case: a claim that may be followed by
\* another one comes to an end.
GapClaimsEnd ==
  \A n \in 1..MaxAttempts - 1 : (Claimed /\ gap.token = n) ~> ~(Claimed /\ gap.token = n)
=============================================================================
