--------------------------- MODULE StageClaims_proofs ---------------------------
(* Theorems about StageClaims, for every choice of its constants. *)
EXTENDS StageClaims, TLAPS

-----------------------------------------------------------------------------
(* Type correctness. *)

LEMMA IdleType == Idle \in Invocations
BY NoneAssumption DEF Idle, Invocations

LEMMA TypeInit == Init => TypeOK
<1>1. NoAttempt \in Attempts
  BY DEF NoAttempt, Attempts
<1> QED BY <1>1, IdleType DEF Init, TypeOK, Idle, Holding

\* A step that replaces the local state of one invocation by a good one.
LEMMA InvStep ==
  ASSUME TypeOK, NEW e \in Invocation, NEW i \in Invocations,
         i.pc \in Holding => i.attempt \in Attempt /\ i.stage \in Stage,
         inv' = [inv EXCEPT ![e] = i], attempt' \in [Attempt -> Attempts]
  PROVE  TypeOK'
BY DEF TypeOK

\* What finishStage does to the rows.
LEMMA FinishType ==
  ASSUME TypeOK, NEW e \in Invocation, inv[e].pc \in Holding,
         NEW status \in {"completed", "failed"}, Finish(e, status)
  PROVE  attempt' \in [Attempt -> Attempts]
BY DEF TypeOK, Finish, Attempts

LEMMA TypeNext == TypeOK /\ [Next]_vars => TypeOK'
<1> SUFFICES ASSUME TypeOK, [Next]_vars PROVE TypeOK'
  OBVIOUS
<1>t. attempt \in [Attempt -> Attempts] /\ inv \in [Invocation -> Invocations]
  BY DEF TypeOK
<1>1. CASE Tick
  <2>1. attempt' \in [Attempt -> Attempts]
    BY <1>t, <1>1 DEF Tick, Attempts
  <2>2. inv' \in [Invocation -> Invocations]
    BY <1>t, <1>1 DEF Tick, Invocations, At
  <2>3. \A e \in Invocation : /\ inv'[e].pc = inv[e].pc /\ inv'[e].stage = inv[e].stage
                              /\ inv'[e].attempt = inv[e].attempt
    BY <1>t, <1>1 DEF Tick, Invocations, At
  <2> QED BY <2>1, <2>2, <2>3 DEF TypeOK
<1>2. ASSUME NEW e \in Invocation, Work(e) \/ End(e) PROVE TypeOK'
  <2>i. inv[e] \in Invocations
    BY <1>t
  <2>1. CASE Begin(e)
    <3> DEFINE i == [inv[e] EXCEPT !.pc = "load"]
    <3>1. i \in Invocations /\ i.pc \notin Holding
      BY <2>i DEF Invocations, Holding
    <3> QED BY <3>1, <2>1, <1>t, InvStep DEF Begin
  <2>2. CASE LoadCheckpoints(e)
    <3>1. PICK o \in [Stage -> Attempt \cup {None}] :
            inv' = [inv EXCEPT ![e].outputs = o, ![e].pc = "next"]
      BY <2>2 DEF LoadCheckpoints
    <3> DEFINE i == [inv[e] EXCEPT !.outputs = o, !.pc = "next"]
    <3>2. i \in Invocations /\ i.pc \notin Holding
      BY <2>i DEF Invocations, Holding
    <3>3. inv' = [inv EXCEPT ![e] = i]
      BY <3>1
    <3> QED BY <3>2, <3>3, <2>2, <1>t, InvStep DEF LoadCheckpoints
  <2>3. ASSUME NEW s \in Stage, ReuseCompleted(e, s) PROVE TypeOK'
    <3>1. PICK a \in Completed(s) : inv' = [inv EXCEPT ![e].outputs[s] = a]
      BY <2>3 DEF ReuseCompleted
    <3> DEFINE i == [inv[e] EXCEPT !.outputs[s] = a]
    <3>2. i \in Invocations /\ i.pc \notin Holding
      BY <2>i, <2>3, <3>1 DEF Invocations, Holding, ReuseCompleted, Pending, At, Completed
    <3>3. inv' = [inv EXCEPT ![e] = i]
      BY <3>1
    <3> QED BY <3>2, <3>3, <2>3, <1>t, InvStep DEF ReuseCompleted
  <2>4. CASE (\E s \in Stage : FindBusy(e, s)) \/ End(e)
    <3>1. inv' = [inv EXCEPT ![e] = Idle] /\ attempt' = attempt
      BY <2>4 DEF FindBusy, End
    <3> QED BY <3>1, <1>t, IdleType, InvStep DEF Idle, Holding
  <2>5. ASSUME NEW s \in Stage, ClaimStage(e, s) PROVE TypeOK'
    <3>1. PICK a \in Attempt :
            /\ attempt' = [b \in Attempt |->
                 IF b = a THEN [stage |-> s, status |-> "started", age |-> 0,
                                from |-> IF s = 1 THEN None ELSE inv[e].outputs[s - 1]]
                 ELSE IF b \in Expired(s) THEN [attempt[b] EXCEPT !.status = "failed"]
                 ELSE attempt[b]]
            /\ inv' = [inv EXCEPT ![e].pc = "model", ![e].stage = s, ![e].attempt = a]
      BY <2>5 DEF ClaimStage
    <3>2. (IF s = 1 THEN None ELSE inv[e].outputs[s - 1]) \in Attempt \cup {None}
      <4>1. CASE s = 1
        BY <4>1
      <4>2. CASE s # 1
        <5>1. s - 1 \in Stage
          BY <2>5, <4>2, StagesAssumption DEF Stage
        <5> QED BY <5>1, <2>i, <4>2 DEF Invocations
      <4> QED BY <4>1, <4>2
    <3>3. attempt' \in [Attempt -> Attempts]
      BY <3>1, <3>2, <1>t DEF Attempts
    <3> DEFINE i == [inv[e] EXCEPT !.pc = "model", !.stage = s, !.attempt = a]
    <3>4. i \in Invocations /\ i.attempt \in Attempt /\ i.stage \in Stage
      BY <2>i DEF Invocations, Holding
    <3>5. inv' = [inv EXCEPT ![e] = i]
      BY <3>1
    <3> QED BY <3>3, <3>4, <3>5, InvStep
  <2>6. CASE CallModel(e)
    <3>1. PICK n \in {"save", "fail"} : inv' = [inv EXCEPT ![e].pc = n]
      BY <2>6 DEF CallModel
    <3> DEFINE i == [inv[e] EXCEPT !.pc = n]
    <3>2. i \in Invocations /\ i.attempt \in Attempt /\ i.stage \in Stage
      BY <2>i, <2>6 DEF Invocations, Holding, CallModel, At, TypeOK
    <3> QED BY <3>1, <3>2, <2>6, <1>t, InvStep DEF CallModel
  <2>7. CASE SaveOutput(e)
    <3> DEFINE i == [inv[e] EXCEPT !.outputs[inv[e].stage] = inv[e].attempt, !.attempt = None,
                                   !.stage = 0, !.pc = "next"]
    <3>1. inv[e].attempt \in Attempt /\ inv[e].stage \in Stage
      BY <2>7 DEF SaveOutput, At, TypeOK, Holding
    <3>2. i \in Invocations /\ i.pc \notin Holding
      BY <2>i, <3>1 DEF Invocations, Holding
    <3>3. inv' = [inv EXCEPT ![e] = i]
      BY <2>7 DEF SaveOutput
    <3>4. attempt' \in [Attempt -> Attempts]
      BY <2>7, FinishType DEF SaveOutput, At, Holding
    <3> QED BY <3>2, <3>3, <3>4, InvStep
  <2>8. CASE SaveOutputFails(e)
    <3> DEFINE i == [inv[e] EXCEPT !.pc = "fail"]
    <3>1. i \in Invocations /\ i.attempt \in Attempt /\ i.stage \in Stage
      BY <2>i, <2>8 DEF Invocations, Holding, SaveOutputFails, At, TypeOK
    <3>2. inv' = [inv EXCEPT ![e] = i]
      BY <2>8 DEF SaveOutputFails
    <3>3. attempt' \in [Attempt -> Attempts]
      BY <2>8, <1>t, FinishType DEF SaveOutputFails, At, Holding
    <3> QED BY <3>1, <3>2, <3>3, InvStep
  <2>9. CASE SaveFailure(e)
    <3>1. attempt' \in [Attempt -> Attempts]
      BY <2>9, <1>t, FinishType DEF SaveFailure, At, Holding
    <3> QED BY <3>1, <2>9, IdleType, InvStep DEF SaveFailure, Idle, Holding
  <2> QED BY <1>2, <2>1, <2>2, <2>3, <2>4, <2>5, <2>6, <2>7, <2>8, <2>9 DEF Work
<1>3. CASE UNCHANGED vars
  BY <1>3 DEF vars, TypeOK
<1> QED BY <1>1, <1>2, <1>3 DEF Next

\* Every variable keeps its type, whatever the number of stages, invocations and attempts.
THEOREM TypeCorrect == Spec => []TypeOK
<1> QED BY TypeInit, TypeNext, PTL DEF Spec

-----------------------------------------------------------------------------
(* One model call, one output.  OneModelCall and OneOutput are not inductive: *)
(* a claim must also be known to be in its lease as long as its invocation    *)
(* lives, and a stage that is worked on to have no other output.              *)

Held(e) ==
  LET a == attempt[inv[e].attempt]
  IN /\ a.stage = inv[e].stage
     /\ a.status \in {"started", "completed"}
     /\ a.age <= inv[e].life
     /\ inv[e].pc # "fail" => a.status = "started" /\ Completed(inv[e].stage) = {}
InLimit == \A e \in Invocation : inv[e].life <= Limit
ClaimsHeld == \A e \in Invocation : inv[e].pc \in Holding => Held(e)
IInv == TypeOK /\ InLimit /\ ClaimsHeld /\ OneModelCall /\ OneOutput

\* The claim of a live invocation has not expired.
LEMMA HeldNotExpired ==
  ASSUME IInv, NEW e \in Invocation, inv[e].pc \in Holding, NEW s
  PROVE  /\ inv[e].attempt \notin Expired(s)
         /\ inv[e].attempt \in Completed(inv[e].stage) \cup (Started(inv[e].stage) \ Expired(inv[e].stage))
<1>1. attempt[inv[e].attempt].age <= Lease
  <2>1. inv[e].attempt \in Attempt /\ attempt[inv[e].attempt].age \in Nat /\ inv[e].life \in Nat
    BY DEF IInv, TypeOK, Attempts, Invocations
  <2> QED BY <2>1, TimeAssumption DEF IInv, InLimit, ClaimsHeld, Held
<1>2. attempt[inv[e].attempt].age \in Nat /\ inv[e].attempt \in Attempt
  BY DEF IInv, TypeOK, Attempts
<1>3. ~(attempt[inv[e].attempt].age > Lease)
  BY <1>1, <1>2, TimeAssumption
<1>4. inv[e].attempt \notin Expired(s) /\ inv[e].attempt \notin Expired(inv[e].stage)
  BY <1>3 DEF Expired
<1> QED BY <1>2, <1>4 DEF IInv, ClaimsHeld, Held, Completed, Started

LEMMA InvariantInit == Init => IInv
<1> SUFFICES ASSUME Init PROVE IInv
  OBVIOUS
<1>1. \A e \in Invocation : inv[e].life = 0 /\ inv[e].pc \notin Holding
  BY DEF Init, Idle, Holding
<1>2. \A s : Completed(s) = {}
  BY DEF Init, NoAttempt, Completed
<1>3. InLimit
  BY <1>1, TimeAssumption DEF InLimit
<1> QED BY <1>1, <1>2, <1>3, TypeInit DEF IInv, ClaimsHeld, OneModelCall, OneOutput

\* A step of one invocation that leaves the rows alone and holds nothing afterwards.
LEMMA QuietStep ==
  ASSUME IInv, TypeOK', NEW e \in Invocation, NEW i, i.pc \notin Holding, i.life <= Limit,
         inv' = [inv EXCEPT ![e] = i], attempt' = attempt
  PROVE  IInv'
<1>1. \A f \in Invocation : inv'[f] = IF f = e THEN i ELSE inv[f]
  BY DEF IInv, TypeOK
<1>2. \A s : Completed(s)' = Completed(s)
  BY DEF Completed
<1>3. InLimit'
  BY <1>1 DEF IInv, InLimit
<1>4. ClaimsHeld'
  BY <1>1, <1>2 DEF IInv, ClaimsHeld, Held
<1>5. OneModelCall' /\ OneOutput'
  BY <1>1, <1>2 DEF IInv, OneModelCall, OneOutput
<1> QED BY <1>3, <1>4, <1>5 DEF IInv

\* finishStage changes neither the claims of others nor the outputs of other stages.
LEMMA FinishOthers ==
  ASSUME IInv, NEW e \in Invocation, inv[e].pc \in Holding, NEW s, s = inv[e].stage,
         NEW status \in {"completed", "failed"}, Finish(e, status)
  PROVE  /\ \A f \in Invocation \ {e} : inv[f].pc \in Holding =>
              /\ attempt'[inv[f].attempt] = attempt[inv[f].attempt]
              /\ inv[f].stage # s
         /\ \A t : t # s => Completed(t)' = Completed(t)
         /\ attempt'[inv[e].attempt] = [attempt[inv[e].attempt] EXCEPT !.status = status]
         /\ status = "completed" => Completed(s)' = Completed(s) \cup {inv[e].attempt}
         /\ status = "failed" => Completed(s)' = Completed(s) \ {inv[e].attempt}
<1> DEFINE a == inv[e].attempt
<1>1. a \in Attempt /\ attempt \in [Attempt -> Attempts] /\ attempt[a].stage = inv[e].stage
  BY DEF IInv, TypeOK, ClaimsHeld, Held
<1>2. attempt' = [attempt EXCEPT ![a].status = status]
  BY DEF Finish
<1>3. attempt'[a] = [attempt[a] EXCEPT !.status = status] /\ \A b \in Attempt \ {a} : attempt'[b] = attempt[b]
  BY <1>1, <1>2
<1>4. /\ \A b \in Attempt : attempt'[b].stage = attempt[b].stage
      /\ attempt'[a].status = status
      /\ \A b \in Attempt \ {a} : attempt'[b].status = attempt[b].status
  BY <1>1, <1>3 DEF Attempts
<1>5. ASSUME NEW f \in Invocation \ {e}, inv[f].pc \in Holding
      PROVE  inv[f].stage # inv[e].stage /\ attempt'[inv[f].attempt] = attempt[inv[f].attempt]
  <2>1. inv[f].stage # inv[e].stage
    BY <1>5 DEF IInv, OneModelCall
  <2>2. inv[f].attempt \in Attempt /\ attempt[inv[f].attempt].stage = inv[f].stage
    BY <1>5 DEF IInv, TypeOK, ClaimsHeld, Held
  <2> QED BY <2>1, <2>2, <1>1, <1>3
<1>6. \A t : t # s => Completed(t)' = Completed(t)
  BY <1>1, <1>4 DEF Completed
<1>7. status = "completed" => Completed(s)' = Completed(s) \cup {a}
  BY <1>1, <1>4 DEF Completed
<1>8. status = "failed" => Completed(s)' = Completed(s) \ {a}
  BY <1>1, <1>4 DEF Completed
<1> QED BY <1>3, <1>5, <1>6, <1>7, <1>8

LEMMA StepTick == ASSUME IInv, TypeOK', Tick PROVE IInv'
<1>t. attempt \in [Attempt -> Attempts] /\ inv \in [Invocation -> Invocations]
  BY DEF IInv, TypeOK
<1>1. \A e \in Invocation : /\ inv'[e] = IF At(e, "idle") THEN inv[e] ELSE [inv[e] EXCEPT !.life = @ + 1]
                            /\ inv'[e].pc = inv[e].pc /\ inv'[e].stage = inv[e].stage
                            /\ inv'[e].attempt = inv[e].attempt
                            /\ inv'[e].life = IF At(e, "idle") THEN inv[e].life ELSE inv[e].life + 1
  BY <1>t DEF Tick, Invocations
<1>2. \A a \in Attempt : /\ attempt'[a].stage = attempt[a].stage /\ attempt'[a].status = attempt[a].status
                         /\ attempt'[a].age \in {attempt[a].age, attempt[a].age + 1}
  BY <1>t DEF Tick, Attempts
<1>3. \A s : Completed(s)' = Completed(s)
  BY <1>2 DEF Completed
<1>4. InLimit'
  <2> SUFFICES ASSUME NEW e \in Invocation PROVE inv'[e].life <= Limit
    BY DEF InLimit
  <2>1. inv[e].life <= Limit /\ inv[e].life \in Nat
    BY <1>t DEF IInv, InLimit, Invocations
  <2>2. ~At(e, "idle") => inv[e].life < Limit
    BY DEF Tick
  <2>3. CASE At(e, "idle")
    BY <2>1, <2>3, <1>1
  <2>4. CASE ~At(e, "idle")
    <3>1. inv'[e].life = inv[e].life + 1
      BY <2>4, <1>1
    <3> QED BY <3>1, <2>1, <2>2, <2>4, TimeAssumption
  <2> QED BY <2>3, <2>4
<1>5. ClaimsHeld'
  <2> SUFFICES ASSUME NEW e \in Invocation, inv[e].pc \in Holding PROVE Held(e)'
    BY <1>1 DEF ClaimsHeld
  <2>1. Held(e) /\ ~At(e, "idle") /\ inv[e].attempt \in Attempt
    BY DEF IInv, ClaimsHeld, TypeOK, At, Holding
  <2>2. attempt'[inv[e].attempt].age <= inv'[e].life
    <3>1. attempt[inv[e].attempt].age \in Nat /\ inv[e].life \in Nat
      BY <2>1, <1>t DEF Attempts, Invocations
    <3>2. inv'[e].life = inv[e].life + 1
      BY <2>1, <1>1
    <3>3. attempt[inv[e].attempt].age <= inv[e].life
      BY <2>1 DEF Held
    <3>4. attempt'[inv[e].attempt].age \in {attempt[inv[e].attempt].age, attempt[inv[e].attempt].age + 1}
      BY <2>1, <1>2
    <3> QED BY <3>1, <3>2, <3>3, <3>4
  <2> QED BY <2>1, <2>2, <1>1, <1>2, <1>3 DEF Held
<1>6. OneModelCall'
  <2>1. \A e \in Invocation : inv'[e].pc = inv[e].pc /\ inv'[e].stage = inv[e].stage
    BY <1>1
  <2>2. OneModelCall
    BY DEF IInv
  <2> QED BY ONLY <2>1, <2>2 DEF OneModelCall
<1>7. OneOutput'
  BY <1>3 DEF IInv, OneOutput
<1> QED BY <1>4, <1>5, <1>6, <1>7 DEF IInv

\* A claim takes an unused attempt and gives up expired ones: no completed one.
LEMMA CompletedKept ==
  ASSUME IInv, NEW e \in Invocation, NEW s \in Stage, ClaimStage(e, s)
  PROVE  \A t : Completed(t)' = Completed(t)
<1>t. attempt \in [Attempt -> Attempts]
  BY DEF IInv, TypeOK
<1>1. PICK a \in Attempt :
        /\ Unused(a)
        /\ attempt' = [b \in Attempt |->
             IF b = a THEN [stage |-> s, status |-> "started", age |-> 0,
                            from |-> IF s = 1 THEN None ELSE inv[e].outputs[s - 1]]
             ELSE IF b \in Expired(s) THEN [attempt[b] EXCEPT !.status = "failed"]
             ELSE attempt[b]]
  BY DEF ClaimStage
<1>2. \A b \in Attempt : attempt'[b].status = "completed" <=> attempt[b].status = "completed"
  BY <1>t, <1>1 DEF Unused, Expired, Started, Attempts
<1>3. \A b \in Attempt : attempt[b].status = "completed" => attempt'[b] = attempt[b]
  BY <1>t, <1>1 DEF Unused, Expired, Started, Attempts
<1> QED BY <1>2, <1>3 DEF Completed

LEMMA StepClaim ==
  ASSUME IInv, TypeOK', NEW e \in Invocation, NEW s \in Stage, ClaimStage(e, s) PROVE IInv'
<1>t. attempt \in [Attempt -> Attempts] /\ inv \in [Invocation -> Invocations]
  BY DEF IInv, TypeOK
<1>1. PICK a \in Attempt :
        /\ Unused(a)
        /\ attempt' = [b \in Attempt |->
             IF b = a THEN [stage |-> s, status |-> "started", age |-> 0,
                            from |-> IF s = 1 THEN None ELSE inv[e].outputs[s - 1]]
             ELSE IF b \in Expired(s) THEN [attempt[b] EXCEPT !.status = "failed"]
             ELSE attempt[b]]
        /\ inv' = [inv EXCEPT ![e].pc = "model", ![e].stage = s, ![e].attempt = a]
  BY DEF ClaimStage
<1>2. inv'[e] = [inv[e] EXCEPT !.pc = "model", !.stage = s, !.attempt = a]
  BY <1>t, <1>1
<1>3. /\ inv'[e].pc = "model" /\ inv'[e].stage = s /\ inv'[e].attempt = a /\ inv'[e].life = inv[e].life
      /\ \A f \in Invocation \ {e} : inv'[f] = inv[f]
  BY <1>t, <1>1, <1>2 DEF Invocations
<1>4. /\ attempt'[a].stage = s /\ attempt'[a].status = "started" /\ attempt'[a].age = 0
      /\ \A b \in Attempt \ ({a} \cup Expired(s)) : attempt'[b] = attempt[b]
  BY <1>1
<1>5. \A t : Completed(t)' = Completed(t)
  BY CompletedKept
<1>6. \A f \in Invocation \ {e} : inv[f].pc \in Holding =>
        /\ attempt'[inv[f].attempt] = attempt[inv[f].attempt]
        /\ inv[f].stage # s
  <2> SUFFICES ASSUME NEW f \in Invocation \ {e}, inv[f].pc \in Holding
               PROVE  attempt'[inv[f].attempt] = attempt[inv[f].attempt] /\ inv[f].stage # s
    OBVIOUS
  <2>1. inv[f].attempt \in Attempt \ ({a} \cup Expired(s))
    BY <1>1, HeldNotExpired DEF Unused, IInv, TypeOK
  <2>2. Completed(s) = {} /\ Started(s) \ Expired(s) = {}
    BY DEF ClaimStage, Claimable
  <2>3. inv[f].stage # s
    BY <2>2, HeldNotExpired
  <2> QED BY <2>1, <2>3, <1>4
<1>7. InLimit'
  BY <1>3 DEF IInv, InLimit
<1>8. ClaimsHeld'
  <2>1. Held(e)'
    <3>1. inv[e].life \in Nat /\ Completed(s) = {}
      BY <1>t DEF Invocations, ClaimStage, Claimable
    <3> QED BY <3>1, <1>3, <1>4, <1>5 DEF Held
  <2>2. \A f \in Invocation \ {e} : inv[f].pc \in Holding => Held(f)'
    BY <1>3, <1>5, <1>6 DEF IInv, ClaimsHeld, Held
  <2> QED BY <2>1, <2>2, <1>3 DEF ClaimsHeld
<1>9. OneModelCall' /\ OneOutput'
  BY <1>3, <1>5, <1>6 DEF IInv, OneModelCall, OneOutput
<1> QED BY <1>7, <1>8, <1>9 DEF IInv

\* A holder moves on within its claim.
LEMMA HoldStep ==
  ASSUME IInv, TypeOK', NEW e \in Invocation, inv[e].pc \in {"model", "save"}, NEW pc \in {"save", "fail"},
         inv' = [inv EXCEPT ![e].pc = pc], attempt' = attempt
  PROVE  IInv'
<1>1. \A f \in Invocation : /\ inv'[f].life = inv[f].life /\ inv'[f].stage = inv[f].stage
                            /\ inv'[f].attempt = inv[f].attempt
                            /\ inv'[f].pc = IF f = e THEN pc ELSE inv[f].pc
  BY DEF IInv, TypeOK, Invocations
<1>2. \A s : Completed(s)' = Completed(s)
  BY DEF Completed
<1>3. inv[e].pc \in Holding /\ pc \in Holding /\ inv[e].pc # "fail"
  BY DEF Holding
<1>4. InLimit'
  BY <1>1 DEF IInv, InLimit
<1>5. ClaimsHeld'
  BY <1>1, <1>2, <1>3 DEF IInv, ClaimsHeld, Held
<1>6. OneModelCall' /\ OneOutput'
  BY <1>1, <1>2, <1>3 DEF IInv, OneModelCall, OneOutput
<1> QED BY <1>4, <1>5, <1>6 DEF IInv

\* A holder stores its output and does not know.
LEMMA StoreStep ==
  ASSUME IInv, TypeOK', NEW e \in Invocation, inv[e].pc = "save",
         inv' = [inv EXCEPT ![e].pc = "fail"], Finish(e, "completed")
  PROVE  IInv'
<1> DEFINE s == inv[e].stage
<1>1. \A f \in Invocation : /\ inv'[f].life = inv[f].life /\ inv'[f].stage = inv[f].stage
                            /\ inv'[f].attempt = inv[f].attempt
                            /\ inv'[f].pc = IF f = e THEN "fail" ELSE inv[f].pc
  BY DEF IInv, TypeOK, Invocations
<1>2. /\ \A f \in Invocation \ {e} : inv[f].pc \in Holding =>
           attempt'[inv[f].attempt] = attempt[inv[f].attempt] /\ inv[f].stage # s
      /\ \A t : t # s => Completed(t)' = Completed(t)
      /\ attempt'[inv[e].attempt] = [attempt[inv[e].attempt] EXCEPT !.status = "completed"]
  BY FinishOthers DEF Holding
<1>3. \A t : t = s => Completed(t)' = Completed(t) \cup {inv[e].attempt}
  BY FinishOthers DEF Holding
<1>4. Held(e) /\ Completed(s) = {}
  BY DEF IInv, ClaimsHeld, Holding, Held
<1>5. InLimit'
  BY <1>1 DEF IInv, InLimit
<1>6. ClaimsHeld'
  <2>1. attempt[inv[e].attempt] \in Attempts
    BY DEF IInv, TypeOK, Holding
  <2>2. Held(e)'
    BY <1>1, <1>2, <1>4, <2>1 DEF Held, Attempts
  <2>3. \A f \in Invocation \ {e} : inv[f].pc \in Holding => Held(f)'
    BY <1>1, <1>2 DEF IInv, ClaimsHeld, Held
  <2> QED BY <2>2, <2>3, <1>1 DEF ClaimsHeld
<1>7. OneModelCall'
  BY <1>1 DEF IInv, OneModelCall, Holding
<1>8. OneOutput'
  BY <1>2, <1>3, <1>4 DEF IInv, OneOutput
<1> QED BY <1>5, <1>6, <1>7, <1>8 DEF IInv

\* A holder writes its attempt and holds nothing afterwards.
LEMMA LeaveStep ==
  ASSUME IInv, TypeOK', NEW e \in Invocation, NEW i, i.pc \notin Holding, i.life <= Limit,
         inv' = [inv EXCEPT ![e] = i],
         \/ inv[e].pc = "save" /\ Finish(e, "completed")
         \/ inv[e].pc = "fail" /\ Finish(e, "failed")
  PROVE  IInv'
<1> DEFINE s == inv[e].stage
<1>1. \A f \in Invocation : inv'[f] = IF f = e THEN i ELSE inv[f]
  BY DEF IInv, TypeOK
<1>2. /\ \A f \in Invocation \ {e} : inv[f].pc \in Holding =>
           attempt'[inv[f].attempt] = attempt[inv[f].attempt] /\ inv[f].stage # s
      /\ \A t : t # s => Completed(t)' = Completed(t)
  BY FinishOthers DEF Holding
<1>3. \/ Completed(s) = {} /\ \A t : t = s => Completed(t)' = Completed(t) \cup {inv[e].attempt}
      \/ \A t : t = s => Completed(t)' = Completed(t) \ {inv[e].attempt}
  <2>1. CASE inv[e].pc = "save" /\ Finish(e, "completed")
    <3>1. Completed(s) = {}
      BY <2>1 DEF IInv, ClaimsHeld, Holding, Held
    <3>2. \A t : t = s => Completed(t)' = Completed(t) \cup {inv[e].attempt}
      BY <2>1, FinishOthers DEF Holding
    <3> QED BY <3>1, <3>2
  <2>2. CASE inv[e].pc = "fail" /\ Finish(e, "failed")
    BY <2>2, FinishOthers DEF Holding
  <2> QED BY <2>1, <2>2
<1>4. InLimit'
  BY <1>1 DEF IInv, InLimit
<1>5. ClaimsHeld'
  BY <1>1, <1>2 DEF IInv, ClaimsHeld, Held
<1>6. OneModelCall'
  BY <1>1 DEF IInv, OneModelCall
<1>7. OneOutput'
  BY <1>2, <1>3 DEF IInv, OneOutput
<1> QED BY <1>4, <1>5, <1>6, <1>7 DEF IInv

LEMMA InvariantNext == IInv /\ [Next]_vars => IInv'
<1> SUFFICES ASSUME IInv, [Next]_vars PROVE IInv'
  OBVIOUS
<1>t. /\ TypeOK'
      /\ attempt \in [Attempt -> Attempts] /\ inv \in [Invocation -> Invocations]
  BY TypeNext DEF IInv, TypeOK
<1>1. CASE Tick
  BY <1>t, <1>1, StepTick
<1>2. ASSUME NEW e \in Invocation, Work(e) \/ End(e) PROVE IInv'
  <2>i. inv[e] \in Invocations /\ inv[e].life <= Limit /\ Idle.life <= Limit
    BY <1>t, TimeAssumption DEF IInv, InLimit, Idle
  <2>1. CASE Begin(e)
    <3> DEFINE i == [inv[e] EXCEPT !.pc = "load"]
    <3>1. i.pc \notin Holding /\ i.life <= Limit
      BY <2>i DEF Invocations, Holding
    <3> QED BY <3>1, <2>1, <1>t, QuietStep DEF Begin
  <2>2. CASE LoadCheckpoints(e)
    <3>1. PICK o \in [Stage -> Attempt \cup {None}] :
            inv' = [inv EXCEPT ![e].outputs = o, ![e].pc = "next"]
      BY <2>2 DEF LoadCheckpoints
    <3> DEFINE i == [inv[e] EXCEPT !.outputs = o, !.pc = "next"]
    <3>2. i.pc \notin Holding /\ i.life <= Limit /\ inv' = [inv EXCEPT ![e] = i]
      BY <2>i, <3>1 DEF Invocations, Holding
    <3> QED BY <3>2, <2>2, <1>t, QuietStep DEF LoadCheckpoints
  <2>3. ASSUME NEW s \in Stage, ReuseCompleted(e, s) PROVE IInv'
    <3>1. PICK a \in Completed(s) : inv' = [inv EXCEPT ![e].outputs[s] = a]
      BY <2>3 DEF ReuseCompleted
    <3> DEFINE i == [inv[e] EXCEPT !.outputs[s] = a]
    <3>2. i.pc \notin Holding /\ i.life <= Limit /\ inv' = [inv EXCEPT ![e] = i]
      BY <2>i, <2>3, <3>1 DEF Invocations, Holding, ReuseCompleted, Pending, At
    <3> QED BY <3>2, <2>3, <1>t, QuietStep DEF ReuseCompleted
  <2>4. CASE (\E s \in Stage : FindBusy(e, s)) \/ End(e)
    <3>1. inv' = [inv EXCEPT ![e] = Idle] /\ attempt' = attempt
      BY <2>4 DEF FindBusy, End
    <3>2. Idle.pc \notin Holding
      BY DEF Idle, Holding
    <3> QED BY <3>1, <3>2, <2>i, <1>t, QuietStep
  <2>5. ASSUME NEW s \in Stage, ClaimStage(e, s) PROVE IInv'
    BY <2>5, <1>t, StepClaim
  <2>6. CASE CallModel(e)
    <3>1. PICK n \in {"save", "fail"} : inv' = [inv EXCEPT ![e].pc = n]
      BY <2>6 DEF CallModel
    <3>2. inv[e].pc = "model" /\ attempt' = attempt
      BY <2>6 DEF CallModel, At
    <3> QED BY <3>1, <3>2, <1>t, HoldStep
  <2>7. CASE SaveOutput(e)
    <3> DEFINE i == [inv[e] EXCEPT !.outputs[inv[e].stage] = inv[e].attempt, !.attempt = None,
                                   !.stage = 0, !.pc = "next"]
    <3>1. i.pc \notin Holding /\ i.life <= Limit /\ inv' = [inv EXCEPT ![e] = i]
      BY <2>i, <2>7 DEF Invocations, Holding, SaveOutput
    <3>2. inv[e].pc = "save" /\ Finish(e, "completed")
      BY <2>7 DEF SaveOutput, At
    <3> QED BY <3>1, <3>2, <1>t, LeaveStep
  <2>8. CASE SaveOutputFails(e)
    <3>1. inv[e].pc = "save" /\ inv' = [inv EXCEPT ![e].pc = "fail"]
      BY <2>8 DEF SaveOutputFails, At
    <3>2. CASE attempt' = attempt
      BY <3>1, <3>2, <1>t, HoldStep
    <3>3. CASE Finish(e, "completed")
      BY <3>1, <3>3, <1>t, StoreStep
    <3> QED BY <2>8, <3>2, <3>3 DEF SaveOutputFails
  <2>9. CASE SaveFailure(e)
    <3>1. inv[e].pc = "fail" /\ inv' = [inv EXCEPT ![e] = Idle] /\ Idle.pc \notin Holding
      BY <2>9 DEF SaveFailure, At, Idle, Holding
    <3>2. CASE attempt' = attempt
      BY <3>1, <3>2, <2>i, <1>t, QuietStep
    <3>3. CASE Finish(e, "failed")
      BY <3>1, <3>3, <2>i, <1>t, LeaveStep
    <3> QED BY <2>9, <3>2, <3>3 DEF SaveFailure
  <2> QED BY <1>2, <2>1, <2>2, <2>3, <2>4, <2>5, <2>6, <2>7, <2>8, <2>9 DEF Work
<1>3. CASE UNCHANGED vars
  BY <1>3 DEF vars, IInv, TypeOK, InLimit, ClaimsHeld, Held, OneModelCall, OneOutput, Completed
<1> QED BY <1>1, <1>2, <1>3 DEF Next

\* "concurrent continuation claims allow only one model invocation for a required
\* stage", whatever dies, expires or gets lost.
THEOREM OneModelCallAtATime == Spec => []OneModelCall
<1>1. IInv => OneModelCall
  BY DEF IInv
<1> QED BY <1>1, InvariantInit, InvariantNext, PTL DEF Spec

\* No stage ever has two outputs that later stages could choose from.
THEOREM OneOutputPerStage == Spec => []OneOutput
<1>1. IInv => OneOutput
  BY DEF IInv
<1> QED BY <1>1, InvariantInit, InvariantNext, PTL DEF Spec

-----------------------------------------------------------------------------
(* The claims implement the lock.                                          *)

Holders == [s \in Stage |-> HoldersOf(s)]
Done == [s \in Stage |-> Completed(s) # {}]

LEMMA LockInit == Init => Lock!Init
<1> SUFFICES ASSUME Init PROVE Lock!Init
  OBVIOUS
<1>1. \A s \in Stage : HoldersOf(s) = {}
  BY DEF Init, HoldersOf, Idle, Holding
<1>2. \A s \in Stage : Completed(s) = {}
  BY DEF Init, NoAttempt, Completed
<1> QED BY <1>1, <1>2 DEF Lock!Init

\* Who holds a stage holds it alone.
LEMMA HolderAlone ==
  ASSUME IInv, NEW e \in Invocation, inv[e].pc \in Holding
  PROVE  HoldersOf(inv[e].stage) = {e}
BY DEF IInv, OneModelCall, HoldersOf

\* Steps that the lock does not see.
LEMMA LockStutter ==
  ASSUME \A f \in Invocation : /\ inv'[f].pc \in Holding <=> inv[f].pc \in Holding
                               /\ inv[f].pc \in Holding => inv'[f].stage = inv[f].stage,
         \A s \in Stage : Completed(s)' = Completed(s)
  PROVE  UNCHANGED Lock!vars
<1>1. \A s \in Stage : HoldersOf(s)' = HoldersOf(s)
  BY DEF HoldersOf
<1> QED BY <1>1 DEF Lock!vars

\* A step after which a holder holds nothing, or still holds the same.
LEMMA LockHolder ==
  ASSUME IInv, NEW e \in Invocation, inv[e].pc \in Holding, NEW s \in Stage, s = inv[e].stage,
         \A f \in Invocation \ {e} : inv'[f] = inv[f],
         inv'[e].pc \notin Holding \/ (inv'[e].pc \in Holding /\ inv'[e].stage = s)
  PROVE  /\ Holders[s] = {e}
         /\ inv'[e].pc \notin Holding => Holders' = [Holders EXCEPT ![s] = {}]
         /\ inv'[e].pc \in Holding => Holders' = Holders
<1>1. HoldersOf(s) = {e}
  BY HolderAlone
<1>2. \A t \in Stage \ {s} : HoldersOf(t)' = HoldersOf(t)
  BY DEF HoldersOf
<1>3. inv'[e].pc \notin Holding => HoldersOf(s)' = {}
  BY <1>1 DEF HoldersOf
<1>4. inv'[e].pc \in Holding => HoldersOf(s)' = HoldersOf(s)
  BY <1>1 DEF HoldersOf
<1> QED BY <1>1, <1>2, <1>3, <1>4 DEF Holders

LEMMA LockTake ==
  ASSUME IInv, NEW e \in Invocation, NEW s \in Stage, ClaimStage(e, s)
  PROVE  Lock!Take(e, s)
<1>t. attempt \in [Attempt -> Attempts] /\ inv \in [Invocation -> Invocations]
  BY DEF IInv, TypeOK
<1>1. Completed(s) = {} /\ Started(s) \ Expired(s) = {} /\ inv[e].pc = "next"
  BY DEF ClaimStage, Claimable, Pending, At
<1>2. HoldersOf(s) = {}
  BY <1>1, HeldNotExpired DEF HoldersOf
<1>3. /\ inv'[e].pc = "model" /\ inv'[e].stage = s
      /\ \A f \in Invocation \ {e} : inv'[f] = inv[f]
  BY <1>t DEF ClaimStage, Invocations
<1>4. HoldersOf(s)' = {e}
  BY <1>2, <1>3 DEF HoldersOf, Holding
<1>5. \A t \in Stage \ {s} : HoldersOf(t)' = HoldersOf(t)
  BY <1>1, <1>3 DEF HoldersOf, Holding
<1>6. \A t \in Stage : Completed(t)' = Completed(t)
  BY CompletedKept
<1>7. [t \in Stage |-> HoldersOf(t)]' = [[t \in Stage |-> HoldersOf(t)] EXCEPT ![s] = {e}]
  BY <1>4, <1>5
<1>8. [t \in Stage |-> Completed(t) # {}]' = [t \in Stage |-> Completed(t) # {}]
  BY <1>6
<1> QED BY <1>1, <1>2, <1>7, <1>8 DEF Lock!Take

LEMMA LockDeliver ==
  ASSUME IInv, NEW e \in Invocation, inv[e].pc = "save", Finish(e, "completed"),
         \A f \in Invocation \ {e} : inv'[f] = inv[f],
         inv'[e].pc \notin Holding \/ (inv'[e].pc \in Holding /\ inv'[e].stage = inv[e].stage)
  PROVE  Lock!Deliver(e, inv[e].stage)
<1> DEFINE s == inv[e].stage
<1>1. inv[e].pc \in Holding /\ s \in Stage
  BY DEF IInv, TypeOK, Holding
<1>2. /\ Holders[s] = {e}
      /\ Holders' \in {Holders, [Holders EXCEPT ![s] = {}]}
  BY <1>1, LockHolder
<1>3. \A t : t # s => Completed(t)' = Completed(t)
  BY <1>1, FinishOthers
<1>4. \A t : t = s => Completed(t)' = Completed(t) \cup {inv[e].attempt}
  BY <1>1, FinishOthers
<1>5. Done' = [Done EXCEPT ![s] = TRUE]
  BY <1>1, <1>3, <1>4 DEF Done
<1> QED BY <1>2, <1>5 DEF Lock!Deliver, Holders, Done

LEMMA LockGiveUp ==
  ASSUME IInv, NEW e \in Invocation, inv[e].pc \in Holding,
         attempt' = attempt \/ Finish(e, "failed"), inv' = [inv EXCEPT ![e] = Idle]
  PROVE  Lock!GiveUp(e, inv[e].stage)
<1> DEFINE s == inv[e].stage
<1>1. s \in Stage /\ inv \in [Invocation -> Invocations]
  BY DEF IInv, TypeOK
<1>2. inv'[e].pc \notin Holding /\ \A f \in Invocation \ {e} : inv'[f] = inv[f]
  BY <1>1 DEF Idle, Holding
<1>3. Holders[s] = {e} /\ Holders' = [Holders EXCEPT ![s] = {}]
  BY <1>1, <1>2, LockHolder
<1>4. Done' \in {Done, [Done EXCEPT ![s] = FALSE]}
  <2>1. CASE attempt' = attempt
    BY <2>1 DEF Done, Completed
  <2>2. CASE Finish(e, "failed")
    <3>1. \A t : t # s => Completed(t)' = Completed(t)
      BY <2>2, FinishOthers
    <3>2. \A t : t = s => Completed(t)' \subseteq Completed(t)
      BY <2>2, FinishOthers
    <3>3. \A t \in Stage : t # s => Done'[t] = Done[t]
      BY <3>1 DEF Done
    <3>4. \A t \in Stage : t = s => Done'[t] = Done[t] \/ Done'[t] = FALSE
      BY <3>2 DEF Done
    <3> QED BY <1>1, <3>3, <3>4 DEF Done
  <2> QED BY <2>1, <2>2
<1> QED BY <1>3, <1>4 DEF Lock!GiveUp, Holders, Done

LEMMA LockNext == IInv /\ [Next]_vars => [Lock!Next]_(Lock!vars)
<1> SUFFICES ASSUME IInv, [Next]_vars PROVE [Lock!Next]_(Lock!vars)
  OBVIOUS
<1>t. inv \in [Invocation -> Invocations]
  BY DEF IInv, TypeOK
<1>1. CASE Tick
  <2>1. \A f \in Invocation : inv'[f].pc = inv[f].pc /\ inv'[f].stage = inv[f].stage
    BY <1>t, <1>1 DEF Tick, Invocations
  <2>2. \A a \in Attempt : attempt'[a].stage = attempt[a].stage /\ attempt'[a].status = attempt[a].status
    BY <1>1 DEF Tick, IInv, TypeOK, Attempts
  <2>3. \A s \in Stage : Completed(s)' = Completed(s)
    BY <2>2 DEF Completed
  <2> QED BY <2>1, <2>3, LockStutter
<1>2. ASSUME NEW e \in Invocation, Work(e) \/ End(e) PROVE [Lock!Next]_(Lock!vars)
  <2>i. inv[e] \in Invocations
    BY <1>t
  <2>s. inv[e].pc \in Holding => inv[e].stage \in Stage
    BY DEF IInv, TypeOK
  <2>1. CASE Begin(e) \/ LoadCheckpoints(e) \/ (\E s \in Stage : ReuseCompleted(e, s) \/ FindBusy(e, s))
    <3>1. attempt' = attempt /\ inv[e].pc \notin Holding
      BY <2>1 DEF Begin, LoadCheckpoints, ReuseCompleted, FindBusy, Pending, At, Holding
    <3>2. inv'[e].pc \notin Holding
      <4>1. CASE Begin(e) \/ LoadCheckpoints(e)
        <5>1. inv'[e].pc \in {"load", "next"}
          <6>1. CASE Begin(e)
            BY <1>t, <6>1 DEF Begin, Invocations
          <6>2. CASE LoadCheckpoints(e)
            <7>1. PICK o \in [Stage -> Attempt \cup {None}] :
                    inv' = [inv EXCEPT ![e].outputs = o, ![e].pc = "next"]
              BY <6>2 DEF LoadCheckpoints
            <7> QED BY <1>t, <7>1 DEF Invocations
          <6> QED BY <4>1, <6>1, <6>2
        <5> QED BY <5>1 DEF Holding
      <4>2. CASE \E s \in Stage : ReuseCompleted(e, s)
        BY <1>t, <3>1, <4>2 DEF ReuseCompleted, Invocations
      <4>3. CASE \E s \in Stage : FindBusy(e, s)
        BY <1>t, <4>3 DEF FindBusy, Idle, Holding
      <4> QED BY <2>1, <4>1, <4>2, <4>3
    <3>3. \A f \in Invocation \ {e} : inv'[f] = inv[f]
      BY <1>t, <2>1 DEF Begin, LoadCheckpoints, ReuseCompleted, FindBusy
    <3>4. \A s \in Stage : Completed(s)' = Completed(s)
      BY <3>1 DEF Completed
    <3> QED BY <3>1, <3>2, <3>3, <3>4, LockStutter
  <2>2. ASSUME NEW s \in Stage, ClaimStage(e, s) PROVE Lock!Next
    BY <2>2, LockTake DEF Lock!Next
  <2>3. ASSUME inv[e].pc \in {"model", "save"}, NEW pc \in {"save", "fail"},
               inv' = [inv EXCEPT ![e].pc = pc], attempt' = attempt
        PROVE  UNCHANGED Lock!vars
    <3>1. \A f \in Invocation : inv'[f].stage = inv[f].stage /\ (f # e => inv'[f].pc = inv[f].pc)
      BY <1>t, <2>3 DEF Invocations
    <3>2. inv[e].pc \in Holding /\ inv'[e].pc \in Holding
      BY <1>t, <2>3 DEF Invocations, Holding
    <3>3. \A s \in Stage : Completed(s)' = Completed(s)
      BY <2>3 DEF Completed
    <3> QED BY <3>1, <3>2, <3>3, LockStutter
  <2>4. CASE CallModel(e)
    BY <2>3, <2>4 DEF CallModel, At
  <2>5. CASE SaveOutput(e)
    <3>1. inv[e].pc = "save" /\ Finish(e, "completed")
      BY <2>5 DEF SaveOutput, At
    <3>2. inv'[e].pc \notin Holding /\ \A f \in Invocation \ {e} : inv'[f] = inv[f]
      BY <1>t, <2>5 DEF SaveOutput, Invocations, Holding
    <3> QED BY <3>1, <3>2, <2>s, LockDeliver DEF Lock!Next, Holding
  <2>6. CASE SaveOutputFails(e)
    <3>1. inv[e].pc = "save" /\ inv' = [inv EXCEPT ![e].pc = "fail"]
      BY <2>6 DEF SaveOutputFails, At
    <3>2. CASE attempt' = attempt
      BY <3>1, <3>2, <2>3
    <3>3. CASE Finish(e, "completed")
      <4>1. /\ inv'[e].pc \in Holding /\ inv'[e].stage = inv[e].stage
            /\ \A f \in Invocation \ {e} : inv'[f] = inv[f]
        BY <1>t, <3>1 DEF Invocations, Holding
      <4> QED BY <3>1, <3>3, <4>1, <2>s, LockDeliver DEF Lock!Next, Holding
    <3> QED BY <2>6, <3>2, <3>3 DEF SaveOutputFails
  <2>7. CASE SaveFailure(e)
    <3>1. /\ inv[e].pc \in Holding /\ inv' = [inv EXCEPT ![e] = Idle]
          /\ attempt' = attempt \/ Finish(e, "failed")
      BY <2>7 DEF SaveFailure, At, Holding
    <3> QED BY <3>1, <2>s, LockGiveUp DEF Lock!Next
  <2>8. CASE End(e)
    <3>1. inv' = [inv EXCEPT ![e] = Idle] /\ attempt' = attempt
      BY <2>8 DEF End
    <3>2. CASE inv[e].pc \in Holding
      BY <3>1, <3>2, <2>s, LockGiveUp DEF Lock!Next
    <3>3. CASE inv[e].pc \notin Holding
      <4>1. inv'[e].pc \notin Holding /\ \A f \in Invocation \ {e} : inv'[f] = inv[f]
        BY <1>t, <3>1 DEF Idle, Holding
      <4>2. \A s \in Stage : Completed(s)' = Completed(s)
        BY <3>1 DEF Completed
      <4> QED BY <3>3, <4>1, <4>2, LockStutter
    <3> QED BY <3>2, <3>3
  <2> QED BY <1>2, <2>1, <2>2, <2>4, <2>5, <2>6, <2>7, <2>8 DEF Work
<1>3. CASE UNCHANGED vars
  <2>1. \A s \in Stage : Completed(s)' = Completed(s)
    BY <1>3 DEF vars, Completed
  <2> QED BY <1>3, <2>1, LockStutter DEF vars
<1> QED BY <1>1, <1>2, <1>3 DEF Next

\* The claims of claim_intelligence_stage implement the lock: every step takes, delivers
\* or gives up one stage, or is invisible, for any number of stages and invocations.
THEOREM ImplementsLock == Spec => LockSpec
<1> QED BY LockInit, LockNext, InvariantInit, InvariantNext, PTL DEF Spec, LockSpec, Lock!Spec
=============================================================================
