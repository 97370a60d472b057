------------------------------- MODULE StageClaims -------------------------------
(***************************************************************************)
(* The attempts at the model stages of one engine run.  Invocations that   *)
(* continue the run load the outputs of completed stages and work through  *)
(* the others in order: claim a stage by a row of intelligence_stage_runs, *)
(* call the model, store its output in the row.  A claim is a lease        *)
(* without a token: a row still "started" after Lease is taken to be       *)
(* abandoned, because an invocation lives for Limit at most.               *)
(***************************************************************************)
EXTENDS Naturals

CONSTANTS
  NStages,     \* CHECKPOINTED_INTELLIGENCE_STAGES, by position
  Invocation,
  Attempt,     \* bound: ids of the attempts that are still of interest
  Lease,       \* p_stale_after_seconds, 360
  Limit,       \* maxDuration of every route that runs the engine, 300
  None

ASSUME StagesAssumption == NStages \in Nat
ASSUME TimeAssumption == Lease \in Nat /\ Limit \in Nat /\ Limit <= Lease
ASSUME NoneAssumption == None \notin Attempt /\ None \notin Invocation

Stage == 1..NStages

VARIABLES
  attempt,  \* Attempt -> intelligence_stage_runs row
  inv       \* Invocation -> local state

vars == <<attempt, inv>>

\* "failed" stands for blocked attempts too.  The output of an attempt is known by
\* the id of the attempt; from is the output of the stage before that it rests on.
NoAttempt == [stage |-> 0, status |-> "absent", age |-> 0, from |-> None]
Idle == [pc |-> "idle", life |-> 0, outputs |-> [s \in Stage |-> None], stage |-> 0, attempt |-> None]

Init ==
  /\ attempt = [a \in Attempt |-> NoAttempt]
  /\ inv = [e \in Invocation |-> Idle]

Completed(s) == {a \in Attempt : attempt[a].stage = s /\ attempt[a].status = "completed"}
Started(s) == {a \in Attempt : attempt[a].stage = s /\ attempt[a].status = "started"}
\* Mutant: the lease is shorter than the life of an invocation.
ExpiredEarly(s) == {a \in Started(s) : attempt[a].age > 0}
\* Mutant: claims are not recovered.
ExpiredNever(s) == {}
Expired(s) == {a \in Started(s) : attempt[a].age > Lease}

\* Mutant: a completed attempt does not count.
ClaimableAgain(s) == Started(s) \subseteq Expired(s)
Claimable(s) == Completed(s) = {} /\ Started(s) \subseteq Expired(s)

At(e, label) == inv[e].pc = label
\* The stage that the invocation needs next.
Pending(e, s) == /\ At(e, "next")
                 /\ s \in Stage /\ inv[e].outputs[s] = None
                 /\ \A t \in Stage : t < s => inv[e].outputs[t] # None

\* An id may stand for a new attempt when nothing refers to its old one.
Unused(a) ==
  /\ attempt[a].status \in {"absent", "failed"}
  /\ \A b \in Attempt : attempt[b].from # a
  /\ \A e \in Invocation : inv[e].attempt # a /\ \A s \in Stage : inv[e].outputs[s] # a

-----------------------------------------------------------------------------
Begin(e) ==
  /\ At(e, "idle")
  /\ inv' = [inv EXCEPT ![e].pc = "load"]
  /\ UNCHANGED attempt

\* The latest completed attempt of every stage.
LoadCheckpoints(e) ==
  /\ At(e, "load")
  /\ \E outputs \in [Stage -> Attempt \cup {None}] :
       /\ \A s \in Stage : IF Completed(s) = {} THEN outputs[s] = None ELSE outputs[s] \in Completed(s)
       /\ inv' = [inv EXCEPT ![e].outputs = outputs, ![e].pc = "next"]
  /\ UNCHANGED attempt

\* claim_intelligence_stage, under its advisory lock: reuse, expire, busy or claim.
ReuseCompleted(e, s) ==
  /\ Pending(e, s)
  /\ \E a \in Completed(s) : inv' = [inv EXCEPT ![e].outputs[s] = a]
  /\ UNCHANGED attempt

FindBusy(e, s) ==
  /\ Pending(e, s)
  /\ Completed(s) = {} /\ Started(s) \ Expired(s) # {}
  /\ inv' = [inv EXCEPT ![e] = Idle]
  /\ UNCHANGED attempt

ClaimStage(e, s) ==
  /\ Pending(e, s)
  /\ Claimable(s)
  /\ \E a \in Attempt :
       /\ Unused(a)
       /\ attempt' = [b \in Attempt |->
            IF b = a THEN [stage |-> s, status |-> "started", age |-> 0,
                           from |-> IF s = 1 THEN None ELSE inv[e].outputs[s - 1]]
            ELSE IF b \in Expired(s) THEN [attempt[b] EXCEPT !.status = "failed"]
            ELSE attempt[b]]
       /\ inv' = [inv EXCEPT ![e].pc = "model", ![e].stage = s, ![e].attempt = a]

\* The model answers, or fails.
CallModel(e) ==
  /\ At(e, "model")
  /\ \E next \in {"save", "fail"} : inv' = [inv EXCEPT ![e].pc = next]
  /\ UNCHANGED attempt

\* finishStage writes by the id of the attempt alone, whatever its status.
Finish(e, status) == attempt' = [attempt EXCEPT ![inv[e].attempt].status = status]

SaveOutput(e) ==
  /\ At(e, "save")
  /\ Finish(e, "completed")
  /\ inv' = [inv EXCEPT ![e].outputs[inv[e].stage] = inv[e].attempt, ![e].attempt = None,
                        ![e].stage = 0, ![e].pc = "next"]

\* The request fails, or its answer is lost: the handler of the error takes over.
SaveOutputFails(e) ==
  /\ At(e, "save")
  /\ Finish(e, "completed") \/ UNCHANGED attempt
  /\ inv' = [inv EXCEPT ![e].pc = "fail"]

\* The handler marks the attempt failed, with an empty output.
\* Mutant: its own error is handled once more.
SaveFailureAgain(e) ==
  /\ At(e, "fail")
  /\ Finish(e, "failed") \/ UNCHANGED attempt
  /\ inv' = [inv EXCEPT ![e] = [Idle EXCEPT !.pc = "fail"]]
SaveFailure(e) ==
  /\ At(e, "fail")
  /\ Finish(e, "failed") \/ UNCHANGED attempt
  /\ inv' = [inv EXCEPT ![e] = Idle]

\* The invocation ends: all stages are there, the next one is left to another
\* invocation (oneModelStage), the work between two stages fails, or it is killed.
End(e) ==
  /\ ~At(e, "idle")
  /\ inv' = [inv EXCEPT ![e] = Idle]
  /\ UNCHANGED attempt

Tick ==
  /\ \A e \in Invocation : ~At(e, "idle") => inv[e].life < Limit
  /\ attempt' = [a \in Attempt |-> IF attempt[a].status = "started" /\ attempt[a].age <= Lease
                                   THEN [attempt[a] EXCEPT !.age = @ + 1] ELSE attempt[a]]
  /\ inv' = [e \in Invocation |-> IF At(e, "idle") THEN inv[e] ELSE [inv[e] EXCEPT !.life = @ + 1]]

Work(e) ==
  \/ Begin(e) \/ LoadCheckpoints(e)
  \/ \E s \in Stage : ReuseCompleted(e, s) \/ FindBusy(e, s) \/ ClaimStage(e, s)
  \/ CallModel(e) \/ SaveOutput(e) \/ SaveOutputFails(e) \/ SaveFailure(e)

Next == Tick \/ \E e \in Invocation : Work(e) \/ End(e)

Spec == Init /\ [][Next]_vars

\* Time passes; later cron slots continue the run, and are not all killed before
\* they have loaded the checkpoints and claimed a stage; at its limit an invocation ends.
FairTo(Continuing) ==
  /\ WF_vars(Tick)
  /\ \A e \in Continuing :
       /\ WF_vars(Begin(e)) /\ SF_vars(LoadCheckpoints(e))
       /\ SF_vars(\E s \in Stage : ReuseCompleted(e, s) \/ FindBusy(e, s) \/ ClaimStage(e, s))
       /\ WF_vars(End(e) /\ inv[e].life = Limit)
FairSpec == Spec /\ FairTo(Invocation)

-----------------------------------------------------------------------------
(* Properties. *)

Holding == {"model", "save", "fail"}
Attempts == [stage : Stage \cup {0}, status : {"absent", "started", "completed", "failed"},
             age : Nat, from : Attempt \cup {None}]
Invocations == [pc : {"idle", "load", "next"} \cup Holding, life : Nat,
                outputs : [Stage -> Attempt \cup {None}],
                stage : Stage \cup {0}, attempt : Attempt \cup {None}]
\* Types; who holds a stage knows its attempt.
TypeOK ==
  /\ attempt \in [Attempt -> Attempts]
  /\ inv \in [Invocation -> Invocations]
  /\ \A e \in Invocation : inv[e].pc \in Holding => inv[e].attempt \in Attempt /\ inv[e].stage \in Stage

\* tests/resumable-intelligence-checkpoints.test.ts: "concurrent continuation claims
\* allow only one model invocation for a required stage", here also across leases that
\* expire, answers that are lost and invocations that are killed.
OneModelCall ==
  \A e, f \in Invocation :
    (e # f /\ inv[e].pc \in Holding /\ inv[f].pc \in Holding) => inv[e].stage # inv[f].stage

\* A stage has one output: no two attempts at it are completed.
OneOutput == \A s \in Stage : \A a, b \in Completed(s) : a = b

\* No claim locks a stage for good: an attempt at a stage that the run needs next is
\* finished by its invocation, or given up by a later one if that died.
Waits(a) == /\ attempt[a].status = "started"
            /\ \A t \in Stage : t < attempt[a].stage => Completed(t) # {}
ClaimsEnd == \A a \in Attempt : Waits(a) ~> ~Waits(a)

\* The claims implement the lock on stages: who works on a stage and whether it has
\* an output.
HoldersOf(s) == {e \in Invocation : inv[e].pc \in Holding /\ inv[e].stage = s}
Lock == INSTANCE StageLock WITH holders <- [s \in Stage |-> HoldersOf(s)],
                                done <- [s \in Stage |-> Completed(s) # {}]
LockSpec == Lock!Spec

\* tests/resumable-intelligence-checkpoints.test.ts, line 96: "downstream work receives
\* the persisted ... output": a completed stage rests on the output of the stage before
\* that the run has.
RestsOnPersisted ==
  \A s \in Stage : \A a \in Completed(s) : s = 1 \/ attempt[a].from \in Completed(s - 1)
=============================================================================
