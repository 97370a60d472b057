------------------------------- MODULE StageLock -------------------------------
(***************************************************************************)
(* What the attempts of a model stage promise: of all invocations that     *)
(* continue an engine run, one at a time works on a stage that has no      *)
(* output yet, and the output of a stage comes from that one.              *)
(***************************************************************************)
CONSTANTS Stage, Invocation

VARIABLES
  holders,  \* Stage -> the invocations that work on it, at most one
  done      \* Stage -> whether it has an output

vars == <<holders, done>>

Init ==
  /\ holders = [s \in Stage |-> {}]
  /\ done = [s \in Stage |-> FALSE]

Take(e, s) ==
  /\ holders[s] = {} /\ ~done[s]
  /\ holders' = [holders EXCEPT ![s] = {e}]
  /\ UNCHANGED done

\* The output is there; the holder may not know it yet.
Deliver(e, s) ==
  /\ holders[s] = {e}
  /\ done' = [done EXCEPT ![s] = TRUE]
  /\ holders' \in {holders, [holders EXCEPT ![s] = {}]}

\* The holder gives the stage up, without the output if there was one.
GiveUp(e, s) ==
  /\ holders[s] = {e}
  /\ holders' = [holders EXCEPT ![s] = {}]
  /\ done' \in {done, [done EXCEPT ![s] = FALSE]}

Next == \E e \in Invocation, s \in Stage : Take(e, s) \/ Deliver(e, s) \/ GiveUp(e, s)

Spec == Init /\ [][Next]_vars
=============================================================================
