------------------------------ MODULE VideoPipeline ------------------------------
(***************************************************************************)
(* What the transcript queue promises of a creator video, whoever works on *)
(* it: its transcript is obtained once, reviewed once, admitted as         *)
(* evidence once, and only then is the job complete; an unavailable video  *)
(* and a failed job are final.                                             *)
(***************************************************************************)
CONSTANT Item

VARIABLE progress

Step(i, from, to) == progress[i] = from /\ progress' = [progress EXCEPT ![i] = to]

Transcribe(i) == Step(i, "found", "transcribed")
Refuse(i) == Step(i, "found", "unavailable")
Review(i) == Step(i, "transcribed", "reviewed")
Complete(i) == Step(i, "admitted", "completed")
Fail(i) == \E from \in {"found", "transcribed", "reviewed", "admitted"} : Step(i, from, "failed")

Init == progress = [i \in Item |-> "found"]
\* Reviewed videos may be admitted together, by a run of the engine.
AdmitAll == \E S \in SUBSET Item :
  /\ \A i \in S : progress[i] = "reviewed"
  /\ progress' = [i \in Item |-> IF i \in S THEN "admitted" ELSE progress[i]]
Next == \/ AdmitAll
        \/ \E i \in Item : \/ Transcribe(i) \/ Refuse(i) \/ Review(i) \/ Complete(i) \/ Fail(i)
Spec == Init /\ [][Next]_progress
=============================================================================
