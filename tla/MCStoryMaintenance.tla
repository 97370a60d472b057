------------------------ MODULE MCStoryMaintenance ------------------------
(* Small instances of StoryMaintenance for TLC. *)
EXTENDS StoryMaintenance, TLC

CONSTANTS r1, r2, e1, e2, s1, s2, x1, x2

\* One Story; rows 1 and 2 are asked for by the same Evidence.
TwinStoryOf == [q \in Row |-> s1]
TwinEvidenceOf == [q \in Row |-> IF q <= 2 THEN x1 ELSE x2]

\* Two Stories: rows 1 and 2 ask for s1, row 3 asks for s2.
PairStoryOf == [q \in Row |-> IF q <= 2 THEN s1 ELSE s2]
PairEvidenceOf == [q \in Row |-> IF q = 1 THEN x1 ELSE x2]

\* Run r1 may be resumed once, r2 not at all.
Openings == [r \in Run |-> IF r = r1 THEN 2 ELSE 1]

InvocationSymmetry == Permutations(Invocation)
===========================================================================
