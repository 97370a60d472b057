----------------------------- MODULE MCStageClaims -----------------------------
(* A small instance of StageClaims for TLC: either all invocations are at work, with *)
(* nothing said of fairness, or one continues the run alone, by and by.              *)
EXTENDS StageClaims

VARIABLE alone  \* whether only the invocation Sole is at work

Sole == CHOOSE e \in Invocation : TRUE

SharedInit == Init /\ alone \in BOOLEAN
SharedNext ==
  /\ Next /\ UNCHANGED alone
  /\ alone => \A e \in Invocation \ {Sole} : inv'[e] = inv[e]

SharedSpec == SharedInit /\ [][SharedNext]_<<vars, alone>> /\ (alone => FairTo({Sole}))

\* A run that one invocation after another continues is never kept from a stage by
\* the claim of one that died.
AloneClaimsEnd == alone => ClaimsEnd
=============================================================================
