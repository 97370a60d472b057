------------------------------ MODULE MCMarketDesk ------------------------------
(* Small instances of the components that share no table, side by side: each        *)
(* behaviour is one of a single component, the others stay in their initial state.  *)
EXTENDS ScheduledCycle, ResearchGaps, XWireLedger, HormuzRefresh,
        MacroActuals, TLC

VARIABLE component

On(c) == component = c

deskVars == <<component, cycleVars, gapVars, wireVars, hormuzVars, macroVars>>

DeskInit ==
  /\ component \in {"cycle", "gaps", "wire", "hormuz", "macro"}
  /\ CycleInit /\ GapInit /\ WireInit /\ HormuzInit /\ MacroInit
  /\ On("macro") \/ (kind = "cpi" /\ phase = "far")  \* one initial state for the others

DeskNext ==
  /\ UNCHANGED component
  /\ \/ On("cycle") /\ CycleNext /\ UNCHANGED <<gapVars, wireVars, hormuzVars, macroVars>>
     \/ On("gaps") /\ GapNext /\ UNCHANGED <<cycleVars, wireVars, hormuzVars, macroVars>>
     \/ On("wire") /\ WireNext /\ UNCHANGED <<cycleVars, gapVars, hormuzVars, macroVars>>
     \/ On("hormuz") /\ HormuzNext /\ UNCHANGED <<cycleVars, gapVars, wireVars, macroVars>>
     \/ On("macro") /\ MacroNext /\ UNCHANGED <<cycleVars, gapVars, wireVars, hormuzVars>>

\* The fairness of each component, CycleFairness and GapFairness, where it is on.
CycleOn ==
  /\ WF_cycleVars(On("cycle") /\ CycleTick)
  /\ \A c \in Cron : WF_cycleVars(On("cycle") /\ cron[c].life = Life /\ Killed(c))
  /\ WF_cycleVars(On("cycle") /\ \E c \in Cron : BeginAcquisition(c, Later, FALSE))
  /\ SF_cycleVars(On("cycle") /\ \E c \in Cron, r \in ResearchRun : FindAbandoned(c, r))
  /\ SF_cycleVars(On("cycle") /\ \E c \in Cron : cron[c].fresh /\ Terminalise(c))
GapsOn ==
  /\ WF_gapVars(On("gaps") /\ LeaseLapses)
  /\ \A a \in GapActor : WF_gapVars(On("gaps") /\ GapKilled(a))
  /\ SF_gapVars(On("gaps") /\ \E a \in GapActor : ClaimCase(a))

DeskSpec == DeskInit /\ [][DeskNext]_deskVars /\ CycleOn /\ GapsOn

=============================================================================
