------------------------- MODULE ScheduledCycle_proofs -------------------------
(* Proofs about ScheduledCycle, for any sets of runs and invocations and any times  *)
(* that CycleAssumption allows.                                                     *)
EXTENDS ScheduledCycle, TLAPS

RunRow ==
  [status : {"none", "running", "completed", "blocked", "failed"}, sources : BOOLEAN,
   gate : {"open", "blocked"}, handed : BOOLEAN, early : BOOLEAN, marker : BOOLEAN,
   superseded : BOOLEAN, claim : 0 .. ClaimStale, age : 0 .. Abandoned]
Invocation ==
  [pc : CronPc, run : ResearchRun \union {Later}, at : ResearchRun \union {Later},
   fresh : BOOLEAN, life : 0 .. Life, sourceOnly : BOOLEAN, claimed : BOOLEAN,
   done : BOOLEAN,
   step : {"none", "engine", "publish", "compose", "final", "failed", "blocked"}]

Tokens == {"terminalise", "reclaim", "supersede", "claim"}

\* What the row of run r says of the run's artifacts.
RowGood(row, done, edition, stored) ==
  /\ row \in RunRow
  /\ done => row.sources
  /\ row.status = "none" => ~row.sources /\ ~row.superseded
  /\ row.superseded => row.status = "failed" /\ ~done
  /\ row.status = "completed" => row.marker \/ edition = "canonical"
  /\ stored => edition = "canonical"

\* What the place of an invocation says of itself and of the row it works at.
CallGood(i, row, done, edition, stored) ==
  /\ i \in Invocation
  /\ i.pc \notin {"idle", "recover"} => i.at \in ResearchRun
  /\ i.pc \in {"insert", "reclaim"} \union Acquiring => i.at = i.run
  /\ i.pc \in Acquiring => row.status # "none" /\ (row.sources \/ row.age <= i.life)
  /\ i.pc = "collect" => ~row.sources
  /\ i.pc \in {"claim", "start", "engine"} => row.sources
  /\ i.pc \in Acquiring \union Working => row.age <= i.life + Life /\ ~row.superseded
  /\ i.pc = "claim" => /\ i.step \in {"engine", "publish", "compose", "final"}
                       /\ i.step = "final" => stored
  /\ i.pc = "final" /\ i.step \notin {"failed", "blocked"} => edition = "canonical"
  \* Since it was read the row has not been written.
  /\ i.pc \in Tokens /\ i.fresh => /\ row.status \in {"running", "failed"}
                                   /\ ~row.superseded
  /\ i.pc \in Tokens \ {"claim"} /\ i.fresh => row.status = "running"
  /\ i.pc = "reclaim" /\ i.fresh => ~row.sources /\ row.age >= AcquireStale
  /\ i.pc = "supersede" /\ i.fresh => row.age >= RetryStale /\ ~done

RowsGood == \A r \in ResearchRun : RowGood(research[r], engineDone[r], base[r], composed[r])
CallsGood ==
  \A c \in Cron : CallGood(cron[c], research[cron[c].at], engineDone[cron[c].at],
                           base[cron[c].at], composed[cron[c].at])

\* The inductive invariant.
CycleInv == CycleTypeOK /\ RowsGood /\ CallsGood /\ OneAcquisition

\* What no step takes back.
Forward ==
  \A r \in ResearchRun :
    /\ research[r].superseded => research'[r].superseded
    /\ /\ research[r].status = "completed"
       /\ \A c \in Cron : cron[c].pc \in Acquiring => cron[c].run # r
       => research'[r].status = "completed"

\* c goes on as rec, as far as acquisition is concerned.
Enters(c, rec) ==
  rec.pc \in Acquiring =>
    /\ rec.run = cron[c].run
    /\ \/ cron[c].pc \in Acquiring
       \/ \A d \in Cron : cron[d].pc \in Acquiring => cron[d].run # rec.run

\* What c writes to the row it works at does not contradict what others believe of it.
WriteFits(c, row, rec) ==
  LET r == cron[c].at
      old == research[r] IN
  /\ r \in ResearchRun /\ rec \in Invocation /\ rec.at \in {r, Later}
  /\ RowGood(row, engineDone[r], base[r], composed[r])
  /\ CallGood([rec EXCEPT !.fresh = FALSE], row, engineDone[r], base[r], composed[r])
  /\ Enters(c, rec)
  /\ row.status # "none"
  /\ old.sources => row.sources
  /\ row.sources => old.sources \/ cron[c].pc \in Acquiring
  /\ row.age = 0 \/ (row.age <= Life /\ old.sources)
  /\ old.superseded => row.superseded
  /\ row.superseded => old.superseded \/ (cron[c].pc = "supersede" /\ cron[c].fresh)
  /\ old.status = "completed" => row.status = "completed" \/ cron[c].pc \in Acquiring

-----------------------------------------------------------------------------

\* CycleTypeOK in terms of the two record sets.
LEMMA TypesNamed ==
  CycleTypeOK <=> /\ research \in [ResearchRun -> RunRow]
                  /\ engineDone \in [ResearchRun -> BOOLEAN]
                  /\ base \in [ResearchRun -> {"none", "canonical", "legacy"}]
                  /\ composed \in [ResearchRun -> BOOLEAN]
                  /\ cron \in [Cron -> Invocation]
                  /\ calls \in 0 .. MaxCalls
BY DEF CycleTypeOK, RunRow, Invocation

\* At the start there is nothing.
LEMMA CycleInitInv == CycleInit => CycleInv
<1> SUFFICES ASSUME CycleInit PROVE CycleInv
  OBVIOUS
<1> USE CycleAssumption
<1>1. NoRow \in RunRow
  BY DEF NoRow, RunRow
<1>2. NoCall \in Invocation
  BY DEF NoCall, Invocation, CronPc
<1>3. CycleTypeOK
  BY <1>1, <1>2, TypesNamed DEF CycleInit
<1>4. RowsGood
  BY <1>1 DEF CycleInit, RowsGood, RowGood, NoRow
<1>5. CallsGood
  BY <1>2 DEF CycleInit, CallsGood, CallGood, NoCall, Acquiring, Working, Tokens
<1>6. OneAcquisition
  BY DEF CycleInit, OneAcquisition, NoCall, Acquiring
<1> QED
  BY <1>3, <1>4, <1>5, <1>6 DEF CycleInv

\* A record that differs in one field.
LEMMA Unfreshened ==
  ASSUME NEW i \in Invocation
  PROVE  LET j == [i EXCEPT !.fresh = FALSE] IN
         /\ j \in Invocation /\ j.fresh = FALSE
         /\ j.pc = i.pc /\ j.run = i.run /\ j.at = i.at /\ j.life = i.life
         /\ j.sourceOnly = i.sourceOnly /\ j.claimed = i.claimed
         /\ j.done = i.done /\ j.step = i.step
BY DEF Invocation

\* A write as an update of the two functions.
LEMMA WriteEffect ==
  ASSUME CycleTypeOK, NEW c \in Cron, NEW row, NEW rec, Write(c, row, rec),
         cron[c].at \in ResearchRun
  PROVE  /\ research'[cron[c].at] = row
         /\ \A r \in ResearchRun : r # cron[c].at => research'[r] = research[r]
         /\ cron'[c] = [rec EXCEPT !.fresh = FALSE]
         /\ \A d \in Cron : d # c /\ cron[d].at = cron[c].at =>
                            cron'[d] = [cron[d] EXCEPT !.fresh = FALSE]
         /\ \A d \in Cron : d # c /\ cron[d].at # cron[c].at => cron'[d] = cron[d]
         /\ \A r \in ResearchRun : base[r] = "canonical" => base'[r] = "canonical"
         /\ base' \in [ResearchRun -> {"none", "canonical", "legacy"}]
         /\ UNCHANGED <<engineDone, composed>>
<1>1. /\ research \in [ResearchRun -> RunRow] /\ cron \in [Cron -> Invocation]
      /\ base \in [ResearchRun -> {"none", "canonical", "legacy"}]
  BY TypesNamed
<1>2. /\ research' = [research EXCEPT ![cron[c].at] = row]
      /\ cron' = [d \in Cron |-> IF d = c THEN [rec EXCEPT !.fresh = FALSE]
                                 ELSE IF cron[d].at = cron[c].at
                                 THEN [cron[d] EXCEPT !.fresh = FALSE] ELSE cron[d]]
      /\ UNCHANGED <<engineDone, composed>>
  BY DEF Write, Proceed
<1>3. \/ base' = base
      \/ base[cron[c].at] = "none" /\ base' = [base EXCEPT ![cron[c].at] = "legacy"]
  BY DEF Write, EditionTrigger
<1> QED
  BY <1>1, <1>2, <1>3

\* An invocation that works at no row knows nothing.
LEMMA AtNoRow ==
  ASSUME NEW i \in Invocation, i.pc \in {"idle", "recover"},
         NEW row, NEW done, NEW edition, NEW stored
  PROVE  CallGood(i, row, done, edition, stored)
BY DEF CallGood, Acquiring, Working, Tokens

\* What an invocation knows of a row that is not written stays true when editions are
\* added, and the engine of another run is done.
LEMMA KnownStays ==
  ASSUME NEW i, NEW row, NEW done, NEW edition, NEW stored,
         CallGood(i, row, done, edition, stored), NEW done2, NEW edition2, NEW stored2,
         edition = "canonical" => edition2 = "canonical", stored => stored2,
         i.pc = "supersede" /\ i.fresh /\ done2 => done
  PROVE  CallGood(i, row, done2, edition2, stored2)
BY DEF CallGood, Tokens

\* A write that fits leaves others with what they know, less the freshness.
LEMMA OthersAfterWrite ==
  ASSUME CycleInv, NEW c \in Cron, NEW row, NEW rec, WriteFits(c, row, rec),
         NEW d \in Cron, d # c, cron[d].at = cron[c].at, NEW edition,
         base[cron[c].at] = "canonical" => edition = "canonical"
  PROVE  CallGood([cron[d] EXCEPT !.fresh = FALSE], row, engineDone[cron[c].at], edition,
                  composed[cron[c].at])
<1> DEFINE r == cron[c].at
           old == research[r]
           i == cron[d]
           j == [i EXCEPT !.fresh = FALSE]
<1> USE CycleAssumption
<1>1. /\ i \in Invocation /\ cron[c] \in Invocation
      /\ CallGood(i, old, engineDone[r], base[r], composed[r])
      /\ CallGood(cron[c], old, engineDone[r], base[r], composed[r])
  BY TypesNamed DEF CycleInv, CallsGood
<1>2. /\ j \in Invocation /\ j.fresh = FALSE /\ j.pc = i.pc /\ j.run = i.run
      /\ j.at = i.at /\ j.life = i.life /\ j.step = i.step
  BY <1>1, Unfreshened
<1>3. r \in ResearchRun /\ row \in RunRow /\ old \in RunRow
  BY TypesNamed DEF WriteFits, RowGood, CycleInv
<1>4. row.age \in Int /\ i.life \in 0 .. Life /\ cron[c].life \in 0 .. Life
  BY <1>1, <1>3 DEF RunRow, Invocation
<1>5. /\ row.status # "none" /\ (old.sources => row.sources)
      /\ row.sources => old.sources \/ cron[c].pc \in Acquiring
      /\ row.age = 0 \/ (row.age <= Life /\ old.sources)
      /\ row.superseded => old.superseded \/ (cron[c].pc = "supersede" /\ cron[c].fresh)
  BY DEF WriteFits
<1>6. i.pc \in Acquiring \union Working => ~row.superseded
  <2>1. SUFFICES ASSUME i.pc \in Acquiring \union Working, row.superseded PROVE FALSE
    OBVIOUS
  <2>2. ~old.superseded /\ old.age <= i.life + Life
    BY <1>1, <2>1 DEF CallGood
  <2>3. cron[c].pc = "supersede" /\ cron[c].fresh
    BY <1>5, <2>1, <2>2
  <2>4. old.age >= RetryStale
    BY <1>1, <2>3 DEF CallGood
  <2>5. old.age \in Int
    BY <1>3 DEF RunRow
  <2> QED
    BY <1>4, <2>2, <2>4, <2>5
<1>7. i.pc \in Acquiring \union Working => row.age <= i.life + Life
  BY <1>4, <1>5
<1>8. i.pc \in Acquiring => row.sources \/ row.age <= i.life
  BY <1>4, <1>5
<1>9. i.pc = "collect" => ~row.sources
  <2>1. SUFFICES ASSUME i.pc = "collect", row.sources PROVE FALSE
    OBVIOUS
  <2>2. i.at = i.run /\ ~old.sources /\ i.pc \in Acquiring
    BY <1>1, <2>1 DEF CallGood, Acquiring
  <2>3. cron[c].pc \in Acquiring
    BY <1>5, <2>1, <2>2
  <2>4. cron[c].at = cron[c].run
    BY <1>1, <2>3 DEF CallGood
  <2> QED
    BY <2>2, <2>3, <2>4 DEF CycleInv, OneAcquisition
<1> HIDE DEF j
<1>10. i.pc \in {"claim", "start", "engine"} => row.sources
  BY <1>1, <1>5 DEF CallGood
<1>11. CallGood(j, row, engineDone[r], edition, composed[r])
  BY <1>1, <1>2, <1>5, <1>6, <1>7, <1>8, <1>9, <1>10 DEF CallGood
<1> QED
  BY <1>11 DEF j

\* A write that fits preserves the invariant.
LEMMA WriteKeeps ==
  ASSUME CycleInv, NEW c \in Cron, NEW row, NEW rec, Write(c, row, rec),
         WriteFits(c, row, rec), calls' = calls
  PROVE  CycleInv' /\ Forward
<1> DEFINE r == cron[c].at
<1>1. /\ research \in [ResearchRun -> RunRow] /\ cron \in [Cron -> Invocation]
      /\ engineDone \in [ResearchRun -> BOOLEAN] /\ composed \in [ResearchRun -> BOOLEAN]
      /\ calls \in 0 .. MaxCalls /\ CycleTypeOK
  BY TypesNamed DEF CycleInv
<1>2. /\ r \in ResearchRun /\ rec \in Invocation /\ rec.at \in {r, Later}
      /\ row \in RunRow
  BY DEF WriteFits, RowGood
<1>3. /\ research'[r] = row
      /\ \A q \in ResearchRun : q # r => research'[q] = research[q]
      /\ cron'[c] = [rec EXCEPT !.fresh = FALSE]
      /\ \A d \in Cron : d # c /\ cron[d].at = r => cron'[d] = [cron[d] EXCEPT !.fresh = FALSE]
      /\ \A d \in Cron : d # c /\ cron[d].at # r => cron'[d] = cron[d]
      /\ \A q \in ResearchRun : base[q] = "canonical" => base'[q] = "canonical"
      /\ base' \in [ResearchRun -> {"none", "canonical", "legacy"}]
      /\ engineDone' = engineDone /\ composed' = composed
  BY <1>1, <1>2, WriteEffect
<1>4. /\ research' = [research EXCEPT ![r] = row]
      /\ cron' = [d \in Cron |-> cron'[d]]
  BY DEF Write, Proceed
<1>5. [rec EXCEPT !.fresh = FALSE] \in Invocation
  BY <1>2, Unfreshened
<1>6. \A d \in Cron : [cron[d] EXCEPT !.fresh = FALSE] \in Invocation
  BY <1>1, Unfreshened
<1>7. CycleTypeOK'
  <2>1. ASSUME NEW d \in Cron PROVE cron'[d] \in Invocation
    <3>1. CASE d = c
      BY <1>3, <1>5, <3>1
    <3>2. CASE d # c /\ cron[d].at = r
      BY <1>3, <1>6, <3>2
    <3>3. CASE d # c /\ cron[d].at # r
      BY <1>1, <1>3, <3>3
    <3> QED
      BY <3>1, <3>2, <3>3
  <2>2. cron' \in [Cron -> Invocation]
    BY <1>4, <2>1
  <2>3. research' \in [ResearchRun -> RunRow]
    BY <1>1, <1>2, <1>4
  <2> QED
    BY <1>1, <1>3, <2>2, <2>3 DEF CycleTypeOK, RunRow, Invocation
<1>8. RowsGood'
  <2>1. ASSUME NEW q \in ResearchRun
        PROVE  RowGood(research'[q], engineDone[q], base'[q], composed[q])
    <3>1. CASE q = r
      <4>1. RowGood(row, engineDone[r], base[r], composed[r])
        BY DEF WriteFits
      <4> QED
        BY <1>2, <1>3, <3>1, <4>1 DEF RowGood
    <3>2. CASE q # r
      <4>1. RowGood(research[q], engineDone[q], base[q], composed[q])
        BY DEF CycleInv, RowsGood
      <4> QED
        BY <1>3, <3>2, <4>1 DEF RowGood
    <3> QED
      BY <3>1, <3>2
  <2> QED
    BY <1>3, <2>1 DEF RowsGood
<1>9. CallsGood'
  <2> DEFINE Knows(d) == CallGood(cron'[d], research'[cron'[d].at], engineDone[cron'[d].at],
                                  base'[cron'[d].at], composed[cron'[d].at])
  <2>1. Knows(c)
    <3> DEFINE j == [rec EXCEPT !.fresh = FALSE]
    <3>1. j \in Invocation /\ j.at = rec.at /\ j.pc = rec.pc
      BY <1>2, Unfreshened
    <3>2. CallGood(j, row, engineDone[r], base[r], composed[r])
      BY DEF WriteFits
    <3> HIDE DEF j
    <3>3. CASE j.pc \in {"idle", "recover"}
      <4>1. CallGood(j, research'[j.at], engineDone[j.at], base'[j.at], composed[j.at])
        BY <3>1, <3>3, AtNoRow
      <4> QED
        BY <1>3, <4>1 DEF j
    <3>4. CASE j.pc \notin {"idle", "recover"}
      <4>1. j.at = r
        BY <1>2, <3>1, <3>2, <3>4, CycleAssumption DEF CallGood
      <4>2. CallGood(j, row, engineDone[r], base'[r], composed[r])
        BY <1>2, <1>3, <3>2, KnownStays
      <4> QED
        BY <1>3, <4>1, <4>2 DEF j
    <3> QED
      BY <3>3, <3>4
  <2>2. ASSUME NEW d \in Cron, d # c PROVE Knows(d)
    <3>1. cron[d] \in Invocation
      BY <1>1
    <3>2. CASE cron[d].at = r
      <4> DEFINE j == [cron[d] EXCEPT !.fresh = FALSE]
      <4>1. j.at = r
        BY <3>1, <3>2, Unfreshened
      <4>2. CallGood(j, row, engineDone[r], base'[r], composed[r])
        BY <1>2, <1>3, <2>2, <3>2, OthersAfterWrite
      <4>3. cron'[d] = j
        BY <1>3, <2>2, <3>2
      <4> HIDE DEF j
      <4> QED
        BY <1>3, <4>1, <4>2, <4>3
    <3>3. CASE cron[d].at # r
      <4>1. cron'[d] = cron[d]
        BY <1>3, <2>2, <3>3
      <4>2. CASE cron[d].pc \in {"idle", "recover"}
        BY <3>1, <4>1, <4>2, AtNoRow
      <4>3. CASE cron[d].pc \notin {"idle", "recover"}
        <5>1. CallGood(cron[d], research[cron[d].at], engineDone[cron[d].at],
                       base[cron[d].at], composed[cron[d].at])
          BY DEF CycleInv, CallsGood
        <5>2. cron[d].at \in ResearchRun
          BY <4>3, <5>1 DEF CallGood
        <5>3. research'[cron[d].at] = research[cron[d].at]
          BY <1>3, <3>3, <5>2
        <5>4. CallGood(cron[d], research[cron[d].at], engineDone[cron[d].at],
                       base'[cron[d].at], composed[cron[d].at])
          BY <1>3, <5>1, <5>2, KnownStays
        <5> QED
          BY <4>1, <5>3, <5>4
      <4> QED
        BY <4>2, <4>3
    <3> QED
      BY <3>2, <3>3
  <2>3. \A d \in Cron : Knows(d)
    BY <2>1, <2>2
  <2> QED
    BY <1>3, <2>3 DEF CallsGood
<1>10. OneAcquisition'
  <2>1. ASSUME NEW d \in Cron, d # c
        PROVE  cron'[d].pc = cron[d].pc /\ cron'[d].run = cron[d].run
    <3>1. CASE cron[d].at = r
      <4>1. cron'[d] = [cron[d] EXCEPT !.fresh = FALSE]
        BY <1>3, <2>1, <3>1
      <4>2. cron[d] \in Invocation
        BY <1>1
      <4> QED
        BY <4>1, <4>2, Unfreshened
    <3>2. CASE cron[d].at # r
      BY <1>3, <2>1, <3>2
    <3> QED
      BY <3>1, <3>2
  <2>2. cron'[c].pc = rec.pc /\ cron'[c].run = rec.run
    BY <1>2, <1>3, Unfreshened
  <2>3. Enters(c, rec)
    BY DEF WriteFits
  <2> QED
    BY <2>1, <2>2, <2>3 DEF CycleInv, OneAcquisition, Enters
<1>11. Forward
  <2>1. ASSUME NEW q \in ResearchRun
        PROVE  /\ research[q].superseded => research'[q].superseded
               /\ /\ research[q].status = "completed"
                  /\ \A d \in Cron : cron[d].pc \in Acquiring => cron[d].run # q
                  => research'[q].status = "completed"
    <3>1. CASE q # r
      BY <1>3, <3>1
    <3>2. CASE q = r
      <4>1. cron[c].pc \in Acquiring => cron[c].run = r
        BY DEF CycleInv, CallsGood, CallGood
      <4> QED
        BY <1>3, <3>2, <4>1 DEF WriteFits
    <3> QED
      BY <3>1, <3>2
  <2> QED
    BY <2>1 DEF Forward
<1> QED
  BY <1>7, <1>8, <1>9, <1>10, <1>11 DEF CycleInv

\* A step that writes no row, but may add artifacts to the run c works at.
LEMMA ArtifactsKeep ==
  ASSUME CycleInv, NEW c \in Cron, NEW rec,
         cron' = [cron EXCEPT ![c] = rec], research' = research, calls' \in 0 .. MaxCalls,
         engineDone' \in [ResearchRun -> BOOLEAN], composed' \in [ResearchRun -> BOOLEAN],
         base' \in [ResearchRun -> {"none", "canonical", "legacy"}],
         \A r \in ResearchRun :
           /\ engineDone'[r] => engineDone[r] \/ (r = cron[c].at /\ cron[c].pc = "engine")
           /\ base[r] = "canonical" => base'[r] = "canonical"
           /\ composed[r] => composed'[r]
           /\ composed'[r] => base'[r] = "canonical",
         rec \in Invocation, Enters(c, rec),
         CallGood(rec, research[rec.at], engineDone'[rec.at], base'[rec.at], composed'[rec.at])
  PROVE  CycleInv' /\ Forward
<1> USE CycleAssumption
<1>1. /\ research \in [ResearchRun -> RunRow] /\ cron \in [Cron -> Invocation]
  BY TypesNamed DEF CycleInv
<1>2. /\ cron'[c] = rec
      /\ \A d \in Cron : d # c => cron'[d] = cron[d]
      /\ cron' \in [Cron -> Invocation]
  BY <1>1
<1>3. \A d \in Cron : CallGood(cron[d], research[cron[d].at], engineDone[cron[d].at],
                               base[cron[d].at], composed[cron[d].at])
  BY DEF CycleInv, CallsGood
<1>4. CycleTypeOK'
  BY <1>1, <1>2 DEF CycleTypeOK, RunRow, Invocation
<1>5. RowsGood'
  <2>1. ASSUME NEW r \in ResearchRun
        PROVE  RowGood(research[r], engineDone'[r], base'[r], composed'[r])
    <3>1. RowGood(research[r], engineDone[r], base[r], composed[r])
      BY DEF CycleInv, RowsGood
    <3>2. r = cron[c].at /\ cron[c].pc = "engine" =>
            research[r].sources /\ ~research[r].superseded
      BY <1>3 DEF CallGood, Working
    <3> QED
      BY <3>1, <3>2 DEF RowGood
  <2> QED
    BY <2>1 DEF RowsGood
<1>6. CallsGood'
  <2>1. ASSUME NEW d \in Cron, d # c
        PROVE  CallGood(cron[d], research[cron[d].at], engineDone'[cron[d].at],
                        base'[cron[d].at], composed'[cron[d].at])
    <3> DEFINE i == cron[d]
               r == cron[d].at
    <3>1. i \in Invocation /\ CallGood(i, research[r], engineDone[r], base[r], composed[r])
      BY <1>1, <1>3
    <3>2. CASE i.pc \in {"idle", "recover"}
      BY <3>1, <3>2, AtNoRow
    <3>3. CASE i.pc \notin {"idle", "recover"}
      <4>1. r \in ResearchRun
        BY <3>1, <3>3 DEF CallGood
      <4>2. ASSUME i.pc = "supersede", i.fresh, engineDone'[r] PROVE engineDone[r]
        <5>1. SUFFICES ASSUME r = cron[c].at, cron[c].pc = "engine" PROVE FALSE
          BY <4>1, <4>2
        <5>2. research[r].age <= cron[c].life + Life
          BY <1>3, <5>1 DEF CallGood, Working
        <5>3. research[r].age >= RetryStale
          BY <3>1, <4>2 DEF CallGood
        <5>4. cron[c].life \in 0 .. Life /\ research[r].age \in 0 .. Abandoned
          BY <1>1, <4>1 DEF Invocation, RunRow
        <5> QED
          BY <5>2, <5>3, <5>4
      <4> HIDE DEF i, r
      <4>3. CallGood(i, research[r], engineDone'[r], base'[r], composed'[r])
        BY <3>1, <4>1, <4>2, KnownStays
      <4> QED
        BY <4>3 DEF i, r
    <3> QED
      BY <3>2, <3>3
  <2> QED
    BY <1>2, <2>1 DEF CallsGood
<1>7. OneAcquisition'
  BY <1>2 DEF CycleInv, OneAcquisition, Enters
<1>8. Forward
  BY DEF Forward
<1> QED
  BY <1>4, <1>5, <1>6, <1>7, <1>8 DEF CycleInv

\* A step of one invocation alone.
LEMMA MoveKeeps ==
  ASSUME CycleInv, NEW c \in Cron, NEW rec, cron' = [cron EXCEPT ![c] = rec],
         UNCHANGED <<research, artifacts>>, calls' \in 0 .. MaxCalls,
         rec \in Invocation, Enters(c, rec),
         CallGood(rec, research[rec.at], engineDone[rec.at], base[rec.at], composed[rec.at])
  PROVE  CycleInv' /\ Forward
<1>1. /\ engineDone \in [ResearchRun -> BOOLEAN] /\ composed \in [ResearchRun -> BOOLEAN]
      /\ base \in [ResearchRun -> {"none", "canonical", "legacy"}]
  BY TypesNamed DEF CycleInv
<1>2. \A r \in ResearchRun : composed[r] => base[r] = "canonical"
  BY DEF CycleInv, RowsGood, RowGood
<1> QED
  BY <1>1, <1>2, ArtifactsKeep DEF artifacts

\* An invocation that ends.
LEMMA LeaveKeeps ==
  ASSUME CycleInv, NEW c \in Cron, Leave(c), UNCHANGED <<research, artifacts, calls>>
  PROVE  CycleInv' /\ Forward
<1>1. NoCall \in Invocation /\ NoCall.pc = "idle"
  BY CycleAssumption DEF NoCall, Invocation, CronPc
<1>2. Enters(c, NoCall)
  BY <1>1 DEF Enters, Acquiring
<1>3. CallGood(NoCall, research[NoCall.at], engineDone[NoCall.at], base[NoCall.at],
               composed[NoCall.at])
  BY <1>1, AtNoRow
<1>4. calls' \in 0 .. MaxCalls
  BY TypesNamed DEF CycleInv
<1> QED
  BY <1>1, <1>2, <1>3, <1>4, MoveKeeps DEF Leave

\* Time keeps the order of ages: a row ages no faster than those who work at it.
LEMMA TickKeeps == ASSUME CycleInv, CycleTick PROVE CycleInv' /\ Forward
<1> USE CycleAssumption
<1>1. /\ research \in [ResearchRun -> RunRow] /\ cron \in [Cron -> Invocation]
  BY TypesNamed DEF CycleInv
<1>2. ASSUME NEW r \in ResearchRun
      PROVE  /\ research'[r] \in RunRow
             /\ research'[r].status = research[r].status
             /\ research'[r].sources = research[r].sources
             /\ research'[r].marker = research[r].marker
             /\ research'[r].superseded = research[r].superseded
             /\ research'[r].age \in {research[r].age, research[r].age + 1}
  <2> DEFINE old == research[r]
             age2 == Older(old.age, Abandoned)
             claim2 == Older(old.claim, ClaimStale)
  <2>1. old \in RunRow /\ old.age \in 0 .. Abandoned /\ old.claim \in 0 .. ClaimStale
    BY <1>1 DEF RunRow
  <2>2. /\ age2 \in 0 .. Abandoned /\ age2 \in {old.age, old.age + 1}
        /\ claim2 \in 0 .. ClaimStale
    BY <2>1 DEF Older
  <2>3. research'[r] = [old EXCEPT !.age = age2, !.claim = claim2]
    BY DEF CycleTick
  <2> HIDE DEF age2, claim2, old
  <2>4. /\ research'[r] \in RunRow /\ research'[r].age = age2
        /\ research'[r].status = old.status /\ research'[r].sources = old.sources
        /\ research'[r].marker = old.marker /\ research'[r].superseded = old.superseded
    BY <2>1, <2>2, <2>3 DEF RunRow
  <2> QED
    BY <2>2, <2>4 DEF old
<1>3. ASSUME NEW c \in Cron
      PROVE  /\ cron'[c] \in Invocation
             /\ cron'[c].pc = cron[c].pc /\ cron'[c].at = cron[c].at
             /\ cron'[c].run = cron[c].run /\ cron'[c].fresh = cron[c].fresh
             /\ cron'[c].step = cron[c].step
             /\ cron[c].pc # "idle" => cron'[c].life = cron[c].life + 1
  <2>1. CASE cron[c].pc = "idle"
    BY <1>1, <2>1 DEF CycleTick
  <2>2. CASE cron[c].pc # "idle"
    <3>1. cron'[c] = [cron[c] EXCEPT !.life = cron[c].life + 1]
      BY <2>2 DEF CycleTick
    <3>2. cron[c] \in Invocation /\ cron[c].life \in 0 .. Life /\ cron[c].life < Life
      BY <1>1, <2>2 DEF CycleTick, Invocation
    <3>3. cron[c].life + 1 \in 0 .. Life
      BY <3>2
    <3> QED
      BY <3>1, <3>2, <3>3 DEF Invocation
  <2> QED
    BY <2>1, <2>2
<1>4. engineDone' = engineDone /\ base' = base /\ composed' = composed /\ calls' = calls
  BY DEF CycleTick, artifacts
<1>5. CycleTypeOK'
  <2>1. research' \in [ResearchRun -> RunRow] /\ cron' \in [Cron -> Invocation]
    BY <1>2, <1>3 DEF CycleTick
  <2> QED
    BY <1>4, <2>1 DEF CycleInv, CycleTypeOK, RunRow, Invocation
<1>6. RowsGood'
  BY <1>2, <1>4 DEF CycleInv, RowsGood, RowGood
<1>7. CallsGood'
  <2>1. ASSUME NEW c \in Cron
        PROVE  CallGood(cron'[c], research'[cron'[c].at], engineDone[cron'[c].at],
                        base[cron'[c].at], composed[cron'[c].at])
    <3> DEFINE i == cron[c]
               j == cron'[c]
               r == cron[c].at
               old == research[r]
               new == research'[r]
    <3>1. CallGood(i, old, engineDone[r], base[r], composed[r])
      BY DEF CycleInv, CallsGood
    <3>2. CASE i.pc \in {"idle", "recover"}
      BY <1>3, <3>2, AtNoRow
    <3>3. CASE i.pc \notin {"idle", "recover"}
      <4>1. r \in ResearchRun
        BY <3>1, <3>3 DEF CallGood
      <4>2. /\ j \in Invocation /\ j.pc = i.pc /\ j.at = i.at /\ j.run = i.run
            /\ j.fresh = i.fresh /\ j.step = i.step /\ j.life = i.life + 1
        BY <1>3, <3>3
      <4>3. /\ new.status = old.status /\ new.sources = old.sources
            /\ new.superseded = old.superseded
            /\ new.age \in {old.age, old.age + 1}
        BY <1>2, <4>1
      <4>4. old.age \in Int /\ i.life \in Int /\ new.age \in Int
        BY <1>1, <1>2, <4>1 DEF RunRow, Invocation
      <4>5. /\ i.pc \in Acquiring \union Working => new.age <= j.life + Life
            /\ i.pc \in Acquiring => new.sources \/ new.age <= j.life
            /\ i.pc = "reclaim" /\ i.fresh => new.age >= AcquireStale
            /\ i.pc = "supersede" /\ i.fresh => new.age >= RetryStale
        BY <3>1, <4>2, <4>3, <4>4 DEF CallGood
      <4> HIDE DEF i, j, r, old, new
      <4>6. CallGood(j, new, engineDone[r], base[r], composed[r])
        BY <3>1, <4>2, <4>3, <4>5 DEF CallGood
      <4> QED
        BY <1>3, <4>6 DEF j, r, new
    <3> QED
      BY <3>2, <3>3
  <2> QED
    BY <1>4, <2>1 DEF CallsGood
<1>8. OneAcquisition'
  BY <1>3 DEF CycleInv, OneAcquisition
<1>9. Forward
  BY <1>2 DEF Forward
<1> QED
  BY <1>5, <1>6, <1>7, <1>8, <1>9 DEF CycleInv

\* What an invocation at a row may rely on.
LEMMA Standing ==
  ASSUME CycleInv, NEW c \in Cron
  PROVE  /\ cron[c] \in Invocation /\ cron[c].life \in 0 .. Life
         /\ CallGood(cron[c], research[cron[c].at], engineDone[cron[c].at],
                     base[cron[c].at], composed[cron[c].at])
         /\ cron[c].pc \notin {"idle", "recover"} =>
              /\ cron[c].at \in ResearchRun /\ research[cron[c].at] \in RunRow
              /\ RowGood(research[cron[c].at], engineDone[cron[c].at], base[cron[c].at],
                         composed[cron[c].at])
         /\ calls \in 0 .. MaxCalls
BY TypesNamed DEF CycleInv, CallsGood, RowsGood, CallGood, Invocation

\* An invocation that only changes its place.
LEMMA Moved ==
  ASSUME NEW i \in Invocation, NEW pc \in CronPc
  PROVE  LET j == [i EXCEPT !.pc = pc] IN
         /\ j \in Invocation /\ j.pc = pc
         /\ j.fresh = i.fresh /\ j.run = i.run /\ j.at = i.at /\ j.life = i.life
         /\ j.claimed = i.claimed /\ j.done = i.done /\ j.step = i.step
BY DEF Invocation

\* Places that promise nothing of the row, and the way through an acquisition's errors.
LEMMA RetreatFits ==
  ASSUME CycleInv, NEW c \in Cron, NEW pc \in {"error", "release", "reread", "withdraw", "failed"},
         cron[c].pc \notin {"idle", "recover"},
         pc \in {"withdraw", "failed"} => cron[c].pc \in Acquiring
  PROVE  LET rec == [cron[c] EXCEPT !.pc = pc] IN
         /\ rec \in Invocation /\ rec.at = cron[c].at /\ Enters(c, rec)
         /\ CallGood(rec, research[rec.at], engineDone[rec.at], base[rec.at],
                     composed[rec.at])
<1> DEFINE rec == [cron[c] EXCEPT !.pc = pc]
<1>1. pc \in CronPc
  BY DEF CronPc, Acquiring, Continuing
<1>2. /\ rec \in Invocation /\ rec.pc = pc /\ rec.fresh = cron[c].fresh
      /\ rec.run = cron[c].run /\ rec.at = cron[c].at /\ rec.life = cron[c].life
  BY <1>1, Standing, Moved
<1>3. CallGood(cron[c], research[cron[c].at], engineDone[cron[c].at],
               base[cron[c].at], composed[cron[c].at])
  BY Standing
<1> HIDE DEF rec
<1>4. Enters(c, rec)
  BY <1>2 DEF Enters, Acquiring
<1>5. CallGood(rec, research[cron[c].at], engineDone[cron[c].at], base[cron[c].at],
               composed[cron[c].at])
  BY <1>2, <1>3 DEF CallGood, Acquiring, Working, Tokens
<1> QED
  BY <1>2, <1>4, <1>5 DEF rec

\* Such a retreat preserves the invariant.
LEMMA RetreatKeeps ==
  ASSUME CycleInv, NEW c \in Cron, NEW pc \in {"error", "release", "reread", "withdraw", "failed"},
         cron[c].pc \notin {"idle", "recover"},
         pc \in {"withdraw", "failed"} => cron[c].pc \in Acquiring,
         Goto(c, pc), UNCHANGED <<research, artifacts, calls>>
  PROVE  CycleInv' /\ Forward
<1> DEFINE rec == [cron[c] EXCEPT !.pc = pc]
<1>1. /\ rec \in Invocation /\ Enters(c, rec)
      /\ CallGood(rec, research[rec.at], engineDone[rec.at], base[rec.at], composed[rec.at])
  BY RetreatFits
<1>2. cron' = [cron EXCEPT ![c] = rec]
  BY DEF Goto
<1>3. calls' \in 0 .. MaxCalls
  BY Standing
<1> HIDE DEF rec
<1> QED
  BY <1>1, <1>2, <1>3, MoveKeeps

-----------------------------------------------------------------------------
(* Rows as they are written. *)

\* Ages that are written.
LEMMA Ages ==
  /\ 0 \in 0 .. Abandoned /\ 0 \in 0 .. ClaimStale /\ ClaimStale \in 0 .. ClaimStale
  /\ \A n \in 0 .. Life : n \in 0 .. Abandoned /\ n \in 0 .. ClaimStale
BY CycleAssumption

\* A row without its claim.
LEMMA Unclaimed ==
  ASSUME NEW row \in RunRow
  PROVE  /\ NoClaim(row) \in RunRow /\ NoClaim(row).status = row.status
         /\ NoClaim(row).sources = row.sources /\ NoClaim(row).marker = row.marker
         /\ NoClaim(row).superseded = row.superseded /\ NoClaim(row).gate = row.gate
         /\ NoClaim(row).handed = row.handed /\ NoClaim(row).early = row.early
BY CycleAssumption DEF RunRow, NoClaim

-----------------------------------------------------------------------------
(* Acquisition. *)

\* An acquisition begins at no row.
LEMMA BeginAcquisitionKeeps ==
  ASSUME CycleInv, NEW c \in Cron, NEW k \in ResearchRun \union {Later},
         NEW sourceOnly \in BOOLEAN, BeginAcquisition(c, k, sourceOnly)
  PROVE  CycleInv' /\ Forward
<1> USE CycleAssumption
<1> DEFINE only == k # Later /\ sourceOnly
           rec == [NoCall EXCEPT !.pc = "recover", !.run = k, !.sourceOnly = only]
<1>1. rec \in Invocation /\ rec.pc = "recover"
  <2>1. NoCall \in Invocation /\ "recover" \in CronPc /\ only \in BOOLEAN
    BY DEF NoCall, Invocation, CronPc
  <2> HIDE DEF only
  <2> QED
    BY <2>1 DEF Invocation
<1>2. cron' = [cron EXCEPT ![c] = rec] /\ UNCHANGED <<research, artifacts>>
  BY DEF BeginAcquisition
<1>3. calls' \in 0 .. MaxCalls
  BY Standing DEF BeginAcquisition
<1> HIDE DEF rec
<1>4. Enters(c, rec)
  BY <1>1 DEF Enters, Acquiring
<1>5. CallGood(rec, research[rec.at], engineDone[rec.at], base[rec.at], composed[rec.at])
  BY <1>1, AtNoRow
<1> QED
  BY <1>1, <1>2, <1>3, <1>4, <1>5, MoveKeeps

\* The recovery reads a run that is running.
LEMMA FindAbandonedKeeps ==
  ASSUME CycleInv, NEW c \in Cron, NEW r \in ResearchRun, FindAbandoned(c, r)
  PROVE  CycleInv' /\ Forward
<1> DEFINE rec == [cron[c] EXCEPT !.pc = "terminalise", !.at = r, !.fresh = TRUE]
<1>1. /\ rec \in Invocation /\ rec.pc = "terminalise" /\ rec.at = r
  BY Standing DEF Invocation, CronPc
<1>2. cron' = [cron EXCEPT ![c] = rec] /\ UNCHANGED <<research, artifacts, calls>>
  BY Standing DEF FindAbandoned, Invocation
<1>3. calls' \in 0 .. MaxCalls
  BY <1>2, Standing
<1>4. RowGood(research[r], engineDone[r], base[r], composed[r]) /\ research[r].status = "running"
  BY DEF CycleInv, RowsGood, FindAbandoned, IsAbandoned
<1> HIDE DEF rec
<1>5. Enters(c, rec)
  BY <1>1 DEF Enters, Acquiring
<1>6. CallGood(rec, research[r], engineDone[r], base[r], composed[r])
  BY <1>1, <1>4 DEF CallGood, RowGood, Acquiring, Working, Tokens
<1> QED
  BY <1>1, <1>2, <1>3, <1>5, <1>6, MoveKeeps

\* The recovery ends a run only as it was read.
LEMMA TerminaliseKeeps ==
  ASSUME CycleInv, NEW c \in Cron, Terminalise(c)
  PROVE  CycleInv' /\ Forward
<1> USE CycleAssumption
<1> DEFINE r == cron[c].at
           old == research[r]
           row == [old EXCEPT !.status = "failed", !.age = 0]
           rec == [cron[c] EXCEPT !.pc = "recover", !.at = Later]
<1>1. /\ r \in ResearchRun /\ old \in RunRow
      /\ RowGood(old, engineDone[r], base[r], composed[r])
      /\ CallGood(cron[c], old, engineDone[r], base[r], composed[r])
  BY Standing DEF Terminalise
<1>2. rec \in Invocation /\ rec.pc = "recover" /\ rec.at = Later
  BY Standing DEF Invocation, CronPc
<1>3. Enters(c, rec)
  BY <1>2 DEF Enters, Acquiring
<1>4. CASE cron[c].fresh
  <2>1. Write(c, row, rec) /\ calls' = calls
    BY <1>4 DEF Terminalise
  <2>2. /\ row \in RunRow /\ row.status = "failed" /\ row.age = 0
        /\ row.sources = old.sources /\ row.superseded = old.superseded
    BY <1>1, Ages DEF RunRow
  <2>3. [rec EXCEPT !.fresh = FALSE] \in Invocation /\ [rec EXCEPT !.fresh = FALSE].pc = "recover"
    BY <1>2, Unfreshened
  <2>4. CallGood([rec EXCEPT !.fresh = FALSE], row, engineDone[r], base[r], composed[r])
    BY <2>3, AtNoRow
  <2>5. old.status = "running" /\ ~old.superseded
    BY <1>1, <1>4 DEF CallGood, Tokens, Terminalise
  <2> HIDE DEF row, rec
  <2>6. WriteFits(c, row, rec)
    BY <1>1, <1>2, <1>3, <2>2, <2>4, <2>5 DEF WriteFits, RowGood
  <2> QED
    BY <2>1, <2>6, WriteKeeps
<1>5. CASE ~cron[c].fresh
  <2>1. cron' = [cron EXCEPT ![c] = rec] /\ UNCHANGED <<research, artifacts, calls>>
    BY <1>5, Standing DEF Terminalise, Invocation
  <2>2. CallGood(rec, research[rec.at], engineDone[rec.at], base[rec.at], composed[rec.at])
    BY <1>2, AtNoRow
  <2>3. calls' \in 0 .. MaxCalls
    BY <2>1, Standing
  <2> HIDE DEF rec
  <2> QED
    BY <1>2, <1>3, <2>1, <2>2, <2>3, MoveKeeps
<1> QED
  BY <1>4, <1>5

\* The run is found missing or stale, or it is left alone.
LEMMA LookupKeeps ==
  ASSUME CycleInv, NEW c \in Cron, Lookup(c)
  PROVE  CycleInv' /\ Forward
<1> USE CycleAssumption
<1> DEFINE r == cron[c].run
           found(pc) == [cron[c] EXCEPT !.pc = pc, !.at = r, !.fresh = (pc = "reclaim")]
<1>1. cron[c] \in Invocation /\ r \in ResearchRun \union {Later} /\ calls \in 0 .. MaxCalls
  BY Standing DEF Invocation
<1>2. UNCHANGED <<research, artifacts, calls>>
  BY DEF Lookup
<1>3. CASE Leave(c)
  BY <1>2, <1>3, LeaveKeeps
<1>4. ASSUME NEW pc \in {"insert", "reclaim"}, cron' = [cron EXCEPT ![c] = found(pc)],
             r \in ResearchRun, pc = "reclaim" => AcquisitionStale(r)
      PROVE  CycleInv' /\ Forward
  <2> DEFINE rec == found(pc)
  <2>1. pc \in CronPc
    BY DEF CronPc
  <2>2. /\ rec \in Invocation /\ rec.pc = pc /\ rec.at = r /\ rec.run = r
    BY <1>1, <2>1 DEF Invocation
  <2>3. RowGood(research[r], engineDone[r], base[r], composed[r])
    BY <1>4 DEF CycleInv, RowsGood
  <2>4. cron' = [cron EXCEPT ![c] = rec]
    BY <1>4
  <2> HIDE DEF rec
  <2>5. Enters(c, rec)
    BY <2>2 DEF Enters, Acquiring
  <2>6. CallGood(rec, research[r], engineDone[r], base[r], composed[r])
    BY <1>4, <2>2, <2>3 DEF CallGood, RowGood, AcquisitionStale, Acquiring, Working, Tokens
  <2> QED
    BY <1>1, <1>2, <2>2, <2>4, <2>5, <2>6, MoveKeeps
<1>5. \/ Leave(c)
      \/ r \in ResearchRun /\ cron' = [cron EXCEPT ![c] = found("insert")]
      \/ r \in ResearchRun /\ AcquisitionStale(r) /\ cron' = [cron EXCEPT ![c] = found("reclaim")]
  <2> HIDE DEF found
  <2>1. cron' = [cron EXCEPT ![c] = IF r = Later THEN NoCall
                                 ELSE IF research[r].status = "none" THEN found("insert")
                                 ELSE IF AcquisitionStale(r) THEN found("reclaim")
                                 ELSE NoCall]
    BY DEF Lookup, found
  <2> QED
    BY <1>1, <2>1 DEF Leave
<1> QED
  BY <1>3, <1>4, <1>5

\* A run is acquired: its row is written and its sources are collected.
LEMMA AcquiredFits ==
  ASSUME CycleInv, NEW c \in Cron, cron[c].pc \in {"insert", "reclaim"},
         NEW row \in RunRow, row.status = "running", row.age = 0, ~row.sources,
         ~row.superseded, \/ research[cron[c].at].status = "none"
                          \/ cron[c].pc = "reclaim" /\ cron[c].fresh
  PROVE  WriteFits(c, row, [cron[c] EXCEPT !.pc = "collect"])
<1> USE CycleAssumption
<1> DEFINE r == cron[c].at
           old == research[r]
           rec == [cron[c] EXCEPT !.pc = "collect"]
           j == [rec EXCEPT !.fresh = FALSE]
<1>1. /\ r \in ResearchRun /\ old \in RunRow /\ cron[c].life \in 0 .. Life
      /\ RowGood(old, engineDone[r], base[r], composed[r])
      /\ CallGood(cron[c], old, engineDone[r], base[r], composed[r])
  BY Standing
<1>2. /\ rec \in Invocation /\ rec.pc = "collect" /\ rec.at = r /\ rec.run = cron[c].run
      /\ rec.life = cron[c].life
  BY Standing, Moved DEF CronPc, Acquiring
<1>3. /\ j \in Invocation /\ j.pc = "collect" /\ j.at = r /\ j.run = cron[c].run
      /\ j.life = cron[c].life /\ j.fresh = FALSE
  BY <1>2, Unfreshened
<1>4. r = cron[c].run
  BY <1>1 DEF CallGood
<1>5. ~old.sources /\ ~old.superseded /\ old.status \in {"none", "running"}
  BY <1>1 DEF CallGood, RowGood, Tokens
<1> HIDE DEF j, rec
<1>6. ASSUME NEW d \in Cron, cron[d].pc \in Acquiring, cron[d].run = r PROVE FALSE
  <2>1. cron[d].at = r /\ (old.sources \/ old.age <= cron[d].life) /\ old.status # "none"
    BY <1>6, Standing DEF CallGood
  <2>2. cron[c].pc = "reclaim" /\ cron[c].fresh
    BY <2>1
  <2>3. old.age >= AcquireStale
    BY <1>1, <2>2 DEF CallGood
  <2>4. cron[d].life \in 0 .. Life /\ old.age \in 0 .. Abandoned
    BY <1>1, Standing DEF RunRow
  <2> QED
    BY <1>5, <2>1, <2>3, <2>4
<1>7. Enters(c, rec)
  BY <1>2, <1>4, <1>6 DEF Enters
<1>8. row.age <= j.life + Life /\ row.age <= j.life
  BY <1>1, <1>3
<1>9. CallGood(j, row, engineDone[r], base[r], composed[r])
  BY <1>1, <1>3, <1>4, <1>8 DEF CallGood, Tokens, Acquiring
<1>10. RowGood(row, engineDone[r], base[r], composed[r])
  BY <1>1, <1>5 DEF RowGood
<1> QED
  BY <1>1, <1>2, <1>5, <1>7, <1>9, <1>10 DEF WriteFits, j, rec

\* A run that has no row is worked at by nobody.
LEMMA InsertRunKeeps ==
  ASSUME CycleInv, NEW c \in Cron, InsertRun(c)
  PROVE  CycleInv' /\ Forward
<1> DEFINE row == [NoRow EXCEPT !.status = "running", !.age = 0]
<1>1. cron[c].pc = "insert" /\ cron[c].at = cron[c].run /\ calls' = calls
  BY Standing DEF InsertRun, CallGood
<1>2. CASE research[cron[c].run].status = "none"
  <2>1. Write(c, row, [cron[c] EXCEPT !.pc = "collect"])
    BY <1>2 DEF InsertRun
  <2>2. NoRow \in RunRow /\ NoRow.sources = FALSE /\ NoRow.superseded = FALSE
    BY CycleAssumption DEF NoRow, RunRow
  <2>3. /\ row \in RunRow /\ row.status = "running" /\ row.age = 0 /\ ~row.sources
        /\ ~row.superseded
    BY <2>2, Ages DEF RunRow
  <2> HIDE DEF row
  <2>4. WriteFits(c, row, [cron[c] EXCEPT !.pc = "collect"])
    BY <1>1, <1>2, <2>3, AcquiredFits
  <2> QED
    BY <1>1, <2>1, <2>4, WriteKeeps
<1>3. CASE research[cron[c].run].status # "none"
  BY <1>1, <1>3, LeaveKeeps DEF InsertRun
<1> QED
  BY <1>2, <1>3

\* A run is taken over from an invocation that has ended.
LEMMA ReclaimRunKeeps ==
  ASSUME CycleInv, NEW c \in Cron, ReclaimRun(c)
  PROVE  CycleInv' /\ Forward
<1> DEFINE old == research[cron[c].at]
           row == [old EXCEPT !.age = 0]
<1>1. cron[c].pc = "reclaim" /\ cron[c].at = cron[c].run /\ calls' = calls
  BY Standing DEF ReclaimRun, CallGood
<1>2. CASE cron[c].fresh
  <2>1. Write(c, row, [cron[c] EXCEPT !.pc = "collect"])
    BY <1>1, <1>2 DEF ReclaimRun
  <2>2. old \in RunRow /\ old.status = "running" /\ ~old.sources /\ ~old.superseded
    BY <1>1, <1>2, Standing DEF CallGood, Tokens
  <2>3. /\ row \in RunRow /\ row.status = "running" /\ row.age = 0 /\ ~row.sources
        /\ ~row.superseded
    BY <2>2, Ages DEF RunRow
  <2> HIDE DEF row
  <2>4. WriteFits(c, row, [cron[c] EXCEPT !.pc = "collect"])
    BY <1>1, <1>2, <2>3, AcquiredFits
  <2> QED
    BY <1>1, <2>1, <2>4, WriteKeeps
<1>3. CASE ~cron[c].fresh
  BY <1>1, <1>3, LeaveKeeps DEF ReclaimRun
<1> QED
  BY <1>2, <1>3

\* What the holder of an acquisition may write, and where it may go.
LEMMA HolderFits ==
  ASSUME CycleInv, NEW c \in Cron, cron[c].pc \in Acquiring,
         NEW row \in RunRow, row.status # "none", row.age = 0,
         research[cron[c].at].sources => row.sources,
         row.superseded = research[cron[c].at].superseded,
         row.status = "completed" => row.marker,
         NEW rec, \/ rec = NoCall
                  \/ \E pc \in {"finish", "withdraw", "failed"} : rec = [cron[c] EXCEPT !.pc = pc]
  PROVE  WriteFits(c, row, rec)
<1> USE CycleAssumption
<1> DEFINE r == cron[c].at
           old == research[r]
           j == [rec EXCEPT !.fresh = FALSE]
<1>1. /\ r \in ResearchRun /\ old \in RunRow /\ cron[c].life \in 0 .. Life
      /\ RowGood(old, engineDone[r], base[r], composed[r])
      /\ CallGood(cron[c], old, engineDone[r], base[r], composed[r])
  BY Standing DEF Acquiring
<1>2. ~old.superseded
  BY <1>1 DEF CallGood
<1>3. RowGood(row, engineDone[r], base[r], composed[r])
  BY <1>1, <1>2 DEF RowGood
<1>4. CASE rec = NoCall
  <2>1. rec \in Invocation /\ rec.pc = "idle" /\ rec.at = Later
    BY <1>4 DEF NoCall, Invocation, CronPc
  <2>2. j \in Invocation /\ j.pc = "idle"
    BY <2>1, Unfreshened
  <2>3. CallGood(j, row, engineDone[r], base[r], composed[r])
    BY <2>2, AtNoRow
  <2>4. Enters(c, rec)
    BY <2>1 DEF Enters, Acquiring
  <2> QED
    BY <1>1, <1>2, <1>3, <2>1, <2>3, <2>4 DEF WriteFits
<1>5. ASSUME NEW pc \in {"finish", "withdraw", "failed"}, rec = [cron[c] EXCEPT !.pc = pc]
      PROVE  WriteFits(c, row, rec)
  <2>1. pc \in CronPc /\ pc \in Acquiring
    BY DEF CronPc, Acquiring
  <2>2. /\ rec \in Invocation /\ rec.pc = pc /\ rec.at = r /\ rec.run = cron[c].run
        /\ rec.life = cron[c].life
    BY <1>5, <2>1, Standing, Moved
  <2>3. /\ j \in Invocation /\ j.pc = pc /\ j.at = r /\ j.run = cron[c].run
        /\ j.life = cron[c].life /\ j.fresh = FALSE
    BY <2>2, Unfreshened
  <2> HIDE DEF j
  <2>4. Enters(c, rec)
    BY <2>2 DEF Enters
  <2>5. row.age <= j.life + Life /\ row.age <= j.life /\ r = cron[c].run
    BY <1>1, <2>3 DEF CallGood
  <2>6. CallGood(j, row, engineDone[r], base[r], composed[r])
    BY <1>1, <1>2, <2>1, <2>3, <2>5 DEF CallGood, Tokens, Acquiring
  <2> QED
    BY <1>1, <1>2, <1>3, <2>2, <2>4, <2>6 DEF WriteFits, j
<1> QED
  BY <1>4, <1>5

\* The ledger row is started by the only holder.
LEMMA StartLedgerKeeps ==
  ASSUME CycleInv, NEW c \in Cron, StartLedger(c)
  PROVE  CycleInv' /\ Forward
<1> DEFINE old == research[cron[c].run]
           bare == NoClaim(old)
           started(gate) == [bare EXCEPT !.status = "running",
             !.sources = TRUE, !.gate = gate, !.marker = FALSE, !.age = 0]
<1>1. /\ cron[c].pc = "collect" /\ cron[c].pc \in Acquiring /\ calls' = calls
      /\ cron[c].at = cron[c].run /\ old \in RunRow /\ ~old.sources
  BY Standing DEF StartLedger, CallGood, Acquiring
<1>2. PICK gate \in {"open", "blocked"}, next \in {"finish", "failed"} :
        Write(c, started(gate), [cron[c] EXCEPT !.pc = next])
  BY DEF StartLedger
<1> DEFINE row == started(gate)
<1>3. /\ row \in RunRow /\ row.status = "running" /\ row.age = 0
      /\ row.superseded = old.superseded
  <2>1. bare \in RunRow /\ bare.superseded = old.superseded
    BY <1>1, Unclaimed
  <2> HIDE DEF bare
  <2> QED
    BY <2>1, Ages DEF RunRow
<1> HIDE DEF started
<1>4. WriteFits(c, row, [cron[c] EXCEPT !.pc = next])
  BY <1>1, <1>3, HolderFits
<1> QED
  BY <1>1, <1>2, <1>4, WriteKeeps

\* A source-only run completes with its marker.
LEMMA FinishSourceOnlyKeeps ==
  ASSUME CycleInv, NEW c \in Cron, FinishSourceOnly(c)
  PROVE  CycleInv' /\ Forward
<1> DEFINE old == research[cron[c].at]
           end == IF old.gate # "blocked" /\ old.sources THEN "completed" ELSE "blocked"
           bare == NoClaim(old)
           row == [bare EXCEPT !.marker = TRUE, !.age = 0, !.status = end]
<1>1. /\ cron[c].pc \in Acquiring /\ cron[c].pc \notin {"idle", "recover"} /\ calls' = calls
      /\ old \in RunRow
  BY Standing DEF FinishSourceOnly, Acquiring
<1>2. CASE old.status = "running"
  <2>1. PICK rec \in Answered(c) : Write(c, row, rec)
    BY <1>2 DEF FinishSourceOnly
  <2>2. end \in {"completed", "blocked"}
    OBVIOUS
  <2>3. bare \in RunRow /\ bare.sources = old.sources /\ bare.superseded = old.superseded
    BY <1>1, Unclaimed
  <2> HIDE DEF end, bare
  <2>4. /\ row \in RunRow /\ row.status = end /\ row.marker /\ row.age = 0
        /\ row.sources = old.sources /\ row.superseded = old.superseded
    BY <2>2, <2>3, Ages DEF RunRow
  <2> HIDE DEF row
  <2>5. rec = NoCall \/ rec = [cron[c] EXCEPT !.pc = "withdraw"]
    BY DEF Answered
  <2>6. WriteFits(c, row, rec)
    BY <1>1, <2>2, <2>4, <2>5, HolderFits
  <2> QED
    BY <1>1, <2>1, <2>6, WriteKeeps
<1>3. CASE old.status # "running"
  BY <1>1, <1>3, RetreatKeeps DEF FinishSourceOnly
<1> QED
  BY <1>2, <1>3

\* The run is handed over by its holder.
LEMMA HandOverKeeps ==
  ASSUME CycleInv, NEW c \in Cron, HandOver(c)
  PROVE  CycleInv' /\ Forward
<1> DEFINE old == research[cron[c].at]
           bare == NoClaim(old)
           row == [bare EXCEPT !.status = "running", !.handed = TRUE, !.age = 0]
<1>1. cron[c].pc \in Acquiring /\ calls' = calls /\ old \in RunRow
  BY Standing DEF HandOver, Acquiring
<1>2. PICK rec \in Answered(c) : Write(c, row, rec)
  BY DEF HandOver
<1>3. bare \in RunRow /\ bare.sources = old.sources /\ bare.superseded = old.superseded
  BY <1>1, Unclaimed
<1> HIDE DEF bare
<1>4. /\ row \in RunRow /\ row.status = "running" /\ row.age = 0
      /\ row.sources = old.sources /\ row.superseded = old.superseded
  BY <1>3, Ages DEF RunRow
<1> HIDE DEF row
<1>5. rec = NoCall \/ rec = [cron[c] EXCEPT !.pc = "withdraw"]
  BY DEF Answered
<1>6. WriteFits(c, row, rec)
  BY <1>1, <1>4, <1>5, HolderFits
<1> QED
  BY <1>1, <1>2, <1>6, WriteKeeps

\* The row of a failed acquisition.
LEMMA FailedRow ==
  ASSUME NEW old \in RunRow
  PROVE  /\ Failed(old) \in RunRow /\ Failed(old).status = "failed" /\ Failed(old).age = 0
         /\ Failed(old).sources = old.sources /\ Failed(old).superseded = old.superseded
BY Ages, Unclaimed DEF RunRow, Failed

\* The publisher's error handler is its holder's.
LEMMA WithdrawKeeps ==
  ASSUME CycleInv, NEW c \in Cron, Withdraw(c)
  PROVE  CycleInv' /\ Forward
<1> DEFINE old == research[cron[c].at]
           rec == [cron[c] EXCEPT !.pc = "failed"]
<1>1. /\ cron[c].pc \in Acquiring /\ cron[c].pc \notin {"idle", "recover"} /\ calls' = calls
      /\ old \in RunRow
  BY Standing DEF Withdraw, Acquiring
<1>2. CASE Write(c, Failed(old), rec)
  <2>1. WriteFits(c, Failed(old), rec)
    BY <1>1, FailedRow, HolderFits
  <2> QED
    BY <1>1, <1>2, <2>1, WriteKeeps
<1>3. CASE cron' = [cron EXCEPT ![c] = rec] /\ UNCHANGED <<research, artifacts>>
  BY <1>1, <1>3, RetreatKeeps DEF Goto
<1> QED
  BY <1>2, <1>3 DEF Withdraw

\* So is the handler of the acquisition.
LEMMA MarkClaimFailedKeeps ==
  ASSUME CycleInv, NEW c \in Cron, MarkClaimFailed(c)
  PROVE  CycleInv' /\ Forward
<1> DEFINE old == research[cron[c].at]
<1>1. cron[c].pc \in Acquiring /\ calls' = calls /\ old \in RunRow
  BY Standing DEF MarkClaimFailed, Acquiring
<1>2. CASE Write(c, Failed(old), NoCall)
  <2>1. WriteFits(c, Failed(old), NoCall)
    BY <1>1, FailedRow, HolderFits
  <2> QED
    BY <1>1, <1>2, <2>1, WriteKeeps
<1>3. CASE Leave(c) /\ UNCHANGED <<research, artifacts>>
  BY <1>1, <1>3, LeaveKeeps
<1> QED
  BY <1>2, <1>3 DEF MarkClaimFailed, WriteRunning, Leave

\* All steps of acquisition.
LEMMA AcquisitionKeeps ==
  ASSUME CycleInv, NEW c \in Cron, Acquisition(c)
  PROVE  CycleInv' /\ Forward
<1>1. CASE CollectFails(c)
  BY <1>1, RetreatKeeps DEF CollectFails, Acquiring
<1>2. CASE IntakeFails(c)
  BY <1>2, RetreatKeeps DEF IntakeFails, Acquiring
<1> QED
  BY <1>1, <1>2, BeginAcquisitionKeeps, FindAbandonedKeeps, TerminaliseKeeps, LookupKeeps,
     InsertRunKeeps, ReclaimRunKeeps, StartLedgerKeeps, FinishSourceOnlyKeeps, HandOverKeeps,
     WithdrawKeeps, MarkClaimFailedKeeps
     DEF Acquisition

-----------------------------------------------------------------------------
(* Continuation. *)

\* A continuation begins with nothing read.
LEMMA BeginContinuationKeeps ==
  ASSUME CycleInv, NEW c \in Cron, NEW r \in ResearchRun, BeginContinuation(c, r)
  PROVE  CycleInv' /\ Forward
<1> DEFINE rec == [NoCall EXCEPT !.pc = "read", !.run = r, !.at = r]
<1>1. NoCall \in Invocation /\ NoCall.fresh = FALSE /\ "read" \in CronPc
  BY CycleAssumption DEF NoCall, Invocation, CronPc
<1>2. rec \in Invocation /\ rec.pc = "read" /\ rec.at = r
  BY <1>1 DEF Invocation
<1>3. cron' = [cron EXCEPT ![c] = rec] /\ UNCHANGED <<research, artifacts>>
  BY DEF BeginContinuation
<1>4. calls' \in 0 .. MaxCalls
  BY Standing, CycleAssumption DEF BeginContinuation
<1> HIDE DEF rec
<1>5. Enters(c, rec)
  BY <1>2 DEF Enters, Acquiring
<1>6. CallGood(rec, research[r], engineDone[r], base[r], composed[r])
  BY <1>2 DEF CallGood, Acquiring, Working, Tokens
<1> QED
  BY <1>2, <1>3, <1>4, <1>5, <1>6, MoveKeeps

\* What a continuation reads is true of the row while it stays fresh.
LEMMA ReadKeeps ==
  ASSUME CycleInv, NEW c \in Cron, Read(c)
  PROVE  CycleInv' /\ Forward
<1> DEFINE r == cron[c].at
           old == research[r]
           superseding == [cron[c] EXCEPT !.pc = "supersede", !.fresh = TRUE]
           claiming == [cron[c] EXCEPT !.pc = "claim", !.fresh = TRUE, !.step = Decision(r),
                                       !.done = Resumable(r)]
<1>1. /\ cron[c] \in Invocation /\ r \in ResearchRun /\ old \in RunRow
      /\ RowGood(old, engineDone[r], base[r], composed[r]) /\ calls \in 0 .. MaxCalls
  BY Standing DEF Read
<1>2. UNCHANGED <<research, artifacts, calls>>
  BY DEF Read
<1>3. \/ Supersedable(r) /\ cron' = [cron EXCEPT ![c] = superseding]
      \/ Leave(c)
      \/ Decision(r) # "none" /\ cron' = [cron EXCEPT ![c] = claiming]
  <2> HIDE DEF superseding, claiming
  <2>1. cron' = [cron EXCEPT ![c].pc = "supersede", ![c].fresh = TRUE] =>
          cron' = [cron EXCEPT ![c] = superseding]
    BY Standing DEF superseding, Invocation
  <2>2. cron' = [cron EXCEPT ![c].pc = "claim", ![c].fresh = TRUE,
                             ![c].step = Decision(r), ![c].done = Resumable(r)] =>
          cron' = [cron EXCEPT ![c] = claiming]
    BY Standing DEF claiming, Invocation
  <2> QED
    BY <2>1, <2>2 DEF Read
<1>4. CASE Supersedable(r) /\ cron' = [cron EXCEPT ![c] = superseding]
  <2> DEFINE rec == superseding
  <2>1. rec \in Invocation /\ rec.pc = "supersede" /\ rec.at = r
    BY <1>1 DEF Invocation, CronPc
  <2> HIDE DEF superseding
  <2>2. Enters(c, rec)
    BY <2>1 DEF Enters, Acquiring
  <2>3. CallGood(rec, old, engineDone[r], base[r], composed[r])
    BY <1>1, <1>4, <2>1 DEF CallGood, RowGood, Supersedable, Acquiring, Working, Tokens
  <2> QED
    BY <1>1, <1>2, <1>4, <2>1, <2>2, <2>3, MoveKeeps
<1>5. CASE Leave(c)
  BY <1>2, <1>5, LeaveKeeps
<1>6. CASE Decision(r) # "none" /\ cron' = [cron EXCEPT ![c] = claiming]
  <2> DEFINE rec == claiming
  <2>1. /\ old.status \in {"running", "failed"} /\ old.sources /\ ~old.superseded
        /\ Decision(r) \in {"engine", "publish", "compose", "final"}
        /\ Decision(r) = "final" => composed[r]
    BY <1>1, <1>6 DEF Decision, Resumable, RowGood
  <2>2. Resumable(r) \in BOOLEAN
    BY <1>1, TypesNamed DEF Resumable, CycleInv
  <2> HIDE DEF Decision, Resumable
  <2>3. rec \in Invocation /\ rec.pc = "claim" /\ rec.at = r /\ rec.step = Decision(r)
    BY <1>1, <2>1, <2>2 DEF Invocation, CronPc
  <2> HIDE DEF claiming
  <2>4. Enters(c, rec)
    BY <2>3 DEF Enters, Acquiring
  <2>5. CallGood(rec, old, engineDone[r], base[r], composed[r])
    BY <1>1, <2>1, <2>3 DEF CallGood, Acquiring, Working, Tokens
  <2> QED
    BY <1>1, <1>2, <1>6, <2>3, <2>4, <2>5, MoveKeeps
<1> QED
  BY <1>3, <1>4, <1>5, <1>6

\* What a continuation may write when it ends.
LEMMA EndFits ==
  ASSUME CycleInv, NEW c \in Cron, cron[c].pc \notin {"idle", "recover"},
         NEW row \in RunRow, row.status # "none", row.age = 0,
         research[cron[c].at].status = "running",
         row.sources = research[cron[c].at].sources,
         row.superseded => \/ research[cron[c].at].superseded
                           \/ /\ cron[c].pc = "supersede" /\ cron[c].fresh
                              /\ row.status = "failed",
         row.status = "completed" => base[cron[c].at] = "canonical",
         NEW rec, rec = NoCall \/ rec = [cron[c] EXCEPT !.pc = "error"]
  PROVE  WriteFits(c, row, rec)
<1> USE CycleAssumption
<1> DEFINE r == cron[c].at
           old == research[r]
           j == [rec EXCEPT !.fresh = FALSE]
<1>1. /\ r \in ResearchRun /\ old \in RunRow
      /\ RowGood(old, engineDone[r], base[r], composed[r])
      /\ CallGood(cron[c], old, engineDone[r], base[r], composed[r])
  BY Standing
<1>2. ~old.superseded
  BY <1>1 DEF RowGood
<1>3. RowGood(row, engineDone[r], base[r], composed[r])
  BY <1>1, <1>2 DEF RowGood, CallGood
<1>4. rec \in Invocation /\ rec.pc \in {"idle", "error"} /\ rec.at \in {r, Later}
  <2>1. CASE rec = NoCall
    BY <2>1 DEF NoCall, Invocation, CronPc
  <2>2. CASE rec = [cron[c] EXCEPT !.pc = "error"]
    BY <2>2, Standing, Moved DEF CronPc, Continuing
  <2> QED
    BY <2>1, <2>2
<1>5. j \in Invocation /\ j.pc = rec.pc /\ j.at = rec.at
  BY <1>4, Unfreshened
<1>6. j.pc = "error" => j.at = r
  <2>1. NoCall.pc # "error"
    BY DEF NoCall
  <2>2. [cron[c] EXCEPT !.pc = "error"].at = r
    BY Standing DEF Invocation
  <2> QED
    BY <1>5, <2>1, <2>2
<1> HIDE DEF j
<1>7. CallGood(j, row, engineDone[r], base[r], composed[r])
  BY <1>1, <1>4, <1>5, <1>6 DEF CallGood, Acquiring, Working, Tokens
<1>8. Enters(c, rec)
  BY <1>4 DEF Enters, Acquiring
<1> QED
  BY <1>1, <1>2, <1>3, <1>4, <1>7, <1>8 DEF WriteFits, j

\* A retry old enough to be superseded has no live worker.
LEMMA SupersedeKeeps ==
  ASSUME CycleInv, NEW c \in Cron, Supersede(c)
  PROVE  CycleInv' /\ Forward
<1> DEFINE old == research[cron[c].at]
           row == [old EXCEPT !.status = "failed", !.superseded = TRUE, !.age = 0]
<1>1. cron[c].pc = "supersede" /\ calls' = calls /\ old \in RunRow
  BY Standing DEF Supersede
<1>2. CASE cron[c].fresh
  <2>1. Write(c, row, NoCall)
    BY <1>2 DEF Supersede
  <2>2. /\ row \in RunRow /\ row.status = "failed" /\ row.age = 0
        /\ row.sources = old.sources
    BY <1>1, Ages DEF RunRow
  <2>3. old.status = "running"
    BY <1>1, <1>2, Standing DEF CallGood, Tokens
  <2> HIDE DEF row
  <2>4. WriteFits(c, row, NoCall)
    BY <1>1, <1>2, <2>2, <2>3, EndFits
  <2> QED
    BY <1>1, <2>1, <2>4, WriteKeeps
<1>3. CASE ~cron[c].fresh
  BY <1>1, <1>3, RetreatKeeps DEF Supersede
<1> QED
  BY <1>2, <1>3

\* A claim succeeds on the row that was read.
LEMMA ClaimContinuationKeeps ==
  ASSUME CycleInv, NEW c \in Cron, ClaimContinuation(c)
  PROVE  CycleInv' /\ Forward
<1> USE CycleAssumption
<1> DEFINE r == cron[c].at
           old == research[r]
           life == cron[c].life
           row == [old EXCEPT !.status = "running", !.claim = life, !.age = life,
                              !.early = @ \/ ~old.handed]
           next == IF cron[c].step = "engine" THEN "start" ELSE cron[c].step
           owner == [cron[c] EXCEPT !.pc = next, !.claimed = TRUE]
           error == [cron[c] EXCEPT !.pc = "error"]
<1>1. /\ cron[c].pc = "claim" /\ calls' = calls
      /\ r \in ResearchRun /\ old \in RunRow /\ life \in 0 .. Life
      /\ RowGood(old, engineDone[r], base[r], composed[r])
      /\ CallGood(cron[c], old, engineDone[r], base[r], composed[r])
  BY Standing DEF ClaimContinuation
<1>2. CASE cron[c].fresh /\ \E rec \in {owner, error} : Write(c, row, rec)
  <2>1. PICK rec \in {owner, error} : Write(c, row, rec)
    BY <1>2
  <2>2. /\ cron[c].step \in {"engine", "publish", "compose", "final"}
        /\ cron[c].step = "final" => composed[r]
        /\ old.sources /\ ~old.superseded /\ old.status \in {"running", "failed"}
    BY <1>1, <1>2 DEF CallGood, Tokens
  <2>3. next \in {"start", "publish", "compose", "final"} /\ next \in CronPc
        /\ (next = "final" => composed[r])
    BY <2>2 DEF CronPc, Continuing, Working
  <2>4. old.handed \in BOOLEAN
    BY <1>1 DEF RunRow
  <2>5. /\ owner \in Invocation /\ owner.pc = next /\ owner.at = r /\ owner.life = life
    <3> HIDE DEF next
    <3> QED
      BY <2>3, <2>4, Standing DEF Invocation
  <2>6. /\ error \in Invocation /\ error.pc = "error" /\ error.at = r /\ error.life = life
    BY Standing, Moved DEF CronPc, Continuing
  <2>7. /\ row \in RunRow /\ row.status = "running" /\ row.age = life
        /\ row.sources = old.sources /\ row.superseded = old.superseded
    <3> HIDE DEF life
    <3>1. life \in 0 .. ClaimStale /\ life \in 0 .. Abandoned
      BY <1>1, Ages
    <3> QED
      BY <1>1, <3>1 DEF RunRow
  <2>8. RowGood(row, engineDone[r], base[r], composed[r])
    BY <1>1, <2>2, <2>7 DEF RowGood
  <2> HIDE DEF row, owner, error, next, life
  <2>9. /\ rec \in Invocation /\ rec.at = r /\ rec.life = life
        /\ \/ rec.pc \in {"start", "publish", "compose", "error"}
           \/ rec.pc = "final" /\ composed[r]
    BY <2>1, <2>3, <2>5, <2>6
  <2>10. Enters(c, rec)
    BY <2>9 DEF Enters, Acquiring
  <2> DEFINE j == [rec EXCEPT !.fresh = FALSE]
  <2>11. /\ j \in Invocation /\ j.pc = rec.pc /\ j.at = r /\ j.life = life
         /\ j.fresh = FALSE
    BY <2>9, Unfreshened
  <2> HIDE DEF j
  <2>12. row.age <= j.life + Life
    BY <1>1, <2>7, <2>11
  <2>13. composed[r] => base[r] = "canonical"
    BY <1>1 DEF RowGood
  <2>14. CallGood(j, row, engineDone[r], base[r], composed[r])
    BY <1>1, <2>2, <2>7, <2>9, <2>11, <2>12, <2>13 DEF CallGood, Acquiring, Working, Tokens
  <2>15. row.age <= Life
    BY <1>1, <2>7
  <2>16. WriteFits(c, row, rec)
    BY <1>1, <2>2, <2>7, <2>8, <2>9, <2>10, <2>14, <2>15 DEF WriteFits, j
  <2> QED
    BY <1>1, <2>1, <2>16, WriteKeeps
<1>3. CASE Leave(c) /\ UNCHANGED <<research, artifacts>>
  BY <1>1, <1>3, LeaveKeeps
<1>4. CASE Goto(c, "error") /\ UNCHANGED <<research, artifacts>>
  BY <1>1, <1>4, RetreatKeeps
<1> QED
  BY <1>2, <1>3, <1>4 DEF ClaimContinuation

\* Places inside a continuation, whatever artifacts have been added meanwhile.
LEMMA AdvanceFits ==
  ASSUME CycleInv, NEW c \in Cron, cron[c].pc \in Working, NEW rec \in Invocation,
         rec.at = cron[c].at, rec.life = cron[c].life, rec.run = cron[c].run,
         rec.pc \in {"engine", "publish", "compose", "final", "release", "error"},
         rec.pc = "engine" => cron[c].pc = "start",
         NEW done, NEW edition, NEW stored,
         rec.pc = "final" => rec.step \in {"failed", "blocked"} \/ edition = "canonical"
  PROVE  /\ Enters(c, rec)
         /\ CallGood(rec, research[rec.at], done, edition, stored)
<1>1. /\ rec.at \in ResearchRun
      /\ CallGood(cron[c], research[rec.at], engineDone[rec.at], base[rec.at], composed[rec.at])
  BY Standing DEF Working
<1>2. Enters(c, rec)
  BY DEF Enters, Acquiring
<1>3. CallGood(rec, research[rec.at], done, edition, stored)
  BY <1>1 DEF CallGood, Acquiring, Working, Tokens
<1> QED
  BY <1>2, <1>3

\* Where a completed engine leads.
LEMMA AfterEngineForm ==
  ASSUME CycleInv, NEW c \in Cron, AfterEngine(c), cron[c].pc \in {"start", "engine"}
  PROVE  \E rec \in Invocation :
           /\ cron' = [cron EXCEPT ![c] = rec]
           /\ rec.at = cron[c].at /\ rec.life = cron[c].life /\ rec.run = cron[c].run
           /\ rec.pc = "publish" \/ (rec.pc = "final" /\ rec.step = "blocked")
<1> DEFINE end == [cron[c] EXCEPT !.pc = "final", !.step = "blocked"]
           go == [cron[c] EXCEPT !.pc = "publish", !.done = TRUE]
<1>1. "final" \in CronPc /\ "publish" \in CronPc
  BY DEF CronPc, Continuing, Working
<1>2. /\ end \in Invocation /\ end.pc = "final" /\ end.step = "blocked"
      /\ end.at = cron[c].at /\ end.life = cron[c].life /\ end.run = cron[c].run
  BY <1>1, Standing DEF Invocation
<1>3. /\ go \in Invocation /\ go.pc = "publish"
      /\ go.at = cron[c].at /\ go.life = cron[c].life /\ go.run = cron[c].run
  BY <1>1, Standing DEF Invocation
<1>4. cron' = [cron EXCEPT ![c] = end] \/ cron' = [cron EXCEPT ![c] = go]
  BY DEF AfterEngine
<1> HIDE DEF end, go
<1> QED
  BY <1>2, <1>3, <1>4

\* An invocation that only changes its place, as a record.
LEMMA GotoForm ==
  ASSUME CycleInv, NEW c \in Cron, NEW pc \in CronPc, Goto(c, pc)
  PROVE  \E rec \in Invocation :
           /\ cron' = [cron EXCEPT ![c] = rec] /\ rec.pc = pc
           /\ rec.at = cron[c].at /\ rec.life = cron[c].life /\ rec.run = cron[c].run
           /\ rec.step = cron[c].step
<1> DEFINE rec == [cron[c] EXCEPT !.pc = pc]
<1>1. /\ rec \in Invocation /\ rec.pc = pc
      /\ rec.at = cron[c].at /\ rec.life = cron[c].life /\ rec.run = cron[c].run
      /\ rec.step = cron[c].step
  BY Standing, Moved
<1>2. cron' = [cron EXCEPT ![c] = rec]
  BY DEF Goto
<1> HIDE DEF rec
<1> QED
  BY <1>1, <1>2

\* The engine is started or replayed.
LEMMA StartEngineKeeps ==
  ASSUME CycleInv, NEW c \in Cron, StartEngine(c)
  PROVE  CycleInv' /\ Forward
<1>1. /\ cron[c].pc = "start" /\ cron[c].pc \in Working
      /\ UNCHANGED <<research, artifacts, calls>>
  BY DEF StartEngine, Working
<1>2. PICK rec \in Invocation :
        /\ cron' = [cron EXCEPT ![c] = rec]
        /\ rec.at = cron[c].at /\ rec.life = cron[c].life /\ rec.run = cron[c].run
        /\ \/ rec.pc \in {"publish", "engine", "error"}
           \/ rec.pc = "final" /\ rec.step = "blocked"
  <2>1. CASE AfterEngine(c)
    BY <1>1, <2>1, AfterEngineForm
  <2>2. CASE Goto(c, "engine")
    BY <2>2, GotoForm DEF CronPc, Continuing, Working
  <2>3. CASE Goto(c, "error")
    BY <2>3, GotoForm DEF CronPc, Continuing
  <2> QED
    BY <2>1, <2>2, <2>3 DEF StartEngine
<1>3. /\ Enters(c, rec)
      /\ CallGood(rec, research[rec.at], engineDone[rec.at], base[rec.at], composed[rec.at])
  BY <1>1, <1>2, AdvanceFits
<1>4. calls' \in 0 .. MaxCalls
  BY <1>1, Standing
<1> QED
  BY <1>1, <1>2, <1>3, <1>4, MoveKeeps

\* The engine completes for a run with sources.
LEMMA EngineCompletesKeeps ==
  ASSUME CycleInv, NEW c \in Cron, EngineCompletes(c)
  PROVE  CycleInv' /\ Forward
<1> DEFINE r == cron[c].at
<1>1. /\ cron[c].pc = "engine" /\ cron[c].pc \in Working /\ r \in ResearchRun
      /\ research' = research /\ composed' = composed /\ calls' \in 0 .. MaxCalls
      /\ engineDone' = [engineDone EXCEPT ![r] = TRUE]
      /\ base' = base \/ base' = [base EXCEPT ![r] = "canonical"]
  BY Standing DEF EngineCompletes, Working
<1>2. PICK rec \in Invocation :
        /\ cron' = [cron EXCEPT ![c] = rec]
        /\ rec.at = r /\ rec.life = cron[c].life /\ rec.run = cron[c].run
        /\ rec.pc = "publish" \/ (rec.pc = "final" /\ rec.step = "blocked")
  BY <1>1, AfterEngineForm DEF EngineCompletes
<1>3. /\ Enters(c, rec)
      /\ CallGood(rec, research[rec.at], engineDone'[rec.at], base'[rec.at], composed'[rec.at])
  BY <1>1, <1>2, AdvanceFits
<1>4. /\ engineDone \in [ResearchRun -> BOOLEAN] /\ composed \in [ResearchRun -> BOOLEAN]
      /\ base \in [ResearchRun -> {"none", "canonical", "legacy"}]
      /\ \A q \in ResearchRun : composed[q] => base[q] = "canonical"
  BY TypesNamed DEF CycleInv, RowsGood, RowGood
<1>5. /\ engineDone' \in [ResearchRun -> BOOLEAN] /\ composed' \in [ResearchRun -> BOOLEAN]
      /\ base' \in [ResearchRun -> {"none", "canonical", "legacy"}]
  BY <1>1, <1>4
<1>6. \A q \in ResearchRun :
        /\ engineDone'[q] => engineDone[q] \/ (q = r /\ cron[c].pc = "engine")
        /\ base[q] = "canonical" => base'[q] = "canonical"
        /\ composed[q] => composed'[q]
        /\ composed'[q] => base'[q] = "canonical"
  BY <1>1, <1>4
<1> QED
  BY <1>1, <1>2, <1>3, <1>5, <1>6, ArtifactsKeep

\* An engine that stops takes no artifact away.
LEMMA EngineStopsKeeps ==
  ASSUME CycleInv, NEW c \in Cron, EngineStops(c)
  PROVE  CycleInv' /\ Forward
<1> DEFINE r == cron[c].at
<1>1. /\ cron[c].pc = "engine" /\ cron[c].pc \in Working /\ r \in ResearchRun
      /\ research' = research /\ base' = base /\ composed' = composed
      /\ calls' \in 0 .. MaxCalls
  BY Standing DEF EngineStops, Working
<1>2. PICK row \in BOOLEAN : engineDone' = [engineDone EXCEPT ![r] = row /\ @]
  BY DEF EngineStops
<1>3. PICK rec \in Invocation :
        /\ cron' = [cron EXCEPT ![c] = rec]
        /\ rec.at = r /\ rec.life = cron[c].life /\ rec.run = cron[c].run
        /\ rec.pc = "release" \/ (rec.pc = "final" /\ rec.step \in {"failed", "blocked"})
  <2>1. CASE Goto(c, "release")
    BY <2>1, GotoForm DEF CronPc, Continuing
  <2>2. ASSUME NEW outcome \in {"failed", "blocked"},
               cron' = [cron EXCEPT ![c].pc = "final", ![c].step = outcome]
        PROVE  cron' = [cron EXCEPT ![c] = [cron[c] EXCEPT !.pc = "final", !.step = outcome]]
    BY <2>2, Standing DEF Invocation
  <2>3. ASSUME NEW outcome \in {"failed", "blocked"}
        PROVE  LET end == [cron[c] EXCEPT !.pc = "final", !.step = outcome] IN
               /\ end \in Invocation /\ end.pc = "final" /\ end.step = outcome
               /\ end.at = r /\ end.life = cron[c].life /\ end.run = cron[c].run
    BY Standing DEF Invocation, CronPc, Continuing
  <2>4. CASE \E outcome \in {"failed", "blocked"} :
               cron' = [cron EXCEPT ![c].pc = "final", ![c].step = outcome]
    <3>1. PICK outcome \in {"failed", "blocked"} :
            cron' = [cron EXCEPT ![c].pc = "final", ![c].step = outcome]
      BY <2>4
    <3> DEFINE end == [cron[c] EXCEPT !.pc = "final", !.step = outcome]
    <3>2. cron' = [cron EXCEPT ![c] = end]
      BY <2>2, <3>1
    <3>3. /\ end \in Invocation /\ end.pc = "final" /\ end.step = outcome
          /\ end.at = r /\ end.life = cron[c].life /\ end.run = cron[c].run
      BY <2>3
    <3> HIDE DEF end
    <3> QED
      BY <3>2, <3>3
  <2> QED
    BY <2>1, <2>4 DEF EngineStops
<1>4. /\ Enters(c, rec)
      /\ CallGood(rec, research[rec.at], engineDone'[rec.at], base'[rec.at], composed'[rec.at])
  BY <1>1, <1>3, AdvanceFits
<1>5. /\ engineDone \in [ResearchRun -> BOOLEAN] /\ composed \in [ResearchRun -> BOOLEAN]
      /\ base \in [ResearchRun -> {"none", "canonical", "legacy"}]
      /\ \A q \in ResearchRun : composed[q] => base[q] = "canonical"
  BY TypesNamed DEF CycleInv, RowsGood, RowGood
<1>6. /\ engineDone' \in [ResearchRun -> BOOLEAN]
      /\ \A q \in ResearchRun : engineDone'[q] => engineDone[q]
  BY <1>1, <1>2, <1>5
<1> QED
  BY <1>1, <1>3, <1>4, <1>5, <1>6, ArtifactsKeep

\* A canonical base edition is added, never replaced.
LEMMA PublishKeeps ==
  ASSUME CycleInv, NEW c \in Cron, Publish(c)
  PROVE  CycleInv' /\ Forward
<1> DEFINE r == cron[c].at
<1>1. /\ cron[c].pc = "publish" /\ cron[c].pc \in Working /\ r \in ResearchRun
      /\ research' = research /\ engineDone' = engineDone /\ composed' = composed
      /\ calls' \in 0 .. MaxCalls
      /\ base' = base \/ base' = [base EXCEPT ![r] = "canonical"]
  BY Standing DEF Publish, Working
<1>2. PICK rec \in Invocation :
        /\ cron' = [cron EXCEPT ![c] = rec]
        /\ rec.at = r /\ rec.life = cron[c].life /\ rec.run = cron[c].run
        /\ rec.pc \in {"release", "compose", "error"}
  <2>1. Goto(c, "release") \/ Goto(c, "compose") \/ Goto(c, "error")
    BY DEF Publish
  <2>2. {"release", "compose", "error"} \subseteq CronPc
    BY DEF CronPc, Continuing, Working
  <2> QED
    BY <2>1, <2>2, GotoForm
<1>3. /\ Enters(c, rec)
      /\ CallGood(rec, research[rec.at], engineDone'[rec.at], base'[rec.at], composed'[rec.at])
  BY <1>1, <1>2, AdvanceFits
<1>4. /\ engineDone \in [ResearchRun -> BOOLEAN] /\ composed \in [ResearchRun -> BOOLEAN]
      /\ base \in [ResearchRun -> {"none", "canonical", "legacy"}]
      /\ \A q \in ResearchRun : composed[q] => base[q] = "canonical"
  BY TypesNamed DEF CycleInv, RowsGood, RowGood
<1>5. /\ base' \in [ResearchRun -> {"none", "canonical", "legacy"}]
      /\ \A q \in ResearchRun : base[q] = "canonical" => base'[q] = "canonical"
  BY <1>1, <1>4
<1> QED
  BY <1>1, <1>2, <1>3, <1>4, <1>5, ArtifactsKeep

\* Only a canonical edition is composed.
LEMMA ComposeKeeps ==
  ASSUME CycleInv, NEW c \in Cron, Compose(c)
  PROVE  CycleInv' /\ Forward
<1> DEFINE r == cron[c].at
<1>1. /\ cron[c].pc = "compose" /\ cron[c].pc \in Working /\ r \in ResearchRun
      /\ research' = research /\ engineDone' = engineDone /\ base' = base
      /\ calls' \in 0 .. MaxCalls
  BY Standing DEF Compose, Working
<1>2. /\ engineDone \in [ResearchRun -> BOOLEAN] /\ composed \in [ResearchRun -> BOOLEAN]
      /\ base \in [ResearchRun -> {"none", "canonical", "legacy"}]
      /\ \A q \in ResearchRun : composed[q] => base[q] = "canonical"
  BY TypesNamed DEF CycleInv, RowsGood, RowGood
<1>3. PICK rec \in Invocation :
        /\ cron' = [cron EXCEPT ![c] = rec]
        /\ rec.at = r /\ rec.life = cron[c].life /\ rec.run = cron[c].run
        /\ rec.pc \in {"release", "error"} \/ (rec.pc = "final" /\ base[r] = "canonical")
  <2>1. \/ Goto(c, "release") \/ Goto(c, "error")
        \/ Goto(c, "final") /\ base[r] = "canonical"
    BY DEF Compose
  <2>2. {"release", "final", "error"} \subseteq CronPc
    BY DEF CronPc, Continuing
  <2> QED
    BY <2>1, <2>2, GotoForm
<1>4. /\ Enters(c, rec)
      /\ CallGood(rec, research[rec.at], engineDone'[rec.at], base'[rec.at], composed'[rec.at])
  BY <1>1, <1>3, AdvanceFits
<1>5. \/ composed' = composed
      \/ /\ base[r] = "canonical"
         /\ \E stored \in BOOLEAN : composed' = [composed EXCEPT ![r] = @ \/ stored]
  BY DEF Compose
<1>6. /\ composed' \in [ResearchRun -> BOOLEAN]
      /\ \A q \in ResearchRun : /\ composed[q] => composed'[q]
                                /\ composed'[q] => base[q] = "canonical"
  BY <1>1, <1>2, <1>5
<1> QED
  BY <1>1, <1>2, <1>3, <1>4, <1>6, ArtifactsKeep

\* A write that is filtered by status = running, at the end of a continuation.
LEMMA FilteredKeeps ==
  ASSUME CycleInv, NEW c \in Cron, NEW row, NEW rec, WriteRunning(c, row, rec),
         calls' = calls, cron[c].pc \notin {"idle", "recover"},
         rec = NoCall \/ rec = [cron[c] EXCEPT !.pc = "error"],
         research[cron[c].at].status = "running" =>
           /\ row \in RunRow /\ row.status # "none" /\ row.age = 0
           /\ row.sources = research[cron[c].at].sources
           /\ row.superseded = research[cron[c].at].superseded
           /\ row.status = "completed" => base[cron[c].at] = "canonical"
  PROVE  CycleInv' /\ Forward
<1>1. CASE research[cron[c].at].status = "running"
  <2>1. Write(c, row, rec)
    BY <1>1 DEF WriteRunning
  <2>2. WriteFits(c, row, rec)
    BY <1>1, EndFits
  <2> QED
    BY <2>1, <2>2, WriteKeeps
<1>2. CASE research[cron[c].at].status # "running"
  <2>1. cron' = [cron EXCEPT ![c] = rec] /\ UNCHANGED <<research, artifacts>>
    BY <1>2 DEF WriteRunning
  <2>2. CASE rec = NoCall
    BY <2>1, <2>2, LeaveKeeps DEF Leave
  <2>3. CASE rec = [cron[c] EXCEPT !.pc = "error"]
    BY <2>1, <2>3, RetreatKeeps DEF Goto
  <2> QED
    BY <2>2, <2>3
<1> QED
  BY <1>1, <1>2

\* The row of a run that is left to be resumed.
LEMMA ReleasedRow ==
  ASSUME CycleInv, NEW r \in ResearchRun
  PROVE  /\ Released(r) \in RunRow /\ Released(r).status = research[r].status
         /\ Released(r).age = 0 /\ Released(r).sources = research[r].sources
         /\ Released(r).superseded = research[r].superseded
<1> DEFINE bare == NoClaim(research[r])
<1>1. /\ bare \in RunRow /\ bare.status = research[r].status
      /\ bare.sources = research[r].sources /\ bare.superseded = research[r].superseded
  BY TypesNamed, Unclaimed DEF CycleInv
<1>2. Released(r) = [bare EXCEPT !.age = 0]
  BY DEF Released
<1> HIDE DEF bare
<1> QED
  BY <1>1, <1>2, Ages DEF RunRow

\* A run is completed with its edition, or ends without.
LEMMA PersistFinalKeeps ==
  ASSUME CycleInv, NEW c \in Cron, PersistFinal(c)
  PROVE  CycleInv' /\ Forward
<1> DEFINE old == research[cron[c].at]
           end == Outcome(c)
           life == cron[c].life
           row == [old EXCEPT !.status = end, !.claim = life, !.age = 0]
<1>1. /\ cron[c].pc = "final" /\ calls' = calls /\ old \in RunRow /\ life \in 0 .. Life
      /\ CallGood(cron[c], old, engineDone[cron[c].at], base[cron[c].at],
                  composed[cron[c].at])
  BY Standing DEF PersistFinal
<1>2. /\ end \in {"completed", "failed", "blocked"}
      /\ end = "completed" => base[cron[c].at] = "canonical"
  BY <1>1 DEF Outcome, CallGood
<1>3. life \in 0 .. ClaimStale
  BY <1>1, Ages
<1> HIDE DEF end, life
<1>4. /\ row \in RunRow /\ row.status = end /\ row.age = 0
      /\ row.sources = old.sources /\ row.superseded = old.superseded
  BY <1>1, <1>2, <1>3, Ages DEF RunRow
<1>5. CASE \E rec \in {NoCall, [cron[c] EXCEPT !.pc = "error"]} : WriteRunning(c, row, rec)
  <2>1. PICK rec \in {NoCall, [cron[c] EXCEPT !.pc = "error"]} : WriteRunning(c, row, rec)
    BY <1>5
  <2> HIDE DEF row
  <2> QED
    BY <1>1, <1>2, <1>4, <2>1, FilteredKeeps
<1>6. CASE Goto(c, "error") /\ UNCHANGED <<research, artifacts>>
  BY <1>1, <1>6, RetreatKeeps
<1> QED
  BY <1>5, <1>6 DEF PersistFinal, end, life

\* A run is left to be resumed.
LEMMA PersistResumableKeeps ==
  ASSUME CycleInv, NEW c \in Cron, PersistResumable(c)
  PROVE  CycleInv' /\ Forward
<1> DEFINE row == Released(cron[c].at)
<1>1. cron[c].pc = "release" /\ calls' = calls /\ cron[c].at \in ResearchRun
  BY Standing DEF PersistResumable
<1>2. /\ row \in RunRow /\ row.status = research[cron[c].at].status /\ row.age = 0
      /\ row.sources = research[cron[c].at].sources
      /\ row.superseded = research[cron[c].at].superseded
  BY <1>1, ReleasedRow
<1>3. CASE \E rec \in {NoCall, [cron[c] EXCEPT !.pc = "error"]} : WriteRunning(c, row, rec)
  <2>1. PICK rec \in {NoCall, [cron[c] EXCEPT !.pc = "error"]} : WriteRunning(c, row, rec)
    BY <1>3
  <2> HIDE DEF row
  <2> QED
    BY <1>1, <1>2, <2>1, FilteredKeeps
<1>4. CASE Goto(c, "error") /\ UNCHANGED <<research, artifacts>>
  BY <1>1, <1>4, RetreatKeeps
<1> QED
  BY <1>3, <1>4 DEF PersistResumable

\* An error fails the run or leaves it to be resumed.
LEMMA HandleErrorKeeps ==
  ASSUME CycleInv, NEW c \in Cron, HandleError(c)
  PROVE  CycleInv' /\ Forward
<1> DEFINE r == cron[c].at
           old == research[r]
           claim == IF cron[c].claimed THEN cron[c].life ELSE ClaimStale
           failed == [old EXCEPT !.status = "failed", !.claim = claim, !.age = 0]
<1>1. /\ cron[c].pc = "error" /\ calls' = calls /\ r \in ResearchRun /\ old \in RunRow
      /\ cron[c].life \in 0 .. Life
  BY Standing DEF HandleError
<1>2. claim \in 0 .. ClaimStale
  BY <1>1, Ages
<1> HIDE DEF claim
<1>3. /\ failed \in RunRow /\ failed.status = "failed" /\ failed.age = 0
      /\ failed.sources = old.sources /\ failed.superseded = old.superseded
  BY <1>1, <1>2, Ages DEF RunRow
<1>4. /\ Released(r) \in RunRow /\ Released(r).status = old.status /\ Released(r).age = 0
      /\ Released(r).sources = old.sources /\ Released(r).superseded = old.superseded
  BY <1>1, ReleasedRow
<1>5. \/ WriteRunning(c, Released(r), NoCall)
      \/ WriteRunning(c, failed, NoCall)
      \/ Leave(c) /\ UNCHANGED <<research, artifacts>>
  BY DEF HandleError, claim
<1>6. CASE WriteRunning(c, Released(r), NoCall)
  BY <1>1, <1>4, <1>6, FilteredKeeps
<1>7. CASE WriteRunning(c, failed, NoCall)
  <2> HIDE DEF failed
  <2> QED
    BY <1>1, <1>3, <1>7, FilteredKeeps
<1>8. CASE Leave(c) /\ UNCHANGED <<research, artifacts>>
  BY <1>1, <1>8, LeaveKeeps
<1> QED
  BY <1>5, <1>6, <1>7, <1>8

\* All steps of continuation.
LEMMA ContinuationKeeps ==
  ASSUME CycleInv, NEW c \in Cron, Continuation(c)
  PROVE  CycleInv' /\ Forward
BY BeginContinuationKeeps, ReadKeeps, SupersedeKeeps, ClaimContinuationKeeps, StartEngineKeeps,
   EngineCompletesKeeps, EngineStopsKeeps, PublishKeeps, ComposeKeeps, PersistFinalKeeps,
   PersistResumableKeeps, HandleErrorKeeps
   DEF Continuation

-----------------------------------------------------------------------------
(* The theorems. *)

\* The invariant is inductive, and no step takes back what Forward names.
LEMMA CycleStep == CycleInv /\ [CycleNext]_cycleVars => CycleInv' /\ Forward
<1> SUFFICES ASSUME CycleInv, [CycleNext]_cycleVars PROVE CycleInv' /\ Forward
  OBVIOUS
<1>1. CASE \E c \in Cron : Acquisition(c)
  BY <1>1, AcquisitionKeeps
<1>2. CASE \E c \in Cron : Continuation(c)
  BY <1>2, ContinuationKeeps
<1>3. CASE \E c \in Cron : Killed(c)
  BY <1>3, LeaveKeeps DEF Killed
<1>4. CASE CycleTick
  BY <1>4, TickKeeps
<1>5. CASE UNCHANGED cycleVars
  <2>1. UNCHANGED <<research, engineDone, base, composed, cron, calls>>
    BY <1>5 DEF cycleVars
  <2>2. CycleTypeOK'
    BY <2>1 DEF CycleInv, CycleTypeOK
  <2>3. RowsGood' /\ CallsGood' /\ OneAcquisition'
    BY <2>1 DEF CycleInv, RowsGood, CallsGood, OneAcquisition
  <2> QED
    BY <2>1, <2>2, <2>3 DEF CycleInv, Forward
<1> QED
  BY <1>1, <1>2, <1>3, <1>4, <1>5 DEF CycleNext

\* The invariant holds for ever.
LEMMA CycleInvariant == CycleSpec => []CycleInv
<1>1. CycleInv /\ [CycleNext]_cycleVars => CycleInv'
  BY CycleStep
<1> QED
  BY CycleInitInv, <1>1, PTL DEF CycleSpec

\* Every variable of the cycle keeps its type.
THEOREM CycleTypes == CycleSpec => []CycleTypeOK
<1>1. CycleInv => CycleTypeOK
  BY DEF CycleInv
<1> QED
  BY CycleInvariant, <1>1, PTL

\* However late they are, two invocations never acquire one run (the claim by run key
\* and its takeover, lib/cron-research-handler.ts).
THEOREM AcquisitionIsSingle == CycleSpec => []OneAcquisition
<1>1. CycleInv => OneAcquisition
  BY DEF CycleInv
<1> QED
  BY CycleInvariant, <1>1, PTL

\* No interleaving of publication, database trigger and lost answers completes a run
\* without its canonical edition.
THEOREM CompletedHasEdition == CycleSpec => []CompletedIsPublished
<1>1. CycleInv => CompletedIsPublished
  BY DEF CycleInv, RowsGood, RowGood, CompletedIsPublished
<1> QED
  BY CycleInvariant, <1>1, PTL

\* Nobody works any more at a retry that terminaliseSupersededRetry has closed.
THEOREM SupersededStaysClosed == CycleSpec => SupersededIsFinal
<1>1. ASSUME CycleInv, CycleInv', Forward, NEW r \in ResearchRun, research[r].superseded
      PROVE  /\ research'[r].status = "failed" /\ ~engineDone'[r]
             /\ \A c \in Cron : cron'[c].at = r => cron'[c].pc \notin Working
  <2>1. research'[r].superseded
    BY <1>1 DEF Forward
  <2>2. RowGood(research'[r], engineDone'[r], base'[r], composed'[r])
    BY <1>1 DEF CycleInv, RowsGood
  <2>3. \A c \in Cron : CallGood(cron'[c], research'[cron'[c].at], engineDone'[cron'[c].at],
                                 base'[cron'[c].at], composed'[cron'[c].at])
    BY <1>1 DEF CycleInv, CallsGood
  <2> QED
    BY <2>1, <2>2, <2>3 DEF RowGood, CallGood
<1>2. CycleInv /\ CycleInv' /\ [CycleNext]_cycleVars =>
        [\A r \in ResearchRun : research[r].superseded =>
           /\ research'[r].status = "failed"
           /\ ~engineDone'[r]
           /\ \A c \in Cron : cron'[c].at = r => cron'[c].pc \notin Working]_cycleVars
  BY <1>1, CycleStep
<1> QED
  BY CycleInvariant, <1>2, PTL DEF CycleSpec, SupersededIsFinal

\* No late continuation, lost answer or error takes a completed run back.
THEOREM CompletedStays == CycleSpec => CompletedIsKept
<1>1. CycleInv /\ [CycleNext]_cycleVars =>
        [\A r \in ResearchRun :
           /\ research[r].status = "completed"
           /\ \A c \in Cron : cron[c].pc \in Acquiring => cron[c].run # r
           => research'[r].status = "completed"]_cycleVars
  BY CycleStep DEF Forward
<1> QED
  BY CycleInvariant, <1>1, PTL DEF CycleSpec, CompletedIsKept

-----------------------------------------------------------------------------
(* Owners.  On a run that nobody claimed before it was handed over, an invocation    *)
(* between its claim and its release is the only one whose engine result the row     *)
(* can still wait for.                                                               *)

\* The engine's result is there and may be published.
Usable(row, done) == done /\ row.gate # "blocked"

\* An invocation i at the row is at the engine or about to give up its claim.
Owns(i, row, done) ==
  i.pc \in {"start", "engine", "release"} /\ ~row.early /\ ~Usable(row, done)

\* What an invocation i knows of the claim on the row it works at.
ClaimGood(i, row, done) ==
  /\ i.pc = "finish" => row.sources /\ ~row.handed
  /\ ~row.early =>
       /\ i.pc \in {"publish", "compose"} => Usable(row, done)
       /\ i.done /\ i.pc \in {"claim"} \union Continuing => Usable(row, done)
       /\ i.pc = "claim" /\ i.fresh /\ i.step # "engine" => Usable(row, done)
       /\ i.pc = "claim" /\ i.fresh /\ i.step = "engine" =>
            row.status = "running" /\ row.claim = ClaimStale /\ ~Usable(row, done)
       /\ i.pc = "start" => ~Usable(row, done)
       /\ i.pc = "engine" => ~done
  /\ Owns(i, row, done) => /\ row.handed
                           /\ row.status # "running" \/ row.claim <= i.life

RowsClaimed ==
  \A r \in ResearchRun : research[r].handed \/ research[r].early => research[r].sources
CallsClaimed ==
  \A c \in Cron : cron[c].at \in ResearchRun =>
    ClaimGood(cron[c], research[cron[c].at], engineDone[cron[c].at])
OneOwner ==
  \A c, d \in Cron : /\ cron[c].at \in ResearchRun /\ cron[c].at = cron[d].at
                     /\ Owns(cron[c], research[cron[c].at], engineDone[cron[c].at])
                     /\ Owns(cron[d], research[cron[c].at], engineDone[cron[c].at])
                     => c = d

\* Inductive relative to CycleInv.
OwnInv == RowsClaimed /\ CallsClaimed /\ OneOwner

\* At the start nothing is claimed.
LEMMA OwnInit == CycleInit => OwnInv
<1> SUFFICES ASSUME CycleInit PROVE OwnInv
  OBVIOUS
<1>1. RowsClaimed
  BY DEF CycleInit, NoRow, RowsClaimed
<1>2. CallsClaimed /\ OneOwner
  BY CycleAssumption DEF CycleInit, NoCall, CallsClaimed, OneOwner
<1> QED
  BY <1>1, <1>2 DEF OwnInv

\* What an invocation may rely on of its claim.
LEMMA Claimed ==
  ASSUME CycleInv, OwnInv, NEW c \in Cron, cron[c].at \in ResearchRun
  PROVE  /\ ClaimGood(cron[c], research[cron[c].at], engineDone[cron[c].at])
         /\ cron[c] \in Invocation /\ research[cron[c].at] \in RunRow
         /\ engineDone[cron[c].at] \in BOOLEAN
         /\ engineDone[cron[c].at] => research[cron[c].at].sources
         /\ research[cron[c].at].handed \/ research[cron[c].at].early
              => research[cron[c].at].sources
         /\ CallGood(cron[c], research[cron[c].at], engineDone[cron[c].at],
                     base[cron[c].at], composed[cron[c].at])
BY Standing, TypesNamed DEF OwnInv, CallsClaimed, RowsClaimed, CycleInv, RowsGood, RowGood

\* An invocation moves; no row and no engine run is written.
LEMMA LocalOwns ==
  ASSUME CycleInv, OwnInv, NEW c \in Cron, NEW rec, cron' = [cron EXCEPT ![c] = rec],
         UNCHANGED <<research, engineDone>>,
         rec.at \in ResearchRun =>
           /\ ClaimGood(rec, research[rec.at], engineDone[rec.at])
           /\ Owns(rec, research[rec.at], engineDone[rec.at]) =>
                /\ rec.at = cron[c].at
                /\ Owns(cron[c], research[rec.at], engineDone[rec.at])
  PROVE  OwnInv'
<1>1. cron \in [Cron -> Invocation]
  BY TypesNamed DEF CycleInv
<1>2. cron'[c] = rec /\ \A d \in Cron : d # c => cron'[d] = cron[d]
  BY <1>1
<1>3. RowsClaimed'
  BY DEF OwnInv, RowsClaimed
<1>4. CallsClaimed'
  BY <1>2 DEF OwnInv, CallsClaimed
<1>5. OneOwner'
  <2> SUFFICES ASSUME NEW e \in Cron, NEW d \in Cron, cron'[e].at \in ResearchRun,
                      cron'[e].at = cron'[d].at,
                      Owns(cron'[e], research[cron'[e].at], engineDone[cron'[e].at]),
                      Owns(cron'[d], research[cron'[e].at], engineDone[cron'[e].at])
               PROVE  e = d
    BY DEF OneOwner
  <2>1. /\ cron[e].at = cron'[e].at
        /\ Owns(cron[e], research[cron'[e].at], engineDone[cron'[e].at])
    BY <1>2
  <2>2. /\ cron[d].at = cron'[d].at
        /\ Owns(cron[d], research[cron'[e].at], engineDone[cron'[e].at])
    BY <1>2
  <2> QED
    BY <2>1, <2>2 DEF OwnInv, OneOwner
<1> QED
  BY <1>3, <1>4, <1>5 DEF OwnInv

\* Nobody but c owns the run that c works at.
Alone(c) ==
  \A d \in Cron : d # c /\ cron[d].at = cron[c].at =>
    ~Owns(cron[d], research[cron[c].at], engineDone[cron[c].at])

\* What c writes to the row it works at does not contradict what others know of it.
WriteOwn(c, row, rec) ==
  LET r == cron[c].at
      old == research[r] IN
  /\ rec \in Invocation /\ rec.at \in {r, Later}
  /\ row.handed \/ row.early => row.sources
  /\ old.sources => row.sources
  /\ old.early => row.early
  /\ old.handed => row.handed
  /\ \/ row.handed => old.handed
     \/ \A d \in Cron : d # c /\ cron[d].at = r => cron[d].pc # "finish"
  /\ ~row.early => Usable(row, engineDone[r]) = Usable(old, engineDone[r])
  /\ \/ row.status # "running"
     \/ row.status = old.status /\ row.claim = old.claim
     \/ Alone(c)
  /\ rec.at = r => /\ ClaimGood([rec EXCEPT !.fresh = FALSE], row, engineDone[r])
                   /\ Owns(rec, row, engineDone[r]) =>
                        Owns(cron[c], old, engineDone[r]) \/ Alone(c)

\* Then the others keep what they know, less the freshness.
LEMMA OthersOwn ==
  ASSUME CycleInv, OwnInv, NEW c \in Cron, NEW row, NEW rec, WriteOwn(c, row, rec),
         cron[c].at \in ResearchRun, NEW d \in Cron, d # c, cron[d].at = cron[c].at
  PROVE  LET r == cron[c].at
             j == [cron[d] EXCEPT !.fresh = FALSE] IN
         /\ ClaimGood(j, row, engineDone[r])
         /\ Owns(j, row, engineDone[r]) => Owns(cron[d], research[r], engineDone[r])
<1> DEFINE r == cron[c].at
           old == research[r]
           i == cron[d]
           j == [i EXCEPT !.fresh = FALSE]
<1>1. ClaimGood(i, old, engineDone[r]) /\ i \in Invocation
  BY Claimed
<1>2. /\ j.fresh = FALSE /\ j.pc = i.pc /\ j.life = i.life /\ j.done = i.done
      /\ j.step = i.step
  BY <1>1, Unfreshened
<1> HIDE DEF j
<1>3. /\ old.sources => row.sources
      /\ old.early => row.early
      /\ old.handed => row.handed
      /\ (row.handed => old.handed) \/ i.pc # "finish"
      /\ ~row.early => Usable(row, engineDone[r]) = Usable(old, engineDone[r])
      /\ \/ row.status # "running"
         \/ row.status = old.status /\ row.claim = old.claim
         \/ ~Owns(i, old, engineDone[r])
  BY DEF WriteOwn, Alone
<1> HIDE DEF i, old, r
<1>4. Owns(j, row, engineDone[r]) => Owns(i, old, engineDone[r])
  BY <1>2, <1>3 DEF Owns
<1>5. Owns(j, row, engineDone[r]) => /\ row.handed
                                     /\ row.status # "running" \/ row.claim <= j.life
  BY <1>1, <1>2, <1>3, <1>4 DEF ClaimGood
<1>6. ClaimGood(j, row, engineDone[r])
  BY <1>1, <1>2, <1>3, <1>5 DEF ClaimGood
<1> QED
  BY <1>4, <1>6 DEF i, j, old, r

\* A write that agrees with what others know of the claim preserves the invariant.
LEMMA WriteOwns ==
  ASSUME CycleInv, OwnInv, NEW c \in Cron, NEW row, NEW rec, WriteOwn(c, row, rec),
         cron[c].at \in ResearchRun, Write(c, row, rec)
  PROVE  OwnInv'
<1> DEFINE r == cron[c].at
           old == research[r]
           done == engineDone[r]
           i == [rec EXCEPT !.fresh = FALSE]
           j(d) == [cron[d] EXCEPT !.fresh = FALSE]
<1>1. /\ research'[r] = row /\ \A q \in ResearchRun : q # r => research'[q] = research[q]
      /\ cron'[c] = i
      /\ \A d \in Cron : d # c /\ cron[d].at = r => cron'[d] = j(d)
      /\ \A d \in Cron : d # c /\ cron[d].at # r => cron'[d] = cron[d]
      /\ UNCHANGED engineDone
  BY WriteEffect DEF CycleInv
<1>2. /\ rec \in Invocation /\ rec.at \in {r, Later}
      /\ row.handed \/ row.early => row.sources
      /\ rec.at = r => /\ ClaimGood(i, row, done)
                       /\ Owns(rec, row, done) => Owns(cron[c], old, done) \/ Alone(c)
  BY DEF WriteOwn
<1>3. i.at = rec.at /\ i.pc = rec.pc
  BY <1>2, Unfreshened
<1>4. \A d \in Cron : j(d).at = cron[d].at
  BY Standing, Unfreshened
<1>5. \A d \in Cron : d # c /\ cron[d].at = r =>
        ClaimGood(j(d), row, done) /\ (Owns(j(d), row, done) => Owns(cron[d], old, done))
  BY OthersOwn
<1>6. Later \notin ResearchRun
  BY CycleAssumption
<1> HIDE DEF i, j
<1>7. RowsClaimed'
  BY <1>1, <1>2 DEF OwnInv, RowsClaimed
<1>8. CallsClaimed'
  <2> SUFFICES ASSUME NEW d \in Cron, cron'[d].at \in ResearchRun
               PROVE  ClaimGood(cron'[d], research'[cron'[d].at], engineDone[cron'[d].at])
    BY <1>1 DEF CallsClaimed
  <2>1. CASE d = c
    BY <2>1, <1>1, <1>2, <1>3, <1>6
  <2>2. CASE d # c /\ cron[d].at = r
    BY <2>2, <1>1, <1>4, <1>5
  <2>3. CASE d # c /\ cron[d].at # r
    BY <2>3, <1>1 DEF OwnInv, CallsClaimed
  <2> QED
    BY <2>1, <2>2, <2>3
<1>9. OneOwner'
  <2> SUFFICES ASSUME NEW e \in Cron, NEW d \in Cron, cron'[e].at \in ResearchRun,
                      cron'[e].at = cron'[d].at, e # d,
                      Owns(cron'[e], research'[cron'[e].at], engineDone[cron'[e].at]),
                      Owns(cron'[d], research'[cron'[e].at], engineDone[cron'[e].at])
               PROVE  FALSE
    BY <1>1 DEF OneOwner
  <2>1. CASE cron'[e].at # r
    <3>1. e # c /\ d # c
      BY <2>1, <1>1, <1>2, <1>3, <1>6
    <3>2. cron'[e] = cron[e] /\ cron'[d] = cron[d]
      BY <2>1, <3>1, <1>1, <1>4
    <3> QED
      BY <2>1, <3>2, <1>1 DEF OwnInv, OneOwner
  <2>2. CASE cron'[e].at = r /\ e # c /\ d # c
    <3>1. cron[e].at = r /\ cron[d].at = r
      BY <2>2, <1>1
    <3>2. Owns(cron[e], old, done) /\ Owns(cron[d], old, done)
      BY <2>2, <3>1, <1>1, <1>5
    <3> QED
      BY <3>1, <3>2 DEF OwnInv, OneOwner
  <2>3. ASSUME NEW q \in Cron, q # c, cron'[q].at = r, cron'[c].at = r,
               Owns(cron'[q], row, done), Owns(cron'[c], row, done)
        PROVE  FALSE
    <3>1. cron[q].at = r
      BY <2>3, <1>1
    <3>2. Owns(cron[q], old, done)
      BY <2>3, <3>1, <1>1, <1>5
    <3>3. Owns(rec, row, done)
      BY <2>3, <1>1, <1>3 DEF Owns
    <3>4. Owns(cron[c], old, done)
      BY <2>3, <3>1, <3>2, <3>3, <1>1, <1>2, <1>3 DEF Alone
    <3> QED
      BY <2>3, <3>1, <3>2, <3>4 DEF OwnInv, OneOwner
  <2> QED
    BY <2>1, <2>2, <2>3, <1>1
<1> QED
  BY <1>7, <1>8, <1>9 DEF OwnInv

\* The engine of c stores its result; where nobody claimed early, it takes none back.
LEMMA EngineOwns ==
  ASSUME CycleInv, OwnInv, NEW c \in Cron, cron[c].at \in ResearchRun,
         cron[c].pc = "engine", NEW v \in BOOLEAN, NEW rec, rec.at = cron[c].at,
         rec.pc \notin {"start", "engine"},
         cron' = [cron EXCEPT ![c] = rec], engineDone' = [engineDone EXCEPT ![cron[c].at] = v],
         UNCHANGED research,
         ClaimGood(rec, research[cron[c].at], v)
  PROVE  OwnInv'
<1> DEFINE r == cron[c].at
           row == research[r]
<1>1. /\ cron \in [Cron -> Invocation] /\ engineDone \in [ResearchRun -> BOOLEAN]
  BY TypesNamed DEF CycleInv
<1>2. /\ cron'[c] = rec /\ \A d \in Cron : d # c => cron'[d] = cron[d]
      /\ engineDone'[r] = v
      /\ \A q \in ResearchRun : q # r => engineDone'[q] = engineDone[q]
  BY <1>1
<1>3. ~row.early => ~engineDone[r] /\ Owns(cron[c], row, engineDone[r])
  BY Claimed DEF ClaimGood, Owns, Usable
<1>4. \A d \in Cron : d # c /\ cron[d].at = r => ~Owns(cron[d], row, engineDone[r])
  BY <1>3 DEF OwnInv, OneOwner, Owns
<1>5. \A d \in Cron : d # c /\ cron[d].at = r => ClaimGood(cron[d], row, v)
  <2> SUFFICES ASSUME NEW d \in Cron, d # c, cron[d].at = r
               PROVE  ClaimGood(cron[d], row, v)
    OBVIOUS
  <2>1. ClaimGood(cron[d], row, engineDone[r]) /\ ~Owns(cron[d], row, engineDone[r])
    BY <1>4, Claimed
  <2>2. ~row.early => ~Usable(row, engineDone[r]) /\ cron[d].pc \notin {"start", "engine", "release"}
    BY <1>3, <2>1 DEF Owns, Usable
  <2>3. ~Owns(cron[d], row, v)
    BY <2>2 DEF Owns
  <2>4. ~row.early /\ row.status = "running" => row.claim # ClaimStale
    <3>1. ~row.early => row.status # "running" \/ row.claim <= cron[c].life
      BY <1>3, Claimed DEF ClaimGood
    <3> QED
      BY <3>1, Standing, CycleAssumption
  <2> QED
    BY <2>1, <2>2, <2>3, <2>4 DEF ClaimGood
<1>6. RowsClaimed'
  BY DEF OwnInv, RowsClaimed
<1>7. CallsClaimed'
  <2> SUFFICES ASSUME NEW d \in Cron, cron'[d].at \in ResearchRun
               PROVE  ClaimGood(cron'[d], research[cron'[d].at], engineDone'[cron'[d].at])
    BY DEF CallsClaimed
  <2>1. CASE d = c
    BY <2>1, <1>2
  <2>2. CASE d # c /\ cron[d].at = r
    BY <2>2, <1>2, <1>5
  <2>3. CASE d # c /\ cron[d].at # r
    BY <2>3, <1>2 DEF OwnInv, CallsClaimed
  <2> QED
    BY <2>1, <2>2, <2>3
<1>8. OneOwner'
  <2> SUFFICES ASSUME NEW e \in Cron, NEW d \in Cron, cron'[e].at \in ResearchRun,
                      cron'[e].at = cron'[d].at, e # d,
                      Owns(cron'[e], research[cron'[e].at], engineDone'[cron'[e].at]),
                      Owns(cron'[d], research[cron'[e].at], engineDone'[cron'[e].at])
               PROVE  FALSE
    BY DEF OneOwner
  <2>1. CASE cron'[e].at # r
    <3>1. e # c /\ d # c
      BY <2>1, <1>2
    <3> QED
      BY <2>1, <3>1, <1>2 DEF OwnInv, OneOwner
  <2>2. ASSUME NEW q \in Cron, q # c, cron'[q].at = r, Owns(cron'[q], row, v)
        PROVE  FALSE
    <3>1. cron[q].at = r /\ ~row.early /\ cron[q].pc \in {"start", "engine", "release"}
      BY <2>2, <1>2 DEF Owns
    <3> QED
      BY <2>2, <3>1, <1>3, <1>4 DEF Owns
  <2> QED
    BY <2>1, <2>2, <1>2
<1> QED
  BY <1>6, <1>7, <1>8 DEF OwnInv

\* Claims grow old no faster than those who made them.
LEMMA TickOwns == ASSUME CycleInv, OwnInv, CycleTick PROVE OwnInv'
<1>1. cron \in [Cron -> Invocation] /\ research \in [ResearchRun -> RunRow]
  BY TypesNamed DEF CycleInv
<1> DEFINE old(r) == research[r]
           row(r) == [research[r] EXCEPT !.age = Older(@, Abandoned),
                                         !.claim = Older(@, ClaimStale)]
           i(d) == IF cron[d].pc = "idle" THEN cron[d] ELSE [cron[d] EXCEPT !.life = @ + 1]
<1>2. /\ \A r \in ResearchRun : research'[r] = row(r)
      /\ \A d \in Cron : cron'[d] = i(d)
      /\ engineDone' = engineDone
  BY DEF CycleTick, artifacts
<1>3. ASSUME NEW r \in ResearchRun
      PROVE  /\ row(r).status = old(r).status /\ row(r).sources = old(r).sources
             /\ row(r).gate = old(r).gate /\ row(r).handed = old(r).handed
             /\ row(r).early = old(r).early
             /\ row(r).claim = Older(old(r).claim, ClaimStale)
             /\ old(r).claim \in 0 .. ClaimStale
  BY <1>1 DEF RunRow
<1>4. ASSUME NEW d \in Cron
      PROVE  /\ i(d).pc = cron[d].pc /\ i(d).at = cron[d].at /\ i(d).done = cron[d].done
             /\ i(d).fresh = cron[d].fresh /\ i(d).step = cron[d].step
             /\ cron[d].pc # "idle" => i(d).life = cron[d].life + 1
             /\ cron[d].life \in 0 .. Life
  BY <1>1 DEF Invocation
<1> HIDE DEF i, row
<1>5. ASSUME NEW d \in Cron, NEW r \in ResearchRun
      PROVE  Owns(i(d), row(r), engineDone[r]) <=> Owns(cron[d], old(r), engineDone[r])
  BY <1>3, <1>4 DEF Owns, Usable
<1>6. ASSUME NEW d \in Cron, NEW r \in ResearchRun, ClaimGood(cron[d], old(r), engineDone[r])
      PROVE  ClaimGood(i(d), row(r), engineDone[r])
  <2>1. old(r).claim = ClaimStale => row(r).claim = ClaimStale
    BY <1>3, CycleAssumption DEF Older
  <2>2. old(r).claim <= cron[d].life => row(r).claim <= cron[d].life + 1
    BY <1>3, <1>4, CycleAssumption DEF Older
  <2>3. Owns(i(d), row(r), engineDone[r]) =>
          row(r).handed /\ (row(r).status # "running" \/ row(r).claim <= i(d).life)
    <3> SUFFICES ASSUME Owns(i(d), row(r), engineDone[r])
                 PROVE  row(r).handed /\ (row(r).status # "running" \/ row(r).claim <= i(d).life)
      OBVIOUS
    <3>1. Owns(cron[d], old(r), engineDone[r]) /\ cron[d].pc # "idle"
      BY <1>5 DEF Owns
    <3>2. old(r).handed /\ (old(r).status # "running" \/ old(r).claim <= cron[d].life)
      BY <3>1, <1>6 DEF ClaimGood
    <3> QED
      BY <3>1, <3>2, <2>2, <1>3, <1>4
  <2>4. Usable(row(r), engineDone[r]) = Usable(old(r), engineDone[r])
    BY <1>3 DEF Usable
  <2> HIDE DEF old
  <2> QED
    BY <1>3, <1>4, <1>6, <2>1, <2>3, <2>4 DEF ClaimGood
<1>7. RowsClaimed'
  BY <1>2, <1>3 DEF OwnInv, RowsClaimed
<1>8. CallsClaimed'
  BY <1>2, <1>4, <1>6 DEF OwnInv, CallsClaimed
<1>9. OneOwner'
  BY <1>2, <1>4, <1>5 DEF OwnInv, OneOwner
<1> QED
  BY <1>7, <1>8, <1>9 DEF OwnInv

\* An invocation ends, or works at no row of the slot.
LEMMA AwayOwns ==
  ASSUME CycleInv, OwnInv, NEW c \in Cron, NEW rec, cron' = [cron EXCEPT ![c] = rec],
         rec.at = Later, UNCHANGED <<research, engineDone>>
  PROVE  OwnInv'
BY LocalOwns, CycleAssumption

LEMMA LeaveOwns ==
  ASSUME CycleInv, OwnInv, NEW c \in Cron, Leave(c), UNCHANGED <<research, artifacts>>
  PROVE  OwnInv'
<1>1. NoCall.at = Later
  BY DEF NoCall
<1>2. cron' = [cron EXCEPT ![c] = NoCall] /\ UNCHANGED <<research, engineDone>>
  BY DEF Leave, artifacts
<1> QED
  BY <1>1, <1>2, AwayOwns

\* Places at which an invocation knows nothing of a claim.
Unknowing == {"read", "reread", "supersede", "terminalise", "insert", "reclaim", "collect",
              "withdraw", "failed"}

\* An invocation goes to such a place, or gives up with what it knew of the engine.
LEMMA RetreatOwns ==
  ASSUME CycleInv, OwnInv, NEW c \in Cron, NEW pc, Goto(c, pc),
         UNCHANGED <<research, engineDone>>,
         \/ pc \in Unknowing
         \/ pc \in {"error", "final"} /\ cron[c].pc \in {"claim"} \union Continuing
  PROVE  OwnInv'
<1> DEFINE rec == [cron[c] EXCEPT !.pc = pc]
<1>1. cron[c] \in Invocation
  BY Standing
<1>2. rec.pc = pc /\ rec.at = cron[c].at /\ rec.done = cron[c].done
  BY <1>1 DEF Invocation
<1>3. cron' = [cron EXCEPT ![c] = rec]
  BY DEF Goto
<1> HIDE DEF rec
<1>4. ASSUME rec.at \in ResearchRun
      PROVE  ClaimGood(rec, research[rec.at], engineDone[rec.at])
  <2>1. ClaimGood(cron[c], research[rec.at], engineDone[rec.at])
    BY <1>2, <1>4, Claimed
  <2> QED
    BY <1>2, <2>1 DEF ClaimGood, Owns, Unknowing, Continuing, Working
<1>5. ASSUME rec.at \in ResearchRun
      PROVE  ~Owns(rec, research[rec.at], engineDone[rec.at])
  BY <1>2 DEF Owns, Unknowing
<1> QED
  BY <1>3, <1>4, <1>5, LocalOwns

\* A write that leaves the row as far as claims go, or ends it, or is made alone.
LEMMA PlainOwns ==
  ASSUME CycleInv, OwnInv, NEW c \in Cron, NEW row, NEW rec, Write(c, row, rec),
         cron[c].at \in ResearchRun, rec \in Invocation,
         row.sources = research[cron[c].at].sources, row.gate = research[cron[c].at].gate,
         row.handed = research[cron[c].at].handed, row.early = research[cron[c].at].early,
         \/ row.status # "running"
         \/ row.status = research[cron[c].at].status /\ row.claim = research[cron[c].at].claim
         \/ Alone(c),
         \/ rec.at = Later
         \/ rec.at = cron[c].at /\ rec.pc \in Unknowing
         \/ /\ rec.at = cron[c].at /\ rec.pc = "error" /\ rec.done = cron[c].done
            /\ cron[c].pc \in {"claim"} \union Continuing
  PROVE  OwnInv'
<1> DEFINE r == cron[c].at
           old == research[r]
           j == [rec EXCEPT !.fresh = FALSE]
<1>1. /\ ClaimGood(cron[c], old, engineDone[r]) /\ cron[c] \in Invocation
      /\ old.handed \/ old.early => old.sources
  BY Claimed
<1>2. j.pc = rec.pc /\ j.done = rec.done /\ j.fresh = FALSE
  BY Unfreshened
<1>3. Later # r
  BY CycleAssumption
<1>4. Usable(row, engineDone[r]) = Usable(old, engineDone[r])
  BY DEF Usable
<1>5. rec.at = r => ~Owns(rec, row, engineDone[r])
  BY <1>3 DEF Owns, Unknowing
<1>6. rec.at = r => ClaimGood(j, row, engineDone[r])
  <2> HIDE DEF j, old
  <2> SUFFICES ASSUME rec.at = r PROVE ClaimGood(j, row, engineDone[r])
    OBVIOUS
  <2>1. ~Owns(j, row, engineDone[r]) /\ j.pc \notin {"start", "engine", "publish", "compose",
                                                     "finish", "claim"}
    BY <1>2, <1>3 DEF Owns, Unknowing
  <2>2. ~row.early /\ j.done /\ j.pc \in {"claim"} \union Continuing => Usable(row, engineDone[r])
    BY <1>1, <1>2, <1>3, <1>4 DEF ClaimGood, Unknowing, Continuing, Working, old
  <2> QED
    BY <2>1, <2>2 DEF ClaimGood
<1>7. WriteOwn(c, row, rec)
  BY <1>1, <1>4, <1>5, <1>6 DEF WriteOwn
<1> QED
  BY <1>7, WriteOwns

\* Nobody owns a run that is not handed over.
LEMMA UnhandedAlone ==
  ASSUME CycleInv, OwnInv, NEW c \in Cron, cron[c].at \in ResearchRun,
         ~research[cron[c].at].handed \/ ~research[cron[c].at].sources
  PROVE  Alone(c)
<1> SUFFICES ASSUME NEW d \in Cron, cron[d].at = cron[c].at,
                    Owns(cron[d], research[cron[c].at], engineDone[cron[c].at])
             PROVE  FALSE
  BY DEF Alone
<1> QED
  BY Claimed DEF ClaimGood

\* Nor one whose engine result may be published, nor one that c itself owns.
LEMMA UsableAlone ==
  ASSUME CycleInv, OwnInv, NEW c \in Cron, cron[c].at \in ResearchRun,
         \/ Usable(research[cron[c].at], engineDone[cron[c].at])
         \/ research[cron[c].at].early
         \/ Owns(cron[c], research[cron[c].at], engineDone[cron[c].at])
  PROVE  Alone(c)
BY DEF Alone, Owns, OwnInv, OneOwner

\* The same for a write that is filtered by status = running.
LEMMA FilteredOwns ==
  ASSUME CycleInv, OwnInv, NEW c \in Cron, NEW row, NEW rec, WriteRunning(c, row, rec),
         cron[c].pc \in Continuing \/ cron[c].pc = "failed",
         row.sources = research[cron[c].at].sources, row.gate = research[cron[c].at].gate,
         row.handed = research[cron[c].at].handed, row.early = research[cron[c].at].early,
         row.status # "running" \/ Alone(c),
         \/ rec = NoCall
         \/ rec = [cron[c] EXCEPT !.pc = "error"] /\ cron[c].pc \in Continuing
  PROVE  OwnInv'
<1>1. cron[c] \in Invocation /\ cron[c].at \in ResearchRun
  BY Standing DEF Continuing, Working
<1>2. CASE rec = NoCall
  <2>1. rec \in Invocation /\ rec.at = Later
    BY <1>2, CycleAssumption DEF NoCall, Invocation, CronPc
  <2>2. CASE research[cron[c].at].status = "running"
    BY <2>1, <2>2, <1>1, PlainOwns DEF WriteRunning
  <2>3. CASE research[cron[c].at].status # "running"
    <3>1. cron' = [cron EXCEPT ![c] = rec] /\ UNCHANGED <<research, engineDone>>
      BY <2>3 DEF WriteRunning, artifacts
    <3> QED
      BY <2>1, <3>1, AwayOwns
  <2> QED
    BY <2>2, <2>3
<1>3. CASE rec = [cron[c] EXCEPT !.pc = "error"] /\ cron[c].pc \in Continuing
  <2>1. rec \in Invocation /\ rec.at = cron[c].at /\ rec.pc = "error" /\ rec.done = cron[c].done
    BY <1>1, <1>3, Moved DEF CronPc, Continuing
  <2>2. CASE research[cron[c].at].status = "running"
    BY <2>1, <2>2, <1>1, <1>3, PlainOwns DEF WriteRunning
  <2>3. CASE research[cron[c].at].status # "running"
    <3>1. Goto(c, "error") /\ UNCHANGED <<research, engineDone>>
      BY <1>3, <2>3 DEF WriteRunning, artifacts, Goto
    <3> QED
      BY <1>3, <3>1, RetreatOwns
  <2> QED
    BY <2>2, <2>3
<1> QED
  BY <1>2, <1>3

\* Steps of an acquisition, but for the three that write status = running.
LEMMA BeginOwns ==
  ASSUME CycleInv, OwnInv, NEW c \in Cron, NEW k, NEW sourceOnly,
         BeginAcquisition(c, k, sourceOnly)
  PROVE  OwnInv'
<1> DEFINE rec == [NoCall EXCEPT !.pc = "recover", !.run = k,
                                 !.sourceOnly = (k # Later /\ sourceOnly)]
<1>1. rec.at = Later
  BY DEF NoCall
<1>2. cron' = [cron EXCEPT ![c] = rec] /\ UNCHANGED <<research, engineDone>>
  BY DEF BeginAcquisition, artifacts
<1> HIDE DEF rec
<1> QED
  BY <1>1, <1>2, AwayOwns

\* A record at a place where nothing is known.
LEMMA UnknowingOwns ==
  ASSUME CycleInv, OwnInv, NEW c \in Cron, NEW rec, cron' = [cron EXCEPT ![c] = rec],
         rec.pc \in Unknowing, UNCHANGED <<research, engineDone>>
  PROVE  OwnInv'
<1>1. ASSUME rec.at \in ResearchRun
      PROVE  /\ ClaimGood(rec, research[rec.at], engineDone[rec.at])
             /\ ~Owns(rec, research[rec.at], engineDone[rec.at])
  BY DEF ClaimGood, Owns, Unknowing, Continuing, Working
<1> QED
  BY <1>1, LocalOwns

LEMMA FindAbandonedOwns ==
  ASSUME CycleInv, OwnInv, NEW c \in Cron, NEW r \in ResearchRun, FindAbandoned(c, r)
  PROVE  OwnInv'
<1> DEFINE j == [[cron[c] EXCEPT !.pc = "terminalise"] EXCEPT !.at = r]
           rec == [j EXCEPT !.fresh = TRUE]
<1>1. cron \in [Cron -> Invocation] /\ cron[c] \in Invocation
  BY TypesNamed DEF CycleInv
<1>2. rec.pc = "terminalise"
  BY <1>1 DEF Invocation
<1>3. cron' = [cron EXCEPT ![c] = rec] /\ UNCHANGED <<research, engineDone>>
  BY <1>1 DEF FindAbandoned, artifacts
<1> HIDE DEF rec
<1> QED
  BY <1>2, <1>3, UnknowingOwns DEF Unknowing

LEMMA TerminaliseOwns ==
  ASSUME CycleInv, OwnInv, NEW c \in Cron, Terminalise(c) PROVE OwnInv'
<1> DEFINE r == cron[c].at
           row == [research[r] EXCEPT !.status = "failed", !.age = 0]
           rec == [cron[c] EXCEPT !.pc = "recover", !.at = Later]
<1>1. /\ cron[c].pc = "terminalise" /\ r \in ResearchRun /\ research[r] \in RunRow
      /\ cron \in [Cron -> Invocation] /\ cron[c] \in Invocation
  BY Standing, TypesNamed DEF Terminalise, CycleInv
<1>2. /\ rec \in Invocation /\ rec.at = Later
  BY <1>1 DEF Invocation, CronPc
<1>3. /\ row.status = "failed" /\ row.sources = research[r].sources
      /\ row.gate = research[r].gate /\ row.handed = research[r].handed
      /\ row.early = research[r].early
  BY <1>1 DEF RunRow
<1>4. CASE cron[c].fresh
  <2>1. Write(c, row, rec)
    BY <1>4 DEF Terminalise
  <2> HIDE DEF row, rec
  <2> QED
    BY <2>1, <1>1, <1>2, <1>3, PlainOwns
<1>5. CASE ~cron[c].fresh
  <2>1. cron' = [cron EXCEPT ![c] = rec] /\ UNCHANGED <<research, engineDone>>
    BY <1>5, <1>1 DEF Terminalise, artifacts
  <2> HIDE DEF rec
  <2> QED
    BY <2>1, <1>2, AwayOwns
<1> QED
  BY <1>4, <1>5

LEMMA LookupOwns ==
  ASSUME CycleInv, OwnInv, NEW c \in Cron, Lookup(c) PROVE OwnInv'
<1> DEFINE r == cron[c].run
           found(pc) == [cron[c] EXCEPT !.pc = pc, !.at = r, !.fresh = (pc = "reclaim")]
<1>1. cron \in [Cron -> Invocation] /\ cron[c] \in Invocation
  BY TypesNamed DEF CycleInv
<1>2. found("insert").pc = "insert" /\ found("reclaim").pc = "reclaim" /\ NoCall.at = Later
  BY <1>1 DEF Invocation, NoCall
<1>3. /\ UNCHANGED <<research, engineDone>>
      /\ \/ cron' = [cron EXCEPT ![c] = NoCall]
         \/ cron' = [cron EXCEPT ![c] = found("insert")]
         \/ cron' = [cron EXCEPT ![c] = found("reclaim")]
  BY DEF Lookup, artifacts
<1> HIDE DEF found
<1> QED
  BY <1>2, <1>3, AwayOwns, UnknowingOwns DEF Unknowing

LEMMA ReclaimOwns ==
  ASSUME CycleInv, OwnInv, NEW c \in Cron, ReclaimRun(c) PROVE OwnInv'
<1> DEFINE r == cron[c].at
           row == [research[r] EXCEPT !.age = 0]
           rec == [cron[c] EXCEPT !.pc = "collect"]
<1>1. /\ cron[c].pc = "reclaim" /\ r \in ResearchRun /\ research[r] \in RunRow
      /\ cron[c] \in Invocation /\ cron[c].run = r
  BY Standing DEF ReclaimRun, CallGood
<1>2. rec \in Invocation /\ rec.at = r /\ rec.pc = "collect"
  BY <1>1, Moved DEF CronPc, Acquiring
<1>3. /\ row.status = research[r].status /\ row.sources = research[r].sources
      /\ row.gate = research[r].gate /\ row.handed = research[r].handed
      /\ row.early = research[r].early /\ row.claim = research[r].claim
  BY <1>1 DEF RunRow
<1>4. CASE cron[c].fresh
  <2>1. Write(c, row, rec)
    BY <1>1, <1>4 DEF ReclaimRun
  <2> HIDE DEF row, rec
  <2> QED
    BY <2>1, <1>1, <1>2, <1>3, PlainOwns DEF Unknowing
<1>5. CASE ~cron[c].fresh
  BY <1>5, LeaveOwns DEF ReclaimRun
<1> QED
  BY <1>4, <1>5

\* The row that acquisition's own error handlers write.
LEMMA FailedClaims ==
  ASSUME NEW row \in RunRow
  PROVE  /\ Failed(row).status = "failed" /\ Failed(row).sources = row.sources
         /\ Failed(row).gate = row.gate /\ Failed(row).handed = row.handed
         /\ Failed(row).early = row.early
BY DEF Failed, NoClaim, RunRow

\* An invocation after an answer.
LEMMA AnsweredForm ==
  ASSUME NEW c \in Cron, cron[c] \in Invocation, NEW rec \in Answered(c)
  PROVE  rec \in Invocation /\ (rec.at = Later \/ (rec.at = cron[c].at /\ rec.pc = "withdraw"))
<1>1. NoCall \in Invocation /\ NoCall.at = Later
  BY CycleAssumption DEF NoCall, Invocation, CronPc
<1>2. "withdraw" \in CronPc
  BY DEF CronPc, Acquiring
<1> DEFINE j == [cron[c] EXCEPT !.pc = "withdraw"]
<1>3. j \in Invocation /\ j.at = cron[c].at /\ j.pc = "withdraw"
  BY <1>2, Moved
<1> HIDE DEF j
<1>4. rec = NoCall \/ rec = j
  BY DEF Answered, j
<1> QED
  BY <1>1, <1>3, <1>4

LEMMA FinishSourceOnlyOwns ==
  ASSUME CycleInv, OwnInv, NEW c \in Cron, FinishSourceOnly(c) PROVE OwnInv'
<1> DEFINE r == cron[c].at
           old == research[r]
           bare == NoClaim(old)
           status == IF old.gate # "blocked" /\ old.sources THEN "completed" ELSE "blocked"
           row == [bare EXCEPT !.marker = TRUE, !.age = 0, !.status = status]
<1>1. /\ cron[c].pc = "finish" /\ r \in ResearchRun /\ old \in RunRow
      /\ cron[c] \in Invocation
  BY Standing DEF FinishSourceOnly
<1>2. /\ row.status # "running" /\ row.sources = old.sources /\ row.gate = old.gate
      /\ row.handed = old.handed /\ row.early = old.early
  BY <1>1 DEF RunRow, NoClaim
<1>3. CASE old.status = "running"
  <2>1. PICK rec \in Answered(c) : Write(c, row, rec)
    BY <1>3 DEF FinishSourceOnly
  <2>3. rec \in Invocation /\ (rec.at = Later \/ (rec.at = r /\ rec.pc = "withdraw"))
    BY AnsweredForm, <1>1
  <2> HIDE DEF row
  <2> QED
    BY <2>1, <2>3, <1>1, <1>2, PlainOwns DEF Unknowing
<1>4. CASE old.status # "running"
  BY <1>4, RetreatOwns DEF FinishSourceOnly, Unknowing, artifacts
<1> QED
  BY <1>3, <1>4

LEMMA WithdrawOwns ==
  ASSUME CycleInv, OwnInv, NEW c \in Cron, Withdraw(c) PROVE OwnInv'
<1> DEFINE rec == [cron[c] EXCEPT !.pc = "failed"]
           row == Failed(research[cron[c].at])
<1>1. /\ cron[c].pc = "withdraw" /\ cron[c].at \in ResearchRun /\ cron[c] \in Invocation
      /\ research[cron[c].at] \in RunRow
  BY Standing DEF Withdraw
<1>2. rec \in Invocation /\ rec.at = cron[c].at /\ rec.pc = "failed"
  BY <1>1, Moved DEF CronPc, Acquiring
<1>3. CASE Write(c, row, rec)
  <2> HIDE DEF rec, row
  <2>1. /\ row.status # "running" /\ row.sources = research[cron[c].at].sources
        /\ row.gate = research[cron[c].at].gate /\ row.handed = research[cron[c].at].handed
        /\ row.early = research[cron[c].at].early
    BY <1>1, FailedClaims DEF row
  <2> QED
    BY <2>1, <1>1, <1>2, <1>3, PlainOwns DEF Unknowing
<1>4. CASE cron' = [cron EXCEPT ![c] = rec] /\ UNCHANGED <<research, artifacts>>
  BY <1>2, <1>4, UnknowingOwns DEF Unknowing, artifacts
<1> QED
  BY <1>3, <1>4 DEF Withdraw

LEMMA MarkClaimFailedOwns ==
  ASSUME CycleInv, OwnInv, NEW c \in Cron, MarkClaimFailed(c) PROVE OwnInv'
<1>1. cron[c].pc = "failed" /\ research[cron[c].at] \in RunRow
  BY Standing DEF MarkClaimFailed
<1> DEFINE row == Failed(research[cron[c].at])
<1>2. /\ row.status # "running" /\ row.sources = research[cron[c].at].sources
      /\ row.gate = research[cron[c].at].gate /\ row.handed = research[cron[c].at].handed
      /\ row.early = research[cron[c].at].early
  BY <1>1, FailedClaims
<1>3. WriteRunning(c, row, NoCall) \/ (Leave(c) /\ UNCHANGED <<research, artifacts>>)
  BY DEF MarkClaimFailed
<1> HIDE DEF row
<1> QED
  BY <1>1, <1>2, <1>3, FilteredOwns, LeaveOwns

\* A run is inserted only where there is none, so nobody has claimed it.
LEMMA InsertOwns ==
  ASSUME CycleInv, OwnInv, NEW c \in Cron, InsertRun(c) PROVE OwnInv'
<1> DEFINE r == cron[c].at
           old == research[r]
           row == [NoRow EXCEPT !.status = "running", !.age = 0]
           rec == [cron[c] EXCEPT !.pc = "collect"]
           j == [rec EXCEPT !.fresh = FALSE]
<1>1. /\ cron[c].pc = "insert" /\ r \in ResearchRun /\ old \in RunRow
      /\ cron[c] \in Invocation /\ cron[c].run = r
      /\ RowGood(old, engineDone[r], base[r], composed[r])
  BY Standing DEF InsertRun, CallGood
<1>2. /\ rec \in Invocation /\ rec.at = r /\ rec.pc = "collect"
      /\ j.pc = "collect"
  BY <1>1, Moved, Unfreshened DEF CronPc, Acquiring
<1>3. CASE old.status = "none"
  <2>1. Write(c, row, rec)
    BY <1>1, <1>3 DEF InsertRun
  <2>2. ~row.sources /\ ~row.handed /\ ~row.early
    BY DEF NoRow
  <2>3. ~old.sources /\ ~engineDone[r] /\ ~old.handed /\ ~old.early
    BY <1>1, <1>3, Claimed DEF RowGood
  <2>4. Alone(c)
    BY <1>1, <2>3, UnhandedAlone
  <2> HIDE DEF row, rec, j
  <2>5. /\ ClaimGood(j, row, engineDone[r])
        /\ ~Owns(rec, row, engineDone[r])
    BY <1>2 DEF ClaimGood, Owns, Continuing, Working
  <2>6. WriteOwn(c, row, rec)
    BY <1>2, <2>2, <2>3, <2>4, <2>5 DEF WriteOwn, Usable, j
  <2> QED
    BY <1>1, <2>1, <2>6, WriteOwns
<1>4. CASE old.status # "none"
  BY <1>1, <1>4, LeaveOwns DEF InsertRun
<1> QED
  BY <1>3, <1>4

\* The ledger row is started before anything is handed over or claimed.
LEMMA StartLedgerOwns ==
  ASSUME CycleInv, OwnInv, NEW c \in Cron, StartLedger(c) PROVE OwnInv'
<1> DEFINE r == cron[c].at
           old == research[r]
           bare == NoClaim(old)
           started(gate) == [bare EXCEPT !.status = "running",
             !.sources = TRUE, !.gate = gate, !.marker = FALSE, !.age = 0]
<1>1. /\ cron[c].pc = "collect" /\ r \in ResearchRun /\ old \in RunRow
      /\ cron[c] \in Invocation /\ cron[c].run = r /\ ~old.sources
  BY Standing DEF StartLedger, CallGood, Acquiring
<1>2. PICK gate \in {"open", "blocked"}, next \in {"finish", "failed"} :
        Write(c, started(gate), [cron[c] EXCEPT !.pc = next])
  BY <1>1 DEF StartLedger
<1> DEFINE row == started(gate)
           rec == [cron[c] EXCEPT !.pc = next]
           j == [rec EXCEPT !.fresh = FALSE]
<1>3. /\ ~old.handed /\ ~old.early /\ ~engineDone[r]
  BY <1>1, Claimed
<1>4. bare \in RunRow /\ bare.handed = old.handed /\ bare.early = old.early
  BY <1>1, Unclaimed
<1> HIDE DEF bare
<1>5. row.sources = TRUE /\ row.handed = old.handed /\ row.early = old.early
  BY <1>4 DEF RunRow
<1>6. next \in CronPc
  BY DEF CronPc, Acquiring
<1>7. rec \in Invocation /\ rec.at = r /\ rec.pc = next
  BY <1>1, <1>6, Moved
<1> HIDE DEF row, rec
<1>8. j.pc = next
  BY <1>7, Unfreshened
<1>9. Alone(c)
  BY <1>1, <1>3, UnhandedAlone
<1>10. ClaimGood(j, row, engineDone[r]) /\ ~Owns(rec, row, engineDone[r])
  BY <1>3, <1>5, <1>7, <1>8 DEF ClaimGood, Owns, Continuing, Working
<1>11. WriteOwn(c, row, rec)
  BY <1>3, <1>5, <1>7, <1>9, <1>10 DEF WriteOwn, Usable, j
<1> QED
  BY <1>1, <1>2, <1>11, WriteOwns DEF row, rec

\* A run is handed over by its only holder, when nobody owns it.
LEMMA HandOverOwns ==
  ASSUME CycleInv, OwnInv, NEW c \in Cron, HandOver(c) PROVE OwnInv'
<1> DEFINE r == cron[c].at
           old == research[r]
           bare == NoClaim(old)
           row == [bare EXCEPT !.status = "running", !.handed = TRUE, !.age = 0]
<1>1. /\ cron[c].pc = "finish" /\ r \in ResearchRun /\ old \in RunRow
      /\ cron[c] \in Invocation /\ cron[c].run = r
      /\ old.sources /\ ~old.handed
  BY Standing, Claimed DEF HandOver, CallGood, ClaimGood, Acquiring
<1>2. PICK rec \in Answered(c) : Write(c, row, rec)
  BY DEF HandOver
<1> DEFINE j == [rec EXCEPT !.fresh = FALSE]
<1>3. rec \in Invocation /\ (rec.at = Later \/ (rec.at = r /\ rec.pc = "withdraw"))
  BY AnsweredForm, <1>1
<1>4. j.pc = rec.pc
  BY <1>3, Unfreshened
<1>5. /\ bare \in RunRow /\ bare.sources = old.sources /\ bare.early = old.early
      /\ bare.gate = old.gate
  BY <1>1, Unclaimed
<1> HIDE DEF bare
<1>6. row.sources = old.sources /\ row.early = old.early /\ row.gate = old.gate
  BY <1>5 DEF RunRow
<1> HIDE DEF row
<1>7. \A d \in Cron : d # c /\ cron[d].at = r => cron[d].pc # "finish"
  <2> SUFFICES ASSUME NEW d \in Cron, d # c, cron[d].at = r, cron[d].pc = "finish"
               PROVE  FALSE
    OBVIOUS
  <2>1. cron[d].run = r
    BY Claimed, <1>1 DEF CallGood, Acquiring
  <2> QED
    BY <2>1, <1>1 DEF CycleInv, OneAcquisition, Acquiring
<1>8. Alone(c)
  BY <1>1, UnhandedAlone
<1>9. rec.at = r => ClaimGood(j, row, engineDone[r]) /\ ~Owns(rec, row, engineDone[r])
  BY <1>3, <1>4, CycleAssumption, <1>1 DEF ClaimGood, Owns, Continuing, Working
<1>10. WriteOwn(c, row, rec)
  BY <1>1, <1>3, <1>6, <1>7, <1>8, <1>9 DEF WriteOwn, Usable, j
<1> QED
  BY <1>1, <1>2, <1>10, WriteOwns

\* All steps of acquisition.
LEMMA AcquisitionOwns ==
  ASSUME CycleInv, OwnInv, NEW c \in Cron, Acquisition(c)
  PROVE  OwnInv'
<1>1. ASSUME CollectFails(c) PROVE OwnInv'
  BY <1>1, RetreatOwns DEF CollectFails, Unknowing, artifacts
<1>2. ASSUME IntakeFails(c) PROVE OwnInv'
  BY <1>2, RetreatOwns DEF IntakeFails, Unknowing, artifacts
<1> QED
  BY <1>1, <1>2, BeginOwns, FindAbandonedOwns, TerminaliseOwns, LookupOwns, InsertOwns,
     ReclaimOwns, StartLedgerOwns, FinishSourceOnlyOwns, HandOverOwns, WithdrawOwns,
     MarkClaimFailedOwns
     DEF Acquisition

\* A continuation begins.
LEMMA BeginContinuationOwns ==
  ASSUME CycleInv, OwnInv, NEW c \in Cron, NEW r, BeginContinuation(c, r)
  PROVE  OwnInv'
<1> DEFINE rec == [NoCall EXCEPT !.pc = "read", !.run = r, !.at = r]
<1>1. rec.pc = "read"
  BY DEF NoCall
<1>2. cron' = [cron EXCEPT ![c] = rec] /\ UNCHANGED <<research, engineDone>>
  BY DEF BeginContinuation, artifacts
<1> HIDE DEF rec
<1> QED
  BY <1>1, <1>2, UnknowingOwns DEF Unknowing

\* The row is read: what is to be done is known until the row is written again.
LEMMA ReadOwns ==
  ASSUME CycleInv, OwnInv, NEW c \in Cron, Read(c) PROVE OwnInv'
<1> DEFINE r == cron[c].at
           row == research[r]
           goal == Decision(r)
           knows == Resumable(r)
           k1 == [[cron[c] EXCEPT !.pc = "claim"] EXCEPT !.fresh = TRUE]
           k2 == [k1 EXCEPT !.step = goal]
           rec == [k2 EXCEPT !.done = knows]
           old == [[cron[c] EXCEPT !.pc = "supersede"] EXCEPT !.fresh = TRUE]
<1>1. /\ r \in ResearchRun /\ row \in RunRow /\ cron[c] \in Invocation
      /\ cron \in [Cron -> Invocation] /\ engineDone[r] \in BOOLEAN
      /\ UNCHANGED <<research, engineDone>>
  BY Standing, TypesNamed DEF Read, CycleInv, artifacts
<1>2. \/ cron' = [cron EXCEPT ![c] = old]
      \/ Leave(c)
      \/ goal # "none" /\ cron' = [cron EXCEPT ![c] = rec]
  BY <1>1 DEF Read
<1>3. CASE cron' = [cron EXCEPT ![c] = old]
  <2>1. old.pc = "supersede"
    BY <1>1 DEF Invocation
  <2> HIDE DEF old
  <2> QED
    BY <1>1, <1>3, <2>1, UnknowingOwns DEF Unknowing
<1>4. CASE Leave(c)
  BY <1>4, LeaveOwns DEF Read
<1>5. CASE goal # "none" /\ cron' = [cron EXCEPT ![c] = rec]
  <2>1. knows <=> Usable(row, engineDone[r])
    BY <1>1 DEF Resumable, Usable
  <2>2. goal # "engine" => knows
    BY <1>5 DEF Decision
  <2>3. row.claim \in 0 .. ClaimStale
    BY <1>1 DEF RunRow
  <2>4. goal = "engine" => row.status = "running"
    BY DEF Decision
  <2>5. row.claim = ClaimStale
    BY <1>5, <2>3, CycleAssumption DEF Decision
  <2>8. goal = "engine" => ~knows
    BY <1>1 DEF Decision
  <2> HIDE DEF goal, knows
  <2>6. rec.pc = "claim" /\ rec.at = r /\ rec.step = goal /\ rec.done = knows
    BY <1>1 DEF Invocation
  <2> HIDE DEF rec, row
  <2>7. ClaimGood(rec, row, engineDone[r]) /\ ~Owns(rec, row, engineDone[r])
    BY <2>1, <2>2, <2>4, <2>5, <2>6, <2>8 DEF ClaimGood, Owns
  <2> QED
    BY <1>1, <1>5, <2>6, <2>7, LocalOwns DEF row
<1> QED
  BY <1>2, <1>3, <1>4, <1>5

LEMMA SupersedeOwns ==
  ASSUME CycleInv, OwnInv, NEW c \in Cron, Supersede(c) PROVE OwnInv'
<1> DEFINE r == cron[c].at
           row == [research[r] EXCEPT !.status = "failed", !.superseded = TRUE, !.age = 0]
<1>1. /\ cron[c].pc = "supersede" /\ r \in ResearchRun /\ research[r] \in RunRow
      /\ cron[c] \in Invocation
  BY Standing DEF Supersede
<1>2. /\ row.status = "failed" /\ row.sources = research[r].sources
      /\ row.gate = research[r].gate /\ row.handed = research[r].handed
      /\ row.early = research[r].early
  BY <1>1 DEF RunRow
<1>3. NoCall \in Invocation /\ NoCall.at = Later
  BY CycleAssumption DEF NoCall, Invocation, CronPc
<1>4. CASE cron[c].fresh
  <2>1. Write(c, row, NoCall)
    BY <1>4 DEF Supersede
  <2> HIDE DEF row
  <2> QED
    BY <2>1, <1>1, <1>2, <1>3, PlainOwns
<1>5. CASE ~cron[c].fresh
  BY <1>5, RetreatOwns DEF Supersede, Unknowing, artifacts
<1> QED
  BY <1>4, <1>5

\* A claim is made of a row that nobody owns.
LEMMA ClaimOwns ==
  ASSUME CycleInv, OwnInv, NEW c \in Cron, ClaimContinuation(c) PROVE OwnInv'
<1> USE CycleAssumption
<1> DEFINE r == cron[c].at
           old == research[r]
           done == engineDone[r]
           life == cron[c].life
           early == old.early \/ ~old.handed
           r1 == [[old EXCEPT !.status = "running"] EXCEPT !.claim = life]
           r2 == [r1 EXCEPT !.age = life]
           row == [r2 EXCEPT !.early = early]
           next == IF cron[c].step = "engine" THEN "start" ELSE cron[c].step
           owner == [cron[c] EXCEPT !.pc = next, !.claimed = TRUE]
           error == [cron[c] EXCEPT !.pc = "error"]
<1>1. /\ cron[c].pc = "claim" /\ r \in ResearchRun /\ old \in RunRow /\ life \in 0 .. Life
      /\ cron[c] \in Invocation /\ done \in BOOLEAN
      /\ ClaimGood(cron[c], old, done)
      /\ CallGood(cron[c], old, done, base[r], composed[r])
      /\ done => old.sources /\ old.sources
  BY Standing, Claimed DEF ClaimContinuation
<1>2. CASE cron[c].fresh /\ \E rec \in {owner, error} : Write(c, row, rec)
  <2>1. PICK rec \in {owner, error} : Write(c, row, rec)
    BY <1>2
  <2>2. /\ cron[c].step \in {"engine", "publish", "compose", "final"} /\ old.sources
    BY <1>1, <1>2 DEF CallGood
  <2>3. next \in {"start", "publish", "compose", "final"} /\ next \in CronPc
        /\ (next = "start" <=> cron[c].step = "engine")
    BY <2>2 DEF CronPc, Continuing, Working
  <2>4. /\ owner \in Invocation /\ owner.pc = next /\ owner.at = r /\ owner.life = life
        /\ owner.done = cron[c].done
    <3> HIDE DEF next
    <3> QED
      BY <2>3, Standing DEF Invocation
  <2>5. /\ error \in Invocation /\ error.pc = "error" /\ error.at = r /\ error.life = life
        /\ error.done = cron[c].done
    BY Standing, Moved DEF CronPc, Continuing
  <2>6. old.handed \in BOOLEAN /\ old.early \in BOOLEAN
    BY <1>1 DEF RunRow
  <2>7. /\ row.status = "running" /\ row.claim = life /\ row.early = early
        /\ row.sources = old.sources /\ row.handed = old.handed /\ row.gate = old.gate
    <3> HIDE DEF early, life
    <3> QED
      BY <1>1 DEF RunRow
  <2> HIDE DEF row, owner, error, next
  <2>8. /\ rec \in Invocation /\ rec.at = r /\ rec.life = life /\ rec.done = cron[c].done
        /\ \/ rec.pc = "error"
           \/ rec.pc = "start" /\ cron[c].step = "engine"
           \/ rec.pc \in {"publish", "compose", "final"} /\ cron[c].step # "engine"
    BY <2>1, <2>3, <2>4, <2>5
  <2>9. Usable(row, done) = Usable(old, done)
    BY <2>7 DEF Usable
  <2>10. Alone(c)
    <3> SUFFICES ASSUME NEW d \in Cron, d # c, cron[d].at = r, Owns(cron[d], old, done)
                 PROVE  FALSE
      BY DEF Alone
    <3>1. ~old.early /\ ~Usable(old, done)
      BY DEF Owns
    <3>2. old.status = "running" /\ old.claim = ClaimStale
      BY <1>1, <1>2, <3>1 DEF ClaimGood
    <3>3. old.status # "running" \/ old.claim <= cron[d].life
      BY Claimed, <1>1 DEF ClaimGood
    <3>4. cron[d].life \in 0 .. Life
      BY Standing
    <3> QED
      BY <3>2, <3>3, <3>4
  <2> DEFINE j == [rec EXCEPT !.fresh = FALSE]
  <2>11. /\ j.pc = rec.pc /\ j.life = life /\ j.done = cron[c].done /\ j.fresh = FALSE
    BY <2>8, Unfreshened
  <2>12. ~row.early => ~old.early /\ old.handed
    BY <2>7
  <2>13. cron[c].step # "engine" /\ ~row.early => Usable(row, done)
    BY <1>1, <1>2, <2>9, <2>12 DEF ClaimGood
  <2>14. cron[c].done /\ ~row.early => Usable(row, done)
    BY <1>1, <2>9, <2>12 DEF ClaimGood
  <2>15. cron[c].step = "engine" /\ ~row.early => ~Usable(row, done)
    BY <1>1, <1>2, <2>9, <2>12 DEF ClaimGood
  <2>16. ~row.early /\ rec.pc = "start" => row.handed /\ row.claim <= j.life
    BY <1>1, <2>7, <2>11, <2>12
  <2> HIDE DEF j
  <2>17. Owns(j, row, done) => row.handed /\ row.claim <= j.life
    BY <2>8, <2>11, <2>16 DEF Owns
  <2>18. ClaimGood(j, row, done)
    BY <2>8, <2>11, <2>13, <2>14, <2>15, <2>17 DEF ClaimGood
  <2>19. /\ row.handed \/ row.early => row.sources
         /\ old.sources => row.sources
         /\ old.early => row.early
         /\ old.handed <=> row.handed
    BY <2>2, <2>7
  <2>20. WriteOwn(c, row, rec)
    <3> HIDE DEF old, done
    <3>1. rec.at = r => ClaimGood([rec EXCEPT !.fresh = FALSE], row, done)
      BY <2>18 DEF j
    <3>2. ~row.early => Usable(row, done) = Usable(old, done)
      BY <2>9
    <3> QED
      BY <2>8, <2>10, <2>19, <3>1, <3>2 DEF WriteOwn, old, done
  <2> QED
    BY <1>1, <2>1, <2>20, WriteOwns
<1>3. CASE Leave(c) /\ UNCHANGED <<research, artifacts>>
  BY <1>3, LeaveOwns
<1>4. CASE Goto(c, "error") /\ UNCHANGED <<research, artifacts>>
  BY <1>1, <1>4, RetreatOwns DEF artifacts
<1> QED
  BY <1>2, <1>3, <1>4 DEF ClaimContinuation

\* Where a completed engine leads.
LEMMA AfterEngineClaim ==
  ASSUME CycleInv, NEW c \in Cron, AfterEngine(c), cron[c].pc \in {"start", "engine"},
         ClaimGood(cron[c], research[cron[c].at], engineDone[cron[c].at])
  PROVE  \E rec \in Invocation :
           /\ cron' = [cron EXCEPT ![c] = rec] /\ rec.at = cron[c].at
           /\ rec.pc \in {"publish", "final"}
           /\ ClaimGood(rec, research[cron[c].at], TRUE)
<1> DEFINE row == research[cron[c].at]
           end == [cron[c] EXCEPT !.pc = "final", !.step = "blocked"]
           go == [cron[c] EXCEPT !.pc = "publish", !.done = TRUE]
<1>1. "final" \in CronPc /\ "publish" \in CronPc
  BY DEF CronPc, Continuing, Working
<1>2. /\ end \in Invocation /\ end.pc = "final" /\ end.at = cron[c].at
      /\ end.done = cron[c].done
  BY <1>1, Standing DEF Invocation
<1>3. /\ go \in Invocation /\ go.pc = "publish" /\ go.at = cron[c].at
  BY <1>1, Standing DEF Invocation
<1>4. \/ row.gate = "blocked" /\ cron' = [cron EXCEPT ![c] = end]
      \/ row.gate # "blocked" /\ cron' = [cron EXCEPT ![c] = go]
  BY DEF AfterEngine
<1> HIDE DEF end, go
<1>5. ~row.early => ~cron[c].done
  BY DEF ClaimGood, Usable, Continuing, Working
<1>6. ClaimGood(end, row, TRUE)
  BY <1>2, <1>5 DEF ClaimGood, Owns
<1>7. row.gate # "blocked" => ClaimGood(go, row, TRUE)
  BY <1>3 DEF ClaimGood, Owns, Usable
<1> QED
  BY <1>2, <1>3, <1>4, <1>6, <1>7

LEMMA StartEngineOwns ==
  ASSUME CycleInv, OwnInv, NEW c \in Cron, StartEngine(c) PROVE OwnInv'
<1> DEFINE r == cron[c].at
           row == research[r]
           done == engineDone[r]
<1>1. /\ cron[c].pc = "start" /\ r \in ResearchRun /\ cron[c] \in Invocation
      /\ done \in BOOLEAN /\ ClaimGood(cron[c], row, done)
      /\ UNCHANGED <<research, engineDone>>
  BY Standing, Claimed DEF StartEngine, artifacts
<1>2. CASE done /\ AfterEngine(c)
  <2>1. PICK rec \in Invocation :
          /\ cron' = [cron EXCEPT ![c] = rec] /\ rec.at = r
          /\ rec.pc \in {"publish", "final"} /\ ClaimGood(rec, row, TRUE)
    BY <1>1, <1>2, AfterEngineClaim
  <2>2. done = TRUE /\ ~Owns(rec, row, done)
    BY <1>1, <1>2, <2>1 DEF Owns
  <2> QED
    BY <1>1, <2>1, <2>2, LocalOwns
<1>3. CASE ~done /\ Goto(c, "engine")
  <2> DEFINE rec == [cron[c] EXCEPT !.pc = "engine"]
  <2>1. /\ rec.pc = "engine" /\ rec.at = r /\ rec.life = cron[c].life
        /\ rec.done = cron[c].done
    BY <1>1 DEF Invocation
  <2>2. cron' = [cron EXCEPT ![c] = rec]
    BY <1>3 DEF Goto
  <2> HIDE DEF rec, row, done
  <2>3. Owns(rec, row, done) => Owns(cron[c], row, done)
    BY <1>1, <2>1 DEF Owns
  <2>4. ClaimGood(rec, row, done)
    BY <1>1, <1>3, <2>1, <2>3 DEF ClaimGood, Continuing, Working
  <2> QED
    BY <1>1, <2>1, <2>2, <2>3, <2>4, LocalOwns DEF row, done
<1>4. CASE Goto(c, "error")
  BY <1>1, <1>4, RetreatOwns DEF Continuing, Working
<1> QED
  BY <1>2, <1>3, <1>4 DEF StartEngine

LEMMA EngineCompletesOwns ==
  ASSUME CycleInv, OwnInv, NEW c \in Cron, EngineCompletes(c) PROVE OwnInv'
<1> DEFINE r == cron[c].at
<1>1. /\ cron[c].pc = "engine" /\ r \in ResearchRun /\ AfterEngine(c)
      /\ ClaimGood(cron[c], research[r], engineDone[r])
      /\ engineDone' = [engineDone EXCEPT ![r] = TRUE] /\ UNCHANGED research
  BY Standing, Claimed DEF EngineCompletes
<1>2. PICK rec \in Invocation :
        /\ cron' = [cron EXCEPT ![c] = rec] /\ rec.at = r
        /\ rec.pc \in {"publish", "final"} /\ ClaimGood(rec, research[r], TRUE)
  BY <1>1, AfterEngineClaim
<1> QED
  BY <1>1, <1>2, EngineOwns

LEMMA EngineStopsOwns ==
  ASSUME CycleInv, OwnInv, NEW c \in Cron, EngineStops(c) PROVE OwnInv'
<1> DEFINE r == cron[c].at
           row == research[r]
           done == engineDone[r]
           go == [cron[c] EXCEPT !.pc = "release"]
           end(outcome) == [[cron[c] EXCEPT !.pc = "final"] EXCEPT !.step = outcome]
<1>1. /\ cron[c].pc = "engine" /\ r \in ResearchRun /\ cron[c] \in Invocation
      /\ ClaimGood(cron[c], row, done) /\ done \in BOOLEAN /\ UNCHANGED research
      /\ cron \in [Cron -> Invocation]
  BY Standing, Claimed, TypesNamed DEF EngineStops, CycleInv
<1>2. PICK kept \in BOOLEAN : engineDone' = [engineDone EXCEPT ![r] = kept /\ @]
  BY DEF EngineStops
<1> DEFINE v == kept /\ done
<1>3. v \in BOOLEAN /\ engineDone' = [engineDone EXCEPT ![r] = v]
  BY <1>1, <1>2
<1>4. ~row.early => ~done /\ ~v /\ ~cron[c].done
  BY <1>1 DEF ClaimGood, Usable, Continuing, Working
<1>5. /\ go.pc = "release" /\ go.at = r /\ go.done = cron[c].done /\ go.life = cron[c].life
      /\ \A outcome : /\ end(outcome).pc = "final" /\ end(outcome).at = r
                      /\ end(outcome).done = cron[c].done
  BY <1>1 DEF Invocation
<1>6. \/ cron' = [cron EXCEPT ![c] = go]
      \/ \E outcome : cron' = [cron EXCEPT ![c] = end(outcome)]
  BY <1>1 DEF EngineStops, Goto
<1> HIDE DEF go, end, row, done, v
<1>7. Owns(go, row, v) => Owns(cron[c], row, done)
  BY <1>1, <1>4 DEF Owns, Usable
<1>8. ClaimGood(go, row, v)
  BY <1>1, <1>4, <1>5, <1>7 DEF ClaimGood
<1>9. \A outcome : ClaimGood(end(outcome), row, v)
  BY <1>4, <1>5 DEF ClaimGood, Owns
<1>10. PICK rec : /\ cron' = [cron EXCEPT ![c] = rec] /\ rec.at = r
                  /\ rec.pc \notin {"start", "engine"} /\ ClaimGood(rec, row, v)
  BY <1>5, <1>6, <1>8, <1>9
<1> HIDE <1>2, <1>4, <1>5, <1>6, <1>7, <1>8, <1>9
<1> QED
  BY <1>1, <1>3, <1>10, EngineOwns DEF row

\* Steps after the engine, on a run whose result may be published.
LEMMA OnwardOwns ==
  ASSUME CycleInv, OwnInv, NEW c \in Cron, cron[c].pc \in {"publish", "compose"},
         NEW pc \in {"release", "compose", "final", "error"}, Goto(c, pc),
         UNCHANGED <<research, engineDone>>
  PROVE  OwnInv'
<1> DEFINE r == cron[c].at
           row == research[r]
           done == engineDone[r]
           rec == [cron[c] EXCEPT !.pc = pc]
<1>1. /\ r \in ResearchRun /\ cron[c] \in Invocation /\ ClaimGood(cron[c], row, done)
  BY Standing, Claimed
<1>2. rec.pc = pc /\ rec.at = r
  BY <1>1 DEF Invocation
<1>3. cron' = [cron EXCEPT ![c] = rec]
  BY DEF Goto
<1> HIDE DEF rec, row, done
<1>4. ~row.early => Usable(row, done)
  BY <1>1 DEF ClaimGood
<1>5. ~Owns(rec, row, done)
  BY <1>4 DEF Owns
<1>6. ClaimGood(rec, row, done)
  BY <1>2, <1>4, <1>5 DEF ClaimGood
<1> QED
  BY <1>2, <1>3, <1>5, <1>6, LocalOwns DEF row, done

LEMMA PersistFinalOwns ==
  ASSUME CycleInv, OwnInv, NEW c \in Cron, PersistFinal(c) PROVE OwnInv'
<1> DEFINE old == research[cron[c].at]
           row == [old EXCEPT !.status = Outcome(c), !.claim = cron[c].life, !.age = 0]
<1>1. cron[c].pc = "final" /\ cron[c].pc \in Continuing /\ old \in RunRow
  BY Standing DEF PersistFinal, Continuing
<1>2. Outcome(c) # "running"
  BY DEF Outcome
<1>3. /\ row.status # "running" /\ row.sources = old.sources /\ row.gate = old.gate
      /\ row.handed = old.handed /\ row.early = old.early
  BY <1>1, <1>2 DEF RunRow
<1>4. \/ \E rec \in {NoCall, [cron[c] EXCEPT !.pc = "error"]} : WriteRunning(c, row, rec)
      \/ Goto(c, "error") /\ UNCHANGED <<research, artifacts>>
  BY DEF PersistFinal
<1> HIDE DEF row
<1> QED
  BY <1>1, <1>3, <1>4, FilteredOwns, RetreatOwns DEF artifacts

\* The row that leaves a run to be resumed.
LEMMA ReleasedClaims ==
  ASSUME NEW r, research[r] \in RunRow
  PROVE  /\ Released(r).sources = research[r].sources
         /\ Released(r).gate = research[r].gate /\ Released(r).handed = research[r].handed
         /\ Released(r).early = research[r].early
BY DEF Released, NoClaim, RunRow

LEMMA PersistResumableOwns ==
  ASSUME CycleInv, OwnInv, NEW c \in Cron, PersistResumable(c) PROVE OwnInv'
<1> DEFINE r == cron[c].at
           row == Released(r)
<1>1. /\ cron[c].pc = "release" /\ cron[c].pc \in Continuing /\ research[r] \in RunRow
      /\ r \in ResearchRun
  BY Standing DEF PersistResumable, Continuing
<1>2. /\ row.sources = research[r].sources /\ row.gate = research[r].gate
      /\ row.handed = research[r].handed /\ row.early = research[r].early
  BY <1>1, ReleasedClaims
<1>3. Alone(c)
  BY <1>1, UsableAlone DEF Owns
<1>4. \/ \E rec \in {NoCall, [cron[c] EXCEPT !.pc = "error"]} : WriteRunning(c, row, rec)
      \/ Goto(c, "error") /\ UNCHANGED <<research, artifacts>>
  BY DEF PersistResumable
<1> HIDE DEF row
<1> QED
  BY <1>1, <1>2, <1>3, <1>4, FilteredOwns, RetreatOwns DEF artifacts

LEMMA HandleErrorOwns ==
  ASSUME CycleInv, OwnInv, NEW c \in Cron, HandleError(c) PROVE OwnInv'
<1> DEFINE r == cron[c].at
           claim == IF cron[c].claimed THEN cron[c].life ELSE ClaimStale
           failed == [research[r] EXCEPT !.status = "failed", !.claim = claim, !.age = 0]
           released == Released(r)
<1>1. /\ cron[c].pc = "error" /\ cron[c].pc \in Continuing /\ research[r] \in RunRow
      /\ r \in ResearchRun /\ ClaimGood(cron[c], research[r], engineDone[r])
  BY Standing, Claimed DEF HandleError, Continuing
<1>2. /\ released.sources = research[r].sources /\ released.gate = research[r].gate
      /\ released.handed = research[r].handed /\ released.early = research[r].early
  BY <1>1, ReleasedClaims
<1>3. /\ failed.status # "running" /\ failed.sources = research[r].sources
      /\ failed.gate = research[r].gate /\ failed.handed = research[r].handed
      /\ failed.early = research[r].early
  BY <1>1 DEF RunRow
<1>4. \/ (cron[c].done \/ Resumable(r)) /\ WriteRunning(c, released, NoCall)
      \/ WriteRunning(c, failed, NoCall)
      \/ Leave(c) /\ UNCHANGED <<research, artifacts>>
  BY DEF HandleError
<1> HIDE DEF failed, released
<1>5. cron[c].done \/ Resumable(r) => Alone(c)
  BY <1>1, UsableAlone DEF ClaimGood, Resumable, Usable
<1> QED
  BY <1>1, <1>2, <1>3, <1>4, <1>5, FilteredOwns, LeaveOwns

\* All steps of continuation.
LEMMA ContinuationOwns ==
  ASSUME CycleInv, OwnInv, NEW c \in Cron, Continuation(c)
  PROVE  OwnInv'
<1>1. ASSUME Publish(c) PROVE OwnInv'
  BY <1>1, OnwardOwns DEF Publish
<1>2. ASSUME Compose(c) PROVE OwnInv'
  BY <1>2, OnwardOwns DEF Compose
<1> QED
  BY <1>1, <1>2, BeginContinuationOwns, ReadOwns, SupersedeOwns, ClaimOwns, StartEngineOwns,
     EngineCompletesOwns, EngineStopsOwns, PersistFinalOwns, PersistResumableOwns,
     HandleErrorOwns
     DEF Continuation

\* The owners' invariant is inductive.
LEMMA OwnStep == CycleInv /\ OwnInv /\ [CycleNext]_cycleVars => OwnInv'
<1> SUFFICES ASSUME CycleInv, OwnInv, [CycleNext]_cycleVars PROVE OwnInv'
  OBVIOUS
<1>1. CASE \E c \in Cron : Acquisition(c)
  BY <1>1, AcquisitionOwns
<1>2. CASE \E c \in Cron : Continuation(c)
  BY <1>2, ContinuationOwns
<1>3. CASE \E c \in Cron : Killed(c)
  BY <1>3, LeaveOwns DEF Killed
<1>4. CASE CycleTick
  BY <1>4, TickOwns
<1>5. CASE UNCHANGED cycleVars
  BY <1>5 DEF cycleVars, OwnInv, RowsClaimed, CallsClaimed, OneOwner
<1> QED
  BY <1>1, <1>2, <1>3, <1>4, <1>5 DEF CycleNext

\* Two continuations are never at the engine of one run, whatever claims, releases,
\* errors, crashes and late answers come between, unless a continuation claimed it
\* before its acquisition had handed it over (claimContinuation and
\* persistResumableRun, lib/cron-research-intelligence-handler.ts).
THEOREM EngineIsSingle == CycleSpec => []OneEngine
<1>1. CycleInv /\ OwnInv => OneEngine
  <2> SUFFICES ASSUME CycleInv, OwnInv, NEW c \in Cron, NEW d \in Cron,
                      cron[c].pc = "engine", cron[d].pc = "engine",
                      cron[c].at = cron[d].at, ~research[cron[c].at].early
               PROVE  c = d
    BY DEF OneEngine
  <2>1. cron[c].at \in ResearchRun
    BY Standing
  <2>2. /\ Owns(cron[c], research[cron[c].at], engineDone[cron[c].at])
        /\ Owns(cron[d], research[cron[c].at], engineDone[cron[c].at])
    BY <2>1, Claimed DEF ClaimGood, Owns, Usable
  <2> QED
    BY <2>1, <2>2 DEF OwnInv, OneOwner
<1>2. CycleInv /\ OwnInv /\ [CycleNext]_cycleVars => OwnInv'
  BY OwnStep
<1> QED
  BY CycleInvariant, OwnInit, <1>1, <1>2, PTL DEF CycleSpec
=============================================================================
