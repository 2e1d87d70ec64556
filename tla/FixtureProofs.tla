--------------------------- MODULE FixtureProofs ---------------------------
(***************************************************************************)
(* Fixtures, from where they are published to the verdict of a test.       *)
(* First the consume-direct adapters, for any index, any workers, anything *)
(* evmz may print and any number of deaths; then the fetch of a rolling    *)
(* corpus, for any catalog, any number of batches and any number of runs:  *)
(* what a run that returns 0 leaves behind, that a corpus is published     *)
(* whole, and that the counts of a release are exact.                      *)
(***************************************************************************)
EXTENDS FixtureConsumer, CorpusFetch, FiniteSetTheorems, SequenceTheorems,
        WellFoundedInduction, TLAPS

RunType == [key : Keys, outcome : Outcomes]

Types ==
  /\ TypeOK
  /\ runs \in Seq(RunType)
  /\ deaths \in Nat

\* A cached answer is that of a run with the key it is cached under.
CacheIsHonest ==
  \A w \in Workers, k \in Keys : cache[w][k] # 0 => runs[cache[w][k]].key = k

SafeInv == Types /\ CacheIsHonest /\ VerdictIsEarned

-----------------------------------------------------------------------------
(***************************************************************************)
(* Workers were asked for with -n: pending tests of a file are handed out  *)
(* together, and only their worker has an answer for the file.             *)
(***************************************************************************)
AllGrouped == grouped = collected

PendingTogether ==
  \A t, u \in collected :
    /\ Cases[t].file = Cases[u].file
    /\ status[t] = "none" /\ status[u] = "none"
    => owner[t] = owner[u]

PendingHoldsCache ==
  \A t \in collected, w \in Workers, k \in Keys :
    status[t] = "none" /\ k[2] = Cases[t].file /\ cache[w][k] # 0 => owner[t] = w

\* Without workers there is one process, and it does not die.
OneProcess ==
  /\ \A t, u \in Tests : owner[t] # None /\ owner[u] # None => owner[t] = owner[u]
  /\ \A w \in Workers, k \in Keys : cache[w][k] # 0 => \E t \in Tests : owner[t] = w

Distribution ==
  /\ collected = {} => /\ \A w \in Workers, k \in Keys : cache[w][k] = 0
                       /\ \A t \in Tests : owner[t] = None
  /\ \/ invocation = "-n" /\ AllGrouped /\ PendingTogether /\ PendingHoldsCache
     \/ invocation = "none" /\ OneProcess

\* The runs over a file whose answer was kept, and the one still cached.
KeptRuns(k) == {i \in DOMAIN runs : runs[i].key = k /\ ~Unreadable(i)}
CachedRuns(k) == IF \E w \in Workers : cache[w][k] # 0 THEN 1 ELSE 0

RunsAreCounted ==
  \A k \in Keys : Cardinality(KeptRuns(k)) <= deaths + CachedRuns(k)

CountInv == Types /\ Distribution /\ RunsAreCounted

-----------------------------------------------------------------------------
(***************************************************************************)
(* Operators of the model.                                                 *)
(***************************************************************************)
LEMMA KeyTyped ==
  ASSUME NEW t \in Tests PROVE Key(t) \in Keys /\ Key(t)[2] = Cases[t].file
BY DEF Key, Keys, Subcommand, Subcommands, Files

LEMMA VerdictTyped ==
  ASSUME NEW o, NEW name PROVE Verdict(o, name) \in {"passed", "failed", "skipped"}
BY DEF Verdict

\* A verdict other than "failed" rests on exactly one record, and says it.
LEMMA VerdictRestsOnRecord ==
  ASSUME NEW o \in Outcomes, NEW name, name # None, Verdict(o, name) \in {"passed", "skipped"}
  PROVE  /\ o.exit = 0
         /\ \E i \in DOMAIN o.records :
              /\ {j \in DOMAIN o.records : o.records[j].dict /\ o.records[j].name = name} = {i}
              /\ o.records[i].typed
              /\ o.records[i].pass <=> Verdict(o, name) = "passed"
              /\ o.records[i].skip <=> Verdict(o, name) = "skipped"
<1>1. /\ o.exit = 0 /\ ExactlyOne(o, name)
      /\ \A i \in Selected(o, name) : ~Invalid(o.records[i])
      /\ \A i \in Selected(o, name) : o.records[i].skip \/ o.records[i].pass
  BY DEF Verdict
<1>2. Selected(o, name) =
        {j \in DOMAIN o.records : o.records[j].dict /\ o.records[j].name = name}
  BY DEF Selected
<1>3. IsFiniteSet(Selected(o, name))
  <2>1. IsFiniteSet(DOMAIN o.records) /\ Selected(o, name) \in SUBSET DOMAIN o.records
    BY <1>2, RecordsAreFinite
  <2> QED BY <2>1, FS_Subset
<1>4. PICK i : Selected(o, name) = {i}
  BY <1>1, <1>3, FS_Singleton DEF ExactlyOne
<1>5. i \in DOMAIN o.records
  BY <1>2, <1>4
<1>6. o.records[i].typed /\ ~(o.records[i].pass /\ o.records[i].skip)
  BY <1>1, <1>4 DEF Invalid
<1>7. Verdict(o, name) = IF o.records[i].skip THEN "skipped" ELSE "passed"
  BY <1>4 DEF Verdict
<1>8. /\ o.records[i].pass <=> Verdict(o, name) = "passed"
      /\ o.records[i].skip <=> Verdict(o, name) = "skipped"
  BY <1>1, <1>4, <1>6, <1>7
<1> QED BY <1>1, <1>2, <1>4, <1>5, <1>6, <1>8

\* Appending a run leaves the runs before it alone.
LEMMA AppendedRun ==
  ASSUME runs \in Seq(RunType), NEW r \in RunType, runs' = Append(runs, r)
  PROVE  /\ runs' \in Seq(RunType) /\ Len(runs') = Len(runs) + 1 /\ Len(runs) \in Nat
         /\ DOMAIN runs' = DOMAIN runs \union {Len(runs) + 1}
         /\ Len(runs) + 1 \notin DOMAIN runs
         /\ \A i \in DOMAIN runs : runs'[i] = runs[i]
         /\ \A i \in 1 .. Len(runs) : runs'[i] = runs[i]
         /\ runs'[Len(runs) + 1] = r
OBVIOUS

-----------------------------------------------------------------------------
(***************************************************************************)
(* Types.                                                                  *)
(***************************************************************************)
LEMMA InitTypes == Init => Types
<1> SUFFICES ASSUME Init PROVE Types
  OBVIOUS
<1>1. runs \in Seq(RunType) /\ Len(runs) = 0
  BY DEF Init
<1>2. TypeOK
  BY <1>1 DEF Init, TypeOK, Formats
<1> QED BY <1>1, <1>2 DEF Init, Types

LEMMA StepTypes == Types /\ [Next]_vars => Types'
<1> SUFFICES ASSUME Types, [Next]_vars PROVE Types'
  OBVIOUS
<1> USE DEF Types, TypeOK
<1>1. CASE Configure
  BY <1>1 DEF Configure, Formats
<1>2. CASE Collect
  BY <1>2 DEF Collect, GroupFixtureFiles
<1>3. CASE Distribute
  BY <1>3 DEF Distribute
<1>4. CASE ConsumeCached
  <2>1. PICK t \in collected :
          /\ Runnable(t)
          /\ status' = [status EXCEPT ![t] =
               Verdict(runs[cache[owner[t]][Key(t)]].outcome, Cases[t].name)]
          /\ judged' = [judged EXCEPT ![t] = cache[owner[t]][Key(t)]]
    BY <1>4 DEF ConsumeCached
  <2>2. t \in Tests /\ Key(t) \in Keys /\ owner[t] \in Workers
    BY <2>1, KeyTyped DEF Runnable
  <2>3. status' \in [Tests -> {"none", "passed", "failed", "skipped"}]
    BY <2>1, <2>2, VerdictTyped
  <2>4. judged' \in [Tests -> 0 .. Len(runs)]
    BY <2>1, <2>2
  <2> QED BY <1>4, <2>3, <2>4 DEF ConsumeCached
<1>5. CASE ConsumeFresh
  <2>1. PICK t \in collected, o \in Outcomes :
          /\ Runnable(t)
          /\ runs' = Append(runs, [key |-> <<Subcommand(t), Cases[t].file>>, outcome |-> o])
          /\ cache' = IF Kept(o) THEN [cache EXCEPT ![owner[t]][Key(t)] = Len(runs')] ELSE cache
          /\ status' = [status EXCEPT ![t] = Verdict(o, Cases[t].name)]
          /\ judged' = [judged EXCEPT ![t] = Len(runs')]
    BY <1>5 DEF ConsumeFresh
  <2>2. t \in Tests /\ Key(t) \in Keys /\ owner[t] \in Workers
    BY <2>1, KeyTyped DEF Runnable
  <2>3. runs' \in Seq(RunType) /\ Len(runs') = Len(runs) + 1 /\ Len(runs) \in Nat
    <3>1. [key |-> <<Subcommand(t), Cases[t].file>>, outcome |-> o] \in RunType
      BY <2>2 DEF Key, RunType
    <3> QED BY <2>1, <3>1
  <2>4. status' \in [Tests -> {"none", "passed", "failed", "skipped"}]
    BY <2>1, <2>2, VerdictTyped
  <2>5. judged' \in [Tests -> 0 .. Len(runs')]
    BY <2>1, <2>2, <2>3
  <2>6. cache' \in [Workers -> [Keys -> 0 .. Len(runs')]]
    <3>1. \A w \in Workers : cache[w] \in [Keys -> 0 .. Len(runs')]
      BY <2>3
    <3>2. [cache[owner[t]] EXCEPT ![Key(t)] = Len(runs')] \in [Keys -> 0 .. Len(runs')]
      BY <2>2, <2>3, <3>1
    <3> QED BY <2>1, <2>2, <3>1, <3>2
  <2> QED BY <1>5, <2>3, <2>4, <2>5, <2>6 DEF ConsumeFresh
<1>6. CASE ConsumeUnsupported
  BY <1>6 DEF ConsumeUnsupported
<1>7. CASE WorkerDies
  <2>1. PICK t \in collected :
          /\ Runnable(t)
          /\ status' = [status EXCEPT ![t] = "failed"]
          /\ cache' = [cache EXCEPT ![owner[t]] = [k \in Keys |-> 0]]
          /\ owner' = [u \in Tests |->
               IF owner[u] = owner[t] /\ status[u] = "none" /\ u # t THEN None ELSE owner[u]]
    BY <1>7 DEF WorkerDies
  <2>2. Len(runs) \in Nat
    OBVIOUS
  <2>3. cache' \in [Workers -> [Keys -> 0 .. Len(runs)]]
    <3>1. [k \in Keys |-> 0] \in [Keys -> 0 .. Len(runs)]
      BY <2>2
    <3> HIDE DEF Keys
    <3> QED BY <2>1, <3>1
  <2> QED BY <1>7, <2>1, <2>3 DEF WorkerDies
<1>8. CASE UNCHANGED vars
  BY <1>8 DEF vars
<1> QED BY <1>1, <1>2, <1>3, <1>4, <1>5, <1>6, <1>7, <1>8 DEF Next

(***************************************************************************)
(* The session stays within its state space.                               *)
(***************************************************************************)
THEOREM TypeCorrect == Spec => []TypeOK
<1>1. Spec => []Types
  BY InitTypes, StepTypes, PTL DEF Spec
<1>2. Types => TypeOK
  BY DEF Types
<1> QED BY <1>1, <1>2, PTL

-----------------------------------------------------------------------------
(***************************************************************************)
(* Verdicts.                                                               *)
(***************************************************************************)
\* What VerdictIsEarned says of one test.
Earned(t) ==
  status[t] \in {"passed", "skipped"} /\ Cases[t].name # None =>
    LET run == runs[judged[t]] IN
    /\ judged[t] # 0
    /\ run.key = <<Subcommand(t), Cases[t].file>>
    /\ run.outcome.exit = 0
    /\ \E i \in DOMAIN run.outcome.records :
         /\ RecordsOf(t, run.outcome) = {i}
         /\ run.outcome.records[i].typed
         /\ run.outcome.records[i].pass <=> status[t] = "passed"
         /\ run.outcome.records[i].skip <=> status[t] = "skipped"

LEMMA EarnedIsVerdict == VerdictIsEarned <=> \A t \in Tests : Earned(t)
BY DEF VerdictIsEarned, Earned

\* A run of the test's key judges it rightly.
LEMMA RunJudges ==
  ASSUME NEW t \in Tests, NEW n \in Nat \ {0}, NEW o \in Outcomes,
         judged'[t] = n, adapter' = adapter,
         runs'[n] = [key |-> <<Subcommand(t), Cases[t].file>>, outcome |-> o],
         status'[t] = Verdict(o, Cases[t].name)
  PROVE  Earned(t)'
<1> SUFFICES ASSUME Verdict(o, Cases[t].name) \in {"passed", "skipped"}, Cases[t].name # None
             PROVE  /\ o.exit = 0
                    /\ \E i \in DOMAIN o.records :
                         /\ RecordsOf(t, o) = {i}
                         /\ o.records[i].typed
                         /\ o.records[i].pass <=> Verdict(o, Cases[t].name) = "passed"
                         /\ o.records[i].skip <=> Verdict(o, Cases[t].name) = "skipped"
  BY DEF Earned, Subcommand, RecordsOf
<1> QED BY VerdictRestsOnRecord DEF RecordsOf

\* A test nothing happened to keeps its verdict.
LEMMA EarnedStays ==
  ASSUME Types, NEW t \in Tests, Earned(t), adapter' = adapter,
         status'[t] = status[t], judged'[t] = judged[t],
         \A i \in 1 .. Len(runs) : runs'[i] = runs[i]
  PROVE  Earned(t)'
<1>1. judged[t] # 0 => runs'[judged[t]] = runs[judged[t]]
  BY DEF Types, TypeOK
<1> QED BY <1>1, SMTT(30) DEF Earned, Subcommand, RecordsOf

LEMMA StepSafe == SafeInv /\ [Next]_vars => SafeInv'
<1> SUFFICES ASSUME SafeInv, [Next]_vars PROVE SafeInv'
  OBVIOUS
<1>0. Types /\ Types' /\ CacheIsHonest /\ \A u \in Tests : Earned(u)
  BY StepTypes, EarnedIsVerdict DEF SafeInv
<1>a. Len(runs) \in Nat
  BY <1>0 DEF Types
<1>1. CASE Configure \/ Collect \/ Distribute \/ UNCHANGED vars
  <2>1. UNCHANGED <<adapter, cache, runs, status, judged>>
    BY <1>1 DEF Configure, Collect, Distribute, vars
  <2>2. CacheIsHonest'
    BY <1>0, <2>1 DEF CacheIsHonest
  <2>3. \A u \in Tests : Earned(u)'
    BY <1>0, <2>1, EarnedStays
  <2> QED BY <1>0, <2>2, <2>3, EarnedIsVerdict DEF SafeInv, VerdictIsEarned, Earned
<1>2. CASE ConsumeCached
  <2>1. PICK t \in collected :
          /\ Runnable(t)
          /\ cache[owner[t]][Key(t)] # 0
          /\ status' = [status EXCEPT ![t] =
               Verdict(runs[cache[owner[t]][Key(t)]].outcome, Cases[t].name)]
          /\ judged' = [judged EXCEPT ![t] = cache[owner[t]][Key(t)]]
          /\ UNCHANGED <<adapter, cache, runs>>
    BY <1>2 DEF ConsumeCached
  <2>2. t \in Tests /\ Key(t) \in Keys /\ owner[t] \in Workers
    BY <1>0, <2>1, KeyTyped DEF Runnable, Types, TypeOK
  <2>3. CacheIsHonest'
    BY <1>0, <2>1 DEF CacheIsHonest
  <2>4. Earned(t)'
    <3> DEFINE n == cache[owner[t]][Key(t)]
    <3>1. n \in 1 .. Len(runs)
      BY <1>0, <1>a, <2>1, <2>2 DEF Types, TypeOK
    <3>2. runs[n] \in RunType /\ runs[n].key = Key(t)
      BY <1>0, <2>1, <2>2, <3>1 DEF Types, CacheIsHonest
    <3>3. /\ judged'[t] = n /\ n \in Nat \ {0}
          /\ status'[t] = Verdict(runs[n].outcome, Cases[t].name)
      BY <1>0, <1>a, <2>1, <2>2, <3>1 DEF Types, TypeOK
    <3>4. /\ runs[n].outcome \in Outcomes
          /\ runs'[n] = [key |-> <<Subcommand(t), Cases[t].file>>, outcome |-> runs[n].outcome]
      BY <2>1, <3>2 DEF RunType, Key
    <3> HIDE DEF n
    <3> QED BY <2>1, <2>2, <3>3, <3>4, RunJudges
  <2>5. ASSUME NEW u \in Tests \ {t} PROVE Earned(u)'
    <3>1. status'[u] = status[u] /\ judged'[u] = judged[u]
      BY <1>0, <2>1 DEF Types, TypeOK
    <3> QED BY <1>0, <2>1, <3>1, EarnedStays
  <2> QED BY <1>0, <2>3, <2>4, <2>5, SMTT(30) DEF SafeInv, VerdictIsEarned, Earned
<1>3. CASE ConsumeFresh
  <2>1. PICK t \in collected, o \in Outcomes :
          /\ Runnable(t)
          /\ runs' = Append(runs, [key |-> <<Subcommand(t), Cases[t].file>>, outcome |-> o])
          /\ cache' = IF Kept(o) THEN [cache EXCEPT ![owner[t]][Key(t)] = Len(runs')] ELSE cache
          /\ status' = [status EXCEPT ![t] = Verdict(o, Cases[t].name)]
          /\ judged' = [judged EXCEPT ![t] = Len(runs')]
          /\ UNCHANGED adapter
    BY <1>3 DEF ConsumeFresh
  <2>2. t \in Tests /\ Key(t) \in Keys /\ owner[t] \in Workers
    BY <1>0, <2>1, KeyTyped DEF Runnable, Types, TypeOK
  <2> DEFINE r == [key |-> <<Subcommand(t), Cases[t].file>>, outcome |-> o]
  <2>3. /\ runs' \in Seq(RunType) /\ Len(runs') = Len(runs) + 1
        /\ \A i \in 1 .. Len(runs) : runs'[i] = runs[i]
        /\ runs'[Len(runs')] = r
    <3>1. r \in RunType /\ runs' = Append(runs, r) /\ runs \in Seq(RunType)
      BY <1>0, <2>1, <2>2 DEF Key, RunType, Types
    <3> HIDE DEF r
    <3>2. /\ runs' \in Seq(RunType) /\ Len(runs') = Len(runs) + 1
          /\ \A i \in 1 .. Len(runs) : runs'[i] = runs[i]
          /\ runs'[Len(runs) + 1] = r
      BY <3>1, AppendedRun
    <3> QED BY <3>2
  <2>4. CacheIsHonest'
    <3> SUFFICES ASSUME NEW w \in Workers, NEW k \in Keys, cache'[w][k] # 0
                 PROVE  runs'[cache'[w][k]].key = k
      BY DEF CacheIsHonest
    <3>1. CASE cache'[w][k] = cache[w][k]
      <4>1. cache[w][k] \in 1 .. Len(runs)
        BY <1>0, <1>a, <3>1 DEF Types, TypeOK
      <4> QED BY <1>0, <2>3, <3>1, <4>1 DEF CacheIsHonest
    <3>2. CASE cache'[w][k] # cache[w][k]
      <4>1. w = owner[t] /\ k = Key(t) /\ cache'[w][k] = Len(runs')
        BY <1>0, <2>1, <2>2, <3>2 DEF Types, TypeOK
      <4> QED BY <2>3, <4>1 DEF Key
    <3> QED BY <3>1, <3>2
  <2>5. Earned(t)'
    <3>1. /\ judged'[t] = Len(runs') /\ Len(runs') \in Nat \ {0}
          /\ status'[t] = Verdict(o, Cases[t].name)
      BY <1>0, <1>a, <2>1, <2>2, <2>3 DEF Types, TypeOK
    <3> QED BY <2>1, <2>2, <2>3, <3>1, RunJudges
  <2>6. ASSUME NEW u \in Tests \ {t} PROVE Earned(u)'
    <3>1. status'[u] = status[u] /\ judged'[u] = judged[u]
      BY <1>0, <2>1 DEF Types, TypeOK
    <3> QED BY <1>0, <2>1, <2>3, <3>1, EarnedStays
  <2> QED BY <1>0, <2>4, <2>5, <2>6, SMTT(30) DEF SafeInv, VerdictIsEarned, Earned
<1>4. CASE ConsumeUnsupported \/ WorkerDies
  <2>1. PICK t \in collected :
          /\ Runnable(t)
          /\ status' = [status EXCEPT ![t] = "failed"]
          /\ cache' \in {cache, [cache EXCEPT ![owner[t]] = [k \in Keys |-> 0]]}
          /\ UNCHANGED <<adapter, runs, judged>>
    BY <1>4 DEF ConsumeUnsupported, WorkerDies
  <2>2. t \in Tests /\ owner[t] \in Workers
    BY <1>0, <2>1 DEF Runnable, Types, TypeOK
  <2>3. \A w \in Workers, k \in Keys : cache'[w][k] # 0 => cache'[w][k] = cache[w][k]
    BY <1>0, <2>1, <2>2 DEF Types, TypeOK
  <2>4. CacheIsHonest'
    BY <1>0, <2>1, <2>3 DEF CacheIsHonest
  <2>5. Earned(t)'
    BY <1>0, <2>1, <2>2 DEF Earned, Types, TypeOK
  <2>6. ASSUME NEW u \in Tests \ {t} PROVE Earned(u)'
    <3>1. status'[u] = status[u] /\ judged'[u] = judged[u]
      BY <1>0, <2>1 DEF Types, TypeOK
    <3> QED BY <1>0, <2>1, <3>1, EarnedStays
  <2> QED BY <1>0, <2>4, <2>5, <2>6, SMTT(30) DEF SafeInv, VerdictIsEarned, Earned
<1> QED BY <1>1, <1>2, <1>3, <1>4 DEF Next

(***************************************************************************)
(* consume_fixture: a test that passes or is skipped was judged by a run   *)
(* of its own subcommand over its own file that said exactly that of it.   *)
(***************************************************************************)
THEOREM VerdictsAreEarned == Spec => []VerdictIsEarned
<1>1. Init => SafeInv
  BY InitTypes DEF Init, SafeInv, CacheIsHonest, VerdictIsEarned
<1>2. SafeInv => VerdictIsEarned
  BY DEF SafeInv
<1> QED BY <1>1, <1>2, StepSafe, PTL DEF Spec

-----------------------------------------------------------------------------
(***************************************************************************)
(* Runs.                                                                   *)
(***************************************************************************)
LEMMA InitDistribution ==
  Invocations \subseteq {"none", "-n"} /\ Init => Distribution
<1> SUFFICES ASSUME Invocations \subseteq {"none", "-n"}, Init PROVE Distribution
  OBVIOUS
<1>1. invocation \in {"none", "-n"} /\ collected = {} /\ grouped = {}
  BY DEF Init
<1>2. \A w \in Workers, k \in Keys : cache[w][k] = 0
  BY DEF Init
<1>3. \A t \in Tests : owner[t] = None
  BY DEF Init
<1>4. PendingTogether /\ PendingHoldsCache /\ AllGrouped
  BY <1>1 DEF PendingTogether, PendingHoldsCache, AllGrouped
<1>5. OneProcess
  BY <1>2, <1>3 DEF OneProcess
<1> QED BY <1>1, <1>2, <1>3, <1>4, <1>5 DEF Distribution

LEMMA StepDistribution ==
  ASSUME Types, Distribution, [Next]_vars PROVE Distribution'
<1> USE DEF Types, TypeOK
<1>1. CASE Configure \/ UNCHANGED vars
  BY <1>1 DEF Configure, vars, Distribution, AllGrouped, PendingTogether, PendingHoldsCache,
     OneProcess
<1>2. CASE Collect
  <2>1. /\ collected = {} /\ UNCHANGED <<invocation, owner, cache, status>>
        /\ collected' \subseteq Tests
        /\ invocation = "-n" => grouped' = collected'
    BY <1>2 DEF Collect, GroupFixtureFiles
  <2>2. /\ \A w \in Workers, k \in Keys : cache[w][k] = 0
        /\ \A t \in Tests : owner[t] = None
    BY <2>1 DEF Distribution
  <2>3. PendingTogether' /\ PendingHoldsCache'
    BY <2>1, <2>2 DEF PendingTogether, PendingHoldsCache
  <2>4. OneProcess'
    BY <2>1, <2>2 DEF OneProcess
  <2> QED BY <2>1, <2>2, <2>3, <2>4 DEF Distribution, AllGrouped
<1>3. CASE Distribute
  <2>1. PICK t \in collected, w \in Workers :
          /\ owner[t] = None /\ status[t] = "none"
          /\ invocation = "none" => \A u \in Tests : owner[u] \in {None, w}
          /\ owner' = [u \in Tests |-> IF u \in Scope(t) THEN w ELSE owner[u]]
          /\ UNCHANGED <<invocation, collected, grouped, cache, status>>
    BY <1>3 DEF Distribute
  <2>2. collected' # {} /\ t \in Tests
    BY <2>1
  <2>3. CASE invocation = "-n"
    <3>1. AllGrouped /\ PendingTogether /\ PendingHoldsCache
      BY <2>3 DEF Distribution
    <3>2. \A u \in collected : u \in Scope(t) <=>
            Cases[u].file = Cases[t].file /\ status[u] = "none"
      BY <3>1 DEF Scope, AllGrouped
    <3>3. \A u \in Scope(t) : u \in collected /\ owner[u] = None
      BY <2>1, <3>1 DEF Scope, AllGrouped, PendingTogether
    <3>4. PendingTogether'
      BY <2>1, <3>1, <3>2 DEF PendingTogether
    <3>5. PendingHoldsCache'
      <4> SUFFICES ASSUME NEW u \in collected, NEW v \in Workers, NEW k \in Keys,
                          status[u] = "none", k[2] = Cases[u].file, cache[v][k] # 0
                   PROVE  owner'[u] = v
        BY <2>1 DEF PendingHoldsCache
      <4>1. owner[u] = v
        BY <3>1 DEF PendingHoldsCache
      <4>2. CASE u \notin Scope(t)
        BY <2>1, <4>1, <4>2
      <4>3. CASE u \in Scope(t)
        <5>1. owner[t] = v
          BY <2>1, <3>1, <3>2, <4>3 DEF PendingHoldsCache
        <5> QED BY <2>1, <5>1, NoneIsNoWorker
      <4> QED BY <4>2, <4>3
    <3> QED BY <2>1, <2>2, <2>3, <3>1, <3>4, <3>5 DEF Distribution, AllGrouped
  <2>4. CASE invocation = "none"
    <3>1. OneProcess
      BY <2>4 DEF Distribution
    <3>2. \A u \in Tests : owner'[u] \in {None, w}
      BY <2>1, <2>4
    <3>3. \A u \in Tests : owner[u] # None => owner'[u] = owner[u]
      BY <2>1, <2>4
    <3>4. OneProcess'
      BY <2>1, <3>1, <3>2, <3>3, NoneIsNoWorker DEF OneProcess
    <3> QED BY <2>1, <2>2, <2>4, <3>4 DEF Distribution
  <2> QED BY <2>3, <2>4 DEF Distribution
<1>4. CASE ConsumeCached \/ ConsumeUnsupported
  <2>1. PICK t \in collected, s \in {"passed", "failed", "skipped"} :
          /\ status' = [status EXCEPT ![t] = s]
          /\ UNCHANGED <<invocation, collected, grouped, owner, cache>>
    BY <1>4, VerdictTyped DEF ConsumeCached, ConsumeUnsupported
  <2>2. \A u \in collected : status'[u] = "none" => status[u] = "none"
    BY <2>1
  <2>3. PendingTogether => PendingTogether'
    BY <2>1, <2>2 DEF PendingTogether
  <2>4. PendingHoldsCache => PendingHoldsCache'
    BY <2>1, <2>2 DEF PendingHoldsCache
  <2> QED BY <2>1, <2>3, <2>4 DEF Distribution, AllGrouped, OneProcess
<1>5. CASE ConsumeFresh
  <2>1. PICK t \in collected, o \in Outcomes :
          /\ Runnable(t)
          /\ cache' = IF Kept(o) THEN [cache EXCEPT ![owner[t]][Key(t)] = Len(runs')] ELSE cache
          /\ status' = [status EXCEPT ![t] = Verdict(o, Cases[t].name)]
          /\ UNCHANGED <<invocation, collected, grouped, owner>>
    BY <1>5 DEF ConsumeFresh
  <2>2. t \in Tests /\ Key(t) \in Keys /\ owner[t] \in Workers /\ status[t] = "none"
    BY <2>1, KeyTyped DEF Runnable
  <2>3. \A w \in Workers, k \in Keys : w # owner[t] \/ k # Key(t) => cache'[w][k] = cache[w][k]
    BY <2>1, <2>2
  <2>4. CASE invocation = "-n"
    <3>1. AllGrouped /\ PendingTogether /\ PendingHoldsCache
      BY <2>4 DEF Distribution
    <3>2. \A u \in collected : status'[u] = "none" => status[u] = "none"
      BY <2>1, VerdictTyped
    <3>3. PendingTogether'
      BY <2>1, <3>1, <3>2 DEF PendingTogether
    <3>4. PendingHoldsCache'
      <4> SUFFICES ASSUME NEW u \in collected, NEW w \in Workers, NEW k \in Keys,
                          status[u] = "none", k[2] = Cases[u].file, cache'[w][k] # 0
                   PROVE  owner[u] = w
        BY <2>1, <3>2 DEF PendingHoldsCache
      <4>1. CASE cache[w][k] # 0
        BY <3>1, <4>1 DEF PendingHoldsCache
      <4>2. CASE w = owner[t] /\ k = Key(t)
        BY <2>2, <3>1, <4>2, KeyTyped DEF PendingTogether
      <4> QED BY <2>3, <4>1, <4>2
    <3> QED BY <2>1, <2>4, <3>1, <3>3, <3>4 DEF Distribution, AllGrouped
  <2>5. CASE invocation = "none"
    <3>1. OneProcess
      BY <2>5 DEF Distribution
    <3>2. \A w \in Workers, k \in Keys : cache'[w][k] # 0 => \E u \in Tests : owner[u] = w
      BY <2>2, <2>3, <3>1 DEF OneProcess
    <3> QED BY <2>1, <2>5, <3>1, <3>2 DEF Distribution, OneProcess
  <2> QED BY <2>4, <2>5 DEF Distribution
<1>6. CASE WorkerDies
  <2>1. PICK t \in collected :
          /\ Runnable(t) /\ invocation # "none"
          /\ status' = [status EXCEPT ![t] = "failed"]
          /\ cache' = [cache EXCEPT ![owner[t]] = [k \in Keys |-> 0]]
          /\ owner' = [u \in Tests |->
               IF owner[u] = owner[t] /\ status[u] = "none" /\ u # t THEN None ELSE owner[u]]
          /\ UNCHANGED <<invocation, collected, grouped>>
    BY <1>6 DEF WorkerDies
  <2>2. AllGrouped /\ PendingTogether /\ PendingHoldsCache /\ invocation = "-n"
    BY <2>1 DEF Distribution
  <2>3. t \in Tests /\ owner[t] \in Workers
    BY <2>1 DEF Runnable
  <2>4. \A u \in collected : status'[u] = "none" => status[u] = "none" /\ u # t
    BY <2>1
  <2>5. PendingTogether'
    BY <2>1, <2>2, <2>4 DEF PendingTogether
  <2>6. \A w \in Workers, k \in Keys : cache'[w][k] # 0 => w # owner[t] /\ cache[w][k] # 0
    BY <2>1, <2>3
  <2>7. PendingHoldsCache'
    BY <2>1, <2>2, <2>4, <2>6 DEF PendingHoldsCache
  <2> QED BY <2>1, <2>2, <2>5, <2>7 DEF Distribution, AllGrouped
<1> QED BY <1>1, <1>2, <1>3, <1>4, <1>5, <1>6 DEF Next

\* When evmz runs over a file for the first time, no worker has its answer.
LEMMA FreshMeansUncached ==
  ASSUME Types, Distribution, NEW t \in collected, Runnable(t),
         cache[owner[t]][Key(t)] = 0, NEW w \in Workers
  PROVE  cache[w][Key(t)] = 0
<1>1. t \in Tests /\ Key(t) \in Keys /\ Key(t)[2] = Cases[t].file /\ owner[t] \in Workers
  BY KeyTyped DEF Runnable, Types, TypeOK
<1>2. CASE invocation = "-n"
  BY <1>1, <1>2 DEF Distribution, PendingHoldsCache, Runnable
<1>3. CASE invocation = "none"
  BY <1>1, <1>3, NoneIsNoWorker, ZenonT(30) DEF Distribution, OneProcess, Runnable, Types, TypeOK
<1> QED BY <1>2, <1>3 DEF Distribution

LEMMA KeptRunsFinite ==
  ASSUME Types
  PROVE  IsFiniteSet(DOMAIN runs) /\ \A k \in Keys : IsFiniteSet(KeptRuns(k))
<1>1. IsFiniteSet(DOMAIN runs)
  <2>1. DOMAIN runs = 1 .. Len(runs) /\ Len(runs) \in Nat
    BY DEF Types
  <2> QED BY <2>1, FS_Interval
<1>2. \A k \in Keys : KeptRuns(k) \in SUBSET DOMAIN runs
  BY DEF KeptRuns
<1> QED BY <1>1, <1>2, FS_Subset

LEMMA StepCounted ==
  ASSUME Types, Types', Distribution, RunsAreCounted, [Next]_vars PROVE RunsAreCounted'
<1>1. CASE ConsumeFresh
  <2>1. PICK t \in collected, o \in Outcomes :
          /\ Runnable(t)
          /\ cache[owner[t]][Key(t)] = 0
          /\ runs' = Append(runs, [key |-> <<Subcommand(t), Cases[t].file>>, outcome |-> o])
          /\ cache' = IF Kept(o) THEN [cache EXCEPT ![owner[t]][Key(t)] = Len(runs')] ELSE cache
          /\ UNCHANGED deaths
    BY <1>1 DEF ConsumeFresh
  <2>2. t \in Tests /\ Key(t) \in Keys /\ owner[t] \in Workers
    BY <2>1, KeyTyped DEF Runnable, Types, TypeOK
  <2> DEFINE r == [key |-> Key(t), outcome |-> o]
             n == Len(runs) + 1
  <2>3. /\ n \in Nat \ {0} /\ Len(runs') = n /\ n \notin DOMAIN runs
        /\ DOMAIN runs' = DOMAIN runs \union {n}
        /\ \A i \in DOMAIN runs : runs'[i] = runs[i]
        /\ runs'[n] = r
    <3>1. r \in RunType /\ runs' = Append(runs, r) /\ runs \in Seq(RunType)
      BY <2>1, <2>2 DEF Key, RunType, Types
    <3> HIDE DEF r
    <3> QED BY <3>1, AppendedRun
  <2>4. r.key = Key(t) /\ r.outcome = o
    OBVIOUS
  <2> HIDE DEF r, n
  <2> SUFFICES ASSUME NEW k \in Keys
               PROVE  Cardinality(KeptRuns(k)') <= deaths + CachedRuns(k)'
    BY <2>1 DEF RunsAreCounted
  <2>5. Cardinality(KeptRuns(k)) <= deaths + CachedRuns(k)
    BY DEF RunsAreCounted
  <2>6. CASE k = Key(t) /\ Kept(o)
    <3>1. KeptRuns(k)' = KeptRuns(k) \union {n}
      BY <2>3, <2>4, <2>6 DEF KeptRuns, Unreadable, Kept
    <3>2. /\ Cardinality(KeptRuns(k)) \in Nat
          /\ Cardinality(KeptRuns(k)') \in {Cardinality(KeptRuns(k)), Cardinality(KeptRuns(k)) + 1}
      <4>1. IsFiniteSet(KeptRuns(k))
        BY KeptRunsFinite
      <4> QED BY <3>1, <4>1, FS_AddElement, FS_CardinalityType
    <3>3. CachedRuns(k) = 0
      BY <2>1, <2>6, FreshMeansUncached DEF CachedRuns
    <3>4. cache'[owner[t]][k] # 0
      BY <2>1, <2>2, <2>3, <2>6 DEF Types, TypeOK
    <3>5. CachedRuns(k)' = 1
      BY <2>2, <3>4 DEF CachedRuns
    <3> QED BY <2>5, <3>2, <3>3, <3>5 DEF Types
  <2>7. CASE ~(k = Key(t) /\ Kept(o))
    <3>1. KeptRuns(k)' = KeptRuns(k)
      BY <2>3, <2>4, <2>7 DEF KeptRuns, Unreadable, Kept
    <3>2. \A w \in Workers : cache'[w][k] = cache[w][k]
      BY <2>1, <2>2, <2>7 DEF Types, TypeOK
    <3>3. CachedRuns(k)' = CachedRuns(k)
      BY <3>2 DEF CachedRuns
    <3> QED BY <2>5, <3>1, <3>3
  <2> QED BY <2>6, <2>7
<1>2. CASE WorkerDies
  <2>1. UNCHANGED runs /\ deaths' = deaths + 1
    BY <1>2 DEF WorkerDies
  <2> SUFFICES ASSUME NEW k \in Keys
               PROVE  Cardinality(KeptRuns(k)') <= deaths + 1 + CachedRuns(k)'
    BY <2>1 DEF RunsAreCounted
  <2>2. Cardinality(KeptRuns(k)) <= deaths + CachedRuns(k)
    BY DEF RunsAreCounted
  <2>3. KeptRuns(k)' = KeptRuns(k)
    BY <2>1 DEF KeptRuns, Unreadable
  <2>4. CachedRuns(k) \in {0, 1} /\ CachedRuns(k)' \in {0, 1}
    BY DEF CachedRuns
  <2> QED BY <2>2, <2>3, <2>4, KeptRunsFinite, FS_CardinalityType DEF Types
<1>3. CASE UNCHANGED <<cache, runs, deaths>>
  BY <1>3 DEF RunsAreCounted, KeptRuns, Unreadable, CachedRuns
<1> QED
  BY <1>1, <1>2, <1>3 DEF Next, Configure, Collect, Distribute, ConsumeCached,
     ConsumeUnsupported, vars

(***************************************************************************)
(* group_fixture_files and consume_fixture: when workers are asked for     *)
(* with -n, or not at all, evmz runs once over a fixture file, but for the *)
(* runs a worker's death or unreadable output costs.                       *)
(***************************************************************************)
THEOREM FilesRunOnce ==
  ASSUME Invocations \subseteq {"none", "-n"}
  PROVE  Spec => []OneRunPerFile
<1>1. Init => CountInv
  <2> SUFFICES ASSUME Init PROVE CountInv
    OBVIOUS
  <2>1. \A k \in Keys : KeptRuns(k) = {} /\ CachedRuns(k) = 0
    BY DEF Init, KeptRuns, CachedRuns
  <2>2. RunsAreCounted
    <3>1. deaths = 0 /\ Cardinality({}) = 0
      BY FS_EmptySet DEF Init
    <3>2. ASSUME NEW k \in Keys
          PROVE  Cardinality(KeptRuns(k)) <= deaths + CachedRuns(k)
      <4>1. KeptRuns(k) = {} /\ CachedRuns(k) = 0
        BY <2>1
      <4> QED BY <3>1, <4>1
    <3> QED BY <3>2 DEF RunsAreCounted
  <2> QED BY <2>2, InitTypes, InitDistribution DEF CountInv
<1>2. CountInv /\ [Next]_vars => CountInv'
  BY StepTypes, StepDistribution, StepCounted DEF CountInv
<1>3. CountInv => OneRunPerFile
  <2> SUFFICES ASSUME CountInv, NEW k \in Keys
               PROVE  Cardinality({i \in DOMAIN runs : runs[i].key = k}) <= 1 + deaths +
                        Cardinality({i \in {j \in DOMAIN runs : runs[j].key = k} : Unreadable(i)})
    BY DEF OneRunPerFile
  <2> DEFINE over == {i \in DOMAIN runs : runs[i].key = k}
             lost == {i \in over : Unreadable(i)}
  <2>1. over = KeptRuns(k) \union lost /\ KeptRuns(k) \intersect lost = {}
    BY DEF KeptRuns
  <2>2. IsFiniteSet(KeptRuns(k)) /\ IsFiniteSet(lost)
    <3>1. lost \in SUBSET DOMAIN runs
      OBVIOUS
    <3> HIDE DEF lost
    <3> QED BY <3>1, KeptRunsFinite, FS_Subset DEF CountInv
  <2>3. Cardinality(KeptRuns(k)) <= deaths + CachedRuns(k)
    BY DEF CountInv, RunsAreCounted
  <2>4. CachedRuns(k) \in {0, 1} /\ deaths \in Nat
    BY DEF CachedRuns, CountInv, Types
  <2> HIDE DEF over, lost
  <2>5. Cardinality(KeptRuns(k)) \in Nat /\ Cardinality(lost) \in Nat
    BY <2>2, FS_CardinalityType
  <2>6. Cardinality(over) = Cardinality(KeptRuns(k)) + Cardinality(lost)
    <3>1. Cardinality(KeptRuns(k) \union lost) = Cardinality(KeptRuns(k)) + Cardinality(lost)
            - Cardinality(KeptRuns(k) \intersect lost)
      BY <2>2, FS_Union
    <3>2. Cardinality(KeptRuns(k) \intersect lost) = 0
      BY <2>1, FS_EmptySet
    <3> QED BY <2>1, <2>5, <3>1, <3>2
  <2>7. Cardinality(over) <= 1 + deaths + Cardinality(lost)
    BY <2>3, <2>4, <2>5, <2>6
  <2> QED BY <2>7 DEF over, lost
<1> QED BY <1>1, <1>2, <1>3, PTL DEF Spec

-----------------------------------------------------------------------------
(***************************************************************************)
(* The fetch of a rolling corpus.                                          *)
(***************************************************************************)
\* The first n batches, extracted from what was resolved.
Whole(b) == Extracted(BatchId(b), b.archive, TRUE)
Fetched(n) == {Whole(batches[k]) : k \in 1 .. n}

Tar == TarFile(BatchId(batch), batch.archive)
Partial == Extracted(BatchId(batch), batch.archive, FALSE)

InLoop == {"fetch", "members", "extract", "verify"}

\* A run that goes on has not ended.
FetchRunning == pc # "idle" => exit = "none"

\* Where the loop over the batches stands.
FetchLoop ==
  /\ pc = "root" => at = 1 /\ Len(batches) > 0
  /\ pc \in InLoop => at \in 1 .. Len(batches)

\* What lies under the output root is what this run fetched so far.
FetchFiles ==
  /\ pc = "fetch"   => disk = Fetched(at - 1)
  /\ pc = "members" => disk = Fetched(at - 1) \union {Tar}
  /\ pc = "extract" => disk = Fetched(at - 1) \union {Tar, Partial}
  /\ pc = "verify"  => disk = Fetched(at)
  /\ pc \in {"roots", "write"} => disk = Fetched(Len(batches))

FetchInv == FetchTypeOK /\ FetchRunning /\ FetchLoop /\ FetchFiles

-----------------------------------------------------------------------------
(***************************************************************************)
(* Files and sequences.                                                    *)
(***************************************************************************)
LEMMA KindsDiffer ==
  ASSUME NEW b, NEW c
  PROVE  /\ Whole(b) # TarFile(BatchId(c), c.archive)
         /\ Whole(b) # Extracted(BatchId(c), c.archive, FALSE)
         /\ TarFile(BatchId(c), c.archive) # Extracted(BatchId(c), c.archive, FALSE)
         /\ Whole(b).kind = "dir"
         /\ TarFile(BatchId(c), c.archive).kind = "archive"
         /\ TarFile(BatchId(c), c.archive).archive = c.archive
         /\ TarFile(BatchId(c), c.archive).batch = BatchId(c)
         /\ Extracted(BatchId(c), c.archive, FALSE).kind = "dir"
  BY DEF Whole, Extracted, TarFile

\* The archive on disk is the one that was resolved.
LEMMA StoredIs ==
  ASSUME disk = Fetched(at - 1) \union {Tar} \/ disk = Fetched(at - 1) \union {Tar, Partial}
  PROVE  stored = batch.archive
<1>1. \A e \in disk : e.kind = "archive" => e = Tar
  BY KindsDiffer DEF Fetched, Tar, Partial
<1>2. Tar \in disk /\ Tar.kind = "archive" /\ Tar.batch = BatchId(batch) /\ Tar.archive = batch.archive
  BY KindsDiffer DEF Tar
<1> DEFINE e == CHOOSE e \in disk : e.kind = "archive" /\ e.batch = BatchId(batch)
<1>3. e \in disk /\ e.kind = "archive"
  BY <1>2
<1>4. e = Tar
  BY <1>1, <1>3
<1> QED BY <1>2, <1>4 DEF stored

LEMMA FetchedGrows ==
  ASSUME at \in 1 .. Len(batches), batches \in Seq(Lines)
  PROVE  Fetched(at) = Fetched(at - 1) \union {Whole(batch)}
<1>1. at \in Nat /\ 1 .. at = (1 .. at - 1) \union {at}
  OBVIOUS
<1> QED BY <1>1 DEF Fetched, batch

\* Sorting and cutting a list gives a list of the same lines.
LEMMA LatestTyped ==
  ASSUME NEW T, NEW s \in Seq(T), NEW order \in [DOMAIN s -> DOMAIN s], Count > 0
  PROVE  LatestOf(InOrder(order, s), Count) \in Seq(T)
<1> DEFINE t == InOrder(order, s)
           m == IF Len(t) > Count THEN Len(t) - Count + 1 ELSE 1
<1>1. t \in Seq(T)
  <2>1. DOMAIN s = 1 .. Len(s) /\ Len(s) \in Nat /\ \A k \in 1 .. Len(s) : s[k] \in T
    OBVIOUS
  <2>2. \A k \in 1 .. Len(s) : s[order[k]] \in T
    BY <2>1
  <2>3. t = [k \in 1 .. Len(s) |-> s[order[k]]]
    BY <2>1 DEF InOrder
  <2>4. \A n \in Nat : \A f : f \in [1 .. n -> T] => f \in Seq(T)
    OBVIOUS
  <2> QED BY <2>1, <2>2, <2>3, <2>4
<1> HIDE DEF t
<1>2. Len(t) \in Nat /\ m \in 1 .. Len(t) + 1
  BY <1>1, CountIsInteger
<1> HIDE DEF m
<1>3. \A i \in m .. Len(t) : t[i] \in T
  BY <1>1, <1>2
<1>4. SubSeq(t, m, Len(t)) \in Seq(T)
  BY <1>1, <1>2, <1>3, SubSeqProperties
<1> QED BY <1>4 DEF LatestOf, t, m

-----------------------------------------------------------------------------
(***************************************************************************)
(* The invariant.                                                          *)
(***************************************************************************)
LEMMA FetchInitEstablishes == FetchInit => FetchInv
<1> SUFFICES ASSUME FetchInit PROVE FetchInv
  OBVIOUS
<1>1. FetchTypeOK
  BY DEF FetchInit, FetchTypeOK
<1>2. FetchRunning /\ FetchLoop /\ FetchFiles
  BY DEF FetchInit, FetchRunning, FetchLoop, FetchFiles, InLoop
<1> QED BY <1>1, <1>2 DEF FetchInv

LEMMA FilesKept ==
  ASSUME FetchFiles, UNCHANGED <<pc, batches, at, disk>> PROVE FetchFiles'
<1>1. Tar' = Tar /\ Partial' = Partial
  BY DEF Tar, Partial, batch
<1>2. /\ Fetched(at - 1)' = Fetched(at - 1) /\ Fetched(at)' = Fetched(at)
      /\ Fetched(Len(batches))' = Fetched(Len(batches))
  BY DEF Fetched
<1> QED BY <1>1, <1>2 DEF FetchFiles

LEMMA ServerPreserves ==
  ASSUME FetchInv, Publisher PROVE FetchInv'
<1>1. UNCHANGED <<pc, batches, at, exit, disk>>
  BY DEF Publisher, process
<1>2. catalog' \in Seq(Lines) /\ objects' \in [Ids -> Archives \union {Absent}]
  <2>1. catalog \in Seq(Lines) /\ objects \in [Ids -> Archives \union {Absent}]
    BY DEF FetchInv, FetchTypeOK
  <2>2. \A line \in Lines : line.archive \in Archives
    BY DEF Archives
  <2>3. CASE AddBatch
    <3>1. PICK line \in Lines : Store(line) /\ Announce(line)
      BY <2>3 DEF AddBatch
    <3>2. catalog' \in Seq(Lines)
      BY <2>1, <3>1 DEF Announce
    <3>3. objects' \in [Ids -> Archives \union {Absent}]
      BY <2>1, <2>2, <3>1 DEF Store
    <3> QED BY <3>2, <3>3
  <2>4. CASE Upload
    BY <2>1, <2>2, <2>4 DEF Upload, Store
  <2>5. CASE ListBatch
    BY <2>1, <2>5 DEF ListBatch, Announce
  <2>6. CASE Expire
    <3>1. catalog' \in Seq(Lines)
      BY <2>1, <2>6 DEF Expire
    <3>2. objects' = [objects EXCEPT ![BatchId(Head(catalog))] = Absent]
      BY <2>6 DEF Expire
    <3>3. objects' \in [Ids -> Archives \union {Absent}]
      BY <2>1, <3>2
    <3> QED BY <3>1, <3>3
  <2> QED BY <2>3, <2>4, <2>5, <2>6 DEF Publisher
<1>3. FetchTypeOK'
  BY <1>1, <1>2 DEF FetchInv, FetchTypeOK
<1>4. FetchRunning' /\ FetchLoop'
  BY <1>1 DEF FetchInv, FetchRunning, FetchLoop
<1> QED BY <1>1, <1>3, <1>4, FilesKept DEF FetchInv

\* Steps outside the loop over the batches.
LEMMA ResolvePreserves ==
  ASSUME FetchInv, ResolveCatalog PROVE FetchInv'
<1>1. PICK order \in [DOMAIN catalog -> DOMAIN catalog] :
        batches' = LatestOf(InOrder(order, catalog), Count)
  BY DEF ResolveCatalog
<1>2. batches' \in Seq(Lines)
  BY <1>1, LatestTyped DEF ResolveCatalog, FetchInv, FetchTypeOK
<1>3. pc = "list" /\ pc' = "root" /\ at' = 1 /\ Len(batches') > 0 /\ exit' = exit
      /\ catalog' = catalog /\ objects' = objects
  BY DEF ResolveCatalog, server
<1> QED BY <1>2, <1>3 DEF FetchInv, FetchTypeOK, FetchRunning, FetchLoop, FetchFiles, InLoop

LEMMA QuietPreserves ==
  ASSUME FetchInv, StartFetch \/ WriteManifest \/ Abort \/ CleanRoot \/ ResolveRelease
  PROVE  FetchInv'
<1>1. /\ pc' \in {"idle", "list"} /\ (pc' # "idle" => exit' = "none")
      /\ exit' \in {"none", "ok", "failed"} /\ batches' \in Seq(Lines)
      /\ catalog' = catalog /\ objects' = objects
  <2>1. CASE StartFetch
    BY <2>1 DEF StartFetch, server, FetchInv, FetchTypeOK
  <2>2. CASE WriteManifest
    BY <2>2 DEF WriteManifest, ProcessEnds, server, FetchInv, FetchTypeOK
  <2>3. CASE Abort
    BY <2>3 DEF Abort, ProcessEnds, server, FetchInv, FetchTypeOK
  <2>4. CASE CleanRoot
    BY <2>4 DEF CleanRoot, process, server, FetchInv, FetchTypeOK
  <2>5. CASE ResolveRelease
    BY <2>5 DEF ResolveRelease, server, FetchInv, FetchTypeOK
  <2> QED BY <2>1, <2>2, <2>3, <2>4, <2>5
<1> QED BY <1>1 DEF FetchInv, FetchTypeOK, FetchRunning, FetchLoop, FetchFiles, InLoop

\* Steps of the loop: what the run resolved stays, and so do the first files.
LEMMA LoopPreserves ==
  ASSUME FetchInv, UNCHANGED <<catalog, objects, batches, exit>>,
         pc # "idle", pc' \in InLoop \union {"roots", "write"},
         pc' \in InLoop => at' \in 1 .. Len(batches),
         FetchFiles'
  PROVE  FetchInv'
<1>1. FetchTypeOK'
  BY DEF FetchInv, FetchTypeOK, InLoop
<1>2. FetchRunning' /\ FetchLoop'
  BY DEF FetchInv, FetchRunning, FetchLoop, InLoop
<1> QED BY <1>1, <1>2 DEF FetchInv

LEMMA FetcherPreserves ==
  ASSUME FetchInv, CheckRoot \/ DownloadBatch \/ ListMembers \/ Extract \/ VerifyBatch \/ OpenManifest
  PROVE  FetchInv'
<1>0. batches \in Seq(Lines) /\ Len(batches) \in Nat
      /\ (pc \in InLoop => at \in 1 .. Len(batches) /\ at \in Nat)
  BY DEF FetchInv, FetchTypeOK, FetchLoop
<1>1. CASE CheckRoot
  <2>1. pc = "root" /\ pc' = "fetch" /\ at = 1 /\ at' = 1 /\ disk' = {} /\ Len(batches) > 0
        /\ UNCHANGED <<catalog, objects, batches, exit>>
    BY <1>1 DEF CheckRoot, OutputRootIsEmpty, server, FetchInv, FetchLoop
  <2>2. 1 .. at' - 1 = {}
    BY <2>1
  <2>3. FetchFiles'
    BY <2>1, <2>2 DEF FetchFiles, Fetched
  <2>4. at' \in 1 .. Len(batches)
    BY <1>0, <2>1
  <2> QED BY <2>1, <2>3, <2>4, LoopPreserves DEF InLoop
<1>2. CASE DownloadBatch
  <2>1. /\ pc = "fetch" /\ pc' = "members" /\ disk = Fetched(at - 1)
        /\ disk' = disk \union {Tar} /\ UNCHANGED <<catalog, objects, batches, exit, at>>
    BY <1>2 DEF DownloadBatch, PayloadMatches, Tar, server, FetchInv, FetchFiles
  <2>2. FetchFiles'
    BY <2>1 DEF FetchFiles, Fetched, Tar, batch
  <2> QED BY <1>0, <2>1, <2>2, LoopPreserves DEF InLoop
<1>3. CASE ListMembers
  <2>1. /\ pc = "members" /\ pc' = "extract" /\ disk = Fetched(at - 1) \union {Tar}
        /\ disk' = disk \union {Extracted(BatchId(batch), stored, FALSE)}
        /\ UNCHANGED <<catalog, objects, batches, exit, at>>
    BY <1>3 DEF ListMembers, server, FetchInv, FetchFiles
  <2>2. disk' = Fetched(at - 1) \union {Tar, Partial}
    BY <2>1, StoredIs DEF Partial
  <2>3. Tar' = Tar /\ Partial' = Partial /\ Fetched(at - 1)' = Fetched(at - 1)
    BY <2>1 DEF Fetched, Tar, Partial, batch
  <2>4. FetchFiles'
    BY <2>1, <2>2, <2>3 DEF FetchFiles
  <2> QED BY <1>0, <2>1, <2>4, LoopPreserves DEF InLoop
<1>4. CASE Extract
  <2>1. /\ pc = "extract" /\ pc' = "verify" /\ disk = Fetched(at - 1) \union {Tar, Partial}
        /\ disk' = (disk \ {TarFile(BatchId(batch), stored),
                            Extracted(BatchId(batch), stored, FALSE)})
                    \union {Extracted(BatchId(batch), stored, TRUE)}
        /\ UNCHANGED <<catalog, objects, batches, exit, at>>
    BY <1>4 DEF Extract, server, FetchInv, FetchFiles
  <2>2. disk' = (disk \ {Tar, Partial}) \union {Whole(batch)}
    <3>1. stored = batch.archive
      BY <2>1, StoredIs
    <3> QED BY <2>1, <3>1 DEF Tar, Partial, Whole
  <2>3. \A e \in Fetched(at - 1) : e # Tar /\ e # Partial
    <3>1. ASSUME NEW e \in Fetched(at - 1) PROVE e # Tar /\ e # Partial
      <4>1. PICK k : e = Whole(batches[k])
        BY DEF Fetched
      <4>2. /\ Whole(batches[k]) # TarFile(BatchId(batch), batch.archive)
            /\ Whole(batches[k]) # Extracted(BatchId(batch), batch.archive, FALSE)
        BY KindsDiffer
      <4> QED BY <4>1, <4>2 DEF Tar, Partial
    <3> QED BY <3>1
  <2>4. Fetched(at) = Fetched(at - 1) \union {Whole(batch)}
    BY <1>0, <2>1, FetchedGrows DEF InLoop
  <2>5. disk' = Fetched(at)
    <3> DEFINE F == Fetched(at - 1)
               W == Whole(batch)
               G == Fetched(at)
    <3>1. disk = F \union {Tar, Partial} /\ disk' = (disk \ {Tar, Partial}) \union {W}
          /\ G = F \union {W} /\ \A e \in F : e # Tar /\ e # Partial
      BY <2>1, <2>2, <2>3, <2>4
    <3> HIDE DEF F, W, G
    <3>2. disk' = G
      BY <3>1
    <3> QED BY <3>2 DEF G
  <2>6. FetchFiles'
    BY <2>1, <2>5 DEF FetchFiles, Fetched
  <2> QED BY <1>0, <2>1, <2>6, LoopPreserves DEF InLoop
<1>5. CASE VerifyBatch
  <2>1. /\ pc = "verify" /\ at' = at + 1 /\ disk = Fetched(at)
        /\ pc' = (IF at = Len(batches) THEN "roots" ELSE "fetch")
        /\ UNCHANGED <<catalog, objects, batches, exit, disk>>
    <3>1. disk = Fetched(at)
      BY <1>5 DEF VerifyBatch, FetchInv, FetchFiles
    <3> QED BY <1>5, <3>1 DEF VerifyBatch, server
  <2>2. at' - 1 = at /\ (at # Len(batches) => at' \in 1 .. Len(batches))
    BY <1>0, <2>1 DEF InLoop
  <2>3. FetchFiles'
    BY <2>1, <2>2 DEF FetchFiles, Fetched
  <2> QED BY <2>1, <2>2, <2>3, LoopPreserves DEF InLoop
<1>6. CASE OpenManifest
  <2>1. /\ pc = "roots" /\ pc' = "write" /\ disk = Fetched(Len(batches))
        /\ UNCHANGED <<catalog, objects, batches, exit, disk>>
    BY <1>6 DEF OpenManifest, server, FetchInv, FetchFiles
  <2>2. FetchFiles'
    BY <2>1 DEF FetchFiles, Fetched
  <2> QED BY <2>1, <2>2, LoopPreserves DEF InLoop
<1> QED BY <1>1, <1>2, <1>3, <1>4, <1>5, <1>6

LEMMA FetchStepPreserves == FetchInv /\ [FetchNext]_fetchVars => FetchInv'
<1> SUFFICES ASSUME FetchInv, [FetchNext]_fetchVars PROVE FetchInv'
  OBVIOUS
<1>1. CASE UNCHANGED fetchVars
  <2>1. UNCHANGED <<catalog, objects, pc, batches, at, exit, disk>>
    BY <1>1 DEF fetchVars, server, process
  <2>2. FetchTypeOK'
    BY <2>1 DEF FetchInv, FetchTypeOK
  <2>3. FetchRunning' /\ FetchLoop'
    BY <2>1 DEF FetchInv, FetchRunning, FetchLoop
  <2> QED BY <2>1, <2>2, <2>3, FilesKept DEF FetchInv
<1> QED BY <1>1, ServerPreserves, ResolvePreserves, QuietPreserves, FetcherPreserves
        DEF FetchNext, Fetcher

LEMMA FetchInvariance == FetchSpec => []FetchInv
<1> QED BY FetchInitEstablishes, FetchStepPreserves, PTL DEF FetchSpec

(***************************************************************************)
(* The resolved batches are lines of the catalog, and the loop over them   *)
(* never leaves the list.                                                  *)
(***************************************************************************)
THEOREM FetchTypeCorrect == FetchSpec => []FetchTypeOK
<1>1. FetchInv => FetchTypeOK
  BY DEF FetchInv
<1> QED BY <1>1, FetchInvariance, PTL

(***************************************************************************)
(* main returns 0 only with a manifest and an output root that belong      *)
(* together, whatever earlier runs left and however the catalog moved      *)
(* between its reading and the last download.                              *)
(***************************************************************************)
THEOREM SuccessPublishes == FetchSpec => SuccessMeansPublished
<1>1. ASSUME FetchInv, [FetchNext]_fetchVars, exit' = "ok", pc # "idle"
      PROVE  Published'
  <2>1. WriteManifest
    <3>1. exit = "none"
      BY <1>1 DEF FetchInv, FetchRunning
    <3>2. exit' # exit
      BY <1>1, <3>1
    <3>3. ~UNCHANGED fetchVars /\ ~Publisher /\ ~CleanRoot /\ ~ResolveRelease
      BY <1>1, <3>2 DEF fetchVars, process, Publisher, CleanRoot, ResolveRelease
    <3>4. /\ ~StartFetch /\ ~ResolveCatalog /\ ~CheckRoot /\ ~DownloadBatch /\ ~ListMembers
          /\ ~Extract /\ ~VerifyBatch /\ ~OpenManifest /\ ~Abort
      BY <1>1, <3>2 DEF StartFetch, ResolveCatalog, CheckRoot, DownloadBatch, ListMembers,
         Extract, VerifyBatch, OpenManifest, Abort
    <3> QED BY <1>1, <3>3, <3>4 DEF FetchNext, Fetcher
  <2>2. disk = Fetched(Len(batches)) /\ disk' = disk /\ batches \in Seq(Lines)
    BY <1>1, <2>1 DEF WriteManifest, FetchInv, FetchFiles, FetchTypeOK
  <2>3. manifest'.mode = "rolling" /\ manifest'.batches = batches
    BY <2>1 DEF WriteManifest, Resolved
  <2>4. DOMAIN batches = 1 .. Len(batches)
    BY <2>2
  <2>5. disk' = {Extracted(BatchId(manifest'.batches[k]), manifest'.batches[k].archive, TRUE) :
                   k \in DOMAIN manifest'.batches}
    BY <2>2, <2>3, <2>4 DEF Fetched, Whole
  <2> QED BY <2>3, <2>5 DEF Published, IsRolling
<1>2. FetchInv /\ [FetchNext]_fetchVars => [exit' = "ok" /\ pc # "idle" => Published']_fetchVars
  BY <1>1
<1> QED BY <1>2, FetchInvariance, PTL DEF FetchSpec, SuccessMeansPublished

-----------------------------------------------------------------------------
(***************************************************************************)
(* Induction, sums and sorting.                                            *)
(***************************************************************************)
Below == {p \in Nat \X Nat : p[1] < p[2]}

LEMMA BelowWellFounded == IsWellFoundedOn(Below, Nat)
  BY NatLessThanWellFounded DEF OpToRel, Below

LEMMA Least ==
  ASSUME NEW T, T \subseteq Nat, T # {}
  PROVE  \E n \in T : \A m \in T : ~(m < n)
<1>1. PICK n \in T : \A m \in T : ~(<<m, n>> \in Below)
  BY WFMin, BelowWellFounded
<1>2. ASSUME NEW m \in T PROVE ~(m < n)
  <2>1. ~(<<m, n>> \in Below)
    BY <1>1
  <2> QED BY <2>1 DEF Below
<1> QED BY <1>2

\* A set of numbers that holds 0, and the successor of every member below n,
\* holds n.
LEMMA UpTo ==
  ASSUME NEW n \in Nat, NEW G, 0 \in G,
         \A i \in 0 .. n - 1 : i \in G => i + 1 \in G
  PROVE  n \in G
<1> DEFINE T == {m \in 0 .. n : m \notin G}
<1>1. ASSUME T # {} PROVE FALSE
  <2>1. T \subseteq Nat
    OBVIOUS
  <2>2. PICK m \in T : \A k \in T : ~(k < m)
    BY Least, <1>1, <2>1
  <2>3. m # 0 /\ m - 1 \in 0 .. n - 1 /\ m - 1 \notin T
    BY <2>2
  <2>4. m - 1 \in G
    BY <2>3
  <2>5. (m - 1) + 1 \in G
    BY <2>3, <2>4
  <2> QED BY <2>2, <2>5
<1> QED BY <1>1

LEMMA FirstNumbers ==
  ASSUME NEW n \in Nat PROVE IsFiniteSet(1 .. n) /\ Cardinality(1 .. n) = n
  BY FS_Interval

\* The partial sums of a list.
Summing(t, q, n) == t = [k \in 0 .. n |-> IF k = 0 THEN 0 ELSE t[k - 1] + q[k]]
Sums(q) == CHOOSE t : Summing(t, q, Len(q))

LEMMA SumsExist ==
  ASSUME NEW q, NEW n \in Nat
  PROVE  \E t : Summing(t, q, n)
<1> DEFINE G == {m \in Nat : \E t : Summing(t, q, m)}
<1>1. 0 \in G
  <2> DEFINE u == [k \in 0 .. 0 |-> 0]
  <2>1. Summing(u, q, 0)
    BY DEF Summing
  <2> QED BY <2>1
<1>2. ASSUME NEW m \in 0 .. n - 1, m \in G PROVE m + 1 \in G
  <2>1. PICK t : Summing(t, q, m)
    BY <1>2
  <2> DEFINE u == [k \in 0 .. m + 1 |-> IF k = m + 1 THEN t[m] + q[m + 1] ELSE t[k]]
  <2>2. \A k \in 0 .. m + 1 : u[k] = IF k = 0 THEN 0 ELSE u[k - 1] + q[k]
    BY <2>1 DEF Summing
  <2>3. Summing(u, q, m + 1)
    BY <2>2 DEF Summing
  <2> QED BY <2>3
<1>3. n \in G
  <2> HIDE DEF G
  <2> QED BY UpTo, <1>1, <1>2
<1> QED BY <1>3

LEMMA SumsFacts ==
  ASSUME NEW q \in Seq(Int)
  PROVE  /\ Total(q) = Sums(q)[Len(q)] /\ Len(q) \in Nat
         /\ Sums(q)[0] = 0
         /\ \A k \in 1 .. Len(q) : Sums(q)[k] = Sums(q)[k - 1] + q[k]
         /\ \A k \in 0 .. Len(q) : Sums(q)[k] \in Int
<1> DEFINE t == Sums(q)
           n == Len(q)
           G == {k \in 0 .. n : t[k] \in Int}
<1>1. n \in Nat /\ \A k \in 1 .. n : q[k] \in Int
  OBVIOUS
<1>2. Summing(t, q, n)
  BY <1>1, SumsExist DEF Sums
<1>3. Total(q) = t[n]
  BY DEF Total, Sums, Summing
<1> HIDE DEF t, n
<1>4. t[0] = 0 /\ \A k \in 1 .. n : t[k] = t[k - 1] + q[k]
  <2>1. \A k \in 0 .. n : t[k] = IF k = 0 THEN 0 ELSE t[k - 1] + q[k]
    BY <1>2 DEF Summing
  <2> QED BY <1>1, <2>1
<1>5. ASSUME NEW k \in 0 .. n PROVE t[k] \in Int
  <2>1. 0 \in G
    BY <1>1, <1>4
  <2>2. ASSUME NEW i \in 0 .. k - 1, i \in G PROVE i + 1 \in G
    BY <1>1, <1>4, <2>2
  <2>3. k \in Nat
    BY <1>1
  <2> HIDE DEF G
  <2>4. k \in G
    BY <2>1, <2>2, <2>3, UpTo
  <2> QED BY <2>4 DEF G
<1> QED BY <1>1, <1>3, <1>4, <1>5 DEF t, n

\* Disjoint finite sets have as many members together as their sizes add up to.
LEMMA DisjointUnion ==
  ASSUME NEW q \in Seq(Int), NEW S,
         \A k \in 1 .. Len(q) : IsFiniteSet(S[k]) /\ Cardinality(S[k]) = q[k],
         \A j, k \in 1 .. Len(q) : j # k => S[j] \cap S[k] = {}
  PROVE  /\ IsFiniteSet(UNION {S[k] : k \in 1 .. Len(q)})
         /\ Cardinality(UNION {S[k] : k \in 1 .. Len(q)}) = Total(q)
<1> DEFINE t == Sums(q)
           n == Len(q)
           U(m) == UNION {S[k] : k \in 1 .. m}
           G == {m \in 0 .. n : IsFiniteSet(U(m)) /\ Cardinality(U(m)) = t[m]}
<1>1. /\ Total(q) = t[n] /\ n \in Nat /\ t[0] = 0
      /\ \A k \in 1 .. n : t[k] = t[k - 1] + q[k]
      /\ \A k \in 0 .. n : t[k] \in Int
  BY SumsFacts
<1> HIDE DEF t
<1>2. 0 \in G
  <2>1. U(0) = {} /\ 0 \in 0 .. n
    BY <1>1
  <2>2. IsFiniteSet(U(0)) /\ Cardinality(U(0)) = t[0]
    BY <1>1, <2>1, FS_EmptySet
  <2> HIDE DEF U
  <2> QED BY <2>1, <2>2
<1>3. ASSUME NEW m \in 0 .. n - 1, m \in G PROVE m + 1 \in G
  <2>1. m + 1 \in 1 .. n /\ (m + 1) - 1 = m /\ m \in Nat
    BY <1>1
  <2> DEFINE A == U(m)
             B == S[m + 1]
  <2>2. U(m + 1) = A \cup B
    <3>1. 1 .. m + 1 = (1 .. m) \cup {m + 1}
      BY <2>1
    <3> QED BY <3>1
  <2>3. A \cap B = {}
    <3>1. \A k \in 1 .. m : k \in 1 .. n /\ k # m + 1
      BY <1>1, <2>1
    <3>2. \A k \in 1 .. m : S[k] \cap B = {}
      BY <2>1, <3>1
    <3> QED BY <3>2
  <2>4. IsFiniteSet(A) /\ Cardinality(A) = t[m]
    BY <1>3
  <2>5. IsFiniteSet(B) /\ Cardinality(B) = q[m + 1]
    BY <2>1
  <2>6. t[m + 1] = t[m] + q[m + 1] /\ t[m] \in Int /\ q[m + 1] \in Int
    BY <1>1, <2>1
  <2> HIDE DEF A, B, n
  <2>7. IsFiniteSet(A \cup B) /\ Cardinality(A \cup B) = t[m + 1]
    <3>1. Cardinality(A \cap B) = 0
      BY <2>3, FS_EmptySet
    <3>2. /\ IsFiniteSet(A \cup B)
          /\ Cardinality(A \cup B) = Cardinality(A) + Cardinality(B) - Cardinality(A \cap B)
      BY <2>4, <2>5, FS_Union
    <3> QED BY <2>4, <2>5, <2>6, <3>1, <3>2
  <2>8. m + 1 \in 0 .. n
    BY <1>1, <2>1
  <2> QED BY <2>2, <2>7, <2>8
<1>4. n \in G
  <2> HIDE DEF G
  <2> QED BY <1>1, <1>2, <1>3, UpTo
<1> QED BY <1>1, <1>4

\* Sorting by number and, among equals, by place.
LEMMA RankOrders ==
  ASSUME NEW rows, NEW n \in Nat, DOMAIN rows = 1 .. n,
         \A i \in 1 .. n : rows[i].number \in Int
  PROVE  /\ \A i \in 1 .. n : RowRank(rows, i) \in Nat /\ RowRank(rows, i) < n
         /\ \A i, j \in 1 .. n : RowBefore(rows, i, j) => RowRank(rows, i) < RowRank(rows, j)
         /\ \A i, j \in 1 .. n : i # j => RowBefore(rows, i, j) \/ RowBefore(rows, j, i)
<1> DEFINE D == 1 .. n
           P(i) == {j \in D : RowBefore(rows, j, i)}
<1>1. IsFiniteSet(D) /\ Cardinality(D) = n
  BY FS_Interval
<1>2. ASSUME NEW i \in D
      PROVE  /\ RowRank(rows, i) = Cardinality(P(i))
             /\ P(i) \in SUBSET D /\ i \notin P(i) /\ IsFiniteSet(P(i))
  <2>1. P(i) \in SUBSET D /\ i \notin P(i)
    BY DEF RowBefore
  <2>2. IsFiniteSet(P(i))
    BY <1>1, <2>1, FS_Subset
  <2> QED BY <2>1, <2>2 DEF RowRank
<1>3. ASSUME NEW i \in D PROVE RowRank(rows, i) \in Nat /\ RowRank(rows, i) < n
  <2> DEFINE Q == P(i)
  <2>1. Q \in SUBSET D /\ Q # D /\ IsFiniteSet(Q) /\ RowRank(rows, i) = Cardinality(Q)
    BY <1>2
  <2> HIDE DEF Q, D
  <2>2. Cardinality(Q) <= Cardinality(D) /\ Cardinality(Q) # Cardinality(D)
    BY <1>1, <2>1, FS_Subset
  <2>3. Cardinality(Q) \in Nat
    BY <2>1, FS_CardinalityType
  <2> QED BY <1>1, <2>1, <2>2, <2>3
<1>4. ASSUME NEW i \in D, NEW j \in D, RowBefore(rows, i, j)
      PROVE  RowRank(rows, i) < RowRank(rows, j)
  <2> DEFINE Q == P(i)
             R == P(j)
  <2>1. /\ IsFiniteSet(R) /\ i \in R /\ i \notin Q
        /\ RowRank(rows, i) = Cardinality(Q) /\ RowRank(rows, j) = Cardinality(R)
    BY <1>2, <1>4
  <2>2. ASSUME NEW k \in D, RowBefore(rows, k, i) PROVE RowBefore(rows, k, j)
    <3>1. /\ rows[k].number \in Int /\ rows[i].number \in Int /\ rows[j].number \in Int
          /\ k \in Nat /\ i \in Nat /\ j \in Nat
      OBVIOUS
    <3> QED BY <1>4, <2>2, <3>1 DEF RowBefore
  <2>3. Q \in SUBSET R
    BY <2>2
  <2>4. IsFiniteSet(Q)
    BY <1>2
  <2> HIDE DEF Q, R
  <2>5. Cardinality(Q) <= Cardinality(R) /\ Cardinality(Q) # Cardinality(R)
    BY <2>1, <2>3, FS_Subset
  <2>6. Cardinality(Q) \in Nat /\ Cardinality(R) \in Nat
    BY <2>1, <2>4, FS_CardinalityType
  <2> QED BY <2>1, <2>5, <2>6
<1>5. ASSUME NEW i \in D, NEW j \in D, i # j
      PROVE  RowBefore(rows, i, j) \/ RowBefore(rows, j, i)
  <2>1. rows[i].number \in Int /\ rows[j].number \in Int /\ i \in Nat /\ j \in Nat
    OBVIOUS
  <2> QED BY <1>5, <2>1 DEF RowBefore
<1> QED BY <1>3, <1>4, <1>5

\* Sorting puts the row of rank k in place k + 1, and no row twice.
LEMMA SortPlaces ==
  ASSUME NEW rows, NEW n \in Nat, DOMAIN rows = 1 .. n,
         \A i \in 1 .. n : rows[i].number \in Int
  PROVE  \E sel \in Bijection(1 .. n, 1 .. n) :
           /\ SortedRows(rows) = [k \in 1 .. n |-> rows[sel[k]]]
           /\ \A j, k \in 1 .. n : j < k => RowBefore(rows, sel[j], sel[k])
<1> DEFINE D == 1 .. n
           rank == [i \in D |-> RowRank(rows, i) + 1]
           sel == [k \in D |-> CHOOSE i \in D : RowRank(rows, i) = k - 1]
<1>1. /\ \A i \in D : RowRank(rows, i) \in Nat /\ RowRank(rows, i) < n
      /\ \A i, j \in D : RowBefore(rows, i, j) => RowRank(rows, i) < RowRank(rows, j)
      /\ \A i, j \in D : i # j => RowBefore(rows, i, j) \/ RowBefore(rows, j, i)
  BY RankOrders
<1>2. IsFiniteSet(D) /\ Cardinality(D) = n
  BY FS_Interval
<1>3. /\ rank \in [D -> D]
      /\ \A i \in D : rank[i] = RowRank(rows, i) + 1
  BY <1>1
<1>4. ASSUME NEW i \in D, NEW j \in D, i # j PROVE rank[i] # rank[j]
  <2>1. RowRank(rows, i) \in Nat /\ RowRank(rows, j) \in Nat
    BY <1>1
  <2>2. RowRank(rows, i) < RowRank(rows, j) \/ RowRank(rows, j) < RowRank(rows, i)
    BY <1>1, <1>4
  <2>3. rank[i] = RowRank(rows, i) + 1 /\ rank[j] = RowRank(rows, j) + 1
    BY <1>3
  <2> HIDE DEF rank
  <2> QED BY <2>1, <2>2, <2>3
<1> HIDE DEF rank
<1>5. rank \in Injection(D, D)
  BY <1>3, <1>4 DEF Injection, IsInjective
<1>6. rank \in Surjection(D, D)
  <2> HIDE DEF D
  <2> QED BY <1>2, <1>5, FS_Injection
<1>7. ASSUME NEW k \in D PROVE sel[k] \in D /\ RowRank(rows, sel[k]) = k - 1
  <2>1. PICK i \in D : rank[i] = k
    BY <1>6 DEF Surjection
  <2>2. RowRank(rows, i) \in Nat /\ rank[i] = RowRank(rows, i) + 1
    BY <1>1, <1>3
  <2>3. RowRank(rows, i) = k - 1
    BY <2>1, <2>2
  <2> QED BY <2>3
<1>8. SortedRows(rows) = [k \in D |-> rows[sel[k]]]
  BY DEF SortedRows
<1>9. sel \in [D -> D]
  <2>1. sel = [k \in D |-> sel[k]]
    OBVIOUS
  <2> HIDE DEF sel
  <2> QED BY <1>7, <2>1
<1> HIDE DEF sel
<1>10. ASSUME NEW j \in D, NEW k \in D, j < k
       PROVE  RowBefore(rows, sel[j], sel[k])
  <2>1. /\ sel[j] \in D /\ sel[k] \in D
        /\ RowRank(rows, sel[j]) = j - 1 /\ RowRank(rows, sel[k]) = k - 1
    BY <1>7
  <2>2. sel[j] # sel[k] /\ ~(RowRank(rows, sel[k]) < RowRank(rows, sel[j]))
    BY <1>10, <2>1
  <2>3. ~RowBefore(rows, sel[k], sel[j])
    BY <1>1, <2>1, <2>2
  <2> QED BY <1>1, <2>1, <2>2, <2>3
<1>11. sel \in Bijection(D, D)
  <2>1. ASSUME NEW j \in D, NEW k \in D, sel[j] = sel[k] PROVE j = k
    <3>1. j - 1 = k - 1
      BY <1>7, <2>1
    <3> QED BY <3>1
  <2>2. ASSUME NEW i \in D PROVE \E k \in D : sel[k] = i
    <3>1. rank[i] \in D /\ RowRank(rows, sel[rank[i]]) = rank[i] - 1 /\ sel[rank[i]] \in D
      BY <1>3, <1>7
    <3>2. RowRank(rows, sel[rank[i]]) = RowRank(rows, i)
      BY <1>1, <1>3, <3>1
    <3>3. rank[sel[rank[i]]] = rank[i]
      BY <1>3, <3>1, <3>2
    <3>4. sel[rank[i]] = i
      BY <1>4, <3>1, <3>3
    <3> QED BY <3>1, <3>4
  <2>3. sel \in Injection(D, D)
    BY <1>9, <2>1 DEF Injection, IsInjective
  <2>4. sel \in Surjection(D, D)
    BY <1>9, <2>2 DEF Surjection
  <2> QED BY <2>3, <2>4 DEF Bijection
<1> QED BY <1>8, <1>10, <1>11

LEMMA SortKeeps ==
  ASSUME NEW rows, NEW n \in Nat, DOMAIN rows = 1 .. n,
         \A i \in 1 .. n : rows[i].number \in Int
  PROVE  LET q == SortedRows(rows) IN
         /\ DOMAIN q = 1 .. n /\ q = [k \in 1 .. n |-> q[k]]
         /\ \A j, k \in 1 .. n : j < k => q[j].number <= q[k].number
         /\ \A f : Cardinality({k \in 1 .. n : q[k].fixture = f})
                     = Cardinality({i \in 1 .. n : rows[i].fixture = f})
<1> DEFINE D == 1 .. n
           q == SortedRows(rows)
<1>1. PICK sel \in Bijection(D, D) :
        /\ q = [k \in D |-> rows[sel[k]]]
        /\ \A j, k \in D : j < k => RowBefore(rows, sel[j], sel[k])
  BY SortPlaces
<1>2. /\ sel \in [D -> D]
      /\ \A j, k \in D : sel[j] = sel[k] => j = k
      /\ \A i \in D : \E k \in D : sel[k] = i
  BY DEF Bijection, Injection, IsInjective, Surjection
<1>3. DOMAIN q = D /\ q = [k \in D |-> q[k]] /\ \A k \in D : q[k] = rows[sel[k]]
  BY <1>1
<1> HIDE DEF q
<1>4. ASSUME NEW j \in D, NEW k \in D, j < k PROVE q[j].number <= q[k].number
  <2>1. sel[j] \in D /\ sel[k] \in D /\ RowBefore(rows, sel[j], sel[k])
    BY <1>1, <1>2, <1>4
  <2>2. rows[sel[j]].number \in Int /\ rows[sel[k]].number \in Int
    BY <2>1
  <2> QED BY <1>3, <2>1, <2>2 DEF RowBefore
<1>5. ASSUME NEW f
      PROVE  Cardinality({k \in D : q[k].fixture = f})
                = Cardinality({i \in D : rows[i].fixture = f})
  <2> DEFINE A == {k \in D : q[k].fixture = f}
             B == {i \in D : rows[i].fixture = f}
             g == [k \in A |-> sel[k]]
  <2>1. g \in [A -> B] /\ \A k \in A : g[k] = sel[k]
    BY <1>2, <1>3
  <2>2. \A j, k \in A : g[j] = g[k] => j = k
    BY <1>2, <2>1
  <2>3. ASSUME NEW i \in B PROVE \E k \in A : g[k] = i
    <3>1. PICK k \in D : sel[k] = i
      BY <1>2
    <3>2. k \in A
      BY <1>3, <3>1
    <3> QED BY <2>1, <3>1, <3>2
  <2>4. IsFiniteSet(A)
    <3>1. IsFiniteSet(D) /\ A \in SUBSET D
      BY FS_Interval
    <3> QED BY <3>1, FS_Subset
  <2> HIDE DEF A, B, g
  <2>5. g \in Bijection(A, B)
    BY <2>1, <2>2, <2>3 DEF Bijection, Injection, IsInjective, Surjection
  <2>6. ExistsBijection(A, B)
    BY <2>5 DEF ExistsBijection
  <2>7. Cardinality(B) = Cardinality(A)
    BY <2>4, <2>6, FS_Bijection
  <2> QED BY <2>7 DEF A, B
<1> QED BY <1>3, <1>4, <1>5 DEF q

-----------------------------------------------------------------------------
(***************************************************************************)
(* The fetch implements CorpusPublication.                                 *)
(***************************************************************************)
FixtureNames == UNION {line.archive.fixtures : line \in Lines}
RowType == [number : Int, fixture : FixtureNames]

ArtifactCounts == [k \in DOMAIN batches |-> batches[k].artifacts]
RowsWith(f) == {i \in DOMAIN blocks : blocks[i].fixture = f}
HoldersUpTo(n, f) == {k \in 1 .. n : f \in batches[k].archive.fixtures}

\* The rows of the first n batches: one for each of their fixture files.
GatheredRows(n) ==
  /\ \A k \in 1 .. n : batches[k].archive.fixtures # {}
  /\ blocks \in Seq(RowType)
  /\ Len(blocks) = Sums(ArtifactCounts)[n]
  /\ \A f : Cardinality(RowsWith(f)) = Cardinality(HoldersUpTo(n, f))

\* The batches resolved are valid lines of one unbroken range.
ValidBatches(q) ==
  /\ Len(q) = Count /\ ValidateSequence(q)
  /\ \A k \in DOMAIN q : ValidateBatch(q[k])

Resolution == pc \notin {"idle", "list"} => ValidBatches(batches)

Gathering ==
  /\ pc \in {"idle", "list", "root"} => blocks = <<>>
  /\ pc \in InLoop => GatheredRows(at - 1)
  /\ pc \in {"roots", "write"} => GatheredRows(Len(batches))

\* A manifest is torn, or was whole when it was written.
OfRelease(m) ==
  \E rel \in Releases : /\ IndexedPaths(rel) \subseteq DOMAIN rel.files
                        /\ m = ReleaseManifest(rel)

Manifests ==
  /\ pc = "write" => manifest = Torn /\ Cardinality(FixtureRoots) = Len(batches)
  /\ IsRolling(manifest) => Publication!Whole(manifest)
  /\ IsRelease(manifest) => OfRelease(manifest)

PublicationInv == FetchInv /\ Resolution /\ Gathering /\ Manifests

LEMMA LineFacts ==
  ASSUME NEW b \in Lines
  PROVE  /\ b.start \in Int /\ b.end \in Int /\ b.size \in Int /\ b.artifacts \in Int
         /\ b.archive.artifacts
              \in Seq({b.archive.artifacts[i] : i \in DOMAIN b.archive.artifacts})
         /\ IsFiniteSet(b.archive.fixtures) /\ IsFiniteSet(b.archive.roots)
         /\ b.archive.fixtures # {} => b.archive.roots # {}
  BY LinesAreTyped

\* Later batches have later blocks, so no two have one range.
LEMMA RangesIncrease ==
  ASSUME NEW q \in Seq(Lines), ValidBatches(q), NEW j \in 1 .. Len(q), NEW k \in 1 .. Len(q),
         j # k
  PROVE  BatchId(q[j]) # BatchId(q[k])
<1>1. /\ Len(q) \in Nat
      /\ \A i \in 1 .. Len(q) :
           q[i].start \in Int /\ q[i].end \in Int /\ q[i].start <= q[i].end
  <2>1. Len(q) \in Nat /\ DOMAIN q = 1 .. Len(q) /\ \A i \in 1 .. Len(q) : q[i] \in Lines
    OBVIOUS
  <2>2. ASSUME NEW i \in 1 .. Len(q)
        PROVE  q[i].start \in Int /\ q[i].end \in Int /\ q[i].start <= q[i].end
    <3>1. q[i].start \in Int /\ q[i].end \in Int
      BY <2>1, LineFacts
    <3> QED BY <2>1, <3>1 DEF ValidBatches, ValidateBatch
  <2> QED BY <2>1, <2>2
<1>2. \A i \in 1 .. Len(q) - 1 : q[i].end + 1 = q[i + 1].start
  BY DEF ValidBatches, ValidateSequence
<1>3. ASSUME NEW a \in 1 .. Len(q), NEW c \in 1 .. Len(q), a < c
      PROVE  q[a].start < q[c].start
  <2> DEFINE G == {m \in Nat : a + 1 + m <= c => q[a].start < q[a + 1 + m].start}
  <2>1. 0 \in G
    <3>1. a \in 1 .. Len(q) - 1 /\ a + 1 + 0 = a + 1 /\ a + 1 \in 1 .. Len(q)
      BY <1>1, <1>3
    <3>2. q[a].end + 1 = q[a + 1].start /\ q[a].start <= q[a].end
          /\ q[a].start \in Int /\ q[a].end \in Int
      BY <1>1, <1>2, <3>1
    <3>3. q[a].start < q[a + 1].start
      BY <3>2
    <3> QED BY <3>1, <3>3
  <2>2. ASSUME NEW m \in 0 .. (c - a - 1) - 1, m \in G PROVE m + 1 \in G
    <3> DEFINE i == a + 1 + m
    <3>1. m \in Nat /\ m + 1 \in Nat /\ i \in 1 .. Len(q) - 1 /\ i + 1 \in 1 .. Len(q)
          /\ i <= c /\ a + 1 + (m + 1) = i + 1 /\ i \in 1 .. Len(q)
      BY <1>1
    <3>2. q[a].start < q[i].start
      BY <2>2, <3>1
    <3> HIDE DEF i
    <3>3. /\ q[i].end + 1 = q[i + 1].start /\ q[i].start <= q[i].end
          /\ q[a].start \in Int /\ q[i].start \in Int /\ q[i].end \in Int
      BY <1>1, <1>2, <3>1
    <3>4. q[a].start < q[i + 1].start
      <4> DEFINE u == q[a].start
                 v == q[i].start
                 w == q[i].end
                 z == q[i + 1].start
      <4>1. u \in Int /\ v \in Int /\ w \in Int /\ u < v /\ v <= w /\ w + 1 = z
        BY <3>2, <3>3
      <4> HIDE DEF u, v, w, z
      <4>2. u < z
        BY <4>1
      <4> QED BY <4>2 DEF u, z
    <3> QED BY <3>1, <3>4
  <2>3. c - a - 1 \in Nat /\ a + 1 + (c - a - 1) = c /\ c <= c
    BY <1>1, <1>3
  <2>4. c - a - 1 \in G
    <3> DEFINE d == c - a - 1
    <3>1. d \in Nat /\ \A m \in 0 .. d - 1 : m \in G => m + 1 \in G
      BY <2>2, <2>3
    <3> HIDE DEF G, d
    <3>2. d \in G
      BY <2>1, <3>1, UpTo
    <3> QED BY <3>2 DEF d
  <2> QED BY <2>3, <2>4
<1>4. q[j].start # q[k].start
  <2>1. j < k \/ k < j
    BY <1>1
  <2>2. q[j].start < q[k].start \/ q[k].start < q[j].start
    BY <1>3, <2>1
  <2> QED BY <1>1, <2>2
<1> QED BY <1>4 DEF BatchId

\* What was extracted for the batch at hand is the archive the list named.
LEMMA ExtractedIs ==
  ASSUME disk = Fetched(at), batches \in Seq(Lines), ValidBatches(batches),
         at \in 1 .. Len(batches)
  PROVE  extracted = batch.archive
<1>1. Whole(batch) \in disk
  <2>1. at \in 1 .. at
    BY DEF batch
  <2> QED BY <2>1 DEF Fetched, batch
<1>2. \A b : /\ Whole(b).kind = "dir" /\ Whole(b).batch = BatchId(b)
             /\ Whole(b).archive = b.archive
  BY DEF Whole, Extracted
<1>3. ASSUME NEW e \in disk, e.batch = BatchId(batch) PROVE e.archive = batch.archive
  <2>1. PICK k \in 1 .. at : e = Whole(batches[k])
    BY DEF Fetched
  <2>2. k \in 1 .. Len(batches) /\ BatchId(batches[k]) = BatchId(batches[at])
    BY <1>2, <1>3, <2>1 DEF batch
  <2>3. k = at
    BY <2>2, RangesIncrease
  <2> QED BY <1>2, <2>1, <2>3 DEF batch
<1> DEFINE e == CHOOSE e \in disk : e.kind = "dir" /\ e.batch = BatchId(batch)
<1>4. e \in disk /\ e.batch = BatchId(batch)
  BY <1>1, <1>2
<1> HIDE DEF e
<1>5. e.archive = batch.archive
  BY <1>3, <1>4
<1> QED BY <1>5 DEF extracted, e

\* A verified batch brings a list of as many rows as the list said, one for
\* each of its fixture files and none for another.
LEMMA VerifiedRows ==
  ASSUME NEW b \in Lines, FixtureCountMatches(b, b.archive), ArtifactsMatch(b, b.archive)
  PROVE  LET rows == RowsFrom(b.archive) IN
         /\ rows \in Seq(RowType) /\ Len(rows) = b.artifacts
         /\ \A f : /\ f \in b.archive.fixtures =>
                        \E j \in 1 .. Len(rows) : {i \in 1 .. Len(rows) : rows[i].fixture = f} = {j}
                   /\ f \notin b.archive.fixtures =>
                        {i \in 1 .. Len(rows) : rows[i].fixture = f} = {}
<1> DEFINE a == b.archive.artifacts
           F == b.archive.fixtures
           n == Len(a)
           rows == RowsFrom(b.archive)
           path == [i \in 1 .. n |-> a[i].path]
<1>1. /\ n \in Nat /\ DOMAIN a = 1 .. n /\ IsFiniteSet(F)
  <2> DEFINE R == {a[i] : i \in DOMAIN a}
  <2>1. a \in Seq(R) /\ IsFiniteSet(F)
    BY LineFacts
  <2> HIDE DEF a, F, R
  <2> QED BY <2>1
<1>2. /\ n = b.artifacts /\ Cardinality(F) = n
      /\ F = {a[i].path : i \in 1 .. n}
      /\ \A i \in 1 .. n : a[i].number \in Int
  BY <1>1 DEF FixtureCountMatches, ArtifactsMatch
<1>3. \A f \in F : f \in FixtureNames
  BY DEF FixtureNames
<1>4. rows = [i \in 1 .. n |-> [number |-> a[i].number, fixture |-> a[i].path]]
  BY <1>1 DEF RowsFrom
<1> HIDE DEF a, F, n, rows
<1>5. \A i \in 1 .. n : rows[i] = [number |-> a[i].number, fixture |-> a[i].path]
                        /\ rows[i] \in RowType /\ rows[i].fixture = a[i].path
  BY <1>2, <1>3, <1>4 DEF RowType
<1>6. rows \in Seq(RowType) /\ Len(rows) = n
  <2>1. rows = [i \in 1 .. n |-> rows[i]]
    BY <1>4
  <2>2. rows \in [1 .. n -> RowType]
    BY <1>5, <2>1
  <2> QED BY <1>1, <2>2
<1>7. path \in Surjection(1 .. n, F)
  BY <1>2 DEF Surjection
<1>8. path \in Injection(1 .. n, F)
  <2>1. IsFiniteSet(1 .. n) /\ Cardinality(1 .. n) = n
    BY <1>1, FS_Interval
  <2> QED BY <1>2, <1>7, <2>1, FS_SurjSameCardinalityImpliesInj
<1>9. \A i, j \in 1 .. n : a[i].path = a[j].path => i = j
  BY <1>8 DEF Injection, IsInjective
<1>10. ASSUME NEW f \in F PROVE \E j \in 1 .. n : {i \in 1 .. n : rows[i].fixture = f} = {j}
  <2>1. PICK j \in 1 .. n : a[j].path = f
    BY <1>2
  <2>2. ASSUME NEW i \in 1 .. n PROVE rows[i].fixture = f <=> i = j
    <3>1. rows[i].fixture = a[i].path /\ rows[j].fixture = a[j].path
      BY <1>5
    <3> QED BY <1>9, <2>1, <3>1
  <2> QED BY <2>2
<1>11. ASSUME NEW f, f \notin F PROVE {i \in 1 .. n : rows[i].fixture = f} = {}
  BY <1>2, <1>5, <1>11
<1> QED BY <1>2, <1>6, <1>10, <1>11 DEF F, rows

LEMMA ImageFinite ==
  ASSUME NEW S, NEW f, IsFiniteSet(S), DOMAIN f = S
  PROVE  IsFiniteSet({f[x] : x \in S})
<1> DEFINE T == {f[x] : x \in S}
<1>1. [x \in S |-> f[x]] \in Surjection(S, T)
  BY DEF Surjection
<1> HIDE DEF T
<1>2. IsFiniteSet(T)
  BY <1>1, FS_Surjection
<1> QED BY <1>2 DEF T

\* The rows of two lists together.
LEMMA RowsOfBoth ==
  ASSUME NEW p \in Seq(RowType), NEW q \in Seq(RowType), NEW f
  PROVE  {i \in DOMAIN (p \o q) : (p \o q)[i].fixture = f}
           = {i \in DOMAIN p : p[i].fixture = f}
               \union {Len(p) + j : j \in {i \in 1 .. Len(q) : q[i].fixture = f}}
<1> DEFINE r == p \o q
           m == Len(p)
           n == Len(q)
<1>1. /\ m \in Nat /\ n \in Nat /\ DOMAIN p = 1 .. m /\ DOMAIN r = 1 .. m + n
      /\ \A i \in 1 .. m : r[i] = p[i]
      /\ \A j \in 1 .. n : r[m + j] = q[j]
  OBVIOUS
<1> HIDE DEF r, m, n
<1>2. ASSUME NEW i \in 1 .. m + n, r[i].fixture = f
      PROVE  \/ i \in 1 .. m /\ p[i].fixture = f
             \/ \E j \in 1 .. n : q[j].fixture = f /\ i = m + j
  <2>1. CASE i \in 1 .. m
    BY <1>1, <1>2, <2>1
  <2>2. CASE i \notin 1 .. m
    <3>1. i - m \in 1 .. n /\ i = m + (i - m)
      BY <1>1, <2>2
    <3> QED BY <1>1, <1>2, <3>1
  <2> QED BY <2>1, <2>2
<1>3. ASSUME NEW i \in 1 .. m, p[i].fixture = f PROVE i \in 1 .. m + n /\ r[i].fixture = f
  BY <1>1, <1>3
<1>4. ASSUME NEW j \in 1 .. n, q[j].fixture = f
      PROVE  m + j \in 1 .. m + n /\ r[m + j].fixture = f
  BY <1>1, <1>4
<1>5. {i \in 1 .. m + n : r[i].fixture = f}
        = {i \in 1 .. m : p[i].fixture = f}
            \union {m + j : j \in {i \in 1 .. n : q[i].fixture = f}}
  BY <1>2, <1>3, <1>4
<1> QED BY <1>1, <1>5 DEF r, m, n

\* Verifying the batch at hand adds one row for each of its fixture files.
LEMMA GatherStep ==
  ASSUME NEW n \in Nat, at = n, disk = Fetched(at), batches \in Seq(Lines),
         ValidBatches(batches), at \in 1 .. Len(batches), GatheredRows(n - 1), VerifyBatch
  PROVE  GatheredRows(n)'
<1> DEFINE b == batches[n]
           F == b.archive.fixtures
           rows == RowsFrom(b.archive)
           R(f) == {i \in 1 .. Len(rows) : rows[i].fixture = f}
<1>1. /\ b \in Lines /\ batches' = batches /\ blocks' = blocks \o rows
      /\ FixtureCountMatches(b, b.archive) /\ ArtifactsMatch(b, b.archive)
      /\ ValidateBatch(b)
  <2>1. extracted = b.archive /\ batch = b
    BY ExtractedIs DEF batch
  <2> QED BY <2>1 DEF VerifyBatch, ValidBatches
<1>2. /\ rows \in Seq(RowType) /\ Len(rows) = b.artifacts
      /\ \A f : /\ f \in F => \E j \in 1 .. Len(rows) : R(f) = {j}
                /\ f \notin F => R(f) = {}
  BY <1>1, VerifiedRows
<1> HIDE DEF b, F, rows
<1>3. F # {}
  <2>1. Cardinality(F) = b.artifacts /\ b.artifacts >= b.size /\ b.end - b.start + 1 = b.size
        /\ b.end >= b.start
    BY <1>1 DEF FixtureCountMatches, ValidateBatch, F
  <2>2. b.start \in Int /\ b.end \in Int /\ b.size \in Int /\ b.artifacts \in Int
    BY <1>1, LineFacts
  <2>3. b.artifacts >= 1
    <3> DEFINE u == b.start
               v == b.end
               w == b.size
               z == b.artifacts
    <3>1. u \in Int /\ v \in Int /\ w \in Int /\ z \in Int /\ z >= w /\ v - u + 1 = w /\ v >= u
      BY <2>1, <2>2
    <3> HIDE DEF u, v, w, z
    <3>2. z >= 1
      BY <3>1
    <3> QED BY <3>2 DEF z
  <2>4. Cardinality(F) # 0
    BY <2>1, <2>3
  <2> QED BY <2>4, FS_EmptySet
<1>4. /\ ArtifactCounts \in Seq(Int) /\ Len(ArtifactCounts) = Len(batches)
      /\ ArtifactCounts[n] = b.artifacts /\ ArtifactCounts' = ArtifactCounts
  <2>1. DOMAIN batches = 1 .. Len(batches) /\ Len(batches) \in Nat
        /\ \A k \in 1 .. Len(batches) : batches[k] \in Lines
    OBVIOUS
  <2>2. \A k \in 1 .. Len(batches) : batches[k].artifacts \in Int
    BY <2>1, LineFacts
  <2>3. ArtifactCounts = [k \in 1 .. Len(batches) |-> batches[k].artifacts]
    BY <2>1 DEF ArtifactCounts
  <2>4. ArtifactCounts' = ArtifactCounts
    BY <1>1 DEF ArtifactCounts
  <2>5. n \in 1 .. Len(batches) /\ batches[n] = b
    BY DEF b
  <2> QED BY <2>1, <2>2, <2>3, <2>4, <2>5
<1>5. Sums(ArtifactCounts)[n] = Sums(ArtifactCounts)[n - 1] + b.artifacts
  BY <1>4, SumsFacts
<1>6. /\ blocks \in Seq(RowType) /\ Len(blocks) = Sums(ArtifactCounts)[n - 1]
      /\ \A f : Cardinality(RowsWith(f)) = Cardinality(HoldersUpTo(n - 1, f))
      /\ \A k \in 1 .. n - 1 : batches[k].archive.fixtures # {}
  BY DEF GatheredRows
<1>7. blocks' \in Seq(RowType) /\ Len(blocks') = Len(blocks) + Len(rows)
  <2>1. blocks' = blocks \o rows /\ blocks \in Seq(RowType) /\ rows \in Seq(RowType)
    BY <1>1, <1>2, <1>6
  <2> HIDE DEF R
  <2> QED BY <2>1
<1>8. Len(blocks') = Sums(ArtifactCounts')[n]
  BY <1>2, <1>4, <1>5, <1>6, <1>7
<1>9. 1 .. n = (1 .. n - 1) \union {n} /\ n \notin 1 .. n - 1
  BY DEF batch
<1>10. \A k \in 1 .. n : batches'[k].archive.fixtures # {}
  <2>1. ASSUME NEW k \in 1 .. n PROVE batches'[k].archive.fixtures # {}
    <3>1. k \in 1 .. n - 1 \/ k = n
      BY <1>9
    <3> QED BY <1>1, <1>3, <1>6, <3>1 DEF F, b
  <2> QED BY <2>1
<1>11. ASSUME NEW f
       PROVE  Cardinality(RowsWith(f)') = Cardinality(HoldersUpTo(n, f)')
  <2> DEFINE A == RowsWith(f)
             H == HoldersUpTo(n - 1, f)
             m == Len(blocks)
  <2>1. RowsWith(f)' = A \union {m + j : j \in R(f)}
    <3>1. blocks' = blocks \o rows /\ blocks \in Seq(RowType) /\ rows \in Seq(RowType)
      BY <1>1, <1>2, <1>6
    <3>2. {i \in DOMAIN (blocks \o rows) : (blocks \o rows)[i].fixture = f}
            = {i \in DOMAIN blocks : blocks[i].fixture = f} \union {m + j : j \in R(f)}
      <4> DEFINE U == {i \in DOMAIN (blocks \o rows) : (blocks \o rows)[i].fixture = f}
                 V == {i \in DOMAIN blocks : blocks[i].fixture = f}
                        \union {Len(blocks) + j : j \in {i \in 1 .. Len(rows) : rows[i].fixture = f}}
      <4>1. U = V
        BY <3>1, RowsOfBoth
      <4> QED BY <4>1
    <3>3. RowsWith(f)' = {i \in DOMAIN (blocks \o rows) : (blocks \o rows)[i].fixture = f}
      BY <3>1 DEF RowsWith
    <3> QED BY <3>2, <3>3 DEF RowsWith
  <2>2. /\ A \subseteq 1 .. m /\ H \subseteq 1 .. n - 1 /\ m \in Nat
        /\ IsFiniteSet(A) /\ IsFiniteSet(H) /\ Cardinality(A) = Cardinality(H)
    <3>1. A \in SUBSET (1 .. m) /\ H \in SUBSET (1 .. n - 1) /\ m \in Nat
      BY <1>6 DEF RowsWith, HoldersUpTo
    <3> HIDE DEF A, H, m
    <3>2. IsFiniteSet(1 .. m) /\ IsFiniteSet(1 .. n - 1)
      <4>1. m \in Int /\ 1 \in Int /\ n - 1 \in Int
        BY <3>1
      <4> QED BY <4>1, FS_Interval
    <3>3. IsFiniteSet(A) /\ IsFiniteSet(H)
      BY <3>1, <3>2, FS_Subset
    <3>4. Cardinality(A) = Cardinality(H)
      BY <1>6 DEF A, H
    <3> QED BY <3>1, <3>3, <3>4
  <2>3. HoldersUpTo(n, f)' = H \union (IF f \in F THEN {n} ELSE {})
    <3>1. HoldersUpTo(n, f)' = {k \in 1 .. n : f \in batches[k].archive.fixtures}
      BY <1>1 DEF HoldersUpTo
    <3>2. H = {k \in 1 .. n - 1 : f \in batches[k].archive.fixtures}
      BY DEF HoldersUpTo
    <3> QED BY <1>9, <3>1, <3>2 DEF F, b
  <2> HIDE DEF A, H, m
  <2>4. CASE f \in F
    <3>1. PICK j \in 1 .. Len(rows) : R(f) = {j}
      BY <1>2, <2>4
    <3>2. RowsWith(f)' = A \union {m + j} /\ m + j \notin A
      <4>1. m + j \notin 1 .. m
        BY <2>2, <3>1
      <4> QED BY <2>1, <2>2, <3>1, <4>1
    <3>3. HoldersUpTo(n, f)' = H \union {n} /\ n \notin H
      BY <1>9, <2>2, <2>3, <2>4
    <3>4. Cardinality(A \union {m + j}) = Cardinality(A) + 1
      BY <2>2, <3>2, FS_AddElement
    <3>5. Cardinality(H \union {n}) = Cardinality(H) + 1
      BY <2>2, <3>3, FS_AddElement
    <3> QED BY <2>2, <3>2, <3>3, <3>4, <3>5
  <2>5. CASE f \notin F
    <3>1. R(f) = {}
      BY <1>2, <2>5
    <3>2. RowsWith(f)' = A /\ HoldersUpTo(n, f)' = H
      BY <2>1, <2>3, <2>5, <3>1
    <3> QED BY <2>2, <3>2
  <2> QED BY <2>4, <2>5
<1> QED BY <1>7, <1>8, <1>10, <1>11 DEF GatheredRows

\* The directories found below the output root come from the batches, and when
\* there are as many as batches, each batch brought one.
LEMMA RootsEach ==
  ASSUME disk = Fetched(Len(batches)), batches \in Seq(Lines), ValidBatches(batches),
         \A k \in 1 .. Len(batches) : batches[k].archive.fixtures # {},
         Cardinality(FixtureRoots) = Len(batches),
         NEW k \in 1 .. Len(batches)
  PROVE  Cardinality({r \in FixtureRoots : r[1] = BatchId(batches[k])}) = 1
<1> DEFINE n == Len(batches)
           N == 1 .. n
           Own(j) == {<<BatchId(batches[j]), r>> : r \in batches[j].archive.roots}
           g == [j \in N |-> CHOOSE r \in Own(j) : TRUE]
<1>1. n \in Nat /\ \A j \in N : batches[j] \in Lines
  OBVIOUS
<1>2. FixtureRoots = UNION {Own(j) : j \in N}
  <2>1. \A b : /\ Whole(b).kind = "dir" /\ Whole(b).whole = TRUE
               /\ Whole(b).batch = BatchId(b) /\ Whole(b).archive = b.archive
    BY DEF Whole, Extracted
  <2>2. {d \in disk : d.kind = "dir" /\ d.whole} = {Whole(batches[j]) : j \in N}
    BY <2>1 DEF Fetched
  <2>3. \A j \in N : {<<Whole(batches[j]).batch, r>> : r \in Whole(batches[j]).archive.roots} = Own(j)
    BY <2>1
  <2> HIDE DEF Own
  <2>4. FixtureRoots = UNION {{<<e.batch, r>> : r \in e.archive.roots} :
                                e \in {Whole(batches[j]) : j \in N}}
    BY <2>2 DEF FixtureRoots
  <2>5. {{<<e.batch, r>> : r \in e.archive.roots} : e \in {Whole(batches[j]) : j \in N}}
          = {Own(j) : j \in N}
    <3> DEFINE Of(e) == {<<e.batch, r>> : r \in e.archive.roots}
    <3>1. \A j \in N : Of(Whole(batches[j])) = Own(j)
      BY <2>3
    <3> HIDE DEF Of
    <3>2. {Of(e) : e \in {Whole(batches[j]) : j \in N}} = {Own(j) : j \in N}
      BY <3>1
    <3> QED BY <3>2 DEF Of
  <2> QED BY <2>4, <2>5
<1>3. ASSUME NEW j \in N PROVE Own(j) # {} /\ IsFiniteSet(Own(j))
                               /\ \A r \in Own(j) : r[1] = BatchId(batches[j])
  <2>1. batches[j].archive.roots # {} /\ IsFiniteSet(batches[j].archive.roots)
    BY <1>1, LineFacts
  <2> DEFINE R == batches[j].archive.roots
             p == [r \in R |-> <<BatchId(batches[j]), r>>]
  <2>2. IsFiniteSet(Own(j))
    <3>1. DOMAIN p = R /\ Own(j) = {p[r] : r \in R} /\ IsFiniteSet(R)
      BY <2>1
    <3> HIDE DEF p, R, Own
    <3> QED BY <3>1, ImageFinite
  <2>3. \E r \in R : r \in batches[j].archive.roots
    BY <2>1
  <2>4. Own(j) # {}
    BY <2>3
  <2>5. \A r \in Own(j) : r[1] = BatchId(batches[j])
    OBVIOUS
  <2> QED BY <2>2, <2>4, <2>5
<1>4. ASSUME NEW j \in N PROVE g[j] \in Own(j)
  BY <1>3
<1> HIDE DEF Own
<1>5. g \in [N -> FixtureRoots]
  <2>1. \A j \in N : g[j] \in FixtureRoots
    BY <1>2, <1>4
  <2>2. g = [j \in N |-> g[j]]
    OBVIOUS
  <2> HIDE DEF g
  <2> QED BY <2>1, <2>2
<1> HIDE DEF g
<1>6. ASSUME NEW i \in N, NEW j \in N, g[i] = g[j] PROVE i = j
  <2>1. BatchId(batches[i]) = BatchId(batches[j])
    BY <1>3, <1>4, <1>6
  <2> QED BY <2>1, RangesIncrease
<1>7. IsFiniteSet(FixtureRoots)
  <2>1. IsFiniteSet(N)
    BY <1>1, FS_Interval
  <2> DEFINE o == [j \in N |-> Own(j)]
  <2>4. DOMAIN o = N /\ {o[j] : j \in N} = {Own(j) : j \in N}
    OBVIOUS
  <2> HIDE DEF o, N
  <2>2. IsFiniteSet({Own(j) : j \in N})
    BY <2>1, <2>4, ImageFinite
  <2>3. \A S \in {Own(j) : j \in N} : IsFiniteSet(S)
    BY <1>3
  <2> QED BY <1>2, <2>2, <2>3, FS_UNION
<1>8. g \in Surjection(N, FixtureRoots)
  <2>1. g \in Injection(N, FixtureRoots)
    BY <1>5, <1>6 DEF Injection, IsInjective
  <2>2. IsFiniteSet(N) /\ Cardinality(N) = Cardinality(FixtureRoots)
    <3>1. n \in Nat /\ Cardinality(FixtureRoots) = n
      BY <1>1
    <3> HIDE DEF n
    <3>2. IsFiniteSet(1 .. n) /\ Cardinality(1 .. n) = n
      BY <3>1, FirstNumbers
    <3> QED BY <3>1, <3>2
  <2> HIDE DEF N
  <2> QED BY <1>7, <2>1, <2>2, FS_Injection
<1>9. ASSUME NEW r \in FixtureRoots, r[1] = BatchId(batches[k]) PROVE r = g[k]
  <2>1. PICK j \in N : r = g[j]
    BY <1>8 DEF Surjection
  <2>2. BatchId(batches[j]) = BatchId(batches[k])
    BY <1>3, <1>4, <1>9, <2>1
  <2>3. j = k
    BY <2>2, RangesIncrease
  <2> QED BY <2>1, <2>3
<1>10. g[k] \in FixtureRoots /\ g[k][1] = BatchId(batches[k])
  BY <1>3, <1>4, <1>5
<1>11. {r \in FixtureRoots : r[1] = BatchId(batches[k])} = {g[k]}
  BY <1>9, <1>10
<1> QED BY <1>11, FS_Singleton

-----------------------------------------------------------------------------
(***************************************************************************)
(* The manifest that is written is whole.                                  *)
(***************************************************************************)
LEMMA GatheredKept ==
  ASSUME NEW n, GatheredRows(n), UNCHANGED <<batches, blocks>>
  PROVE  GatheredRows(n)'
<1>1. /\ ArtifactCounts' = ArtifactCounts
      /\ \A f : RowsWith(f)' = RowsWith(f) /\ HoldersUpTo(n, f)' = HoldersUpTo(n, f)
  BY DEF ArtifactCounts, RowsWith, HoldersUpTo
<1> QED BY <1>1 DEF GatheredRows

\* The abstract specification counts as the fetch does.
LEMMA SameCount ==
  ASSUME NEW S PROVE Publication!Cardinality(S) = Cardinality(S)
  BY DEF Publication!Cardinality, Cardinality

LEMMA ResolvedIsWhole ==
  ASSUME PublicationInv, pc = "write" PROVE Publication!Whole(Resolved)
<1> DEFINE n == Len(batches)
           m == Len(blocks)
           q == SortedRows(blocks)
<1>1. /\ batches \in Seq(Lines) /\ ValidBatches(batches) /\ GatheredRows(n)
      /\ disk = Fetched(n) /\ Cardinality(FixtureRoots) = n
  BY DEF PublicationInv, Resolution, Gathering, Manifests, FetchInv, FetchTypeOK, FetchFiles
<1>2. /\ n \in Nat /\ DOMAIN batches = 1 .. n /\ \A k \in 1 .. n : batches[k] \in Lines
  BY <1>1
<1>3. /\ blocks \in Seq(RowType) /\ m = Sums(ArtifactCounts)[n]
      /\ \A f : Cardinality(RowsWith(f)) = Cardinality(HoldersUpTo(n, f))
      /\ \A k \in 1 .. n : batches[k].archive.fixtures # {}
  BY <1>1 DEF GatheredRows
<1>4. m \in Nat /\ DOMAIN blocks = 1 .. m /\ \A i \in 1 .. m : blocks[i].number \in Int
  <2>1. m \in Nat /\ DOMAIN blocks = 1 .. m /\ \A i \in 1 .. m : blocks[i] \in RowType
    BY <1>3
  <2> QED BY <2>1 DEF RowType
<1>5. /\ DOMAIN q = 1 .. m /\ q = [k \in 1 .. m |-> q[k]]
      /\ \A j, k \in 1 .. m : j < k => q[j].number <= q[k].number
      /\ \A f : Cardinality({k \in 1 .. m : q[k].fixture = f})
                  = Cardinality({i \in 1 .. m : blocks[i].fixture = f})
  <2> HIDE DEF m
  <2> QED BY <1>4, SortKeeps
<1>6. SumOfArtifacts(batches) = m
  <2>1. ArtifactCounts = [k \in 1 .. n |-> batches[k].artifacts]
        /\ \A k \in 1 .. n : batches[k].artifacts \in Int
    BY <1>2, LineFacts DEF ArtifactCounts
  <2>2. ArtifactCounts \in Seq(Int) /\ Len(ArtifactCounts) = n
    BY <1>2, <2>1
  <2>3. Total(ArtifactCounts) = Sums(ArtifactCounts)[n]
    BY <2>2, SumsFacts
  <2> QED BY <1>3, <2>3 DEF SumOfArtifacts, ArtifactCounts
<1>7. \A k \in 1 .. n : Cardinality({r \in FixtureRoots : r[1] = BatchId(batches[k])}) = 1
  BY <1>1, <1>3, RootsEach
<1>8. /\ Resolved.batches = batches /\ Resolved.blocks = q
      /\ Resolved.fixture_count = SumOfArtifacts(batches)
      /\ Resolved.fixture_roots = FixtureRoots
  BY DEF Resolved
<1> HIDE DEF q
<1>9. Len(q) = m
  BY <1>4, <1>5
<1>10. Len(Resolved.batches) = Count /\ Publication!Contiguous(Resolved)
  BY <1>1, <1>8 DEF ValidBatches, ValidateSequence, Publication!Contiguous
<1>11. \A f : Cardinality(Publication!RowsOf(Resolved, f))
                = Cardinality(Publication!HoldersOf(Resolved, f))
  <2>1. ASSUME NEW f
        PROVE  Cardinality(Publication!RowsOf(Resolved, f))
                 = Cardinality(Publication!HoldersOf(Resolved, f))
    <3>1. Publication!RowsOf(Resolved, f) = {k \in 1 .. m : q[k].fixture = f}
      BY <1>5, <1>8 DEF Publication!RowsOf
    <3>2. RowsWith(f) = {i \in 1 .. m : blocks[i].fixture = f}
      BY <1>4 DEF RowsWith
    <3>3. Publication!HoldersOf(Resolved, f) = HoldersUpTo(n, f)
      BY <1>2, <1>8 DEF Publication!HoldersOf, HoldersUpTo
    <3> HIDE DEF m, n
    <3> QED BY <1>3, <1>5, <3>1, <3>2, <3>3
  <2> QED BY <2>1
<1>12. \A k \in DOMAIN Resolved.batches :
         Cardinality({r \in Resolved.fixture_roots :
                        r[1] = <<Resolved.batches[k].start, Resolved.batches[k].end>>}) = 1
  BY <1>2, <1>7, <1>8 DEF BatchId
<1>13. \A i, j \in DOMAIN Resolved.blocks :
         i < j => Resolved.blocks[i].number <= Resolved.blocks[j].number
  BY <1>5, <1>8
<1>14. Resolved.fixture_count = Len(Resolved.blocks)
  BY <1>6, <1>8, <1>9
<1> DEFINE Names == UNION {Resolved.batches[k].archive.fixtures : k \in DOMAIN Resolved.batches}
<1>15. \A f \in Names : Cardinality(Publication!RowsOf(Resolved, f))
                           = Cardinality(Publication!HoldersOf(Resolved, f))
  BY <1>11
<1> HIDE DEF m, n
<1>16. \A S : Publication!Cardinality(S) = Cardinality(S)
  BY SameCount
<1> QED BY <1>10, <1>12, <1>13, <1>14, <1>15, <1>16 DEF Publication!Whole

-----------------------------------------------------------------------------
(***************************************************************************)
(* Every step keeps the invariant.                                         *)
(***************************************************************************)
Publishing == Resolution /\ Gathering /\ Manifests

LEMMA PublicationStarts == FetchInit => PublicationInv
<1> SUFFICES ASSUME FetchInit PROVE Publishing
  BY FetchInitEstablishes DEF PublicationInv, Publishing
<1>1. pc = "idle" /\ blocks = <<>> /\ manifest.mode = "absent"
  BY DEF FetchInit, Absent
<1> QED BY <1>1 DEF Publishing, Resolution, Gathering, Manifests, InLoop, IsRolling, IsRelease

\* Steps that leave the process where it is.
LEMMA StillPublishing ==
  ASSUME Publishing, UNCHANGED <<pc, batches, at, blocks, manifest>>,
         UNCHANGED disk \/ pc = "idle"
  PROVE  Publishing'
<1>1. Resolution'
  BY DEF Publishing, Resolution
<1>2. Gathering'
  <2>1. \A n : GatheredRows(n) => GatheredRows(n)'
    BY GatheredKept
  <2> QED BY <2>1 DEF Publishing, Gathering
<1>3. Manifests'
  <2>1. pc = "write" => FixtureRoots' = FixtureRoots
    BY DEF FixtureRoots
  <2> QED BY <2>1 DEF Publishing, Manifests
<1> QED BY <1>1, <1>2, <1>3 DEF Publishing

LEMMA ResolvePublishing ==
  ASSUME PublicationInv, ResolveCatalog PROVE Publishing'
<1> DEFINE V == {line \in Lines : ValidateBatch(line)}
<1>1. PICK order \in [DOMAIN catalog -> DOMAIN catalog] :
        batches' = LatestOf(InOrder(order, catalog), Count)
  BY DEF ResolveCatalog
<1>2. catalog \in Seq(V) /\ Count > 0
  <2>1. catalog \in Seq(Lines) /\ Count > 0
        /\ \A i \in DOMAIN catalog : ValidateBatch(catalog[i])
    BY DEF PublicationInv, FetchInv, FetchTypeOK, ResolveCatalog
  <2>2. \A i \in 1 .. Len(catalog) : catalog[i] \in V
    BY <2>1
  <2> HIDE DEF V
  <2> QED BY <2>1, <2>2
<1>3. batches' \in Seq(V)
  <2> HIDE DEF V
  <2> QED BY <1>1, <1>2, LatestTyped
<1>4. ValidBatches(batches')
  <2>1. \A k \in DOMAIN batches' : batches'[k] \in V
    <3> HIDE DEF V
    <3> QED BY <1>3
  <2> QED BY <2>1 DEF ResolveCatalog, ValidBatches
<1>5. pc' = "root" /\ pc = "list" /\ blocks' = blocks /\ manifest' = manifest
  BY DEF ResolveCatalog
<1>6. blocks = <<>> /\ Manifests
  BY <1>5 DEF PublicationInv, Gathering
<1> QED BY <1>4, <1>5, <1>6 DEF Publishing, Resolution, Gathering, Manifests, InLoop

\* The loop over the batches.
LEMMA LoopPublishing ==
  ASSUME PublicationInv, CheckRoot \/ DownloadBatch \/ ListMembers \/ Extract \/ VerifyBatch
  PROVE  Publishing'
<1>1. /\ batches \in Seq(Lines) /\ Len(batches) \in Nat
      /\ pc \in InLoop => at \in 1 .. Len(batches)
  BY DEF PublicationInv, FetchInv, FetchTypeOK, FetchLoop
<1>2. /\ batches' = batches /\ manifest' = manifest
      /\ pc \in {"root", "fetch", "members", "extract", "verify"}
      /\ pc' \in InLoop \union {"roots"}
  BY DEF CheckRoot, DownloadBatch, ListMembers, Extract, VerifyBatch, InLoop
<1>3. Resolution' /\ Manifests'
  BY <1>2 DEF PublicationInv, Resolution, Manifests, InLoop
<1>4. CASE CheckRoot
  <2>1. pc = "root" /\ pc' = "fetch" /\ at' = 1 /\ blocks' = <<>>
    BY <1>4 DEF CheckRoot, PublicationInv, FetchInv, FetchLoop, Gathering
  <2>2. ArtifactCounts' \in Seq(Int)
    <3>1. \A k \in 1 .. Len(batches) : batches[k].artifacts \in Int
      <4>1. \A k \in 1 .. Len(batches) : batches[k] \in Lines
        BY <1>1
      <4> QED BY <4>1, LineFacts
    <3>2. ArtifactCounts' = [k \in 1 .. Len(batches) |-> batches[k].artifacts]
      BY <1>1, <1>2 DEF ArtifactCounts
    <3> QED BY <1>1, <3>1, <3>2
  <2>3. Sums(ArtifactCounts')[0] = 0
    BY <2>2, SumsFacts
  <2>4. GatheredRows(0)'
    <3>1. 1 .. 0 = {} /\ DOMAIN blocks' = {}
      BY <2>1
    <3>2. \A f : RowsWith(f)' = {} /\ HoldersUpTo(0, f)' = {}
      BY <3>1 DEF RowsWith, HoldersUpTo
    <3>3. blocks' \in Seq(RowType) /\ Len(blocks') = 0
      BY <2>1
    <3> QED BY <2>3, <3>1, <3>2, <3>3 DEF GatheredRows
  <2>5. Gathering'
    BY <2>1, <2>4 DEF Gathering, InLoop
  <2> QED BY <1>3, <2>5 DEF Publishing
<1>5. CASE DownloadBatch \/ ListMembers \/ Extract
  <2>1. pc \in InLoop /\ pc' \in InLoop /\ at' = at /\ blocks' = blocks
    BY <1>5 DEF DownloadBatch, ListMembers, Extract, InLoop
  <2>2. GatheredRows(at - 1)
    BY <2>1 DEF PublicationInv, Gathering
  <2>3. \A n : GatheredRows(n) => GatheredRows(n)'
    BY <1>2, <2>1, GatheredKept
  <2>4. Gathering'
    BY <2>1, <2>2, <2>3 DEF Gathering, InLoop
  <2> QED BY <1>3, <2>4 DEF Publishing
<1>6. CASE VerifyBatch
  <2>1. /\ pc = "verify" /\ at' = at + 1 /\ at \in 1 .. Len(batches) /\ at \in Nat
        /\ pc' = IF at = Len(batches) THEN "roots" ELSE "fetch"
    BY <1>1, <1>6 DEF VerifyBatch, InLoop
  <2>2. /\ disk = Fetched(at) /\ ValidBatches(batches) /\ GatheredRows(at - 1)
    BY <2>1 DEF PublicationInv, FetchInv, FetchFiles, Resolution, Gathering, InLoop
  <2>3. \A n \in Nat : n = at => GatheredRows(n)'
    BY <1>1, <1>6, <2>1, <2>2, GatherStep
  <2>4. at' - 1 = at
    BY <2>1
  <2>5. Gathering'
    BY <1>2, <2>1, <2>3, <2>4 DEF Gathering, InLoop
  <2> QED BY <1>3, <2>5 DEF Publishing
<1> QED BY <1>4, <1>5, <1>6

LEMMA EndPublishing ==
  ASSUME PublicationInv, StartFetch \/ OpenManifest \/ WriteManifest \/ Abort \/ ResolveRelease
  PROVE  Publishing'
<1>1. CASE StartFetch
  BY <1>1 DEF StartFetch, PublicationInv, Publishing, Resolution, Gathering, Manifests, InLoop
<1>2. CASE OpenManifest
  <2>1. pc = "roots" /\ pc' = "write" /\ UNCHANGED <<batches, blocks, disk>>
        /\ Cardinality(FixtureRoots) = Len(batches) /\ manifest' = Torn
    BY <1>2 DEF OpenManifest
  <2>2. GatheredRows(Len(batches))'
    <3>1. GatheredRows(Len(batches))
      BY <2>1 DEF PublicationInv, Gathering
    <3>2. \A n : GatheredRows(n) => GatheredRows(n)'
      BY <2>1, GatheredKept
    <3> QED BY <2>1, <3>1, <3>2
  <2>3. FixtureRoots' = FixtureRoots
    BY <2>1 DEF FixtureRoots
  <2>4. manifest'.mode = "torn"
    BY <2>1 DEF Torn
  <2> QED BY <2>1, <2>2, <2>3, <2>4 DEF PublicationInv, Publishing, Resolution, Gathering,
         Manifests, InLoop, IsRolling, IsRelease
<1>3. CASE WriteManifest
  <2>1. pc = "write" /\ pc' = "idle" /\ blocks' = <<>> /\ manifest' = Resolved
    BY <1>3 DEF WriteManifest, ProcessEnds
  <2>2. Publication!Whole(manifest')
    BY <2>1, ResolvedIsWhole
  <2>3. manifest'.mode = "rolling"
    BY <2>1 DEF Resolved
  <2> QED BY <2>1, <2>2, <2>3 DEF Publishing, Resolution, Gathering, Manifests, InLoop, IsRelease
<1>4. CASE Abort
  <2>1. pc' = "idle" /\ blocks' = <<>> /\ manifest' = manifest /\ Manifests
    BY <1>4 DEF Abort, ProcessEnds, PublicationInv
  <2> QED BY <2>1 DEF Publishing, Resolution, Gathering, Manifests, InLoop
<1>5. CASE ResolveRelease
  <2>1. /\ pc = "idle" /\ UNCHANGED <<pc, batches, at, blocks, disk>>
        /\ UNCHANGED manifest \/ OfRelease(manifest')
    BY <1>5 DEF ResolveRelease, OfRelease
  <2>2. CASE UNCHANGED manifest
    BY <2>1, <2>2, StillPublishing DEF PublicationInv, Publishing
  <2>3. CASE OfRelease(manifest')
    <3>1. manifest'.mode = "tests-zkevm"
      BY <2>3 DEF OfRelease, ReleaseManifest
    <3> QED BY <2>1, <2>3, <3>1 DEF PublicationInv, Publishing, Resolution, Gathering, Manifests,
           InLoop, IsRolling
  <2> QED BY <2>1, <2>2, <2>3
<1> QED BY <1>1, <1>2, <1>3, <1>4, <1>5

LEMMA PublicationSteps == PublicationInv /\ [FetchNext]_fetchVars => PublicationInv'
<1> SUFFICES ASSUME PublicationInv, [FetchNext]_fetchVars PROVE Publishing'
  BY FetchStepPreserves DEF PublicationInv, Publishing
<1>1. Publishing
  BY DEF PublicationInv, Publishing
<1>2. CASE UNCHANGED fetchVars \/ Publisher \/ CleanRoot
  <2>1. UNCHANGED <<pc, batches, at, blocks, manifest>> /\ (UNCHANGED disk \/ pc = "idle")
    BY <1>2 DEF fetchVars, process, Publisher, CleanRoot
  <2> QED BY <1>1, <2>1, StillPublishing
<1>3. CASE Fetcher \/ ResolveRelease
  BY <1>3, ResolvePublishing, LoopPublishing, EndPublishing DEF Fetcher
<1> QED BY <1>2, <1>3 DEF FetchNext

LEMMA PublicationInvariance == FetchSpec => []PublicationInv
  BY PublicationStarts, PublicationSteps, PTL DEF FetchSpec

-----------------------------------------------------------------------------
Corpus == IF Published THEN manifest ELSE Absent

LEMMA CorpusSteps ==
  ASSUME PublicationInv, PublicationInv', [FetchNext]_fetchVars
  PROVE  [Publication!Next]_Corpus
<1>1. CASE ~Published'
  BY <1>1 DEF Publication!Next, Publication!Withdraw, Corpus
<1>2. CASE Published'
  <2>1. manifest'.mode = "rolling" /\ Corpus' = manifest' /\ Absent.mode = "absent"
    BY <1>2 DEF Published, IsRolling, Corpus, Absent
  <2>2. Publication!Whole(manifest') /\ manifest' # Absent
    BY <2>1 DEF PublicationInv, Manifests, IsRolling
  <2>3. CASE Corpus = Absent
    BY <2>1, <2>2, <2>3 DEF Publication!Next, Publication!Publish, Corpus
  <2>4. CASE Corpus # Absent
    <3>1. Corpus = manifest /\ manifest.mode = "rolling"
      BY <2>4 DEF Corpus, Published, IsRolling
    <3>2. ~WriteManifest
      BY <3>1 DEF WriteManifest, PublicationInv, Manifests, Torn
    <3>3. ~OpenManifest
      BY <2>1 DEF OpenManifest, Torn
    <3>4. manifest' = manifest
      <4>1. CASE ResolveRelease
        BY <2>1, <4>1 DEF ResolveRelease, ReleaseManifest
      <4>2. CASE UNCHANGED fetchVars \/ Publisher \/ CleanRoot
        BY <4>2 DEF fetchVars, Publisher, CleanRoot
      <4>3. CASE Fetcher
        BY <3>2, <3>3, <4>3 DEF Fetcher, StartFetch, ResolveCatalog, CheckRoot, DownloadBatch,
           ListMembers, Extract, VerifyBatch, Abort
      <4> QED BY <4>1, <4>2, <4>3 DEF FetchNext
    <3> QED BY <2>1, <3>1, <3>4
  <2> QED BY <2>3, <2>4
<1> QED BY <1>1, <1>2

(***************************************************************************)
(* The fetch implements CorpusPublication, for any publisher, any number   *)
(* of batches and any failures: what main publishes has one row for every  *)
(* fixture file, in the order of the blocks, one directory for each batch  *)
(* of an unbroken range, and is not touched until it is withdrawn.         *)
(***************************************************************************)
THEOREM PublishesWhole == FetchSpec => ImplementsCorpusPublication
<1>1. FetchInit => Publication!Init
  BY DEF FetchInit, Publication!Init, Published, IsRolling, Absent
<1>2. PublicationInv /\ PublicationInv' /\ [FetchNext]_fetchVars => [Publication!Next]_Corpus
  BY CorpusSteps
<1>3. FetchSpec => [][Publication!Next]_Corpus
  BY <1>2, PublicationInvariance, PTL DEF FetchSpec
<1>4. FetchSpec => Publication!Init
  BY <1>1, PTL DEF FetchSpec
<1> QED BY <1>3, <1>4 DEF ImplementsCorpusPublication, Publication!Spec, Corpus

-----------------------------------------------------------------------------
(***************************************************************************)
(* The description of a release.                                           *)
(***************************************************************************)
\* A list of the members of a finite set names each of them once.
LEMMA ListOfSet ==
  ASSUME NEW S, IsFiniteSet(S)
  PROVE  LET q == SetToSeq(S) n == Cardinality(S) IN
         /\ n \in Nat /\ q \in [1 .. n -> S] /\ q \in Seq(S) /\ Len(q) = n
         /\ \A i, j \in 1 .. n : i # j => q[i] # q[j]
         /\ S = {q[i] : i \in 1 .. n}
<1> DEFINE n == Cardinality(S)
           q == SetToSeq(S)
<1>1. n \in Nat
  BY FS_CardinalityType
<1>2. \E f : f \in Bijection(1 .. n, S)
  BY FS_CountingElements, FS_CardinalityType DEF ExistsBijection
<1>3. \E f \in [1 .. n -> S] : IsInjective(f)
  BY <1>2 DEF Bijection, Injection, IsInjective
<1>4. q \in [1 .. n -> S] /\ IsInjective(q)
  BY <1>3 DEF SetToSeq
<1> HIDE DEF n, q
<1>5. q \in Surjection(1 .. n, S)
  <2>1. IsFiniteSet(1 .. n) /\ Cardinality(1 .. n) = n
    BY <1>1, FS_Interval
  <2>2. q \in Injection(1 .. n, S)
    BY <1>4 DEF Injection
  <2>3. Cardinality(S) = n
    BY DEF n
  <2> QED BY <2>1, <2>2, <2>3, FS_Injection
<1>6. S = {q[i] : i \in 1 .. n}
  BY <1>4, <1>5 DEF Surjection
<1>7. \A i, j \in 1 .. n : i # j => q[i] # q[j]
  BY <1>4 DEF IsInjective
<1>8. q \in Seq(S) /\ Len(q) = n
  BY <1>1, <1>4
<1> QED BY <1>1, <1>4, <1>6, <1>7, <1>8 DEF n, q

\* The blocks of a file that carry stateless input, named by where they are.
Carrying(fixture) == {j \in DOMAIN fixture : fixture[j]}
InFile(rel, p) ==
  UNION {{<<p, i, j>> : j \in Carrying(rel.files[p][i])} : i \in DOMAIN rel.files[p]}

LEMMA CarryingFinite ==
  ASSUME NEW fixture \in Seq(BOOLEAN) PROVE IsFiniteSet(Carrying(fixture))
<1>1. Carrying(fixture) \in SUBSET (1 .. Len(fixture)) /\ Len(fixture) \in Nat
  BY DEF Carrying
<1>2. IsFiniteSet(1 .. Len(fixture))
  BY <1>1, FS_Interval
<1> QED BY <1>1, <1>2, FS_Subset

LEMMA BlocksInFile ==
  ASSUME NEW rel, NEW p, rel.files[p] \in Seq(Seq(BOOLEAN))
  PROVE  /\ IsFiniteSet(InFile(rel, p))
         /\ Cardinality(InFile(rel, p)) = BlocksIn(rel.files[p])
         /\ \A x \in InFile(rel, p) : x[1] = p
<1> DEFINE file == rel.files[p]
           n == Len(file)
           q == [i \in 1 .. n |-> Cardinality(Carrying(file[i]))]
           S == [i \in 1 .. n |-> {<<p, i, j>> : j \in Carrying(file[i])}]
<1>1. n \in Nat /\ DOMAIN file = 1 .. n /\ \A i \in 1 .. n : file[i] \in Seq(BOOLEAN)
  OBVIOUS
<1> HIDE DEF n, file
<1>2. ASSUME NEW i \in 1 .. n
      PROVE  IsFiniteSet(S[i]) /\ Cardinality(S[i]) = q[i] /\ q[i] \in Int
  <2> DEFINE C == Carrying(file[i])
             T == {<<p, i, j>> : j \in C}
             g == [j \in C |-> <<p, i, j>>]
  <2>1. IsFiniteSet(C)
    BY <1>1, CarryingFinite
  <2>2. g \in Bijection(C, T)
    BY DEF Bijection, Injection, IsInjective, Surjection
  <2> HIDE DEF C, T, g
  <2>3. ExistsBijection(C, T)
    BY <2>2 DEF ExistsBijection
  <2>4. IsFiniteSet(T) /\ Cardinality(T) = Cardinality(C) /\ Cardinality(C) \in Nat
    BY <2>1, <2>3, FS_Bijection, FS_CardinalityType
  <2> QED BY <2>4 DEF C, T
<1>3. q \in Seq(Int) /\ Len(q) = n
  <2>1. q \in [1 .. n -> Int]
    BY <1>2
  <2> HIDE DEF q
  <2> QED BY <1>1, <2>1
<1>4. \A j, k \in 1 .. n : j # k => S[j] \cap S[k] = {}
  OBVIOUS
<1>5. UNION {S[i] : i \in 1 .. n} = InFile(rel, p)
  <2>1. InFile(rel, p) = UNION {{<<p, i, j>> : j \in Carrying(file[i])} : i \in 1 .. n}
    BY <1>1 DEF InFile, file
  <2> QED BY <2>1
<1>6. BlocksIn(file) = Total(q)
  BY <1>1 DEF BlocksIn, Carrying
<1>7. \A x \in InFile(rel, p) : x[1] = p
  BY DEF InFile
<1> HIDE DEF q, S
<1>8. /\ IsFiniteSet(UNION {S[i] : i \in 1 .. n})
      /\ Cardinality(UNION {S[i] : i \in 1 .. n}) = Total(q)
  <2>1. /\ \A k \in 1 .. Len(q) : IsFiniteSet(S[k]) /\ Cardinality(S[k]) = q[k]
        /\ \A j, k \in 1 .. Len(q) : j # k => S[j] \cap S[k] = {}
    BY <1>2, <1>3, <1>4
  <2>2. /\ IsFiniteSet(UNION {S[k] : k \in 1 .. Len(q)})
        /\ Cardinality(UNION {S[k] : k \in 1 .. Len(q)}) = Total(q)
    BY <1>3, <2>1, DisjointUnion
  <2> QED BY <1>3, <2>2
<1> QED BY <1>5, <1>6, <1>7, <1>8 DEF file

\* The names in the index, and the entries that give them.
LEMMA IndexFacts ==
  ASSUME NEW rel \in Releases
  PROVE  /\ IsFiniteSet(IndexedPaths(rel))
         /\ IndexedTests(rel) >= Cardinality(IndexedPaths(rel))
<1> DEFINE C == {i \in DOMAIN rel.cases : rel.cases[i].format = "blockchain_test"}
           g == [i \in C |-> rel.cases[i].path]
           n == Len(rel.cases)
<1>1. IsFiniteSet(C)
  <2> DEFINE T == {rel.cases[i] : i \in DOMAIN rel.cases}
  <2>1. rel.cases \in Seq(T)
    BY ReleasesAreTyped
  <2> HIDE DEF T
  <2>2. n \in Nat /\ DOMAIN rel.cases = 1 .. n
    BY <2>1
  <2>3. C \in SUBSET (1 .. n)
    BY <2>2
  <2> HIDE DEF n, C
  <2>4. IsFiniteSet(1 .. n)
    BY <2>2, FS_Interval
  <2> QED BY <2>3, <2>4, FS_Subset
<1>2. g \in Surjection(C, IndexedPaths(rel))
  BY DEF Surjection, IndexedPaths
<1>3. IndexedTests(rel) = Cardinality(C)
  BY DEF IndexedTests
<1> HIDE DEF C, g
<1>4. IsFiniteSet(IndexedPaths(rel)) /\ Cardinality(IndexedPaths(rel)) <= Cardinality(C)
  BY <1>1, <1>2, FS_Surjection
<1>5. Cardinality(IndexedPaths(rel)) \in Nat /\ Cardinality(C) \in Nat
  BY <1>1, <1>4, FS_CardinalityType
<1> QED BY <1>3, <1>4, <1>5

LEMMA CountsAreExact ==
  ASSUME NEW rel \in Releases, IndexedPaths(rel) \subseteq DOMAIN rel.files
  PROVE  CountStatelessBlocks(rel) = Cardinality(UNION {InFile(rel, p) : p \in IndexedPaths(rel)})
<1> DEFINE P == IndexedPaths(rel)
           paths == SetToSeq(P)
           n == Cardinality(P)
           q == [i \in 1 .. n |-> BlocksIn(rel.files[paths[i]])]
           S == [i \in 1 .. n |-> InFile(rel, paths[i])]
<1>1. IsFiniteSet(P)
  BY IndexFacts
<1>2. /\ n \in Nat /\ paths \in [1 .. n -> P]
      /\ \A i, j \in 1 .. n : i # j => paths[i] # paths[j]
      /\ P = {paths[i] : i \in 1 .. n}
  <2> HIDE DEF P
  <2> QED BY <1>1, ListOfSet
<1>3. CountStatelessBlocks(rel) = Total(q)
  BY <1>2 DEF CountStatelessBlocks
<1>4. \A p \in P : rel.files[p] \in Seq(Seq(BOOLEAN))
  BY ReleasesAreTyped
<1> HIDE DEF P, paths, n
<1>5. ASSUME NEW i \in 1 .. n
      PROVE  /\ IsFiniteSet(S[i]) /\ Cardinality(S[i]) = q[i] /\ q[i] \in Int
             /\ \A x \in S[i] : x[1] = paths[i]
  <2>1. rel.files[paths[i]] \in Seq(Seq(BOOLEAN))
    BY <1>2, <1>4
  <2>2. /\ IsFiniteSet(InFile(rel, paths[i]))
        /\ Cardinality(InFile(rel, paths[i])) = BlocksIn(rel.files[paths[i]])
        /\ \A x \in InFile(rel, paths[i]) : x[1] = paths[i]
    BY <2>1, BlocksInFile
  <2>3. Cardinality(InFile(rel, paths[i])) \in Nat
    BY <2>2, FS_CardinalityType
  <2> QED BY <2>2, <2>3
<1>6. q \in Seq(Int) /\ Len(q) = n
  <2>1. q \in [1 .. n -> Int]
    BY <1>5
  <2> HIDE DEF q
  <2> QED BY <1>2, <2>1
<1>7. UNION {S[i] : i \in 1 .. n} = UNION {InFile(rel, p) : p \in P}
  <2>1. {S[i] : i \in 1 .. n} = {InFile(rel, p) : p \in P}
    BY <1>2
  <2> QED BY <2>1
<1> HIDE DEF q, S
<1>8. \A j, k \in 1 .. n : j # k => S[j] \cap S[k] = {}
  BY <1>2, <1>5
<1>9. Cardinality(UNION {S[i] : i \in 1 .. n}) = Total(q)
  <2>1. /\ \A k \in 1 .. Len(q) : IsFiniteSet(S[k]) /\ Cardinality(S[k]) = q[k]
        /\ \A j, k \in 1 .. Len(q) : j # k => S[j] \cap S[k] = {}
    BY <1>5, <1>6, <1>8
  <2>2. Cardinality(UNION {S[k] : k \in 1 .. Len(q)}) = Total(q)
    BY <1>6, <2>1, DisjointUnion
  <2> QED BY <1>6, <2>2
<1> QED BY <1>3, <1>7, <1>9 DEF P

(***************************************************************************)
(* The counts in the description of a release are exact, for any index and *)
(* any files: every block with stateless input of a file that an entry of  *)
(* the right format names is counted, and counted once.                    *)
(***************************************************************************)
THEOREM ReleasesCounted == FetchSpec => []ReleaseCountsAreExact
<1>1. ASSUME PublicationInv PROVE ReleaseCountsAreExact
  <2> SUFFICES ASSUME IsRelease(manifest) PROVE ReleaseCountsAreExact
    BY DEF ReleaseCountsAreExact
  <2>1. PICK rel \in Releases : /\ IndexedPaths(rel) \subseteq DOMAIN rel.files
                                /\ manifest = ReleaseManifest(rel)
    BY <1>1 DEF PublicationInv, Manifests, OfRelease
  <2>2. /\ manifest.release = rel
        /\ manifest.fixture_files = Cardinality(IndexedPaths(rel))
        /\ manifest.indexed_tests = IndexedTests(rel)
        /\ manifest.fixture_count = CountStatelessBlocks(rel)
    BY <2>1 DEF ReleaseManifest
  <2> DEFINE named == {rel.cases[i].path :
                         i \in {j \in DOMAIN rel.cases : rel.cases[j].format = "blockchain_test"}}
             found == UNION {InFile(rel, p) : p \in named}
  <2>3. named = IndexedPaths(rel)
    BY DEF IndexedPaths
  <2>4. manifest.fixture_count = Cardinality(found)
    BY <2>1, <2>2, <2>3, CountsAreExact
  <2>5. manifest.indexed_tests >= manifest.fixture_files
    BY <2>2, IndexFacts
  <2>6. manifest.fixture_files = Cardinality(named)
    BY <2>2, <2>3
  <2> QED BY <2>2, <2>4, <2>5, <2>6 DEF ReleaseCountsAreExact, InFile, Carrying
<1> QED BY <1>1, PublicationInvariance, PTL
=============================================================================
