-------------------------- MODULE FixtureConsumer --------------------------
(***************************************************************************)
(* The consume-direct adapters (eest/consume/evmz_consumer_common.py,      *)
(* evmz_consumer.py, evmz_zkevm_consumer.py).  A pytest session collects   *)
(* one test per indexed fixture and hands the tests to xdist workers; the  *)
(* adapter runs evmz on the whole fixture file, keeps the answer in the    *)
(* worker's cache, and reports to each test the one record that is its.    *)
(*                                                                         *)
(* A run of evmz ends with an exit status and prints something: a list of  *)
(* records, JSON that is no list, or no JSON at all.  A record that is not *)
(* well typed has typed = FALSE.  A worker can die at any time; xdist      *)
(* starts it again, with an empty cache, and the test it ran fails.        *)
(***************************************************************************)
EXTENDS Integers, Sequences, FiniteSets

Formats == {"state", "blockchain", "transaction"}

CONSTANTS
  Workers,
  Cases,       \* the index: test -> [file, name, format]
  Outcomes,    \* what a run of evmz may end with
  Invocations, \* how workers are asked for: "none", "-n", "--numprocesses"
  None,
  MaxDeaths    \* bound on workers that die

ASSUME DeathsAreNatural == MaxDeaths \in Nat
ASSUME NoneIsNoWorker == None \notin Workers

\* An indexed fixture has one of the known formats; evmz prints a finite list.
ASSUME IndexIsTyped == \A t \in DOMAIN Cases : Cases[t].format \in Formats
ASSUME RecordsAreFinite == \A o \in Outcomes : IsFiniteSet(DOMAIN o.records)

VARIABLES
  adapter,    \* "evmz" or "zkevm"
  invocation,
  formats,    \* the formats consume direct collects
  collected,  \* the tests of this session, {} until collection
  grouped,    \* tests marked with the group of their file
  owner,      \* test -> the worker it was given to
  cache,      \* worker -> key -> number of the cached run
  runs,       \* every run of evmz so far
  status,     \* test -> verdict
  judged,     \* test -> number of the run it was judged by
  deaths

vars == <<adapter, invocation, formats, collected, grouped, owner, cache, runs,
          status, judged, deaths>>

Tests == DOMAIN Cases

Subcommands == {"statetest", "blocktest", "transactiontest", "zkevmtest"}
Files == {Cases[t].file : t \in Tests}
Keys == Subcommands \X Files

Init ==
  /\ adapter \in {"evmz", "zkevm"}
  /\ invocation \in Invocations
  /\ formats = {"state", "blockchain"}
  /\ collected = {} /\ grouped = {}
  /\ owner = [t \in Tests |-> None]
  /\ cache = [w \in Workers |-> [k \in Keys |-> 0]]
  /\ runs = <<>>
  /\ status = [t \in Tests |-> "none"]
  /\ judged = [t \in Tests |-> 0]
  /\ deaths = 0

-----------------------------------------------------------------------------
(***************************************************************************)
(* Collection.                                                             *)
(***************************************************************************)
\* Only the evmz adapter consumes transaction fixtures, and consume direct
\* does not collect them by itself.
Configure ==
  /\ collected = {}
  /\ adapter = "evmz" /\ "transaction" \notin formats
  /\ formats' = formats \union {"transaction"}
  /\ UNCHANGED <<adapter, invocation, collected, grouped, owner, cache, runs, status,
                 judged, deaths>>

\* Mutant: nothing is grouped.
GroupNothing(items) == {}

\* Mutant: the whole index is grouped, not what was collected of it.
GroupIndex(items) == IF invocation = "-n" THEN Tests ELSE {}

\* Only an argument that begins with -n says there are workers.
GroupFixtureFiles(items) == IF invocation = "-n" THEN items ELSE {}

Collect ==
  /\ collected = {}
  /\ adapter = "evmz" => "transaction" \in formats
  /\ LET items == {t \in Tests : Cases[t].format \in formats} IN
       /\ collected' = items
       /\ grouped' = GroupFixtureFiles(items)
  /\ UNCHANGED <<adapter, invocation, formats, owner, cache, runs, status, judged, deaths>>

(***************************************************************************)
(* xdist's loadgroup distribution: what is left of a group goes to one     *)
(* worker as a whole, a test without a group by itself.  Without workers   *)
(* there is one process.                                                   *)
(***************************************************************************)
Scope(t) ==
  IF t \in grouped
  THEN {u \in grouped : Cases[u].file = Cases[t].file /\ status[u] = "none"}
  ELSE {t}

Distribute ==
  \E t \in collected, w \in Workers :
    /\ owner[t] = None /\ status[t] = "none"
    /\ invocation = "none" => \A u \in Tests : owner[u] \in {None, w}
    /\ owner' = [u \in Tests |-> IF u \in Scope(t) THEN w ELSE owner[u]]
    /\ UNCHANGED <<adapter, invocation, formats, collected, grouped, cache, runs, status,
                   judged, deaths>>

-----------------------------------------------------------------------------
(***************************************************************************)
(* consume_fixture.                                                        *)
(***************************************************************************)
Subcommand(t) ==
  IF adapter = "zkevm" THEN "zkevmtest"
  ELSE IF Cases[t].format = "state" THEN "statetest"
  ELSE IF Cases[t].format = "blockchain" THEN "blocktest"
  ELSE "transactiontest"

Supported(t) == adapter = "zkevm" => Cases[t].format = "blockchain"

\* Mutant: the cache is keyed by the file alone.
FileKey(t) == <<"statetest", Cases[t].file>>

Key(t) == <<Subcommand(t), Cases[t].file>>

\* A failed run is kept with no records; output that cannot be read is not
\* kept, and the next test of the file runs evmz again.
Kept(o) == o.exit # 0 \/ o.json = "list"

\* The places of the records that are about the test.
Selected(o, name) ==
  {i \in DOMAIN o.records : name = None \/ (o.records[i].dict /\ o.records[i].name = name)}

ExactlyOne(o, name) == name = None \/ Cardinality(Selected(o, name)) = 1

Invalid(r) == ~r.dict \/ ~r.typed \/ (r.pass /\ r.skip)

Verdict(o, name) ==
  LET selected == Selected(o, name) IN
  IF \/ ~Kept(o) \/ o.exit # 0
     \/ ~ExactlyOne(o, name)
     \/ \E i \in selected : Invalid(o.records[i])
     \/ \E i \in selected : ~o.records[i].skip /\ ~o.records[i].pass
  THEN "failed"
  ELSE IF selected # {} /\ \A i \in selected : o.records[i].skip THEN "skipped"
  ELSE "passed"

Runnable(t) == owner[t] # None /\ status[t] = "none"

\* The answer is in the cache.
ConsumeCached ==
  \E t \in collected :
    /\ Runnable(t) /\ Supported(t)
    /\ LET run == cache[owner[t]][Key(t)] IN
         /\ run # 0
         /\ status' = [status EXCEPT ![t] = Verdict(runs[run].outcome, Cases[t].name)]
         /\ judged' = [judged EXCEPT ![t] = run]
    /\ UNCHANGED <<adapter, invocation, formats, collected, grouped, owner, cache, runs, deaths>>

\* evmz runs over the whole file.
ConsumeFresh ==
  \E t \in collected, o \in Outcomes :
    /\ Runnable(t) /\ Supported(t)
    /\ cache[owner[t]][Key(t)] = 0
    /\ runs' = Append(runs, [key |-> <<Subcommand(t), Cases[t].file>>, outcome |-> o])
    /\ cache' = IF Kept(o) THEN [cache EXCEPT ![owner[t]][Key(t)] = Len(runs')] ELSE cache
    /\ status' = [status EXCEPT ![t] = Verdict(o, Cases[t].name)]
    /\ judged' = [judged EXCEPT ![t] = Len(runs')]
    /\ UNCHANGED <<adapter, invocation, formats, collected, grouped, owner, deaths>>

\* A format the adapter does not know raises before anything runs.
ConsumeUnsupported ==
  \E t \in collected :
    /\ Runnable(t) /\ ~Supported(t)
    /\ status' = [status EXCEPT ![t] = "failed"]
    /\ UNCHANGED <<adapter, invocation, formats, collected, grouped, owner, cache, runs,
                   judged, deaths>>

\* A worker dies while it runs a test; one with an empty cache takes its
\* place, and the rest of its tests are handed out again.
WorkerDies ==
  \E t \in collected :
    /\ Runnable(t) /\ invocation # "none" /\ deaths < MaxDeaths
    /\ deaths' = deaths + 1
    /\ status' = [status EXCEPT ![t] = "failed"]
    /\ cache' = [cache EXCEPT ![owner[t]] = [k \in Keys |-> 0]]
    /\ owner' = [u \in Tests |->
                   IF owner[u] = owner[t] /\ status[u] = "none" /\ u # t THEN None ELSE owner[u]]
    /\ UNCHANGED <<adapter, invocation, formats, collected, grouped, runs, judged>>

Next ==
  \/ Configure \/ Collect \/ Distribute
  \/ ConsumeCached \/ ConsumeFresh \/ ConsumeUnsupported \/ WorkerDies

Spec == Init /\ [][Next]_vars

-----------------------------------------------------------------------------
(***************************************************************************)
(* The session stays within its state space.                               *)
(***************************************************************************)
TypeOK ==
  /\ formats \subseteq Formats
  /\ grouped \subseteq collected /\ collected \subseteq Tests
  /\ owner \in [Tests -> Workers \union {None}]
  /\ cache \in [Workers -> [Keys -> 0 .. Len(runs)]]
  /\ status \in [Tests -> {"none", "passed", "failed", "skipped"}]
  /\ judged \in [Tests -> 0 .. Len(runs)]

RecordsOf(t, o) == {i \in DOMAIN o.records : o.records[i].dict /\ o.records[i].name = Cases[t].name}

(***************************************************************************)
(* A test that passes or is skipped was judged by a run of its own         *)
(* subcommand over its own file that ended well and said exactly one thing *)
(* about it, and that thing: whatever the cache held, whichever tests came *)
(* before it, and whatever happened to its worker.                         *)
(***************************************************************************)
VerdictIsEarned ==
  \A t \in Tests :
    status[t] \in {"passed", "skipped"} /\ Cases[t].name # None =>
      LET run == runs[judged[t]] IN
      /\ judged[t] # 0
      /\ run.key = <<Subcommand(t), Cases[t].file>>
      /\ run.outcome.exit = 0
      /\ \E i \in DOMAIN run.outcome.records :
           /\ RecordsOf(t, run.outcome) = {i}
           /\ run.outcome.records[i].typed
           /\ run.outcome.records[i].pass <=> status[t] = "passed"
           /\ run.outcome.records[i].skip <=> status[t] = "skipped"

Unreadable(i) == runs[i].outcome.exit = 0 /\ runs[i].outcome.json # "list"

(***************************************************************************)
(* evmz runs once over a fixture file, however many tests the index has    *)
(* for it and however many workers there are; only a worker's death or     *)
(* output nobody can read costs another run.                               *)
(***************************************************************************)
OneRunPerFile ==
  \A k \in Keys :
    LET over == {i \in DOMAIN runs : runs[i].key = k} IN
    Cardinality(over) <= 1 + deaths + Cardinality({i \in over : Unreadable(i)})
=============================================================================
