----------------------- MODULE BalDifferentialProofs -----------------------
(***************************************************************************)
(* The differential check of a block access list claim, for any number of  *)
(* transactions and slots, and any outcomes in any order.                  *)
(***************************************************************************)
EXTENDS BalDifferential, TLAPS

Outcomes == Verdicts \union {"none", "out_of_memory", "failed"}

InBatch == {"submitting", "joining", "cancelling", "aborting"}
Flushing == InBatch \union {"accepting"}
Reports == {"observing", "rejecting", "finishing"}

BatchType ==
  [slots : [1 .. MaxInFlight -> [expected : Int, outcome : Outcomes]],
   pending_count : 0 .. MaxInFlight, expected_progress : Int, enabled : BOOLEAN]
RunnerType ==
  [active : BOOLEAN, status : Statuses, tx_index : Int,
   parallel_fallback : {"none", "lane_out_of_memory", "lane_storage_unavailable",
                        "concurrency_unavailable"},
   parallel_batches : Nat, parallel_submitted_lanes : Nat,
   parallel_max_batch_size : 0 .. MaxInFlight]
AccType == [transaction_count : Nat, progress : 0 .. TxCount, folded : Seq(Int)]

Types ==
  /\ verdict \in [Txs -> Verdicts]
  /\ rejection \in {"none", "matches", "differs", "not_covered"}
  /\ next_tx \in 0 .. TxCount
  /\ pc \in Flushing \union Reports \union
            {"starting", "before_block", "finished", "comparing", "done"}
  /\ resume \in Reports
  /\ batch \in BatchType /\ runner \in RunnerType /\ acc \in AccType
  /\ submitted \in 0 .. batch.pending_count /\ accepted \in 0 .. batch.pending_count
  /\ running \in SUBSET (1 .. submitted)

\* What is folded is a prefix of the block, in order.
Prefix(n) == [i \in 1 .. n |-> i - 1]

Folding ==
  /\ acc.folded = Prefix(acc.progress)
  /\ IF runner.active THEN runner.status = "not_run" /\ acc.transaction_count = acc.progress
                      ELSE runner.status # "not_run"
  /\ runner.status \in Agreed => acc.progress = TxCount

\* The slots of transactions that are staged and not handed over.
Waiting == {i \in 1 .. MaxInFlight : accepted < i /\ i <= batch.pending_count}

Slots ==
  /\ \A i \in 1 .. MaxInFlight : i \notin Waiting => batch.slots[i] = EmptySlot
  /\ \A i \in Waiting :
       /\ batch.slots[i].expected = next_tx - batch.pending_count + i - 1
       /\ batch.slots[i].outcome \in LaneOutcomes(batch.slots[i].expected) \union {"none"}
       /\ pc \notin Flushing \/ i > submitted \/ i \in running =>
            batch.slots[i].outcome = "none"
       /\ pc \in {"submitting", "joining", "accepting"} /\ i <= submitted /\ i \notin running =>
            batch.slots[i].outcome # "none"

\* How far the fold, the batch and the accumulator are.
Positions ==
  /\ pc \notin Flushing => submitted = 0 /\ accepted = 0
  /\ pc = "observing" => batch.pending_count < MaxInFlight
  /\ pc = "accepting" => running = {} /\ submitted = batch.pending_count
  /\ pc \in InBatch => runner.active /\ accepted = 0
  /\ pc \in Flushing => batch.pending_count > 0
  /\ pc = "joining" => submitted = batch.pending_count
  /\ pc = "cancelling" => submitted < batch.pending_count
  /\ batch.pending_count > 0 => /\ pc \in Flushing \union {"observing"}
                                /\ batch.pending_count <= next_tx
                                /\ pc # "accepting" => runner.active
  /\ batch.pending_count > 0 /\ runner.active => batch.enabled
  /\ runner.active /\ pc \notin {"done"} =>
       /\ next_tx = acc.progress + batch.pending_count - accepted
       /\ batch.enabled /\ pc # "accepting" => batch.expected_progress = next_tx
  /\ pc = "starting" => runner.active
  /\ pc \in {"starting", "before_block"} => next_tx = 0 /\ acc.progress = 0
  /\ pc \in {"finished", "comparing"} => ~runner.active

\* What comes after the last transaction.
Ending ==
  /\ pc \in {"rejecting", "finishing"} => next_tx = TxCount
  /\ pc \in Flushing /\ resume # "observing" => next_tx = TxCount
  /\ pc = "rejecting" \/ (pc \in Flushing /\ resume = "rejecting") => rejection # "none"
  /\ pc = "finishing" \/ (pc \in Flushing /\ resume = "finishing") => rejection = "none"
  /\ runner.status \in Agreed => pc \in {"finished", "comparing", "done"}
  /\ candidate = None \/ candidate = Prefix(TxCount)
  /\ candidate # None => pc \in {"comparing", "done"}
  /\ pc = "comparing" /\ candidate # None => runner.status = "outcomes_matched"

\* The transactions whose batch was joined.
Handed == IF pc = "accepting" THEN next_tx ELSE acc.progress

Batches ==
  batch.enabled /\ (runner.active \/ runner.status \in Agreed) =>
    /\ runner.parallel_submitted_lanes = Handed
    /\ Handed <= runner.parallel_batches * MaxInFlight
    /\ runner.parallel_batches * MaxInFlight < Handed + MaxInFlight
    /\ pc \in InBatch \union {"starting", "before_block", "observing"}
         \/ (pc = "accepting" /\ resume = "observing") =>
         Handed = runner.parallel_batches * MaxInFlight
    /\ pc \in InBatch /\ resume = "observing" => batch.pending_count = MaxInFlight

Inv == Types /\ Folding /\ Slots /\ Positions /\ Ending /\ Batches

-----------------------------------------------------------------------------
(***************************************************************************)
(* Operators of the model.                                                 *)
(***************************************************************************)
LEMMA StopIs ==
  ASSUME NEW r \in RunnerType, NEW status \in Statuses, NEW tx \in Int
  PROVE  LET q == Stop(r, status, tx) IN
         /\ q \in RunnerType
         /\ ~q.active /\ q.status = status /\ q.tx_index = tx
         /\ q.parallel_batches = r.parallel_batches
         /\ q.parallel_submitted_lanes = r.parallel_submitted_lanes
BY DEF Stop, RunnerType

LEMMA StopParallelIs ==
  ASSUME NEW r \in RunnerType, NEW tx \in Int,
         NEW reason \in {"lane_out_of_memory", "concurrency_unavailable"}
  PROVE  LET q == StopParallel(r, reason, tx) IN
         /\ q \in RunnerType
         /\ ~q.active /\ q.status = "fallback_parallel_runtime" /\ q.tx_index = tx
<1> DEFINE p == Stop(r, "fallback_parallel_runtime", tx)
<1>1. p \in RunnerType /\ ~p.active /\ p.status = "fallback_parallel_runtime" /\ p.tx_index = tx
  <2>1. "fallback_parallel_runtime" \in Statuses
    BY DEF Statuses
  <2> QED BY <2>1, StopIs
<1> HIDE DEF p
<1>2. StopParallel(r, reason, tx) =
        [p EXCEPT !.parallel_fallback = IF @ = "none" THEN reason ELSE @]
  BY DEF StopParallel, p
<1> QED BY <1>1, <1>2 DEF RunnerType

LEMMA RecordBatchIs ==
  ASSUME NEW r \in RunnerType, NEW n \in 0 .. MaxInFlight
  PROVE  LET q == RecordBatch(r, n) IN
         /\ q \in RunnerType
         /\ q.active = r.active /\ q.status = r.status /\ q.tx_index = r.tx_index
         /\ q.parallel_batches = r.parallel_batches
         /\ q.parallel_submitted_lanes = r.parallel_submitted_lanes + n
<1> DEFINE m == IF n > r.parallel_max_batch_size THEN n ELSE r.parallel_max_batch_size
           l == r.parallel_submitted_lanes + n
<1>1. m \in 0 .. MaxInFlight /\ l \in Nat
  BY DEF RunnerType
<1>2. RecordBatch(r, n) =
        [r EXCEPT !.parallel_submitted_lanes = l, !.parallel_max_batch_size = m]
  BY DEF RecordBatch
<1>3. l = r.parallel_submitted_lanes + n
  OBVIOUS
<1> HIDE DEF m, l
<1> QED BY <1>1, <1>2, <1>3 DEF RunnerType

LEMMA EmptySlotTyped == EmptySlot \in [expected : Int, outcome : Outcomes]
BY DEF EmptySlot, Outcomes

LEMMA DiscardedIs ==
  ASSUME NEW b \in BatchType, NEW p \in Int,
         \A i \in 1 .. MaxInFlight : i > b.pending_count => b.slots[i] = EmptySlot
  PROVE  LET d == Discarded(b, p) IN
         /\ d \in BatchType
         /\ d.pending_count = 0 /\ d.expected_progress = p /\ d.enabled = b.enabled
         /\ \A i \in 1 .. MaxInFlight : d.slots[i] = EmptySlot
<1>1. [i \in 1 .. MaxInFlight |-> IF i <= b.pending_count THEN EmptySlot ELSE b.slots[i]]
        \in [1 .. MaxInFlight -> [expected : Int, outcome : Outcomes]]
  BY EmptySlotTyped DEF BatchType
<1> DEFINE e == [i \in 1 .. MaxInFlight |-> IF i <= b.pending_count THEN EmptySlot ELSE b.slots[i]]
<1>2. \A i \in 1 .. MaxInFlight : e[i] = EmptySlot
  BY DEF BatchType
<1>3. e \in [1 .. MaxInFlight -> [expected : Int, outcome : Outcomes]]
  BY <1>1
<1>4. Discarded(b, p) = [b EXCEPT !.slots = e, !.pending_count = 0, !.expected_progress = p]
  BY DEF Discarded
<1>5. 0 \in 0 .. MaxInFlight
  BY DifferentialConstants
<1> HIDE DEF e
<1> QED BY <1>2, <1>3, <1>4, <1>5 DEF BatchType

LEMMA DisabledIs ==
  ASSUME NEW b \in BatchType
  PROVE  LET d == Disabled(b) IN
         /\ d \in BatchType /\ ~d.enabled
         /\ d.slots = b.slots /\ d.pending_count = b.pending_count
         /\ d.expected_progress = b.expected_progress
BY DEF Disabled, BatchType

LEMMA StageIs ==
  ASSUME NEW b \in BatchType, NEW tx \in Nat, b.pending_count < MaxInFlight
  PROVE  LET d == Stage(b, tx)  n == b.pending_count + 1 IN
         /\ d \in BatchType /\ d.enabled = b.enabled
         /\ d.pending_count = n /\ d.expected_progress = tx + 1
         /\ n \in 1 .. MaxInFlight
         /\ d.slots[n].expected = tx /\ d.slots[n].outcome = b.slots[n].outcome
         /\ \A i \in 1 .. MaxInFlight \ {n} : d.slots[i] = b.slots[i]
<1>1. b.pending_count + 1 \in 1 .. MaxInFlight
  BY DifferentialConstants DEF BatchType
<1> DEFINE n == b.pending_count + 1
           slot == [b.slots[n] EXCEPT !.expected = tx]
           e == [b.slots EXCEPT ![n] = slot]
<1>2. /\ slot \in [expected : Int, outcome : Outcomes]
      /\ slot.expected = tx /\ slot.outcome = b.slots[n].outcome
  <2>1. b.slots[n] \in [expected : Int, outcome : Outcomes]
    BY <1>1 DEF BatchType
  <2>2. tx \in Int
    OBVIOUS
  <2> QED BY <2>1, <2>2
<1>3. /\ e \in [1 .. MaxInFlight -> [expected : Int, outcome : Outcomes]]
      /\ e[n] = slot /\ \A i \in 1 .. MaxInFlight \ {n} : e[i] = b.slots[i]
  <2> HIDE DEF slot
  <2> QED BY <1>1, <1>2 DEF BatchType
<1>4. Stage(b, tx) = [b EXCEPT !.slots = e, !.pending_count = n, !.expected_progress = tx + 1]
  BY DEF Stage, BatchType
<1> HIDE DEF e, slot
<1>5. tx + 1 \in Int /\ n \in 0 .. MaxInFlight
  BY <1>1
<1> HIDE DEF n
<1>6. /\ Stage(b, tx) \in BatchType /\ Stage(b, tx).enabled = b.enabled
      /\ Stage(b, tx).pending_count = n /\ Stage(b, tx).expected_progress = tx + 1
      /\ Stage(b, tx).slots = e
  BY <1>3, <1>4, <1>5 DEF BatchType
<1> QED BY <1>1, <1>2, <1>3, <1>6 DEF n

\* A lane's outcome is a verdict or a failure, and never "none".
LEMMA LaneOutcomesAre ==
  ASSUME Types, NEW tx \in Txs
  PROVE  /\ LaneOutcomes(tx) \subseteq Outcomes \ {"none"}
         /\ LaneOutcomes(tx) \subseteq {verdict[tx], "out_of_memory", "failed"}
         /\ verdict[tx] \in {"evidence", "outcome_mismatch", "claim_not_covered",
                             "artifact_mismatch", "after_hooks"}
BY DifferentialConstants DEF LaneOutcomes, Outcomes, Types

-----------------------------------------------------------------------------
(***************************************************************************)
(* Accepting the outcome of a live runner's next transaction: it agrees,   *)
(* it disagrees as its lane found, or the runner gives up.                 *)
(***************************************************************************)
StatusOf(v) ==
  IF v = "artifact_mismatch" THEN "candidate_artifact_mismatch"
  ELSE IF v = "after_hooks" THEN "unsupported_after_transaction_hooks"
  ELSE v

Here == [acc |-> acc, runner |-> runner, batch |-> batch]

Agrees(s, tx) ==
  /\ verdict[tx] = "evidence"
  /\ s.runner = runner
  /\ s.acc \in AccType /\ s.acc.transaction_count = tx + 1
  /\ s.acc.progress = tx + 1 /\ s.acc.folded = Prefix(tx + 1)

Disagrees(s, tx) ==
  /\ verdict[tx] # "evidence"
  /\ s.runner = Stop(runner, StatusOf(verdict[tx]), tx)
  /\ s.acc = acc

GivesUp(s, tx) ==
  /\ s.runner = Stop(runner, "diagnostic_failure", tx)
  /\ s.acc \in AccType /\ s.acc.progress = acc.progress /\ s.acc.folded = acc.folded

LEMMA PrefixGrows ==
  ASSUME NEW n \in Nat
  PROVE  /\ Prefix(n) \in Seq(Int) /\ Len(Prefix(n)) = n
         /\ Append(Prefix(n), n) = Prefix(n + 1) /\ Prefix(n + 1) \in Seq(Int)
<1>1. Prefix(n) \in Seq(Int) /\ Len(Prefix(n)) = n
  BY DEF Prefix
<1>2. Prefix(n + 1) \in Seq(Int) /\ Len(Prefix(n + 1)) = n + 1
  BY DEF Prefix
<1>3. Append(Prefix(n), n) \in Seq(Int) /\ Len(Append(Prefix(n), n)) = n + 1
  BY <1>1
<1>4. ASSUME NEW i \in 1 .. n + 1 PROVE Append(Prefix(n), n)[i] = Prefix(n + 1)[i]
  BY <1>1 DEF Prefix
<1> QED BY <1>1, <1>2, <1>3, <1>4

LEMMA OutcomeAccepted ==
  ASSUME Types, Folding, runner.active, NEW tx \in Txs, tx = acc.progress,
         NEW outcome \in LaneOutcomes(tx), NEW failing
  PROVE  LET s == AcceptOutcome(Here, tx, outcome, failing) IN
         /\ s.batch = batch
         /\ Agrees(s, tx) \/ Disagrees(s, tx) \/ GivesUp(s, tx)
<1>0. /\ acc \in AccType /\ tx \in Nat /\ acc.transaction_count = tx /\ acc.folded = Prefix(tx)
      /\ Here.acc = acc /\ Here.runner = runner /\ Here.batch = batch
  BY DifferentialConstants DEF Types, Folding, Txs, Here
<1>a. /\ outcome \in {verdict[tx], "out_of_memory", "failed"}
      /\ verdict[tx] \in {"evidence", "outcome_mismatch", "claim_not_covered",
                          "artifact_mismatch", "after_hooks"}
  BY LaneOutcomesAre
<1>1. CASE outcome \in {"outcome_mismatch", "claim_not_covered"}
  BY <1>0, <1>a, <1>1 DEF AcceptOutcome, Disagrees, StatusOf, Here
<1>2. CASE outcome \in {"out_of_memory", "failed"}
  BY <1>0, <1>2 DEF AcceptOutcome, GivesUp, Here
<1>3. CASE outcome \notin {"outcome_mismatch", "claim_not_covered", "out_of_memory", "failed"}
  <2>1. AcceptOutcome(Here, tx, outcome, failing) = Accept(Here, tx, failing)
    BY <1>0, <1>3 DEF AcceptOutcome
  <2>2. CASE verdict[tx] \in {"artifact_mismatch", "after_hooks"}
    BY <1>0, <2>1, <2>2 DEF Accept, Disagrees, StatusOf, Here
  <2>3. CASE verdict[tx] = "evidence" /\ tx = failing
    <3>1. Accept(Here, tx, failing) =
            [acc |-> [acc EXCEPT !.transaction_count = tx + 1],
             runner |-> Stop(runner, "diagnostic_failure", tx), batch |-> batch]
      BY <1>0, <2>3 DEF Accept, Here
    <3> QED BY <1>0, <2>1, <3>1 DEF GivesUp, AccType
  <2>4. CASE verdict[tx] = "evidence" /\ tx # failing
    <3> DEFINE f == Append(acc.folded, tx)
               a == [acc EXCEPT !.transaction_count = tx + 1, !.progress = tx + 1, !.folded = f]
    <3>1. Accept(Here, tx, failing) = [acc |-> a, runner |-> runner, batch |-> batch]
      BY <1>0, <2>4 DEF Accept, Here
    <3>2. f = Prefix(tx + 1) /\ f \in Seq(Int)
      BY <1>0, PrefixGrows
    <3>3. tx + 1 \in 0 .. TxCount /\ tx + 1 \in Nat
      BY <1>0, DifferentialConstants DEF Txs
    <3> HIDE DEF f
    <3>4. /\ a \in AccType /\ a.transaction_count = tx + 1 /\ a.progress = tx + 1
          /\ a.folded = f
      BY <1>0, <3>2, <3>3 DEF AccType
    <3> HIDE DEF a
    <3> QED BY <2>1, <2>4, <3>1, <3>2, <3>4 DEF Agrees
  <2> QED BY <1>a, <1>3, <2>2, <2>3, <2>4
<1> QED BY <1>1, <1>2, <1>3

\* A lane that disagrees, or that the runner gives up on, stops the runner.
LEMMA StoppedLane ==
  ASSUME Types, NEW tx \in Txs, NEW s, Disagrees(s, tx) \/ GivesUp(s, tx)
  PROVE  /\ s.runner \in RunnerType /\ ~s.runner.active
         /\ s.runner.status \notin Agreed \union {"not_run"}
         /\ s.acc \in AccType /\ s.acc.progress = acc.progress /\ s.acc.folded = acc.folded
<1>1. runner \in RunnerType /\ acc \in AccType /\ tx \in Int
  BY DifferentialConstants DEF Types, Txs
<1>2. CASE Disagrees(s, tx)
  <2>1. verdict[tx] \in {"outcome_mismatch", "claim_not_covered", "artifact_mismatch", "after_hooks"}
    BY <1>2, LaneOutcomesAre DEF Disagrees
  <2>2. StatusOf(verdict[tx]) \in Statuses
        /\ StatusOf(verdict[tx]) \notin Agreed \union {"not_run"}
    BY <2>1 DEF StatusOf, Statuses, Agreed
  <2>3. s.runner \in RunnerType /\ ~s.runner.active /\ s.runner.status = StatusOf(verdict[tx])
    BY <1>1, <1>2, <2>2, StopIs DEF Disagrees
  <2> QED BY <1>1, <1>2, <2>2, <2>3 DEF Disagrees
<1>3. CASE GivesUp(s, tx)
  <2>1. "diagnostic_failure" \in Statuses /\ "diagnostic_failure" \notin Agreed \union {"not_run"}
    BY DEF Statuses, Agreed
  <2>2. s.runner \in RunnerType /\ ~s.runner.active /\ s.runner.status = "diagnostic_failure"
    BY <1>1, <1>3, <2>1, StopIs DEF GivesUp
  <2> QED BY <1>3, <2>1, <2>2 DEF GivesUp
<1> QED BY <1>2, <1>3

-----------------------------------------------------------------------------
(***************************************************************************)
(* The inductive invariant: before the first transaction.                  *)
(***************************************************************************)
LEMMA InitEstablishes == Init => Inv
<1> SUFFICES ASSUME Init PROVE Inv
  OBVIOUS
<1> USE DifferentialConstants
<1>1. batch \in BatchType /\ \A i \in 1 .. MaxInFlight : batch.slots[i] = EmptySlot
  <2>1. EmptySlots \in [1 .. MaxInFlight -> [expected : Int, outcome : Outcomes]]
    BY EmptySlotTyped DEF EmptySlots
  <2>2. \A i \in 1 .. MaxInFlight : EmptySlots[i] = EmptySlot
    BY DEF EmptySlots
  <2> QED BY <2>1, <2>2 DEF Init, BatchType
<1>2. runner \in RunnerType
  BY DEF Init, RunnerType, Statuses
<1>3. acc \in AccType
  BY DEF Init, AccType
<1>4. Types
  BY <1>1, <1>2, <1>3 DEF Init, Types, Flushing, Reports
<1>5. Folding
  BY DEF Init, Folding, Prefix, Agreed
<1>6. Slots
  BY <1>1 DEF Init, Slots, Waiting
<1>7. Positions
  BY DEF Init, Positions, Flushing, InBatch
<1>8. Ending
  BY DEF Init, Ending, Flushing, InBatch, Agreed
<1>9. Batches
  BY DEF Init, Batches, Handed, InBatch
<1> QED BY <1>4, <1>5, <1>6, <1>7, <1>8, <1>9 DEF Inv

LEMMA ClaimDecodedPreserves == Inv /\ ClaimDecoded => Inv'
<1> SUFFICES ASSUME Inv, ClaimDecoded PROVE Inv'
  OBVIOUS
<1> USE DifferentialConstants
<1>0. /\ pc = "starting" /\ pc' = "before_block"
      /\ UNCHANGED <<block, next_tx, resume, running, submitted, accepted, acc, candidate>>
      /\ batch.pending_count = 0 /\ running = {}
      /\ submitted = 0 /\ accepted = 0
  <2>1. pc = "starting" /\ pc' = "before_block"
    BY DEF ClaimDecoded
  <2>2. batch.pending_count = 0 /\ submitted = 0 /\ accepted = 0
    BY <2>1 DEF Inv, Types, Positions, Flushing, InBatch, BatchType
  <2>3. running = {}
    BY <2>2 DEF Inv, Types
  <2> QED BY <2>1, <2>2, <2>3 DEF ClaimDecoded
<1>1. /\ batch' \in BatchType /\ batch'.slots = batch.slots
      /\ batch'.pending_count = 0 /\ batch'.expected_progress = batch.expected_progress
      /\ batch'.enabled => batch.enabled
  BY <1>0, DisabledIs DEF ClaimDecoded, Inv, Types
<1>2. /\ runner' \in RunnerType
      /\ \/ /\ runner'.active = runner.active /\ runner'.status = runner.status
            /\ runner'.parallel_batches = runner.parallel_batches
            /\ runner'.parallel_submitted_lanes = runner.parallel_submitted_lanes
         \/ /\ ~runner'.active
            /\ runner'.status \in {"claim_import_failed", "diagnostic_failure"}
  <2>1. runner \in RunnerType /\ -1 \in Int /\ {"claim_import_failed", "diagnostic_failure"} \subseteq Statuses
    BY DEF Inv, Types, Statuses
  <2>2. CASE runner' = runner
    BY <2>1, <2>2
  <2>3. CASE \E status \in {"claim_import_failed", "diagnostic_failure"} : runner' = Stop(runner, status, -1)
    <3>1. PICK status \in {"claim_import_failed", "diagnostic_failure"} :
            runner' = Stop(runner, status, -1)
      BY <2>3
    <3>2. status \in Statuses
      BY <2>1
    <3> HIDE DEF Statuses
    <3> QED BY <2>1, <3>1, <3>2, StopIs
  <2>4. CASE runner' = [runner EXCEPT !.parallel_fallback = "lane_storage_unavailable"]
    BY <2>1, <2>4 DEF RunnerType
  <2> QED BY <2>2, <2>3, <2>4 DEF ClaimDecoded
<1>3. Types'
  BY <1>0, <1>1, <1>2 DEF Inv, Types, block, Flushing, Reports
<1>4. Folding'
  BY <1>0, <1>2 DEF Inv, Folding, Agreed
<1>5. Slots'
  BY <1>0, <1>1 DEF Inv, Slots, Waiting
<1>6. Positions'
  BY <1>0, <1>1, <1>2 DEF Inv, Positions, Flushing, InBatch
<1>7. Ending'
  BY <1>0, <1>2 DEF Inv, Ending, Flushing, InBatch, Agreed
<1>8. Batches'
  BY <1>0, <1>1, <1>2 DEF Inv, Batches, Handed, InBatch, Agreed
<1> QED BY <1>3, <1>4, <1>5, <1>6, <1>7, <1>8 DEF Inv

LEMMA BeforeBlockPreserves == Inv /\ BeforeBlock => Inv'
<1> SUFFICES ASSUME Inv, BeforeBlock PROVE Inv'
  OBVIOUS
<1> USE DifferentialConstants
<1>0. /\ pc = "before_block" /\ pc' = "observing"
      /\ UNCHANGED <<block, next_tx, resume, batch, running, submitted, accepted, acc, candidate>>
  BY DEF BeforeBlock
<1>1. /\ runner' \in RunnerType
      /\ \/ runner' = runner
         \/ ~runner'.active /\ runner'.status = "diagnostic_failure"
  <2>1. runner \in RunnerType /\ 0 \in Int /\ "diagnostic_failure" \in Statuses
    BY DEF Inv, Types, Statuses
  <2> QED BY <2>1, StopIs DEF BeforeBlock
<1>2. Types'
  BY <1>0, <1>1 DEF Inv, Types, block, Flushing, Reports
<1>3. Folding'
  BY <1>0, <1>1 DEF Inv, Folding, Agreed
<1>4. Slots'
  BY <1>0 DEF Inv, Slots, Positions, Waiting, LaneOutcomes, block, Flushing, InBatch
<1>5. Positions'
  BY <1>0, <1>1 DEF Inv, Types, BatchType, Positions, Flushing, InBatch
<1>6. Ending'
  BY <1>0, <1>1 DEF Inv, Ending, Flushing, InBatch, Agreed
<1>7. Batches'
  BY <1>0, <1>1 DEF Inv, Batches, Handed, InBatch, Agreed
<1> QED BY <1>2, <1>3, <1>4, <1>5, <1>6, <1>7 DEF Inv

LEMMA IncludedAfterStopPreserves == Inv /\ IncludedAfterStop => Inv'
<1> SUFFICES ASSUME Inv, IncludedAfterStop PROVE Inv'
  OBVIOUS
<1> USE DifferentialConstants
<1>0. /\ pc = "observing" /\ next_tx < TxCount /\ next_tx' = next_tx + 1 /\ ~runner.active
      /\ UNCHANGED <<block, pc, resume, batch, running, submitted, accepted, runner, acc, candidate>>
  BY DEF IncludedAfterStop, Reporting
<1>1. batch.pending_count = 0
  BY <1>0 DEF Inv, Types, BatchType, Positions
<1>2. Types'
  BY <1>0 DEF Inv, Types, block
<1>3. Folding'
  BY <1>0 DEF Inv, Folding
<1>4. Slots'
  BY <1>0, <1>1 DEF Inv, Types, Slots, Waiting
<1>5. Positions'
  BY <1>0, <1>1 DEF Inv, Positions, Flushing, InBatch
<1>6. Ending'
  BY <1>0 DEF Inv, Ending, Flushing, InBatch
<1>7. Batches'
  BY <1>0 DEF Inv, Batches, Handed, InBatch
<1> QED BY <1>2, <1>3, <1>4, <1>5, <1>6, <1>7 DEF Inv

\* A runner that stops at the next transaction drops what is staged.
LEMMA DroppingPreserves ==
  ASSUME Inv, Reporting, runner.active,
         ~runner'.active, runner' \in RunnerType, runner'.status \notin Agreed \union {"not_run"},
         batch' \in BatchType, batch'.pending_count = 0,
         \A i \in 1 .. MaxInFlight : batch'.slots[i] = EmptySlot,
         UNCHANGED <<block, pc, resume, running, submitted, accepted, acc, candidate>>
  PROVE  Inv'
<1> USE DifferentialConstants
<1>0. pc = "observing" /\ next_tx' \in 0 .. TxCount /\ submitted = 0 /\ accepted = 0
  BY DEF Reporting, Inv, Types, Positions, Flushing, InBatch
<1>2. Types'
  BY <1>0 DEF Inv, Types, block
<1>3. Folding'
  BY DEF Inv, Folding
<1>4. Slots'
  BY <1>0 DEF Slots, Waiting
<1>5. Positions'
  BY <1>0 DEF Inv, Positions, Flushing, InBatch
<1>6. Ending'
  BY <1>0 DEF Inv, Ending, Flushing, InBatch
<1>7. Batches'
  BY DEF Batches
<1> QED BY <1>2, <1>3, <1>4, <1>5, <1>6, <1>7 DEF Inv

\* What Discarded leaves of the batch of a state.
LEMMA DiscardedHere ==
  ASSUME Inv, NEW p \in Int, accepted = 0
  PROVE  LET d == Discarded(batch, p) IN
         /\ d \in BatchType
         /\ d.pending_count = 0 /\ d.expected_progress = p /\ d.enabled = batch.enabled
         /\ \A i \in 1 .. MaxInFlight : d.slots[i] = EmptySlot
<1>1. batch \in BatchType
      /\ \A i \in 1 .. MaxInFlight : i > batch.pending_count => batch.slots[i] = EmptySlot
  BY DEF Inv, Types, BatchType, Slots, Waiting
<1> QED BY <1>1, DiscardedIs

LEMMA IncludedAtBadBoundaryPreserves == Inv /\ IncludedAtBadBoundary => Inv'
<1> SUFFICES ASSUME Inv, IncludedAtBadBoundary PROVE Inv'
  OBVIOUS
<1> USE DifferentialConstants
<1>0. Reporting /\ runner.active /\ pc = "observing" /\ next_tx \in Int /\ acc.progress \in Int
  BY DEF IncludedAtBadBoundary, Reporting, Inv, Types, AccType
<1>1. PICK status \in {"candidate_artifact_mismatch", "unsupported_before_transaction_hooks"} :
        runner' = Stop(runner, status, next_tx)
  BY DEF IncludedAtBadBoundary, BoundaryStatus
<1>2. ~runner'.active /\ runner' \in RunnerType /\ runner'.status \notin Agreed \union {"not_run"}
  <2>1. runner \in RunnerType /\ status \in Statuses
    BY DEF Inv, Types, Statuses
  <2>2. ~runner'.active /\ runner' \in RunnerType /\ runner'.status = status
    BY <1>0, <1>1, <2>1, StopIs
  <2> QED BY <2>2 DEF Agreed
<1>3. accepted = 0
  BY <1>0 DEF Inv, Positions, Flushing, InBatch
<1>4. /\ batch' \in BatchType /\ batch'.pending_count = 0
      /\ \A i \in 1 .. MaxInFlight : batch'.slots[i] = EmptySlot
  <2>1. CASE batch.enabled
    BY <1>0, <1>3, <2>1, DiscardedHere DEF IncludedAtBadBoundary
  <2>2. CASE ~batch.enabled
    <3>1. batch.pending_count = 0
      BY <1>0, <2>2 DEF Inv, Types, BatchType, Positions
    <3> QED BY <2>2, <3>1 DEF IncludedAtBadBoundary, Inv, Types, Slots, Waiting
  <2> QED BY <2>1, <2>2
<1> QED BY <1>0, <1>2, <1>4, DroppingPreserves DEF IncludedAtBadBoundary

LEMMA IncludedNotStagedPreserves == Inv /\ IncludedNotStaged => Inv'
<1> SUFFICES ASSUME Inv, IncludedNotStaged PROVE Inv'
  OBVIOUS
<1> USE DifferentialConstants
<1>0. Reporting /\ runner.active /\ pc = "observing" /\ next_tx \in Int /\ acc.progress \in Int
  BY DEF IncludedNotStaged, Reporting, Inv, Types, AccType
<1>1. ~runner'.active /\ runner' \in RunnerType /\ runner'.status \notin Agreed \union {"not_run"}
  <2>1. runner \in RunnerType
    BY DEF Inv, Types
  <2>2. ~runner'.active /\ runner' \in RunnerType /\ runner'.status = "fallback_parallel_runtime"
    <3>1. runner' = StopParallel(runner, "lane_out_of_memory", next_tx) /\ next_tx \in Int
      BY <1>0 DEF IncludedNotStaged
    <3> QED BY <2>1, <3>1, StopParallelIs
  <2> QED BY <2>2 DEF Agreed
<1>2. accepted = 0
  BY <1>0 DEF Inv, Positions, Flushing, InBatch
<1>3. /\ batch' \in BatchType /\ batch'.pending_count = 0
      /\ \A i \in 1 .. MaxInFlight : batch'.slots[i] = EmptySlot
  <2> DEFINE d == Discarded(batch, acc.progress)
  <2>1. /\ d \in BatchType /\ d.pending_count = 0
        /\ \A i \in 1 .. MaxInFlight : d.slots[i] = EmptySlot
    BY <1>0, <1>2, DiscardedHere
  <2>2. batch' = Disabled(d)
    BY DEF IncludedNotStaged
  <2> HIDE DEF d
  <2> QED BY <2>1, <2>2, DisabledIs
<1> QED BY <1>0, <1>1, <1>3, DroppingPreserves DEF IncludedNotStaged

LEMMA IncludedStagedPreserves == Inv /\ IncludedStaged => Inv'
<1> SUFFICES ASSUME Inv, IncludedStaged PROVE Inv'
  OBVIOUS
<1> USE DifferentialConstants
<1>0. /\ pc = "observing" /\ next_tx < TxCount /\ next_tx' = next_tx + 1
      /\ runner.active /\ batch.enabled /\ next_tx \in Nat
      /\ submitted = 0 /\ accepted = 0 /\ running = {}
      /\ UNCHANGED <<block, running, submitted, accepted, runner, acc, candidate>>
  <2>1. pc = "observing" /\ submitted = 0 /\ accepted = 0
    BY DEF IncludedStaged, Reporting, Inv, Positions, Flushing, InBatch
  <2>2. running = {}
    BY <2>1 DEF Inv, Types
  <2> QED BY <2>1, <2>2 DEF IncludedStaged, Reporting, Inv, Types
<1>1. batch \in BatchType /\ batch.pending_count < MaxInFlight
  BY <1>0 DEF Inv, Types, Positions
<1> DEFINE n == batch.pending_count + 1
<1>2. /\ batch' \in BatchType /\ batch'.enabled = batch.enabled
      /\ batch'.pending_count = n /\ batch'.expected_progress = next_tx + 1
      /\ n \in 1 .. MaxInFlight
      /\ batch'.slots[n].expected = next_tx /\ batch'.slots[n].outcome = batch.slots[n].outcome
      /\ \A i \in 1 .. MaxInFlight \ {n} : batch'.slots[i] = batch.slots[i]
  <2>1. batch' = Stage(batch, next_tx) /\ next_tx \in Nat
    BY <1>0 DEF IncludedStaged
  <2> QED BY <1>1, <2>1, StageIs
<1>3. next_tx = acc.progress + batch.pending_count /\ acc.progress \in Nat
  BY <1>0 DEF Inv, Positions, Types, BatchType, AccType
<1>4. IF n = MaxInFlight THEN pc' = "submitting" /\ resume' = "observing"
                         ELSE UNCHANGED <<pc, resume>>
  BY <1>0, <1>2 DEF IncludedStaged, IsFull, FlushThen
<1>5. Types'
  BY <1>0, <1>1, <1>2, <1>4 DEF Inv, Types, block, Flushing, InBatch, Reports, BatchType
<1>6. Folding'
  BY <1>0 DEF Inv, Folding
<1>7. Slots'
  <2>1. Waiting' = Waiting \union {n} /\ n \notin Waiting
    <3>1. accepted' = 0 /\ accepted = 0 /\ batch'.pending_count = n
          /\ batch.pending_count \in 0 .. MaxInFlight /\ n \in 1 .. MaxInFlight
      BY <1>0, <1>1, <1>2 DEF BatchType
    <3> QED BY <3>1 DEF Waiting
  <2>2. batch.slots[n] = EmptySlot
    BY <1>2, <2>1 DEF Inv, Slots
  <2>3. batch'.slots[n].outcome = "none"
    BY <1>2, <2>2 DEF EmptySlot
  <2>4. ASSUME NEW i \in 1 .. MaxInFlight, i \notin Waiting'
        PROVE  batch'.slots[i] = EmptySlot
    BY <1>2, <2>1, <2>4 DEF Inv, Slots
  <2>5. ASSUME NEW i \in Waiting
        PROVE  /\ batch'.slots[i].expected = next_tx' - batch'.pending_count + i - 1
               /\ batch'.slots[i].outcome = "none"
    <3>1. i \in 1 .. MaxInFlight \ {n} /\ i \in Int
      BY <2>1, <2>5 DEF Waiting
    <3>2. /\ batch.slots[i].expected = next_tx - batch.pending_count + i - 1
          /\ batch.slots[i].outcome = "none"
      BY <1>0, <2>5 DEF Inv, Slots, Flushing, InBatch
    <3>3. batch'.slots[i] = batch.slots[i]
      BY <1>2, <3>1
    <3>4. batch.pending_count \in Int /\ next_tx \in Int
      BY <1>0, <1>1 DEF BatchType
    <3>5. next_tx' - batch'.pending_count + i - 1 = next_tx - batch.pending_count + i - 1
      BY <1>0, <1>2, <3>1, <3>4
    <3> QED BY <3>2, <3>3, <3>5
  <2>6. batch'.slots[n].expected = next_tx' - batch'.pending_count + n - 1
    BY <1>0, <1>2
  <2>7. ASSUME NEW i \in Waiting'
        PROVE  /\ batch'.slots[i].expected = next_tx' - batch'.pending_count + i - 1
               /\ batch'.slots[i].outcome = "none"
    BY <2>1, <2>3, <2>5, <2>6, <2>7
  <2>8. submitted' = 0 /\ \A i \in Waiting' : i > submitted'
    BY <1>0 DEF Waiting
  <2> QED BY <2>4, <2>7, <2>8 DEF Slots, Waiting
<1>8. Positions'
  <2>1. batch.pending_count \in 0 .. MaxInFlight /\ n \in Nat \ {0} /\ n <= next_tx + 1
    <3>1. batch.pending_count \in 0 .. MaxInFlight
      BY <1>1 DEF BatchType
    <3>2. next_tx = acc.progress + batch.pending_count /\ acc.progress \in Nat
      BY <1>3
    <3> QED BY <3>1, <3>2
  <2>2. CASE n = MaxInFlight
    BY <1>0, <1>2, <1>3, <1>4, <2>1, <2>2 DEF Positions, Flushing, InBatch
  <2>3. CASE n # MaxInFlight
    BY <1>0, <1>2, <1>3, <1>4, <2>1, <2>3 DEF Positions, Flushing, InBatch
  <2> QED BY <2>2, <2>3
<1>9. Ending'
  BY <1>0, <1>4 DEF Inv, Ending, Flushing, InBatch
<1>10. Batches'
  BY <1>0, <1>2, <1>4 DEF Inv, Batches, Handed, InBatch
<1> QED BY <1>5, <1>6, <1>7, <1>8, <1>9, <1>10 DEF Inv


LEMMA IncludedSeriallyPreserves == Inv /\ IncludedSerially => Inv'
<1> SUFFICES ASSUME Inv, IncludedSerially PROVE Inv'
  OBVIOUS
<1> USE DifferentialConstants
<1>0. /\ pc = "observing" /\ next_tx < TxCount /\ next_tx' = next_tx + 1
      /\ runner.active /\ ~batch.enabled
      /\ UNCHANGED <<block, pc, resume, batch, running, submitted, accepted, candidate>>
  BY DEF IncludedSerially, Reporting
<1>1. batch.pending_count = 0 /\ submitted = 0 /\ accepted = 0
  BY <1>0 DEF Inv, Types, BatchType, Positions, Flushing, InBatch
<1>2. next_tx = acc.progress /\ next_tx \in Nat /\ next_tx \in Txs
  BY <1>0, <1>1 DEF Inv, Types, Positions, AccType, Txs
<1>3. PICK outcome \in LaneOutcomes(next_tx), failing \in FailingAcceptance :
        LET s == AcceptOutcome(Here, next_tx, outcome, failing)
        IN  runner' = s.runner /\ acc' = s.acc
  BY DEF IncludedSerially, Here
<1> DEFINE s == AcceptOutcome(Here, next_tx, outcome, failing)
<1>4. Agrees(s, next_tx) \/ Disagrees(s, next_tx) \/ GivesUp(s, next_tx)
  <2>1. Types /\ Folding
    BY DEF Inv
  <2> QED BY <1>0, <1>2, <2>1, OutcomeAccepted
<1>5. runner' = s.runner /\ acc' = s.acc
  BY <1>3
<1> HIDE DEF s
<1>6. CASE Agrees(s, next_tx)
  <2>1. /\ runner' = runner /\ acc' \in AccType /\ acc'.transaction_count = next_tx + 1
        /\ acc'.progress = next_tx + 1 /\ acc'.folded = Prefix(next_tx + 1)
    BY <1>5, <1>6 DEF Agrees
  <2>2. Types'
    BY <1>0, <2>1 DEF Inv, Types, block
  <2>3. Folding'
    BY <1>0, <2>1 DEF Inv, Folding, Agreed
  <2>4. Slots'
    BY <1>0, <1>1 DEF Inv, Types, Slots, Waiting
  <2>5. Positions'
    BY <1>0, <1>1, <1>2, <2>1 DEF Positions, Flushing, InBatch
  <2>6. Ending'
    BY <1>0, <2>1 DEF Inv, Ending, Flushing, InBatch
  <2>7. Batches'
    BY <1>0 DEF Batches
  <2> QED BY <2>2, <2>3, <2>4, <2>5, <2>6, <2>7 DEF Inv
<1>7. CASE Disagrees(s, next_tx) \/ GivesUp(s, next_tx)
  <2>1. /\ runner' \in RunnerType /\ ~runner'.active /\ runner'.status \notin Agreed \union {"not_run"}
        /\ acc' \in AccType /\ acc'.progress = acc.progress /\ acc'.folded = acc.folded
    BY <1>2, <1>5, <1>7, StoppedLane DEF Inv
  <2>2. Types'
    BY <1>0, <2>1 DEF Inv, Types, block
  <2>3. Folding'
    BY <2>1 DEF Inv, Folding
  <2>4. Slots'
    BY <1>0, <1>1 DEF Inv, Types, Slots, Waiting
  <2>5. Positions'
    BY <1>0, <1>1, <2>1 DEF Positions, Flushing, InBatch
  <2>6. Ending'
    BY <1>0, <2>1 DEF Inv, Ending, Flushing, InBatch
  <2>7. Batches'
    BY <1>0 DEF Batches
  <2> QED BY <2>2, <2>3, <2>4, <2>5, <2>6, <2>7 DEF Inv
<1> QED BY <1>4, <1>6, <1>7

LEMMA EndOfBlockPreserves == Inv /\ EndOfBlock => Inv'
<1> SUFFICES ASSUME Inv, EndOfBlock PROVE Inv'
  OBVIOUS
<1> USE DifferentialConstants
<1> DEFINE k == IF rejection = "none" THEN "finishing" ELSE "rejecting"
<1>0. /\ pc = "observing" /\ next_tx = TxCount
      /\ UNCHANGED <<block, next_tx, batch, running, submitted, accepted, runner, acc, candidate>>
  BY DEF EndOfBlock
<1>1. batch.pending_count \in 0 .. MaxInFlight /\ submitted = 0 /\ accepted = 0
      /\ (batch.pending_count > 0 => batch.enabled /\ runner.active)
  BY <1>0 DEF Inv, Types, BatchType, Positions, Flushing, InBatch
<1>2. \/ batch.pending_count > 0 /\ pc' = "submitting" /\ resume' = k
      \/ batch.pending_count = 0 /\ pc' = k /\ resume' = resume
  BY <1>1 DEF EndOfBlock, FlushThen
<1>3. Types'
  BY <1>0, <1>2 DEF Inv, Types, block, Flushing, InBatch, Reports
<1>4. Folding'
  BY <1>0 DEF Inv, Folding
<1>5. Slots'
  <2>1. \A i \in Waiting : i > submitted /\ batch.slots[i].outcome = "none"
    BY <1>0, <1>1 DEF Inv, Slots, Waiting, Flushing, InBatch
  <2>2. Waiting' = Waiting /\ batch' = batch /\ submitted' = submitted /\ next_tx' = next_tx
    BY <1>0 DEF Waiting
  <2>3. \A i \in Waiting : i \in Int /\ ~(i <= submitted)
    BY <1>1, <2>1 DEF Waiting
  <2> QED BY <2>1, <2>2, <2>3 DEF Inv, Slots
<1>6. Positions'
  BY <1>0, <1>1, <1>2 DEF Inv, Positions, Flushing, InBatch
<1>7. Ending'
  BY <1>0, <1>2 DEF Inv, Ending, Flushing, InBatch, block
<1>8. Batches'
  BY <1>0, <1>2 DEF Inv, Batches, Handed, InBatch
<1> QED BY <1>3, <1>4, <1>5, <1>6, <1>7, <1>8 DEF Inv

-----------------------------------------------------------------------------
(***************************************************************************)
(* After the last transaction.                                             *)
(***************************************************************************)
\* Steps after the block leave the batch alone and stop the runner.
LEMMA TailPreserves ==
  ASSUME Inv, pc \in {"rejecting", "finishing", "finished", "comparing"},
         pc' \in {"finished", "comparing", "done"},
         runner' \in RunnerType, ~runner'.active, runner'.status # "not_run",
         runner'.status \in Agreed => acc.progress = TxCount,
         batch'.enabled /\ runner'.status \in Agreed =>
           /\ runner.active \/ runner.status \in Agreed
           /\ runner'.parallel_batches = runner.parallel_batches
           /\ runner'.parallel_submitted_lanes = runner.parallel_submitted_lanes,
         UNCHANGED <<block, next_tx, resume, batch, running, submitted, accepted, acc>>
  PROVE  Types' /\ Folding' /\ Slots' /\ Positions' /\ Batches'
<1> USE DifferentialConstants
<1>0. batch.pending_count = 0 /\ submitted = 0 /\ accepted = 0
  BY DEF Inv, Types, BatchType, Positions, Flushing, InBatch
<1>1. Types'
  BY <1>0 DEF Inv, Types, block
<1>2. Folding'
  BY DEF Inv, Folding
<1>3. Slots'
  <2>1. \A i \in 1 .. MaxInFlight : batch.slots[i] = EmptySlot
    BY <1>0 DEF Inv, Slots, Waiting
  <2> QED BY <1>0, <2>1 DEF Slots, Waiting
<1>4. Positions'
  BY <1>0 DEF Positions, Flushing, InBatch
<1>5. Batches'
  BY DEF Inv, Batches, Handed, InBatch
<1> QED BY <1>1, <1>2, <1>3, <1>4, <1>5

LEMMA VerifyRejectedPreserves == Inv /\ VerifyRejected => Inv'
<1> SUFFICES ASSUME Inv, VerifyRejected PROVE Inv'
  OBVIOUS
<1> USE DifferentialConstants
<1>0. /\ pc = "rejecting" /\ pc' = "done"
      /\ UNCHANGED <<block, next_tx, resume, batch, running, submitted, accepted, acc, candidate>>
  BY DEF VerifyRejected
<1>1. /\ runner' \in RunnerType /\ ~runner'.active /\ runner'.status # "not_run"
      /\ runner'.status \in Agreed => runner' = runner
  <2>1. CASE runner.active
    <3>1. PICK status \in {"candidate_rejection_mismatch", "rejection_matched", "claim_not_covered",
                           "unsupported_before_transaction_hooks", "diagnostic_failure"} :
            runner' = Stop(runner, status, TxCount)
      BY <2>1 DEF VerifyRejected, RejectionStatuses, JudgedRejection
    <3>2. runner \in RunnerType /\ status \in Statuses /\ TxCount \in Int
          /\ status \notin Agreed \union {"not_run"}
      BY DEF Inv, Types, Statuses, Agreed
    <3>3. runner' \in RunnerType /\ ~runner'.active /\ runner'.status = status
      BY <3>1, <3>2, StopIs
    <3> QED BY <3>2, <3>3
  <2>2. CASE ~runner.active
    BY <2>2 DEF VerifyRejected, Inv, Types, Folding
  <2> QED BY <2>1, <2>2
<1>2. runner'.status \in Agreed => acc.progress = TxCount
  BY <1>1 DEF Inv, Folding
<1>3. Types' /\ Folding' /\ Slots' /\ Positions' /\ Batches'
  BY <1>0, <1>1, <1>2, TailPreserves
<1>4. Ending'
  BY <1>0 DEF Inv, Ending, Flushing, InBatch
<1> QED BY <1>3, <1>4 DEF Inv

LEMMA FinishPreserves == Inv /\ Finish => Inv'
<1> SUFFICES ASSUME Inv, Finish PROVE Inv'
  OBVIOUS
<1> USE DifferentialConstants
<1>0. /\ pc = "finishing" /\ pc' = "finished"
      /\ UNCHANGED <<block, next_tx, resume, batch, running, submitted, accepted, acc, candidate>>
  BY DEF Finish
<1>1. /\ runner' \in RunnerType /\ ~runner'.active
      /\ runner'.status = IF runner.active THEN "outcomes_matched" ELSE runner.status
      /\ runner'.parallel_batches = runner.parallel_batches
      /\ runner'.parallel_submitted_lanes = runner.parallel_submitted_lanes
  <2> DEFINE st == IF runner.active THEN "outcomes_matched" ELSE runner.status
  <2>1. runner \in RunnerType /\ st \in Statuses
    BY DEF Inv, Types, RunnerType, Statuses
  <2>2. runner' = [runner EXCEPT !.status = st, !.active = FALSE]
    BY DEF Finish
  <2> HIDE DEF st
  <2>3. /\ runner' \in RunnerType /\ ~runner'.active /\ runner'.status = st
        /\ runner'.parallel_batches = runner.parallel_batches
        /\ runner'.parallel_submitted_lanes = runner.parallel_submitted_lanes
    BY <2>1, <2>2 DEF RunnerType
  <2> QED BY <2>3 DEF st
<1>2. runner.active => acc.progress = TxCount
  <2>1. batch.pending_count = 0 /\ accepted = 0 /\ next_tx = TxCount
    BY <1>0 DEF Inv, Types, BatchType, Positions, Ending, Flushing, InBatch
  <2> QED BY <1>0, <2>1 DEF Inv, Types, AccType, Positions
<1>3. runner'.status # "not_run" /\ (runner'.status \in Agreed => acc.progress = TxCount)
      /\ (runner'.status \in Agreed => runner.active \/ runner.status \in Agreed)
  BY <1>1, <1>2 DEF Inv, Folding
<1>4. Types' /\ Folding' /\ Slots' /\ Positions' /\ Batches'
  BY <1>0, <1>1, <1>3, TailPreserves
<1>5. Ending'
  BY <1>0 DEF Inv, Ending, Flushing, InBatch
<1> QED BY <1>4, <1>5 DEF Inv

LEMMA FinishCandidatePreserves == Inv /\ FinishCandidate => Inv'
<1> SUFFICES ASSUME Inv, FinishCandidate PROVE Inv'
  OBVIOUS
<1> USE DifferentialConstants
<1>0. /\ pc = "finished" /\ pc' = "comparing" /\ candidate = None
      /\ UNCHANGED <<block, next_tx, resume, batch, running, submitted, accepted, acc>>
  BY DEF FinishCandidate, Inv, Ending
<1>1. /\ runner' \in RunnerType /\ ~runner'.active /\ runner'.status # "not_run"
      /\ runner' = runner \/ runner'.status = "diagnostic_failure"
  <2>1. CASE runner' = runner
    BY <1>0, <2>1 DEF Inv, Types, Folding, Positions
  <2>2. CASE runner' = Stop(runner, "diagnostic_failure", acc.transaction_count)
    <3>1. runner \in RunnerType /\ "diagnostic_failure" \in Statuses /\ acc.transaction_count \in Int
      BY DEF Inv, Types, Statuses, AccType
    <3> QED BY <2>2, <3>1, StopIs
  <2> QED BY <2>1, <2>2 DEF FinishCandidate
<1>2. runner'.status \in Agreed => runner' = runner /\ acc.progress = TxCount
  BY <1>1 DEF Inv, Folding, Agreed
<1>3. Types' /\ Folding' /\ Slots' /\ Positions' /\ Batches'
  BY <1>0, <1>1, <1>2, TailPreserves
<1>4. candidate' = None \/ (candidate' = Prefix(TxCount) /\ runner' = runner
                            /\ runner.status = "outcomes_matched")
  BY <1>0 DEF FinishCandidate, Inv, Folding, Agreed
<1>5. Ending'
  BY <1>0, <1>4 DEF Ending, Flushing, InBatch
<1> QED BY <1>3, <1>5 DEF Inv

LEMMA CompareBlockPreserves == Inv /\ CompareBlock => Inv'
<1> SUFFICES ASSUME Inv, CompareBlock PROVE Inv'
  OBVIOUS
<1> USE DifferentialConstants
<1>0. /\ pc = "comparing" /\ pc' = "done"
      /\ UNCHANGED <<block, next_tx, resume, batch, running, submitted, accepted, acc, candidate>>
  BY DEF CompareBlock
<1>a. runner \in RunnerType /\ ~runner.active /\ runner.status # "not_run" /\ TxCount \in Int
  BY <1>0 DEF Inv, Types, Folding, Positions
<1>b. \/ runner' = runner
      \/ /\ candidate # None
         /\ \/ runner' = [runner EXCEPT !.status = "candidate_artifact_mismatch", !.tx_index = TxCount]
            \/ runner' = [runner EXCEPT !.status = "matched"]
            \/ runner' = [runner EXCEPT !.status = "candidate_matched"]
  BY DEF CompareBlock
<1>c. {"candidate_artifact_mismatch", "matched", "candidate_matched"} \subseteq Statuses
  BY DEF Statuses
<1>1. /\ runner' \in RunnerType /\ ~runner'.active /\ runner'.status # "not_run"
      /\ runner'.parallel_batches = runner.parallel_batches
      /\ runner'.parallel_submitted_lanes = runner.parallel_submitted_lanes
      /\ \/ runner' = runner
         \/ candidate # None
  BY <1>a, <1>b, <1>c DEF RunnerType
<1>2. runner'.status \in Agreed => runner.status \in Agreed /\ acc.progress = TxCount
  BY <1>0, <1>1 DEF Inv, Folding, Ending, Agreed
<1>3. Types' /\ Folding' /\ Slots' /\ Positions' /\ Batches'
  BY <1>0, <1>1, <1>2, TailPreserves
<1>4. Ending'
  BY <1>0 DEF Inv, Ending, Flushing, InBatch
<1> QED BY <1>3, <1>4 DEF Inv

LEMMA AbandonPreserves == Inv /\ Abandon => Inv'
<1> SUFFICES ASSUME Inv, Abandon PROVE Inv'
  OBVIOUS
<1> USE DifferentialConstants
<1>0. /\ pc \in {"before_block", "observing", "finished", "comparing"} /\ pc' = "done"
      /\ UNCHANGED <<block, next_tx, resume, running, submitted, accepted, runner, acc, candidate>>
      /\ batch' = Discarded(batch, batch.expected_progress)
  BY DEF Abandon
<1>1. submitted = 0 /\ accepted = 0 /\ batch.expected_progress \in Int
  BY <1>0 DEF Inv, Types, BatchType, Positions, Flushing, InBatch
<1>2. /\ batch' \in BatchType /\ batch'.pending_count = 0 /\ batch'.enabled = batch.enabled
      /\ \A i \in 1 .. MaxInFlight : batch'.slots[i] = EmptySlot
  BY <1>0, <1>1, DiscardedHere
<1>3. Types'
  BY <1>0, <1>1, <1>2 DEF Inv, Types, block
<1>4. Folding'
  BY <1>0 DEF Inv, Folding
<1>5. Slots'
  BY <1>0, <1>1, <1>2 DEF Slots, Waiting
<1>6. Positions'
  BY <1>0, <1>1, <1>2 DEF Positions, Flushing, InBatch
<1>7. Ending'
  BY <1>0 DEF Inv, Ending, Flushing, InBatch
<1>8. Batches'
  BY <1>0, <1>2 DEF Inv, Batches, Handed, InBatch
<1> QED BY <1>3, <1>4, <1>5, <1>6, <1>7, <1>8 DEF Inv

-----------------------------------------------------------------------------
(***************************************************************************)
(* One batch.                                                              *)
(***************************************************************************)
LEMMA SubmitPreserves == Inv /\ Submit => Inv'
<1> SUFFICES ASSUME Inv, Submit PROVE Inv'
  OBVIOUS
<1> USE DifferentialConstants
<1>0. /\ pc = "submitting" /\ submitted < batch.pending_count
      /\ running' = running \union {submitted + 1} /\ submitted' = submitted + 1
      /\ UNCHANGED <<block, next_tx, pc, resume, batch, accepted, runner, acc, candidate>>
      /\ submitted \in Nat /\ batch.pending_count \in 0 .. MaxInFlight
      /\ running \in SUBSET (1 .. submitted)
  BY DEF Submit, Inv, Types, BatchType
<1>1. Types'
  <2>1. running' \in SUBSET (1 .. submitted') /\ submitted' \in 0 .. batch.pending_count
    BY <1>0
  <2> QED BY <1>0, <2>1 DEF Inv, Types, block
<1>2. Folding' /\ Ending' /\ Batches'
  BY <1>0 DEF Inv, Folding, Ending, Batches, Handed, block
<1>3. Slots'
  <2>1. Waiting' = Waiting /\ \A t : LaneOutcomes(t)' = LaneOutcomes(t)
    BY <1>0 DEF Waiting, LaneOutcomes, block
  <2>2. ASSUME NEW i \in Waiting
        PROVE  /\ i > submitted' \/ i \in running' => batch.slots[i].outcome = "none"
               /\ i <= submitted' /\ i \notin running' => batch.slots[i].outcome # "none"
    <3>1. i \in Int
      BY DEF Waiting
    <3> QED BY <1>0, <3>1 DEF Inv, Slots, Waiting
  <2> QED BY <1>0, <2>1, <2>2 DEF Inv, Slots, Flushing, InBatch
<1>4. Positions'
  BY <1>0 DEF Inv, Positions, Flushing, InBatch
<1> QED BY <1>1, <1>2, <1>3, <1>4 DEF Inv

\* The coordinator moves on within the batch; tasks and slots stay.
LEMMA MovingPreserves ==
  ASSUME Inv, pc \in {"submitting", "joining"}, pc' \in {"joining", "cancelling", "aborting"},
         pc' = "joining" => submitted = batch.pending_count,
         pc' = "cancelling" => submitted < batch.pending_count,
         UNCHANGED <<block, next_tx, resume, batch, running, submitted, accepted, runner, acc, candidate>>
  PROVE  Inv'
<1>1. Types'
  BY DEF Inv, Types, block, Flushing, InBatch
<1>2. Folding' /\ Ending' /\ Batches'
  BY DEF Inv, Folding, Ending, Batches, Handed, block, Flushing, InBatch
<1>3. Slots'
  <2>1. Waiting' = Waiting /\ \A t : LaneOutcomes(t)' = LaneOutcomes(t)
    BY DEF Waiting, LaneOutcomes, block
  <2> QED BY <2>1 DEF Inv, Slots, Flushing, InBatch
<1>4. Positions'
  BY DEF Inv, Positions, Flushing, InBatch
<1> QED BY <1>1, <1>2, <1>3, <1>4 DEF Inv

LEMMA MovesPreserve == Inv /\ (Refuse \/ Await \/ CancelAwait) => Inv'
BY MovingPreserves DEF Refuse, Await, CancelAwait

\* A task that runs is one of a batch in flight, and has a transaction.
LEMMA TaskHasTransaction ==
  ASSUME Inv, NEW i \in running
  PROVE  /\ pc \in InBatch /\ i \in Waiting /\ i <= submitted
         /\ batch.slots[i].expected \in Txs
<1> USE DifferentialConstants
<1>1. i \in 1 .. submitted /\ submitted \in 0 .. batch.pending_count
      /\ batch.pending_count \in 0 .. MaxInFlight
  BY DEF Inv, Types, BatchType
<1>2. pc \in InBatch
  BY <1>1 DEF Inv, Positions, Flushing
<1>3. accepted = 0 /\ batch.pending_count <= next_tx
  BY <1>2 DEF Inv, Positions, Flushing
<1>4. i \in Waiting
  BY <1>1, <1>3 DEF Waiting
<1>5. batch.slots[i].expected = next_tx - batch.pending_count + i - 1 /\ next_tx \in 0 .. TxCount
  BY <1>4 DEF Inv, Slots, Types
<1> QED BY <1>1, <1>2, <1>3, <1>4, <1>5 DEF Txs

LEMMA RunTaskPreserves == ASSUME NEW i \in 1 .. MaxInFlight PROVE Inv /\ RunTask(i) => Inv'
<1> SUFFICES ASSUME Inv, RunTask(i) PROVE Inv'
  OBVIOUS
<1> USE DifferentialConstants
<1>0. /\ i \in running /\ running' = running \ {i}
      /\ UNCHANGED <<block, next_tx, pc, resume, submitted, accepted, runner, acc, candidate>>
  BY DEF RunTask
<1>1. pc \in InBatch /\ i \in Waiting /\ i <= submitted /\ batch.slots[i].expected \in Txs
  BY <1>0, TaskHasTransaction
<1> DEFINE tx == batch.slots[i].expected
<1>2. PICK outcome \in LaneOutcomes(tx) : batch' = [batch EXCEPT !.slots[i].outcome = outcome]
  BY DEF RunTask
<1>3. outcome \in Outcomes /\ outcome # "none"
  BY <1>1, LaneOutcomesAre DEF Inv
<1>4. /\ batch' \in BatchType
      /\ batch'.pending_count = batch.pending_count /\ batch'.enabled = batch.enabled
      /\ batch'.expected_progress = batch.expected_progress
      /\ batch'.slots[i].expected = tx /\ batch'.slots[i].outcome = outcome
      /\ \A j \in 1 .. MaxInFlight \ {i} : batch'.slots[j] = batch.slots[j]
  <2>1. batch \in BatchType /\ batch.slots[i] \in [expected : Int, outcome : Outcomes]
    BY DEF Inv, Types, BatchType
  <2> DEFINE slot == [batch.slots[i] EXCEPT !.outcome = outcome]
             e == [batch.slots EXCEPT ![i] = slot]
  <2>2. slot \in [expected : Int, outcome : Outcomes] /\ slot.expected = tx /\ slot.outcome = outcome
    BY <1>3, <2>1
  <2>3. batch' = [batch EXCEPT !.slots = e]
    BY <1>2, <2>1 DEF BatchType
  <2> HIDE DEF slot
  <2>4. /\ e \in [1 .. MaxInFlight -> [expected : Int, outcome : Outcomes]]
        /\ e[i] = slot /\ \A j \in 1 .. MaxInFlight \ {i} : e[j] = batch.slots[j]
    BY <2>1, <2>2 DEF BatchType
  <2> HIDE DEF e
  <2>5. /\ batch' \in BatchType /\ batch'.slots = e
        /\ batch'.pending_count = batch.pending_count /\ batch'.enabled = batch.enabled
        /\ batch'.expected_progress = batch.expected_progress
    BY <2>1, <2>3, <2>4 DEF BatchType
  <2> QED BY <2>2, <2>4, <2>5
<1> HIDE DEF tx
<1>5. Types'
  BY <1>0, <1>4 DEF Inv, Types, block
<1>6. Folding' /\ Ending' /\ Batches'
  BY <1>0, <1>4 DEF Inv, Folding, Ending, Batches, Handed, block
<1>7. Slots'
  <2>1. Waiting' = Waiting /\ \A t : LaneOutcomes(t)' = LaneOutcomes(t)
    BY <1>0, <1>4 DEF Waiting, LaneOutcomes, block
  <2>2. ASSUME NEW j \in 1 .. MaxInFlight, j \notin Waiting PROVE batch'.slots[j] = EmptySlot
    BY <1>1, <1>4, <2>2 DEF Inv, Slots
  <2>3. ASSUME NEW j \in Waiting
        PROVE  /\ batch'.slots[j].expected = next_tx - batch.pending_count + j - 1
               /\ batch'.slots[j].outcome \in LaneOutcomes(batch'.slots[j].expected) \union {"none"}
               /\ j > submitted \/ j \in running' => batch'.slots[j].outcome = "none"
               /\ pc \in {"submitting", "joining"} /\ j <= submitted /\ j \notin running' =>
                    batch'.slots[j].outcome # "none"
    <3>1. CASE j = i
      <4>1. i \in Int /\ submitted \in Int
        BY DEF Inv, Types
      <4>2. batch'.slots[i].expected = next_tx - batch.pending_count + i - 1
        BY <1>1, <1>4 DEF Inv, Slots, tx
      <4> QED BY <1>0, <1>1, <1>2, <1>3, <1>4, <3>1, <4>1, <4>2
    <3>2. CASE j # i
      <4>1. j \in 1 .. MaxInFlight \ {i}
        BY <3>2 DEF Waiting
      <4>2. batch'.slots[j] = batch.slots[j]
        BY <1>4, <4>1
      <4> QED BY <1>0, <1>1, <3>2, <4>2 DEF Inv, Slots, Flushing
    <3> QED BY <3>1, <3>2
  <2> QED BY <1>0, <1>1, <1>4, <2>1, <2>2, <2>3 DEF Slots, InBatch, Flushing
<1>8. Positions'
  BY <1>0, <1>1, <1>4 DEF Inv, Positions, Flushing, InBatch
<1> QED BY <1>5, <1>6, <1>7, <1>8 DEF Inv

LEMMA DropTaskPreserves == ASSUME NEW i \in 1 .. MaxInFlight PROVE Inv /\ DropTask(i) => Inv'
<1> SUFFICES ASSUME Inv, DropTask(i) PROVE Inv'
  OBVIOUS
<1>0. /\ i \in running /\ running' = running \ {i} /\ pc \in {"cancelling", "aborting"}
      /\ UNCHANGED <<block, next_tx, pc, resume, batch, submitted, accepted, runner, acc, candidate>>
  BY DEF DropTask
<1>1. Types'
  BY <1>0 DEF Inv, Types, block
<1>2. Folding' /\ Ending' /\ Batches'
  BY <1>0 DEF Inv, Folding, Ending, Batches, Handed, block
<1>3. Slots'
  <2>1. Waiting' = Waiting /\ \A t : LaneOutcomes(t)' = LaneOutcomes(t)
    BY <1>0 DEF Waiting, LaneOutcomes, block
  <2> QED BY <1>0, <2>1 DEF Inv, Slots, Flushing, InBatch
<1>4. Positions'
  BY <1>0 DEF Inv, Positions, Flushing, InBatch
<1> QED BY <1>1, <1>2, <1>3, <1>4 DEF Inv

\* Leaving a batch that is empty again.
LEMMA LeavingPreserves ==
  ASSUME Inv, pc \in Flushing, running = {},
         pc' = "done" \/ pc' = resume, UNCHANGED <<block, next_tx, resume, running, acc, candidate>>,
         runner' \in RunnerType,
         runner'.status = runner.status \/ runner'.status \notin Agreed \union {"not_run"},
         runner'.active => runner.active /\ batch.enabled,
         runner'.active <=> runner'.status = "not_run",
         batch' \in BatchType, batch'.pending_count = 0,
         batch'.expected_progress = acc.progress,
         \A i \in 1 .. MaxInFlight : batch'.slots[i] = EmptySlot,
         submitted' = 0, accepted' = 0,
         runner'.active /\ pc' # "done" => next_tx = acc.progress,
         Batches'
  PROVE  Inv'
<1> USE DifferentialConstants
<1>1. Types'
  BY DEF Inv, Types, block, Reports
<1>2. Folding'
  BY DEF Inv, Folding
<1>3. Slots'
  BY DEF Slots, Waiting
<1>4. Positions'
  BY DEF Inv, Types, Positions, Flushing, InBatch, Reports
<1>5. Ending'
  BY DEF Inv, Types, Ending, Flushing, InBatch, Reports, block
<1> QED BY <1>1, <1>2, <1>3, <1>4, <1>5 DEF Inv

LEMMA UnavailablePreserves == Inv /\ Unavailable => Inv'
<1> SUFFICES ASSUME Inv, Unavailable PROVE Inv'
  OBVIOUS
<1> USE DifferentialConstants
<1>0. /\ pc = "cancelling" /\ running = {} /\ pc' = resume /\ submitted' = 0
      /\ UNCHANGED <<block, next_tx, resume, running, accepted, acc, candidate>>
      /\ pc \in Flushing /\ accepted = 0 /\ submitted < batch.pending_count
  BY DEF Unavailable, Joined, Inv, Positions, Flushing, InBatch
<1>1. batch' \in BatchType /\ batch'.pending_count = 0 /\ batch'.expected_progress = acc.progress
      /\ ~batch'.enabled /\ \A i \in 1 .. MaxInFlight : batch'.slots[i] = EmptySlot
  <2> DEFINE d == Discarded(batch, acc.progress)
  <2>0. acc.progress \in Int
    BY DEF Inv, Types, AccType
  <2>1. /\ d \in BatchType /\ d.pending_count = 0 /\ d.expected_progress = acc.progress
        /\ \A i \in 1 .. MaxInFlight : d.slots[i] = EmptySlot
    BY <1>0, <2>0, DiscardedHere
  <2>2. batch' = Disabled(d)
    BY DEF Unavailable
  <2> HIDE DEF d
  <2> QED BY <2>1, <2>2, DisabledIs
<1>2. runner' \in RunnerType /\ ~runner'.active /\ runner'.status = "fallback_parallel_runtime"
  <2> DEFINE r == RecordBatch(runner, submitted)
             tx == batch.slots[submitted + 1].expected
  <2>1. submitted \in 0 .. MaxInFlight /\ submitted + 1 \in 1 .. MaxInFlight /\ runner \in RunnerType
    BY <1>0 DEF Inv, Types, BatchType
  <2>2. r \in RunnerType
    BY <2>1, RecordBatchIs
  <2>3. tx \in Int
    BY <2>1 DEF Inv, Types, BatchType
  <2>4. runner' = StopParallel(r, "concurrency_unavailable", tx)
    BY DEF Unavailable
  <2> HIDE DEF r, tx
  <2> QED BY <2>2, <2>3, <2>4, StopParallelIs
<1>3. Batches'
  BY <1>1 DEF Batches
<1>4. "fallback_parallel_runtime" \notin Agreed \union {"not_run"}
  BY DEF Agreed
<1> QED BY <1>0, <1>1, <1>2, <1>3, <1>4, LeavingPreserves

LEMMA AbortedPreserves == Inv /\ Aborted => Inv'
<1> SUFFICES ASSUME Inv, Aborted PROVE Inv'
  OBVIOUS
<1> USE DifferentialConstants
<1>0. /\ pc = "aborting" /\ running = {} /\ pc' = "done" /\ submitted' = 0
      /\ UNCHANGED <<block, next_tx, resume, running, accepted, runner, acc, candidate>>
      /\ pc \in Flushing /\ accepted = 0 /\ batch.pending_count > 0 /\ runner.active
      /\ batch' = Discarded(batch, acc.progress)
  BY DEF Aborted, Joined, Inv, Positions, Flushing, InBatch
<1>1. batch' \in BatchType /\ batch'.pending_count = 0 /\ batch'.expected_progress = acc.progress
      /\ batch'.enabled = batch.enabled /\ \A i \in 1 .. MaxInFlight : batch'.slots[i] = EmptySlot
  <2>0. acc.progress \in Int
    BY DEF Inv, Types, AccType
  <2> QED BY <1>0, <2>0, DiscardedHere
<1>2. batch.enabled /\ runner' \in RunnerType /\ runner'.status = "not_run"
  BY <1>0 DEF Inv, Types, Folding, Positions
<1>3. Batches'
  BY <1>0, <1>1 DEF Inv, Batches, Handed, InBatch
<1> QED BY <1>0, <1>1, <1>2, <1>3, LeavingPreserves

LEMMA CompletedPreserves == Inv /\ Completed => Inv'
<1> SUFFICES ASSUME Inv, Completed PROVE Inv'
  OBVIOUS
<1> USE DifferentialConstants
<1>0. /\ pc = "joining" /\ running = {} /\ pc' = "accepting"
      /\ UNCHANGED <<block, next_tx, resume, batch, running, submitted, accepted, acc, candidate>>
      /\ accepted = 0 /\ submitted = batch.pending_count /\ runner.active
      /\ batch.pending_count > 0 /\ batch.enabled
      /\ batch.pending_count \in 0 .. MaxInFlight
  BY DEF Completed, Joined, Inv, Types, BatchType, Positions, Flushing, InBatch
<1>1. /\ runner' \in RunnerType /\ runner'.active = runner.active
      /\ runner'.status = runner.status /\ runner'.tx_index = runner.tx_index
      /\ runner'.parallel_batches = runner.parallel_batches + 1
      /\ runner'.parallel_submitted_lanes = runner.parallel_submitted_lanes + batch.pending_count
  <2> DEFINE r == RecordBatch(runner, batch.pending_count)
             b == runner.parallel_batches + 1
  <2>1. /\ r \in RunnerType
        /\ r.active = runner.active /\ r.status = runner.status /\ r.tx_index = runner.tx_index
        /\ r.parallel_batches = runner.parallel_batches
        /\ r.parallel_submitted_lanes = runner.parallel_submitted_lanes + batch.pending_count
    <3>1. runner \in RunnerType /\ batch.pending_count \in 0 .. MaxInFlight
      BY <1>0 DEF Inv, Types
    <3> QED BY <3>1, RecordBatchIs
  <2>2. b \in Nat
    BY DEF Inv, Types, RunnerType
  <2>3. runner' = [r EXCEPT !.parallel_batches = b]
    BY <2>1 DEF Completed
  <2> HIDE DEF r
  <2> QED BY <2>1, <2>2, <2>3 DEF RunnerType
<1>2. Types'
  BY <1>0, <1>1 DEF Inv, Types, block, Flushing
<1>3. Folding' /\ Ending'
  BY <1>0, <1>1 DEF Inv, Folding, Ending, block, Flushing, InBatch
<1>4. Slots'
  <2>1. Waiting' = Waiting /\ \A t : LaneOutcomes(t)' = LaneOutcomes(t)
    BY <1>0 DEF Waiting, LaneOutcomes, block
  <2> QED BY <1>0, <2>1 DEF Inv, Slots, Flushing, InBatch
<1>5. Positions'
  BY <1>0, <1>1 DEF Inv, Positions, Flushing, InBatch
<1>6. Batches'
  <2>1. /\ next_tx = acc.progress + batch.pending_count
        /\ acc.progress = runner.parallel_batches * MaxInFlight
        /\ runner.parallel_submitted_lanes = acc.progress
        /\ resume = "observing" => batch.pending_count = MaxInFlight
    BY <1>0 DEF Inv, Types, BatchType, AccType, Positions, Batches, Handed, InBatch
  <2>2. runner.parallel_batches \in Nat /\ acc.progress \in Nat /\ next_tx \in Nat
    BY DEF Inv, Types, RunnerType, AccType
  <2>3. runner'.parallel_batches * MaxInFlight = acc.progress + MaxInFlight
    BY <1>1, <2>1, <2>2
  <2> QED BY <1>0, <1>1, <2>1, <2>2, <2>3 DEF Batches, Handed, InBatch
<1> QED BY <1>2, <1>3, <1>4, <1>5, <1>6 DEF Inv

LEMMA FlushedPreserves == Inv /\ Flushed => Inv'
<1> SUFFICES ASSUME Inv, Flushed PROVE Inv'
  OBVIOUS
<1> USE DifferentialConstants
<1>0. /\ pc = "accepting" /\ accepted = batch.pending_count /\ pc' = resume
      /\ submitted' = 0 /\ accepted' = 0 /\ running = {} /\ pc \in Flushing
      /\ UNCHANGED <<block, next_tx, resume, running, runner, acc, candidate>>
      /\ batch' = Drained(batch, acc.progress)
  BY DEF Flushed, Inv, Positions, Flushing
<1>1. batch' \in BatchType /\ batch'.pending_count = 0 /\ batch'.expected_progress = acc.progress
      /\ batch'.enabled = batch.enabled /\ batch'.slots = batch.slots
  <2>1. batch \in BatchType /\ acc.progress \in Int /\ 0 \in 0 .. MaxInFlight
    BY DEF Inv, Types, AccType
  <2>2. batch' = [batch EXCEPT !.pending_count = 0, !.expected_progress = acc.progress]
    BY <1>0 DEF Drained
  <2> QED BY <2>1, <2>2 DEF BatchType
<1>2. \A i \in 1 .. MaxInFlight : batch'.slots[i] = EmptySlot
  <2>1. \A i \in 1 .. MaxInFlight : i \notin Waiting
    BY <1>0 DEF Waiting, Inv, Types, BatchType
  <2> QED BY <1>1, <2>1 DEF Inv, Slots
<1>3. runner.active => next_tx = acc.progress
  BY <1>0 DEF Inv, Types, BatchType, AccType, Positions
<1>4. runner \in RunnerType /\ (runner.active <=> runner.status = "not_run")
  BY DEF Inv, Types, Folding
<1>5. runner.status \notin Agreed
  BY <1>0 DEF Inv, Ending
<1>6. Batches'
  <2>1. runner.active => Handed' = Handed
    BY <1>0, <1>3 DEF Inv, Types, Handed, Reports
  <2> QED BY <1>0, <1>1, <1>5, <2>1 DEF Inv, Types, Batches, InBatch, Reports
<1>7. runner.active => batch.enabled
  BY <1>0 DEF Inv, Positions, Types, BatchType
<1> QED BY <1>0, <1>1, <1>2, <1>3, <1>4, <1>6, <1>7, LeavingPreserves

\* The slot handed over next has a transaction and an outcome of its lane.
LEMMA SlotHasTransaction ==
  ASSUME Inv, pc = "accepting", accepted < batch.pending_count
  PROVE  LET n == accepted + 1  slot == batch.slots[n] IN
         /\ n \in Waiting /\ n \in 1 .. MaxInFlight
         /\ slot.expected \in Txs /\ slot.outcome \in LaneOutcomes(slot.expected)
         /\ runner.active => slot.expected = acc.progress
<1> USE DifferentialConstants
<1> DEFINE n == accepted + 1
<1>1. /\ accepted \in Nat /\ batch.pending_count \in 0 .. MaxInFlight
      /\ running = {} /\ submitted = batch.pending_count /\ batch.pending_count <= next_tx
      /\ next_tx \in 0 .. TxCount /\ acc.progress \in Nat
  BY DEF Inv, Types, BatchType, AccType, Positions, Flushing
<1>2. n \in Waiting /\ n \in 1 .. MaxInFlight /\ n <= submitted /\ n \notin running
  BY <1>1 DEF Waiting
<1>3. /\ batch.slots[n].expected = next_tx - batch.pending_count + n - 1
      /\ batch.slots[n].outcome \in LaneOutcomes(batch.slots[n].expected)
  BY <1>2 DEF Inv, Slots
<1>4. batch.slots[n].expected \in Txs
  BY <1>1, <1>2, <1>3 DEF Txs
<1>5. runner.active => next_tx = acc.progress + batch.pending_count - accepted
  BY DEF Inv, Positions
<1>6. runner.active => batch.slots[n].expected = acc.progress
  BY <1>1, <1>3, <1>5
<1> QED BY <1>2, <1>3, <1>4, <1>6

\* What AcceptSlot leaves of the batch b of its result.
LEMMA SlotReset ==
  ASSUME NEW b \in BatchType, NEW n \in 1 .. MaxInFlight
  PROVE  LET d == [b EXCEPT !.slots[n] = EmptySlot] IN
         /\ d \in BatchType /\ d.pending_count = b.pending_count /\ d.enabled = b.enabled
         /\ d.slots[n] = EmptySlot
         /\ \A i \in 1 .. MaxInFlight \ {n} : d.slots[i] = b.slots[i]
<1> DEFINE e == [b.slots EXCEPT ![n] = EmptySlot]
<1>1. /\ e \in [1 .. MaxInFlight -> [expected : Int, outcome : Outcomes]]
      /\ e[n] = EmptySlot /\ \A i \in 1 .. MaxInFlight \ {n} : e[i] = b.slots[i]
  BY EmptySlotTyped DEF BatchType
<1>2. [b EXCEPT !.slots[n] = EmptySlot] = [b EXCEPT !.slots = e]
  BY DEF BatchType
<1> HIDE DEF e
<1> QED BY <1>1, <1>2 DEF BatchType

There == [acc |-> acc', runner |-> runner', batch |-> batch']

\* The ways in which a slot is handed over: to a runner that has stopped, to
\* one that a lane without memory stops, to one that judges the outcome.
LEMMA SlotAccepted ==
  ASSUME Inv, AcceptSlot
  PROVE  LET n == accepted + 1  tx == batch.slots[n].expected
             Reset(b) == [b EXCEPT !.slots[n] = EmptySlot] IN
         \/ ~runner.active /\ runner' = runner /\ acc' = acc /\ batch' = Reset(batch)
         \/ /\ runner.active /\ runner' = StopParallel(runner, "lane_out_of_memory", tx)
            /\ acc' = acc /\ batch' = Reset(Disabled(batch))
         \/ /\ runner.active
            /\ Agrees(There, tx) \/ Disagrees(There, tx) \/ GivesUp(There, tx)
            /\ batch' = Reset(batch)
<1> DEFINE n == accepted + 1
           tx == batch.slots[n].expected
           outcome == batch.slots[n].outcome
<1>1. pc = "accepting" /\ accepted < batch.pending_count
  BY DEF AcceptSlot
<1>2. tx \in Txs /\ outcome \in LaneOutcomes(tx) /\ (runner.active => tx = acc.progress)
  BY <1>1, SlotHasTransaction
<1>3. PICK failing \in FailingAcceptance :
        LET s == AcceptLaneOutcome(Here, tx, outcome, failing)
        IN  /\ runner' = s.runner /\ acc' = s.acc
            /\ batch' = [s.batch EXCEPT !.slots[n] = EmptySlot]
  BY DEF AcceptSlot, Here
<1> DEFINE s == AcceptLaneOutcome(Here, tx, outcome, failing)
<1>4. /\ runner' = s.runner /\ acc' = s.acc
      /\ batch' = [s.batch EXCEPT !.slots[n] = EmptySlot]
  BY <1>3
<1>5. Here.acc = acc /\ Here.runner = runner /\ Here.batch = batch
  BY DEF Here
<1>6. There.acc = acc' /\ There.runner = runner'
  BY DEF There
<1> HIDE DEF tx, outcome, n
<1>7. CASE ~runner.active
  <2>1. s = Here
    BY <1>5, <1>7 DEF AcceptLaneOutcome, AcceptOutcome
  <2> HIDE DEF s
  <2> QED BY <1>4, <1>5, <1>7, <2>1 DEF tx, n
<1>8. CASE runner.active /\ outcome = "out_of_memory"
  <2>1. s = [acc |-> acc, runner |-> StopParallel(runner, "lane_out_of_memory", tx),
             batch |-> Disabled(batch)]
    BY <1>8 DEF AcceptLaneOutcome, Here
  <2> HIDE DEF s
  <2> QED BY <1>4, <1>8, <2>1 DEF tx, n
<1>9. CASE runner.active /\ outcome # "out_of_memory"
  <2>1. s = AcceptOutcome(Here, tx, outcome, failing)
    BY <1>9 DEF AcceptLaneOutcome
  <2>2. Types /\ Folding
    BY DEF Inv
  <2>3. s.batch = batch /\ (Agrees(s, tx) \/ Disagrees(s, tx) \/ GivesUp(s, tx))
    BY <1>2, <1>9, <2>1, <2>2, OutcomeAccepted
  <2> HIDE DEF s
  <2>4. Agrees(There, tx) \/ Disagrees(There, tx) \/ GivesUp(There, tx)
    BY <1>4, <1>6, <2>3 DEF Agrees, Disagrees, GivesUp
  <2> QED BY <1>4, <1>9, <2>3, <2>4 DEF tx, n
<1> QED BY <1>7, <1>8, <1>9

\* A handed-over slot leaves the runner stopped, or one transaction further.
LEMMA HandingOverPreserves ==
  ASSUME Inv, pc = "accepting", accepted < batch.pending_count, accepted' = accepted + 1,
         UNCHANGED <<block, next_tx, pc, resume, running, submitted, candidate>>,
         batch' \in BatchType, batch'.pending_count = batch.pending_count,
         batch'.slots[accepted + 1] = EmptySlot,
         \A i \in 1 .. MaxInFlight \ {accepted + 1} : batch'.slots[i] = batch.slots[i],
         runner' \in RunnerType, acc' \in AccType,
         \/ /\ ~runner'.active /\ runner'.status \notin Agreed \union {"not_run"}
            /\ acc'.progress = acc.progress /\ acc'.folded = acc.folded
         \/ /\ runner.active /\ runner' = runner /\ batch'.enabled = batch.enabled
            /\ acc'.transaction_count = acc.progress + 1
            /\ acc'.progress = acc.progress + 1 /\ acc'.folded = Prefix(acc.progress + 1)
  PROVE  Inv'
<1> USE DifferentialConstants
<1>0. accepted \in Nat /\ batch.pending_count \in 0 .. MaxInFlight
      /\ next_tx \in Nat /\ acc.progress \in Nat /\ submitted = batch.pending_count
  BY DEF Inv, Types, BatchType, AccType, Positions
<1>1. Types'
  <2>1. accepted' \in 0 .. batch'.pending_count /\ submitted' \in 0 .. batch'.pending_count
    BY <1>0
  <2> QED BY <2>1 DEF Inv, Types, block
<1>2. Folding'
  BY DEF Inv, Folding, Agreed
<1>3. Slots'
  <2>1. Waiting' = Waiting \ {accepted + 1} /\ \A t : LaneOutcomes(t)' = LaneOutcomes(t)
    <3>1. accepted' = accepted + 1 /\ batch'.pending_count = batch.pending_count
      OBVIOUS
    <3>2. Waiting' = Waiting \ {accepted + 1}
      BY <1>0, <3>1 DEF Waiting
    <3>3. verdict' = verdict
      BY DEF block
    <3> QED BY <3>2, <3>3 DEF LaneOutcomes
  <2>2. ASSUME NEW i \in 1 .. MaxInFlight, i \notin Waiting' PROVE batch'.slots[i] = EmptySlot
    BY <2>1, <2>2 DEF Inv, Slots
  <2>3. ASSUME NEW i \in Waiting' PROVE batch'.slots[i] = batch.slots[i] /\ i \in Waiting
    <3>1. i \in 1 .. MaxInFlight \ {accepted + 1} /\ i \in Waiting
      BY <2>1, <2>3 DEF Waiting
    <3> QED BY <3>1
  <2>4. ASSUME NEW i \in Waiting'
        PROVE  /\ batch'.slots[i].expected = next_tx' - batch'.pending_count + i - 1
               /\ (batch.slots[i].outcome \in LaneOutcomes(batch.slots[i].expected) \union {"none"})'
               /\ i > submitted' \/ i \in running' => batch'.slots[i].outcome = "none"
               /\ i <= submitted' /\ i \notin running' => batch'.slots[i].outcome # "none"
    <3>1. /\ batch.slots[i].expected = next_tx - batch.pending_count + i - 1
          /\ batch.slots[i].outcome \in LaneOutcomes(batch.slots[i].expected) \union {"none"}
          /\ i > submitted \/ i \in running => batch.slots[i].outcome = "none"
          /\ i <= submitted /\ i \notin running => batch.slots[i].outcome # "none"
      BY <2>3, <2>4 DEF Inv, Slots
    <3>2. batch'.slots[i] = batch.slots[i]
      BY <2>3, <2>4
    <3>3. (LaneOutcomes(batch.slots[i].expected))' = LaneOutcomes(batch.slots[i].expected)
      BY <3>2 DEF LaneOutcomes, block
    <3>4. next_tx' = next_tx /\ submitted' = submitted /\ running' = running
      OBVIOUS
    <3> QED BY <3>1, <3>2, <3>3, <3>4
  <2>5. pc' \in Flushing
    BY DEF Flushing
  <2> QED BY <2>2, <2>4, <2>5 DEF Slots, Waiting
<1>4. Positions'
  BY <1>0 DEF Inv, Positions, Flushing, InBatch
<1>5. Ending'
  BY DEF Inv, Ending, Flushing, InBatch, block
<1>6. Batches'
  BY DEF Inv, Batches, Handed, InBatch
<1> QED BY <1>1, <1>2, <1>3, <1>4, <1>5, <1>6 DEF Inv

LEMMA AcceptSlotPreserves == Inv /\ AcceptSlot => Inv'
<1> SUFFICES ASSUME Inv, AcceptSlot PROVE Inv'
  OBVIOUS
<1> USE DifferentialConstants
<1> DEFINE n == accepted + 1
           tx == batch.slots[n].expected
<1>0. /\ pc = "accepting" /\ accepted < batch.pending_count /\ accepted' = accepted + 1
      /\ UNCHANGED <<block, next_tx, pc, resume, running, submitted, candidate>>
  BY DEF AcceptSlot
<1>1. /\ n \in 1 .. MaxInFlight /\ tx \in Txs /\ tx \in Int
      /\ runner.active => tx = acc.progress
  BY <1>0, SlotHasTransaction DEF Txs
<1>2. /\ batch \in BatchType /\ runner \in RunnerType /\ acc \in AccType
      /\ runner.status \notin Agreed /\ (runner.active <=> runner.status = "not_run")
  BY <1>0 DEF Inv, Types, Folding, Ending
<1>3. There.acc = acc' /\ There.runner = runner'
  BY DEF There
<1>4. CASE ~runner.active /\ runner' = runner /\ acc' = acc
           /\ batch' = [batch EXCEPT !.slots[n] = EmptySlot]
  <2>1. /\ batch' \in BatchType /\ batch'.pending_count = batch.pending_count
        /\ batch'.slots[n] = EmptySlot
        /\ \A i \in 1 .. MaxInFlight \ {n} : batch'.slots[i] = batch.slots[i]
    BY <1>1, <1>2, <1>4, SlotReset
  <2> QED BY <1>0, <1>2, <1>4, <2>1, HandingOverPreserves
<1>5. CASE /\ runner.active /\ runner' = StopParallel(runner, "lane_out_of_memory", tx)
           /\ acc' = acc /\ batch' = [Disabled(batch) EXCEPT !.slots[n] = EmptySlot]
  <2> DEFINE d == Disabled(batch)
  <2>1. d \in BatchType /\ d.slots = batch.slots /\ d.pending_count = batch.pending_count
    BY <1>2, DisabledIs
  <2>2. batch' = [d EXCEPT !.slots[n] = EmptySlot]
    BY <1>5
  <2> HIDE DEF d
  <2>3. /\ batch' \in BatchType /\ batch'.pending_count = batch.pending_count
        /\ batch'.slots[n] = EmptySlot
        /\ \A i \in 1 .. MaxInFlight \ {n} : batch'.slots[i] = batch.slots[i]
    BY <1>1, <2>1, <2>2, SlotReset
  <2>4. runner' \in RunnerType /\ ~runner'.active /\ runner'.status = "fallback_parallel_runtime"
    <3>1. tx \in Int /\ runner \in RunnerType
          /\ runner' = StopParallel(runner, "lane_out_of_memory", tx)
      BY <1>1, <1>2, <1>5
    <3> HIDE DEF tx
    <3> QED BY <3>1, StopParallelIs
  <2>5. runner'.status \notin Agreed \union {"not_run"}
    BY <2>4 DEF Agreed
  <2> QED BY <1>0, <1>2, <1>5, <2>3, <2>4, <2>5, HandingOverPreserves
<1>6. CASE /\ runner.active
           /\ Agrees(There, tx) \/ Disagrees(There, tx) \/ GivesUp(There, tx)
           /\ batch' = [batch EXCEPT !.slots[n] = EmptySlot]
  <2>1. /\ batch' \in BatchType /\ batch'.pending_count = batch.pending_count
        /\ batch'.enabled = batch.enabled /\ batch'.slots[n] = EmptySlot
        /\ \A i \in 1 .. MaxInFlight \ {n} : batch'.slots[i] = batch.slots[i]
    BY <1>1, <1>2, <1>6, SlotReset
  <2> HIDE DEF tx
  <2>2. CASE Agrees(There, tx)
    <3>1. /\ runner' = runner /\ acc' \in AccType /\ acc'.transaction_count = acc.progress + 1
          /\ acc'.progress = acc.progress + 1 /\ acc'.folded = Prefix(acc.progress + 1)
      BY <1>1, <1>3, <1>6, <2>2 DEF Agrees
    <3> QED BY <1>0, <1>2, <1>6, <2>1, <3>1, HandingOverPreserves
  <2>3. CASE Disagrees(There, tx) \/ GivesUp(There, tx)
    <3>1. /\ runner' \in RunnerType /\ ~runner'.active
          /\ runner'.status \notin Agreed \union {"not_run"}
          /\ acc' \in AccType /\ acc'.progress = acc.progress /\ acc'.folded = acc.folded
      BY <1>1, <1>3, <2>3, StoppedLane DEF Inv
    <3> QED BY <1>0, <2>1, <3>1, HandingOverPreserves
  <2> QED BY <1>6, <2>2, <2>3
<1> QED BY <1>4, <1>5, <1>6, SlotAccepted

LEMMA StutterPreserves == Inv /\ UNCHANGED vars => Inv'
<1> SUFFICES ASSUME Inv, UNCHANGED vars PROVE Inv'
  OBVIOUS
<1>1. Types' /\ Folding' /\ Positions' /\ Ending' /\ Batches'
  BY DEF Inv, Types, Folding, Positions, Ending, Batches, Handed, vars, block
<1>2. Slots'
  BY DEF Inv, Slots, Waiting, LaneOutcomes, vars, block
<1> QED BY <1>1, <1>2 DEF Inv

LEMMA StepPreserves == Inv /\ [Next]_vars => Inv'
<1> SUFFICES ASSUME Inv, [Next]_vars PROVE Inv'
  OBVIOUS
<1>1. CASE Coordinator
  BY <1>1, ClaimDecodedPreserves, BeforeBlockPreserves, IncludedAfterStopPreserves,
     IncludedAtBadBoundaryPreserves, IncludedStagedPreserves, IncludedNotStagedPreserves,
     IncludedSeriallyPreserves, EndOfBlockPreserves, VerifyRejectedPreserves, FinishPreserves,
     FinishCandidatePreserves, CompareBlockPreserves, SubmitPreserves, MovesPreserve,
     UnavailablePreserves, AbortedPreserves, CompletedPreserves, AcceptSlotPreserves,
     FlushedPreserves DEF Coordinator
<1>2. CASE Tasks
  BY <1>2, RunTaskPreserves, DropTaskPreserves DEF Tasks
<1>3. CASE CancelAwait \/ Abandon
  BY <1>3, MovesPreserve, AbandonPreserves
<1>4. CASE UNCHANGED vars
  BY <1>4, StutterPreserves
<1> QED BY <1>1, <1>2, <1>3, <1>4 DEF Next

LEMMA Invariance == Spec => []Inv
BY InitEstablishes, StepPreserves, PTL DEF Spec

-----------------------------------------------------------------------------
(***************************************************************************)
(* The properties of BalDifferential.                                      *)
(***************************************************************************)
\* Schedule and batch_scheduler stay within their bounds, for any number of
\* transactions and slots: no batch has more tasks or accepted slots than it
\* staged.
THEOREM TypeCorrect == Spec => []TypeOK
<1>1. Inv => TypeOK
  BY DEF Inv, Types, TypeOK, BatchType, RunnerType
<1> QED BY <1>1, Invariance, PTL

\* Tasks and coordinator never share a slot: outside batch_scheduler.run no
\* task is alive, and Schedule.stage meets only slots without an outcome.
THEOREM QuiescentOutsideRun == Spec => []BatchIsQuiescent
<1>1. ASSUME Inv, pc \notin InBatch PROVE running = {}
  <2>1. CASE pc = "accepting"
    BY <1>1, <2>1 DEF Inv, Positions
  <2>2. CASE pc # "accepting"
    <3>1. submitted = 0
      BY <1>1, <2>2 DEF Inv, Positions, Flushing
    <3> QED BY <1>1, <3>1 DEF Inv, Types
  <2> QED BY <2>1, <2>2
<1>2. ASSUME Inv, NEW i \in 1 .. MaxInFlight, i > batch.pending_count
      PROVE  batch.slots[i] = EmptySlot
  <2>1. i \notin Waiting
    BY <1>2 DEF Waiting, Inv, Types, BatchType
  <2> QED BY <1>2, <2>1 DEF Inv, Slots
<1>3. ASSUME Inv, NEW i \in 1 .. MaxInFlight, pc \notin Flushing
      PROVE  batch.slots[i].outcome = "none"
  <2>1. CASE i \in Waiting
    BY <1>3, <2>1 DEF Inv, Slots
  <2>2. CASE i \notin Waiting
    BY <1>3, <2>2 DEF Inv, Slots, EmptySlot
  <2> QED BY <2>1, <2>2
<1>4. Inv => BatchIsQuiescent
  BY <1>1, <1>2, <1>3 DEF BatchIsQuiescent, InBatch, Flushing
<1> QED BY <1>4, Invariance, PTL

\* A live runner has lost nothing: what the fold reported to the observer is
\* folded, or staged behind it in order.
THEOREM NothingIsLost == Spec => []StagedFollowsFolded
<1>1. ASSUME Inv, runner.active, pc \in Reports
      PROVE  /\ acc.transaction_count = acc.progress /\ Len(acc.folded) = acc.progress
             /\ next_tx = acc.progress + batch.pending_count
             /\ batch.enabled => batch.expected_progress = next_tx
             /\ \A i \in 1 .. batch.pending_count :
                  batch.slots[i].expected = acc.progress + i - 1
  <2>1. accepted = 0 /\ pc \notin Flushing /\ pc # "accepting" /\ pc # "done"
    BY <1>1 DEF Inv, Positions, Reports, Flushing, InBatch
  <2>2. acc.progress \in Nat /\ batch.pending_count \in 0 .. MaxInFlight
    BY <1>1 DEF Inv, Types, AccType, BatchType
  <2>3. acc.transaction_count = acc.progress /\ Len(acc.folded) = acc.progress
    BY <1>1, <2>2, PrefixGrows DEF Inv, Folding
  <2>4. /\ next_tx = acc.progress + batch.pending_count
        /\ batch.enabled => batch.expected_progress = next_tx
    BY <1>1, <2>1, <2>2 DEF Inv, Positions
  <2>5. ASSUME NEW i \in 1 .. batch.pending_count
        PROVE  batch.slots[i].expected = acc.progress + i - 1
    <3>1. i \in Waiting
      BY <2>1, <2>2, DifferentialConstants DEF Waiting
    <3>2. batch.slots[i].expected = next_tx - batch.pending_count + i - 1
      BY <1>1, <3>1 DEF Inv, Slots
    <3> QED BY <2>2, <2>4, <3>2
  <2> QED BY <2>3, <2>4, <2>5
<1>2. Inv => StagedFollowsFolded
  BY <1>1 DEF StagedFollowsFolded, Reports
<1> QED BY <1>2, Invariance, PTL

LEMMA QuotientIs ==
  ASSUME NEW a \in Nat, NEW q \in Nat, NEW m \in Nat \ {0}, q * m <= a, a < q * m + m
  PROVE  a \div m = q
OBVIOUS

\* A block the report calls matched ran every lane once, in as few batches
\* as the slots allow.
THEOREM MatchedRanEveryLane == Spec => []EveryLaneRan
<1>1. ASSUME Inv, runner.status \in Agreed, batch.enabled
      PROVE  /\ runner.parallel_submitted_lanes = TxCount
             /\ runner.parallel_batches = (TxCount + MaxInFlight - 1) \div MaxInFlight
  <2> DEFINE q == runner.parallel_batches
  <2>1. pc # "accepting" /\ acc.progress = TxCount
    BY <1>1 DEF Inv, Ending, Folding
  <2>2. /\ runner.parallel_submitted_lanes = TxCount
        /\ TxCount <= q * MaxInFlight /\ q * MaxInFlight < TxCount + MaxInFlight
    BY <1>1, <2>1 DEF Inv, Batches, Handed
  <2>3. q \in Nat
    BY <1>1 DEF Inv, Types, RunnerType
  <2> HIDE DEF q
  <2>4. /\ q * MaxInFlight \in Nat /\ TxCount + MaxInFlight - 1 \in Nat
        /\ q * MaxInFlight <= TxCount + MaxInFlight - 1
        /\ TxCount + MaxInFlight - 1 < q * MaxInFlight + MaxInFlight
    BY <2>2, <2>3, DifferentialConstants
  <2>5. (TxCount + MaxInFlight - 1) \div MaxInFlight = q
    BY <2>3, <2>4, QuotientIs, DifferentialConstants
  <2> QED BY <2>2, <2>5 DEF q
<1>2. Inv => EveryLaneRan
  BY <1>1 DEF EveryLaneRan
<1> QED BY <1>2, Invariance, PTL

-----------------------------------------------------------------------------
(***************************************************************************)
(* The schedule implements the check of one transaction after the other.   *)
(***************************************************************************)
\* The result of ClaimCheck that a report stands for.
KindOf(status, c) ==
  IF status \in Agreed THEN "agreed"
  ELSE IF status = "rejection_matched" THEN "rejection_agreed"
  ELSE IF status = "candidate_rejection_mismatch" THEN "rejection_differs"
  ELSE IF status = "unsupported_after_transaction_hooks" THEN "after_hooks"
  ELSE IF status = "candidate_artifact_mismatch"
  THEN IF c = None THEN "artifact_mismatch" ELSE "artifacts_differ"
  ELSE IF status \in {"outcome_mismatch", "claim_not_covered"} THEN status
  ELSE IF status = "not_run" THEN "open"
  ELSE "gave_up"

TxOf(kind, tx) ==
  IF kind \in {"open", "gave_up"} THEN 0 ELSE IF kind = "agreed" THEN TxCount ELSE tx

Finding(status, tx, c) == [kind |-> KindOf(status, c), tx |-> TxOf(KindOf(status, c), tx)]

Mapped == [kind |-> ResultKind, tx |-> ResultTx]
Checked == IF acc.folded = [i \in 1 .. Len(acc.folded) |-> i - 1] THEN Len(acc.folded) ELSE -1

NoVerdict == {"fallback_parallel_runtime", "diagnostic_failure", "claim_import_failed",
              "unsupported_before_transaction_hooks"}

LEMMA MappedIs ==
  /\ Mapped = Finding(runner.status, runner.tx_index, candidate)
  /\ Mapped' = Finding(runner'.status, runner'.tx_index, candidate')
<1>1. ResultKind = KindOf(runner.status, candidate) /\ ResultKind' = KindOf(runner'.status, candidate')
  BY DEF ResultKind, KindOf
<1>2. /\ ResultTx = TxOf(ResultKind, runner.tx_index)
      /\ ResultTx' = TxOf(ResultKind', runner'.tx_index)
  BY DEF ResultTx, TxOf
<1> QED BY <1>1, <1>2 DEF Mapped, Finding

LEMMA FindingIs ==
  ASSUME NEW tx, NEW c
  PROVE  /\ Finding("not_run", tx, c) = [kind |-> "open", tx |-> 0]
         /\ \A status \in NoVerdict : Finding(status, tx, c) = [kind |-> "gave_up", tx |-> 0]
         /\ \A status \in Agreed : Finding(status, tx, c) = [kind |-> "agreed", tx |-> TxCount]
         /\ \A v \in {"outcome_mismatch", "claim_not_covered", "artifact_mismatch", "after_hooks"} :
              Finding(StatusOf(v), tx, None) = [kind |-> v, tx |-> tx]
         /\ Finding("rejection_matched", tx, c) = [kind |-> "rejection_agreed", tx |-> tx]
         /\ Finding("claim_not_covered", tx, c) = [kind |-> "claim_not_covered", tx |-> tx]
         /\ Finding("candidate_rejection_mismatch", tx, c) = [kind |-> "rejection_differs", tx |-> tx]
         /\ c # None => Finding("candidate_artifact_mismatch", tx, c) =
                          [kind |-> "artifacts_differ", tx |-> tx]
<1>1. \A status \in NoVerdict : KindOf(status, c) = "gave_up"
  BY DEF NoVerdict, KindOf, Agreed
<1>2. \A status \in Agreed : KindOf(status, c) = "agreed"
  BY DEF KindOf
<1>3. \A v \in {"outcome_mismatch", "claim_not_covered", "artifact_mismatch", "after_hooks"} :
        KindOf(StatusOf(v), None) = v
  BY DEF KindOf, StatusOf, Agreed
<1>4. /\ KindOf("not_run", c) = "open" /\ KindOf("rejection_matched", c) = "rejection_agreed"
      /\ KindOf("claim_not_covered", c) = "claim_not_covered"
      /\ KindOf("candidate_rejection_mismatch", c) = "rejection_differs"
      /\ c # None => KindOf("candidate_artifact_mismatch", c) = "artifacts_differ"
  BY DEF KindOf, Agreed
<1> QED BY <1>1, <1>2, <1>3, <1>4 DEF Finding, TxOf

LEMMA AgreedMaps ==
  /\ runner.status \in Agreed => Mapped = [kind |-> "agreed", tx |-> TxCount]
  /\ runner'.status \in Agreed => Mapped' = [kind |-> "agreed", tx |-> TxCount]
<1>1. ASSUME NEW status \in Agreed, NEW tx, NEW c
      PROVE  Finding(status, tx, c) = [kind |-> "agreed", tx |-> TxCount]
  BY DEF Finding, KindOf, TxOf
<1>2. runner.status \in Agreed => Mapped = [kind |-> "agreed", tx |-> TxCount]
  BY <1>1, MappedIs
<1>3. runner'.status \in Agreed => Mapped' = [kind |-> "agreed", tx |-> TxCount]
  BY <1>1, MappedIs
<1> QED BY <1>2, <1>3

LEMMA CheckedIs == ASSUME Inv PROVE Checked = acc.progress
<1>1. acc.folded = Prefix(acc.progress) /\ acc.progress \in Nat
  BY DifferentialConstants DEF Inv, Types, AccType, Folding
<1>2. Len(acc.folded) = acc.progress
  BY <1>1, PrefixGrows
<1> QED BY <1>1, <1>2 DEF Checked, Prefix

LEMMA CheckedNextIs == ASSUME Inv' PROVE Checked' = acc'.progress
<1>1. acc'.folded = Prefix(acc'.progress) /\ acc'.progress \in Nat
  BY DifferentialConstants DEF Inv, Types, AccType, Folding
<1>2. Len(acc'.folded) = acc'.progress
  BY <1>1, PrefixGrows
<1> QED BY <1>1, <1>2 DEF Checked, Prefix

\* The steps of ClaimCheck, over the mapped state.
CCStep == [Abstract!CCNext]_(Abstract!ccVars)

LEMMA InitMaps == Init => Abstract!CCInit
<1> SUFFICES ASSUME Init PROVE Abstract!CCInit
  OBVIOUS
<1>1. Mapped = [kind |-> "open", tx |-> 0]
  BY MappedIs, FindingIs DEF Init
<1>2. Checked = 0
  BY InitEstablishes, CheckedIs DEF Init
<1> QED BY <1>1, <1>2 DEF Init, Txs, Abstract!CCInit, Abstract!Open, Mapped, Checked

\* A step that leaves the report and the folds alone is none of ClaimCheck.
LEMMA QuietMaps ==
  ASSUME acc' = acc, runner'.status = runner.status, runner'.tx_index = runner.tx_index,
         UNCHANGED <<block, candidate>>
  PROVE  CCStep
<1>1. Mapped' = Mapped
  BY MappedIs
<1>2. Checked' = Checked
  BY DEF Checked
<1>3. UNCHANGED <<verdict, rejection>>
  BY DEF block
<1> QED BY <1>1, <1>2, <1>3 DEF CCStep, Abstract!ccVars, Mapped, Checked

\* A live runner that gives up.
LEMMA GivingUpMaps ==
  ASSUME Inv, Inv', runner.active, runner'.status \in NoVerdict, acc'.progress = acc.progress,
         UNCHANGED block
  PROVE  CCStep
<1>1. Mapped = [kind |-> "open", tx |-> 0] /\ Mapped' = [kind |-> "gave_up", tx |-> 0]
  <2>1. runner.status = "not_run"
    BY DEF Inv, Folding
  <2>2. Mapped = [kind |-> "open", tx |-> 0]
    BY <2>1, MappedIs, FindingIs
  <2>3. Mapped' = [kind |-> "gave_up", tx |-> 0]
    BY MappedIs, FindingIs
  <2> QED BY <2>2, <2>3
<1>2. Checked' = Checked
  BY CheckedIs, CheckedNextIs
<1>3. UNCHANGED <<verdict, rejection>>
  BY DEF block
<1> QED BY <1>1, <1>2, <1>3
      DEF CCStep, Abstract!CCNext, Abstract!CCGiveUp, Abstract!Open, Abstract!Result, Mapped, Checked

\* A live runner that judges its next transaction.
LEMMA LaneMaps ==
  ASSUME Inv, Inv', runner.active, NEW tx \in Txs, tx = acc.progress,
         Agrees(There, tx) \/ Disagrees(There, tx) \/ GivesUp(There, tx),
         UNCHANGED <<block, candidate>>, candidate = None
  PROVE  CCStep
<1>0. There.acc = acc' /\ There.runner = runner'
  BY DEF There
<1>1. Mapped = [kind |-> "open", tx |-> 0]
  <2>1. runner.status = "not_run"
    BY DEF Inv, Folding
  <2> QED BY <2>1, MappedIs, FindingIs
<1>2. Checked = tx /\ Checked' = acc'.progress /\ tx < TxCount /\ tx \in Nat
  BY CheckedIs, CheckedNextIs, DifferentialConstants DEF Txs
<1>3. UNCHANGED <<verdict, rejection>>
  BY DEF block
<1>4. CASE Agrees(There, tx)
  <2>1. verdict[tx] = "evidence" /\ runner' = runner /\ acc'.progress = tx + 1
    BY <1>0, <1>4 DEF Agrees
  <2>2. Mapped' = Mapped
    BY <2>1, MappedIs
  <2> QED BY <1>1, <1>2, <1>3, <2>1, <2>2
        DEF CCStep, Abstract!CCNext, Abstract!CCAgree, Abstract!Open, Mapped, Checked
<1>5. CASE Disagrees(There, tx)
  <2>1. /\ verdict[tx] \in {"outcome_mismatch", "claim_not_covered", "artifact_mismatch",
                            "after_hooks"}
        /\ StatusOf(verdict[tx]) \in Statuses
        /\ runner' = Stop(runner, StatusOf(verdict[tx]), tx) /\ acc' = acc
    <3>1. verdict[tx] \in {"outcome_mismatch", "claim_not_covered", "artifact_mismatch",
                            "after_hooks"}
      BY <1>5, LaneOutcomesAre DEF Disagrees, Inv
    <3>2. StatusOf(verdict[tx]) \in Statuses
      BY <3>1 DEF StatusOf, Statuses
    <3> QED BY <1>0, <1>5, <3>1, <3>2 DEF Disagrees
  <2>2. runner'.status = StatusOf(verdict[tx]) /\ runner'.tx_index = tx
    <3>1. runner \in RunnerType /\ tx \in Int
      BY <1>2 DEF Inv, Types
    <3> QED BY <2>1, <3>1, StopIs
  <2>3. Mapped' = [kind |-> verdict[tx], tx |-> tx]
    <3>1. Mapped' = Finding(StatusOf(verdict[tx]), tx, None)
      BY <2>2, MappedIs
    <3> QED BY <2>1, <3>1, FindingIs
  <2>4. Checked' = Checked
    BY <1>2, <2>1
  <2> QED BY <1>1, <1>2, <1>3, <2>1, <2>3, <2>4
        DEF CCStep, Abstract!CCNext, Abstract!CCDisagree, Abstract!Open, Abstract!Result,
            Mapped, Checked
<1>6. CASE GivesUp(There, tx)
  <2>1. acc'.progress = acc.progress /\ runner' = Stop(runner, "diagnostic_failure", tx)
    BY <1>0, <1>6 DEF GivesUp
  <2>2. runner'.status \in NoVerdict
    <3>1. runner \in RunnerType /\ tx \in Int /\ "diagnostic_failure" \in Statuses
      BY <1>2 DEF Inv, Types, Statuses
    <3>2. runner'.status = "diagnostic_failure"
      BY <2>1, <3>1, StopIs
    <3> QED BY <3>2 DEF NoVerdict
  <2> QED BY <2>1, <2>2, GivingUpMaps
<1> QED BY <1>4, <1>5, <1>6

\* Actions that leave the report alone.
LEMMA QuietActionsMap ==
  ASSUME Inv, IncludedAfterStop \/ IncludedStaged \/ EndOfBlock \/ Abandon \/ Submit \/ Refuse
              \/ Await \/ CancelAwait \/ Tasks \/ Aborted \/ Flushed \/ Completed \/ UNCHANGED vars
  PROVE  CCStep
<1>1. CASE Completed
  <2>1. runner \in RunnerType /\ batch.pending_count \in 0 .. MaxInFlight
    BY DEF Inv, Types, BatchType
  <2> DEFINE r == RecordBatch(runner, batch.pending_count)
  <2>2. r \in RunnerType /\ r.status = runner.status /\ r.tx_index = runner.tx_index
    BY <2>1, RecordBatchIs
  <2>3. runner' = [r EXCEPT !.parallel_batches = @ + 1]
    BY <1>1 DEF Completed
  <2> HIDE DEF r
  <2>4. runner'.status = runner.status /\ runner'.tx_index = runner.tx_index
    BY <2>2, <2>3 DEF RunnerType
  <2> QED BY <1>1, <2>4, QuietMaps DEF Completed
<1>2. CASE IncludedAfterStop \/ IncludedStaged \/ EndOfBlock \/ Abandon \/ Submit \/ Refuse
  BY <1>2, QuietMaps
     DEF IncludedAfterStop, IncludedStaged, EndOfBlock, Abandon, Submit, Refuse
<1>3. CASE Await \/ CancelAwait \/ Tasks \/ Aborted \/ Flushed
  BY <1>3, QuietMaps DEF Await, CancelAwait, Tasks, RunTask, DropTask, Aborted, Flushed
<1>4. CASE UNCHANGED vars
  BY <1>4, QuietMaps DEF vars
<1> QED BY <1>1, <1>2, <1>3, <1>4

\* Actions of a live runner that give up without a verdict.
LEMMA GivingUpActionsMap ==
  ASSUME Inv, Inv',
         ClaimDecoded \/ BeforeBlock \/ IncludedAtBadBoundary \/ IncludedNotStaged \/ Unavailable
  PROVE  CCStep
<1>0. /\ runner \in RunnerType /\ {"claim_import_failed", "diagnostic_failure"} \subseteq Statuses
      /\ -1 \in Int /\ 0 \in Int /\ next_tx \in Int
      /\ "unsupported_before_transaction_hooks" \in Statuses
  BY DEF Inv, Types, Statuses
<1>1. CASE ClaimDecoded
  <2>1. acc' = acc /\ UNCHANGED <<block, candidate>>
    BY <1>1 DEF ClaimDecoded
  <2>2. CASE runner' = runner
    BY <2>1, <2>2, QuietMaps
  <2>3. CASE runner' = [runner EXCEPT !.parallel_fallback = "lane_storage_unavailable"]
    <3>1. runner'.status = runner.status /\ runner'.tx_index = runner.tx_index
      BY <1>0, <2>3 DEF RunnerType
    <3> QED BY <2>1, <3>1, QuietMaps
  <2>4. CASE \E status \in {"claim_import_failed", "diagnostic_failure"} :
               runner' = Stop(runner, status, -1)
    <3>1. PICK status \in {"claim_import_failed", "diagnostic_failure"} :
            runner' = Stop(runner, status, -1)
      BY <2>4
    <3>2. status \in Statuses /\ status \in NoVerdict
      BY <1>0 DEF NoVerdict
    <3>3. runner'.status = status
      BY <1>0, <3>1, <3>2, StopIs
    <3>4. runner.active
      BY <1>1 DEF ClaimDecoded, Inv, Positions
    <3> QED BY <2>1, <3>2, <3>3, <3>4, GivingUpMaps
  <2> QED BY <1>1, <2>2, <2>3, <2>4 DEF ClaimDecoded
<1>2. CASE BeforeBlock
  <2>1. acc' = acc /\ UNCHANGED <<block, candidate>>
    BY <1>2 DEF BeforeBlock
  <2>2. CASE runner' = runner
    BY <2>1, <2>2, QuietMaps
  <2>3. CASE runner.active /\ runner' = Stop(runner, "diagnostic_failure", 0)
    <3>1. runner'.status = "diagnostic_failure"
      BY <1>0, <2>3, StopIs
    <3>2. runner'.status \in NoVerdict
      BY <3>1 DEF NoVerdict
    <3> QED BY <2>1, <2>3, <3>2, GivingUpMaps
  <2> QED BY <1>2, <2>2, <2>3 DEF BeforeBlock
<1>3. CASE IncludedAtBadBoundary
  <2>1. acc' = acc /\ UNCHANGED block /\ runner.active /\ pc = "observing"
    BY <1>3 DEF IncludedAtBadBoundary, Reporting
  <2>2. next_tx = IF batch.enabled THEN batch.expected_progress ELSE acc.progress
    <3>1. accepted = 0 /\ (~batch.enabled => batch.pending_count = 0)
          /\ next_tx = acc.progress + batch.pending_count - accepted
          /\ (batch.enabled => batch.expected_progress = next_tx)
      BY <2>1 DEF Inv, Types, BatchType, Positions, Flushing, InBatch
    <3>2. acc.progress \in Int
      BY DEF Inv, Types, AccType
    <3> QED BY <3>1, <3>2
  <2>3. runner' = Stop(runner, "unsupported_before_transaction_hooks", next_tx)
    BY <1>3, <2>2 DEF IncludedAtBadBoundary, BoundaryStatus
  <2>4. runner'.status = "unsupported_before_transaction_hooks"
    BY <1>0, <2>3, StopIs
  <2>5. runner'.status \in NoVerdict
    BY <2>4 DEF NoVerdict
  <2> QED BY <2>1, <2>5, GivingUpMaps
<1>4. CASE IncludedNotStaged
  <2>1. /\ acc' = acc /\ UNCHANGED block /\ runner.active
        /\ runner' = StopParallel(runner, "lane_out_of_memory", next_tx)
    BY <1>4 DEF IncludedNotStaged
  <2>2. runner'.status = "fallback_parallel_runtime"
    BY <1>0, <2>1, StopParallelIs
  <2>3. runner'.status \in NoVerdict
    BY <2>2 DEF NoVerdict
  <2> QED BY <2>1, <2>3, GivingUpMaps
<1>5. CASE Unavailable
  <2> DEFINE r == RecordBatch(runner, submitted)
             tx == batch.slots[submitted + 1].expected
  <2>1. acc' = acc /\ UNCHANGED block /\ runner' = StopParallel(r, "concurrency_unavailable", tx)
        /\ pc = "cancelling"
    BY <1>5 DEF Unavailable
  <2>2. submitted < batch.pending_count /\ runner.active
    BY <2>1 DEF Inv, Positions, InBatch
  <2>3. submitted \in 0 .. MaxInFlight /\ submitted + 1 \in 1 .. MaxInFlight
    BY <2>2, DifferentialConstants, SMTT(30) DEF Inv, Types, BatchType
  <2>4. r \in RunnerType
    BY <1>0, <2>3, RecordBatchIs
  <2>5. tx \in Int
    BY <2>3 DEF Inv, Types, BatchType
  <2> HIDE DEF r, tx
  <2>6. runner'.status = "fallback_parallel_runtime"
    BY <2>1, <2>4, <2>5, StopParallelIs
  <2>7. runner'.status \in NoVerdict
    BY <2>6 DEF NoVerdict
  <2> QED BY <2>1, <2>2, <2>7, GivingUpMaps
<1> QED BY <1>1, <1>2, <1>3, <1>4, <1>5

\* A live runner after the last transaction has checked the whole block.
LEMMA WholeBlockChecked ==
  ASSUME Inv, runner.active, pc \in {"rejecting", "finishing"}
  PROVE  acc.progress = TxCount /\ Checked = TxCount /\ runner.status = "not_run"
<1>1. batch.pending_count = 0 /\ accepted = 0 /\ next_tx = TxCount
  BY DEF Inv, Types, BatchType, Positions, Ending, Flushing, InBatch
<1>2. next_tx = acc.progress + batch.pending_count - accepted /\ acc.progress \in Int
  BY DEF Inv, Types, AccType, Positions
<1>3. acc.progress = TxCount
  BY <1>1, <1>2
<1> QED BY <1>3, CheckedIs DEF Inv, Folding

LEMMA VerifyRejectedMaps == ASSUME Inv, Inv', VerifyRejected PROVE CCStep
<1>0. /\ pc = "rejecting" /\ acc' = acc /\ UNCHANGED <<block, candidate>>
      /\ runner \in RunnerType /\ TxCount \in Int
  BY DifferentialConstants DEF VerifyRejected, Inv, Types
<1>1. CASE ~runner.active
  BY <1>0, <1>1, QuietMaps DEF VerifyRejected
<1>2. CASE runner.active
  <2>1. acc.progress = TxCount /\ Checked = TxCount /\ runner.status = "not_run"
    BY <1>0, <1>2, WholeBlockChecked
  <2>2. PICK status \in RejectionStatuses : runner' = Stop(runner, status, TxCount)
    BY <1>2 DEF VerifyRejected
  <2>3. status \in {JudgedRejection, "unsupported_before_transaction_hooks", "diagnostic_failure"}
    BY <2>2 DEF RejectionStatuses
  <2>4. JudgedRejection \in {"rejection_matched", "claim_not_covered", "candidate_rejection_mismatch"}
    BY DEF JudgedRejection
  <2>5. status \in Statuses
    BY <2>3, <2>4 DEF Statuses
  <2>6. runner'.status = status /\ runner'.tx_index = TxCount
    BY <1>0, <2>2, <2>5, StopIs
  <2>7. CASE status \in {"unsupported_before_transaction_hooks", "diagnostic_failure"}
    <3>1. runner'.status \in NoVerdict
      BY <2>6, <2>7 DEF NoVerdict
    <3> QED BY <1>0, <1>2, <3>1, GivingUpMaps
  <2>8. CASE status = JudgedRejection
    <3>1. rejection \in {"matches", "differs", "not_covered"}
      BY <1>0 DEF Inv, Types, Ending
    <3>2. Mapped = [kind |-> "open", tx |-> 0]
      BY <2>1, MappedIs, FindingIs
    <3>3. Mapped' = [kind |-> Abstract!Conclusion, tx |-> TxCount]
      <4>1. Mapped' = Finding(JudgedRejection, TxCount, candidate')
        BY <2>6, <2>8, MappedIs
      <4>2. CASE rejection = "matches"
        <5>1. JudgedRejection = "rejection_matched" /\ Abstract!Conclusion = "rejection_agreed"
          BY <2>1, <4>2 DEF JudgedRejection, Abstract!Conclusion
        <5> QED BY <4>1, <5>1, FindingIs
      <4>3. CASE rejection = "differs"
        <5>1. JudgedRejection = "candidate_rejection_mismatch"
              /\ Abstract!Conclusion = "rejection_differs"
          BY <2>1, <4>3 DEF JudgedRejection, Abstract!Conclusion
        <5> QED BY <4>1, <5>1, FindingIs
      <4>4. CASE rejection = "not_covered"
        <5>1. JudgedRejection = "claim_not_covered" /\ Abstract!Conclusion = "claim_not_covered"
          BY <2>1, <4>4 DEF JudgedRejection, Abstract!Conclusion
        <5> QED BY <4>1, <5>1, FindingIs
      <4> QED BY <3>1, <4>2, <4>3, <4>4
    <3>4. Checked' = Checked /\ UNCHANGED <<verdict, rejection>>
      BY <1>0 DEF Checked, block
    <3> QED BY <2>1, <3>2, <3>3, <3>4
          DEF CCStep, Abstract!CCNext, Abstract!CCConclude, Abstract!Open, Abstract!Result,
              Mapped, Checked
  <2> QED BY <2>3, <2>7, <2>8
<1> QED BY <1>1, <1>2

LEMMA FinishMaps == ASSUME Inv, Inv', Finish PROVE CCStep
<1>0. /\ pc = "finishing" /\ acc' = acc /\ UNCHANGED <<block, candidate>>
      /\ runner \in RunnerType
      /\ runner' = [runner EXCEPT !.status = IF runner.active THEN "outcomes_matched" ELSE @,
                                  !.active = FALSE]
  BY DEF Finish, Inv, Types
<1>1. CASE ~runner.active
  <2>1. runner'.status = runner.status /\ runner'.tx_index = runner.tx_index
    BY <1>0, <1>1 DEF RunnerType
  <2> QED BY <1>0, <2>1, QuietMaps
<1>2. CASE runner.active
  <2>1. acc.progress = TxCount /\ Checked = TxCount /\ runner.status = "not_run"
    BY <1>0, <1>2, WholeBlockChecked
  <2>2. runner'.status = "outcomes_matched" /\ "outcomes_matched" \in Agreed
    BY <1>0, <1>2 DEF RunnerType, Agreed
  <2>3. Mapped = [kind |-> "open", tx |-> 0]
    BY <2>1, MappedIs, FindingIs
  <2>4. Mapped' = [kind |-> "agreed", tx |-> TxCount]
    BY <2>2, AgreedMaps
  <2>5. rejection = "none"
    BY <1>0 DEF Inv, Ending
  <2>6. Checked' = Checked /\ UNCHANGED <<verdict, rejection>>
    BY <1>0 DEF Checked, block
  <2> QED BY <2>1, <2>3, <2>4, <2>5, <2>6
        DEF CCStep, Abstract!CCNext, Abstract!CCConclude, Abstract!Conclusion, Abstract!Open,
            Abstract!Result, Mapped, Checked
<1> QED BY <1>1, <1>2

LEMMA FinishCandidateMaps == ASSUME Inv, Inv', FinishCandidate PROVE CCStep
<1>0. /\ pc = "finished" /\ acc' = acc /\ UNCHANGED block /\ candidate = None
      /\ runner \in RunnerType /\ acc.transaction_count \in Int
  BY DEF FinishCandidate, Inv, Types, AccType, Ending
<1>1. Checked' = Checked /\ UNCHANGED <<verdict, rejection>>
  BY <1>0 DEF Checked, block
<1>2. CASE runner' = runner /\ runner.status # "outcomes_matched"
  BY <1>0, <1>2, QuietMaps DEF FinishCandidate
<1>3. CASE runner.status = "outcomes_matched"
  <2>1. Mapped = [kind |-> "agreed", tx |-> TxCount]
    <3>1. runner.status \in Agreed
      BY <1>3 DEF Agreed
    <3> QED BY <3>1, AgreedMaps
  <2>2. CASE runner' = runner
    <3>1. Mapped' = [kind |-> "agreed", tx |-> TxCount]
      <4>1. runner'.status \in Agreed
        BY <1>3, <2>2 DEF Agreed
      <4> QED BY <4>1, AgreedMaps
    <3> QED BY <1>1, <2>1, <3>1 DEF CCStep, Abstract!ccVars, Mapped, Checked
  <2>3. CASE runner' = Stop(runner, "diagnostic_failure", acc.transaction_count)
    <3>1. runner'.status = "diagnostic_failure"
      <4>1. "diagnostic_failure" \in Statuses
        BY DEF Statuses
      <4> QED BY <1>0, <2>3, <4>1, StopIs
    <3>2. Mapped' = [kind |-> "gave_up", tx |-> 0]
      <4>1. runner'.status \in NoVerdict
        BY <3>1 DEF NoVerdict
      <4> QED BY <4>1, MappedIs, FindingIs, SMTT(30)
    <3> QED BY <1>1, <2>1, <3>2
          DEF CCStep, Abstract!CCNext, Abstract!CCGiveUp, Abstract!Result, Mapped, Checked
  <2> QED BY <2>2, <2>3 DEF FinishCandidate
<1> QED BY <1>2, <1>3 DEF FinishCandidate

LEMMA CompareBlockMaps == ASSUME Inv, Inv', CompareBlock PROVE CCStep
<1>0. /\ pc = "comparing" /\ acc' = acc /\ UNCHANGED <<block, candidate>>
      /\ runner \in RunnerType
  BY DEF CompareBlock, Inv, Types
<1>1. CASE runner' = runner
  BY <1>0, <1>1, QuietMaps
<1>2. CASE runner' # runner
  <2>0. /\ candidate # None
        /\ \/ runner' = [runner EXCEPT !.status = "candidate_artifact_mismatch",
                                       !.tx_index = TxCount]
           \/ runner' = [runner EXCEPT !.status = "matched"]
           \/ runner' = [runner EXCEPT !.status = "candidate_matched"]
    BY <1>2 DEF CompareBlock
  <2>1. Mapped = [kind |-> "agreed", tx |-> TxCount]
    <3>1. runner.status = "outcomes_matched"
      BY <1>0, <2>0 DEF Inv, Ending
    <3>2. runner.status \in Agreed
      BY <3>1 DEF Agreed
    <3> QED BY <3>2, AgreedMaps
  <2>2. Checked' = Checked /\ UNCHANGED <<verdict, rejection>>
    BY <1>0 DEF Checked, block
  <2>3. CASE runner' = [runner EXCEPT !.status = "candidate_artifact_mismatch", !.tx_index = TxCount]
    <3>1. runner'.status = "candidate_artifact_mismatch" /\ runner'.tx_index = TxCount
      BY <1>0, <2>3 DEF RunnerType
    <3>2. candidate' # None
      BY <1>0, <2>0
    <3>3. Mapped' = [kind |-> "artifacts_differ", tx |-> TxCount]
      BY <3>1, <3>2, MappedIs, FindingIs
    <3> QED BY <2>1, <2>2, <3>3
          DEF CCStep, Abstract!CCNext, Abstract!CCFinal, Abstract!Result, Mapped, Checked
  <2>4. CASE runner' = [runner EXCEPT !.status = "matched"]
             \/ runner' = [runner EXCEPT !.status = "candidate_matched"]
    <3>1. runner'.status \in Agreed
      BY <1>0, <2>4 DEF RunnerType, Agreed
    <3>2. Mapped' = [kind |-> "agreed", tx |-> TxCount]
      BY <3>1, AgreedMaps
    <3> QED BY <2>1, <2>2, <3>2 DEF CCStep, Abstract!ccVars, Mapped, Checked
  <2> QED BY <2>0, <2>3, <2>4
<1> QED BY <1>1, <1>2

LEMMA IncludedSeriallyMaps == ASSUME Inv, Inv', IncludedSerially PROVE CCStep
<1>0. /\ pc = "observing" /\ next_tx < TxCount /\ runner.active /\ ~batch.enabled
      /\ UNCHANGED <<block, candidate>>
  BY DEF IncludedSerially, Reporting
<1>1. candidate = None
  BY <1>0 DEF Inv, Ending
<1>2. next_tx = acc.progress /\ next_tx \in Txs
  <2>1. batch.pending_count = 0 /\ accepted = 0
    BY <1>0 DEF Inv, Types, BatchType, Positions, Flushing, InBatch
  <2>2. next_tx = acc.progress + batch.pending_count - accepted
    BY <1>0 DEF Inv, Positions
  <2> QED BY <1>0, <2>1, <2>2, DifferentialConstants DEF Inv, Types, AccType, Txs
<1>3. PICK outcome \in LaneOutcomes(next_tx), failing \in FailingAcceptance :
        LET s == AcceptOutcome(Here, next_tx, outcome, failing)
        IN  runner' = s.runner /\ acc' = s.acc
  BY DEF IncludedSerially, Here
<1> DEFINE s == AcceptOutcome(Here, next_tx, outcome, failing)
<1>4. Agrees(s, next_tx) \/ Disagrees(s, next_tx) \/ GivesUp(s, next_tx)
  <2>1. Types /\ Folding
    BY DEF Inv
  <2> QED BY <1>0, <1>2, <2>1, OutcomeAccepted
<1>5. runner' = s.runner /\ acc' = s.acc
  BY <1>3
<1>6. There.acc = acc' /\ There.runner = runner'
  BY DEF There
<1> HIDE DEF s
<1>7. Agrees(There, next_tx) \/ Disagrees(There, next_tx) \/ GivesUp(There, next_tx)
  BY <1>4, <1>5, <1>6 DEF Agrees, Disagrees, GivesUp
<1> QED BY <1>0, <1>1, <1>2, <1>7, LaneMaps

LEMMA AcceptSlotMaps == ASSUME Inv, Inv', AcceptSlot PROVE CCStep
<1> DEFINE tx == batch.slots[accepted + 1].expected
<1>0. /\ pc = "accepting" /\ accepted < batch.pending_count
      /\ UNCHANGED <<block, candidate>>
  BY DEF AcceptSlot
<1>1. candidate = None
  BY <1>0 DEF Inv, Ending
<1>2. tx \in Txs /\ (runner.active => tx = acc.progress)
  BY <1>0, SlotHasTransaction
<1>3. \/ ~runner.active /\ runner' = runner /\ acc' = acc
      \/ runner.active /\ runner' = StopParallel(runner, "lane_out_of_memory", tx) /\ acc' = acc
      \/ /\ runner.active
         /\ Agrees(There, tx) \/ Disagrees(There, tx) \/ GivesUp(There, tx)
  BY SlotAccepted
<1> HIDE DEF tx
<1>4. CASE runner' = runner /\ acc' = acc
  BY <1>0, <1>4, QuietMaps
<1>5. CASE runner.active /\ runner' = StopParallel(runner, "lane_out_of_memory", tx) /\ acc' = acc
  <2>1. runner \in RunnerType /\ tx \in Int
    BY <1>2, DifferentialConstants DEF Inv, Types, Txs
  <2>2. runner'.status = "fallback_parallel_runtime"
    BY <1>5, <2>1, StopParallelIs
  <2>3. runner'.status \in NoVerdict
    BY <2>2 DEF NoVerdict
  <2> QED BY <1>0, <1>5, <2>3, GivingUpMaps
<1>6. CASE runner.active /\ (Agrees(There, tx) \/ Disagrees(There, tx) \/ GivesUp(There, tx))
  BY <1>0, <1>1, <1>2, <1>6, LaneMaps
<1> QED BY <1>3, <1>4, <1>5, <1>6

\* Whatever order the lanes complete in, the report is that of ClaimCheck,
\* which checks the transactions one by one: the schedule, the joins and the
\* fallbacks of eth/bal/differential refine it, step by step.
THEOREM ImplementsSequentialCheck == Spec => ImplementsClaimCheck
<1>1. ASSUME Inv, Inv', [Next]_vars PROVE [Abstract!CCNext]_(Abstract!ccVars)
  <2>1. CASE Coordinator
    BY <1>1, <2>1, QuietActionsMap, GivingUpActionsMap, VerifyRejectedMaps, FinishMaps,
       FinishCandidateMaps, CompareBlockMaps, IncludedSeriallyMaps, AcceptSlotMaps
       DEF Coordinator, CCStep
  <2>2. CASE Tasks \/ CancelAwait \/ Abandon \/ UNCHANGED vars
    BY <1>1, <2>2, QuietActionsMap DEF CCStep
  <2> QED BY <1>1, <2>1, <2>2 DEF Next
<1>2. Init /\ [][Next]_vars /\ []Inv => Abstract!CCInit /\ [][Abstract!CCNext]_(Abstract!ccVars)
  BY <1>1, InitMaps, PTL
<1> QED BY <1>2, Invariance, PTL DEF Spec, ImplementsClaimCheck, Abstract!CCSpec

=============================================================================
