-------------------------- MODULE BalDifferential --------------------------
(***************************************************************************)
(* The differential check of a block access list claim: the observer calls *)
(* of the serial block fold (eth/block_stf.zig), the runner, the           *)
(* accumulator and the schedule of eth/bal/differential, and the tasks     *)
(* that io/batch_scheduler.zig submits and joins.  The coordinator is one  *)
(* thread; `pc` says where it is.  Tasks run only between their submission *)
(* and the join of their batch, each over its own slot.                    *)
(*                                                                         *)
(* What one lane finds out about its transaction is an input, `verdict`.   *)
(* Block progress is counted in transactions.                              *)
(***************************************************************************)
EXTENDS Integers, Sequences

CONSTANTS
    TxCount,        \* transactions the authoritative fold includes
    Verdicts,       \* outcomes of lanes and of their acceptance
    MaxInFlight,    \* slots of the schedule
    Submission,     \* "async" or "concurrent"
    Parallel,       \* FALSE: no parallel resources, every lane runs serially
    HookPlans,      \* sets of transactions that may have system calls before them
    Faults          \* TRUE: allocations and readers may fail

ASSUME DifferentialConstants ==
    /\ TxCount \in Nat
    /\ Verdicts \subseteq {"evidence", "outcome_mismatch", "claim_not_covered",
                           "artifact_mismatch", "after_hooks"}
    /\ MaxInFlight \in Nat \ {0}
    /\ Submission \in {"async", "concurrent"}
    /\ Parallel \in BOOLEAN /\ Faults \in BOOLEAN

VARIABLES
    before_hooks,    \* the block's transactions with system calls before them
    verdict,        \* what the lane of each transaction finds
    rejection,      \* "none", or how the claim judges the refused transaction
    next_tx,        \* the next transaction the fold reports
    pc,             \* where the coordinator is
    resume,         \* where it goes on after a flush
    batch,          \* Schedule: slots, pending_count, expected_progress, enabled
    running,        \* slots whose task was submitted and has not ended
    submitted,      \* tasks of the batch submitted so far
    accepted,       \* slots of the batch handed over so far
    runner,         \* active, and the Report it fills in
    acc,            \* Accumulator: transaction_count, progress, folded
    candidate       \* the candidate's artifacts: what was folded, or None

block == <<before_hooks, verdict, rejection>>
vars == <<block, next_tx, pc, resume, batch, running, submitted, accepted, runner, acc, candidate>>

Txs == 0 .. TxCount - 1
None == <<-1>>      \* no artifacts: no block folds to this
EmptySlot == [expected |-> -1, outcome |-> "none"]
EmptySlots == [i \in 1 .. MaxInFlight |-> EmptySlot]

Init ==
    /\ before_hooks \in HookPlans
    /\ verdict \in [Txs -> Verdicts]
    /\ rejection \in {"none", "matches", "differs", "not_covered"}
    /\ next_tx = 0
    /\ pc = "starting"
    /\ resume = "observing"
    /\ batch = [slots |-> EmptySlots, pending_count |-> 0,
                expected_progress |-> 0, enabled |-> Parallel]
    /\ running = {}
    /\ submitted = 0
    /\ accepted = 0
    /\ runner = [active |-> TRUE, status |-> "not_run", tx_index |-> -1,
                 parallel_fallback |-> "none", parallel_batches |-> 0,
                 parallel_submitted_lanes |-> 0, parallel_max_batch_size |-> 0]
    /\ acc = [transaction_count |-> 0, progress |-> 0, folded |-> <<>>]
    /\ candidate = None

-----------------------------------------------------------------------------
(* Runner: status                                                          *)

Stop(r, status, tx) ==
    [r EXCEPT !.status = status, !.tx_index = tx, !.active = FALSE]

StopParallel(r, reason, tx) ==
    [Stop(r, "fallback_parallel_runtime", tx) EXCEPT
        !.parallel_fallback = IF @ = "none" THEN reason ELSE @]

Discarded(b, progress) ==
    [b EXCEPT !.slots = [i \in 1 .. MaxInFlight |->
                            IF i <= b.pending_count THEN EmptySlot ELSE b.slots[i]],
              !.pending_count = 0,
              !.expected_progress = progress]

Disabled(b) == [b EXCEPT !.enabled = FALSE]

\* A lane may fail, for want of memory or otherwise, instead of reaching its
\* verdict.
LaneOutcomes(tx) ==
    {verdict[tx]} \cup IF Faults THEN {"out_of_memory", "failed"} ELSE {}

-----------------------------------------------------------------------------
(* Accumulator and acceptance, over the record s of acc, runner and batch  *)

\* The accounting checks come before the count, the folds and their
\* allocations after it; progress moves last.
Accept(s, tx, failing) ==
    LET counted == [s EXCEPT !.acc.transaction_count = @ + 1]
    IN  IF verdict[tx] = "artifact_mismatch" \/ s.acc.progress + 1 # tx + 1
        THEN [s EXCEPT !.runner = Stop(@, "candidate_artifact_mismatch", tx)]
        ELSE IF verdict[tx] = "after_hooks"
        THEN [s EXCEPT !.runner = Stop(@, "unsupported_after_transaction_hooks", tx)]
        ELSE IF tx # s.acc.transaction_count
        THEN [s EXCEPT !.runner = Stop(@, "diagnostic_failure", tx)]
        ELSE IF tx = failing
        THEN [counted EXCEPT !.runner = Stop(@, "diagnostic_failure", tx)]
        ELSE [counted EXCEPT !.acc.progress = @ + 1,
                             !.acc.folded = Append(@, tx)]

AcceptOutcome(s, tx, outcome, failing) ==
    IF ~s.runner.active THEN s
    ELSE IF outcome \in {"outcome_mismatch", "claim_not_covered"}
    THEN [s EXCEPT !.runner = Stop(@, outcome, tx)]
    ELSE IF outcome \in {"out_of_memory", "failed"}
    THEN [s EXCEPT !.runner = Stop(@, "diagnostic_failure", tx)]
    ELSE Accept(s, tx, failing)

\* Mutant: a lane that ran out of memory is skipped.
SkippingLane(s, tx, outcome, failing) ==
    IF outcome = "out_of_memory" THEN s
    ELSE AcceptOutcome(s, tx, outcome, failing)

AcceptLaneOutcome(s, tx, outcome, failing) ==
    IF s.runner.active /\ outcome = "out_of_memory"
    THEN [s EXCEPT !.runner = StopParallel(@, "lane_out_of_memory", tx),
                   !.batch = Disabled(@)]
    ELSE AcceptOutcome(s, tx, outcome, failing)

\* Which acceptance runs out of memory, -1 for none.
FailingAcceptance == {-1} \cup IF Faults THEN Txs ELSE {}

-----------------------------------------------------------------------------
(* The observer calls of the block fold                                    *)

\* Mutant: the batch is flushed at the end of the block only.
NeverFull(b) == FALSE

IsFull(b) == b.pending_count = MaxInFlight

\* flushPending, then k.
FlushThen(k, b) ==
    IF b.enabled /\ b.pending_count > 0
    THEN pc' = "submitting" /\ resume' = k
    ELSE pc' = k /\ UNCHANGED resume

\* Mutant: the boundary expected next is left behind.
StageWithoutBoundary(b, tx) ==
    [b EXCEPT !.slots[b.pending_count + 1].expected = tx,
              !.pending_count = @ + 1]

Stage(b, tx) ==
    [b EXCEPT !.slots[b.pending_count + 1].expected = tx,
              !.pending_count = @ + 1,
              !.expected_progress = tx + 1]

BoundaryStatus(tx, expected) ==
    IF expected # tx THEN "candidate_artifact_mismatch"
    ELSE IF tx \in before_hooks THEN "unsupported_before_transaction_hooks"
    ELSE "valid"

\* claimDecoded: a claim that cannot be imported leaves no runner, and
\* without slots the lanes run serially.
ClaimDecoded ==
    /\ pc = "starting"
    /\ \/ UNCHANGED <<batch, runner>>
       \/ /\ Faults
          /\ \E status \in {"claim_import_failed", "diagnostic_failure"} :
                runner' = Stop(runner, status, -1)
          /\ UNCHANGED batch
       \/ /\ Faults /\ Parallel
          /\ runner' = [runner EXCEPT !.parallel_fallback = "lane_storage_unavailable"]
          /\ batch' = Disabled(batch)
    /\ pc' = "before_block"
    /\ UNCHANGED <<block, next_tx, resume, running, submitted, accepted, acc, candidate>>

BeforeBlock ==
    /\ pc = "before_block"
    /\ \/ UNCHANGED runner
       \/ /\ Faults /\ runner.active
          /\ runner' = Stop(runner, "diagnostic_failure", 0)
    /\ pc' = "observing"
    /\ UNCHANGED <<block, next_tx, resume, batch, running, submitted, accepted, acc,
                   candidate>>

Reporting == pc = "observing" /\ next_tx < TxCount /\ next_tx' = next_tx + 1

IncludedAfterStop ==
    /\ Reporting
    /\ ~runner.active
    /\ UNCHANGED <<block, pc, resume, batch, running, submitted, accepted, runner, acc, candidate>>

\* A boundary the candidate cannot follow drops what is staged.
IncludedAtBadBoundary ==
    /\ Reporting
    /\ runner.active
    /\ LET status == BoundaryStatus(next_tx, IF batch.enabled THEN batch.expected_progress
                                                             ELSE acc.progress)
       IN  /\ status # "valid"
           /\ runner' = Stop(runner, status, next_tx)
    /\ batch' = IF batch.enabled THEN Discarded(batch, acc.progress) ELSE batch
    /\ UNCHANGED <<block, pc, resume, running, submitted, accepted, acc, candidate>>

IncludedStaged ==
    /\ Reporting
    /\ runner.active /\ batch.enabled
    /\ BoundaryStatus(next_tx, batch.expected_progress) = "valid"
    /\ batch' = Stage(batch, next_tx)
    /\ IF IsFull(batch') THEN FlushThen("observing", batch')
                         ELSE UNCHANGED <<pc, resume>>
    /\ UNCHANGED <<block, running, submitted, accepted, runner, acc, candidate>>

\* The copy of the included transaction cannot be allocated.
IncludedNotStaged ==
    /\ Reporting
    /\ Faults
    /\ runner.active /\ batch.enabled
    /\ BoundaryStatus(next_tx, batch.expected_progress) = "valid"
    /\ batch' = Disabled(Discarded(batch, acc.progress))
    /\ runner' = StopParallel(runner, "lane_out_of_memory", next_tx)
    /\ UNCHANGED <<block, pc, resume, running, submitted, accepted, acc, candidate>>

\* verifyIncludedSerial: the lane runs on the coordinator.
IncludedSerially ==
    /\ Reporting
    /\ runner.active /\ ~batch.enabled
    /\ BoundaryStatus(next_tx, acc.progress) = "valid"
    /\ \E outcome \in LaneOutcomes(next_tx), failing \in FailingAcceptance :
          LET s == AcceptOutcome([acc |-> acc, runner |-> runner, batch |-> batch],
                                 next_tx, outcome, failing)
          IN  runner' = s.runner /\ acc' = s.acc
    /\ UNCHANGED <<block, pc, resume, batch, running, submitted, accepted, candidate>>

\* observer.rejected and observer.finish flush first.
EndOfBlock ==
    /\ pc = "observing" /\ next_tx = TxCount
    /\ FlushThen(IF rejection = "none" THEN "finishing" ELSE "rejecting", batch)
    /\ UNCHANGED <<block, next_tx, batch, running, submitted, accepted, runner, acc, candidate>>

JudgedRejection ==
    IF acc.progress = TxCount /\ rejection = "matches" THEN "rejection_matched"
    ELSE IF acc.progress = TxCount /\ rejection = "not_covered" THEN "claim_not_covered"
    ELSE "candidate_rejection_mismatch"

\* Only a transaction refused for its blob gas is judged before its hooks.
RejectionStatuses ==
    {JudgedRejection}
        \cup (IF TxCount \in before_hooks THEN {"unsupported_before_transaction_hooks"}
                                        ELSE {})
        \cup (IF Faults THEN {"diagnostic_failure"} ELSE {})

VerifyRejected ==
    /\ pc = "rejecting"
    /\ \E status \in RejectionStatuses :
          runner' = IF runner.active THEN Stop(runner, status, TxCount) ELSE runner
    /\ pc' = "done"
    /\ UNCHANGED <<block, next_tx, resume, batch, running, submitted, accepted, acc, candidate>>

Finish ==
    /\ pc = "finishing"
    /\ runner' = [runner EXCEPT !.status = IF runner.active THEN "outcomes_matched" ELSE @,
                                !.active = FALSE]
    /\ pc' = "finished"
    /\ UNCHANGED <<block, next_tx, resume, batch, running, submitted, accepted, acc, candidate>>

\* Block-final work fails too when the claim does not cover what it reads.
FinishCandidate ==
    /\ pc = "finished"
    /\ \/ /\ candidate' = IF runner.status = "outcomes_matched" THEN acc.folded ELSE None
          /\ UNCHANGED runner
       \/ /\ runner.status = "outcomes_matched"
          /\ runner' = Stop(runner, "diagnostic_failure", acc.transaction_count)
          /\ UNCHANGED candidate
    /\ pc' = "comparing"
    /\ UNCHANGED <<block, next_tx, resume, batch, running, submitted, accepted, acc>>

\* compareBlock: exact (final work agreed) and the claim may match or not.
CompareBlock ==
    /\ pc = "comparing"
    /\ \E exact \in BOOLEAN, claim \in BOOLEAN :
          runner' = IF candidate = None THEN runner
                    ELSE IF ~exact \/ candidate # [i \in 1 .. TxCount |-> i - 1]
                    THEN [runner EXCEPT !.status = "candidate_artifact_mismatch",
                                        !.tx_index = TxCount]
                    ELSE [runner EXCEPT !.status = IF claim THEN "matched"
                                                            ELSE "candidate_matched"]
    /\ pc' = "done"
    /\ UNCHANGED <<block, next_tx, resume, batch, running, submitted, accepted, acc, candidate>>

\* The fold returns early (an invalid witness, a failed system call, an
\* error of its own): the observer is released with what it has staged.
Abandon ==
    /\ pc \in {"before_block", "observing", "finished", "comparing"}
    /\ batch' = Discarded(batch, batch.expected_progress)
    /\ pc' = "done"
    /\ UNCHANGED <<block, next_tx, resume, running, submitted, accepted, runner, acc, candidate>>

-----------------------------------------------------------------------------
(* One batch: submit, join, hand over                                      *)

\* Mutant: a batch counts as full.
RecordSlots(r, n) ==
    [r EXCEPT !.parallel_submitted_lanes = @ + MaxInFlight,
              !.parallel_max_batch_size = IF n > @ THEN n ELSE @]

RecordBatch(r, n) ==
    [r EXCEPT !.parallel_submitted_lanes = @ + n,
              !.parallel_max_batch_size = IF n > @ THEN n ELSE @]

Submit ==
    /\ pc = "submitting" /\ submitted < batch.pending_count
    /\ running' = running \cup {submitted + 1}
    /\ submitted' = submitted + 1
    /\ UNCHANGED <<block, next_tx, pc, resume, batch, accepted, runner, acc, candidate>>

\* group.concurrent fails: the group is cancelled, which joins it.
Refuse ==
    /\ pc = "submitting" /\ submitted < batch.pending_count
    /\ Submission = "concurrent"
    /\ pc' = "cancelling"
    /\ UNCHANGED <<block, next_tx, resume, batch, running, submitted, accepted, runner, acc, candidate>>

Await ==
    /\ pc = "submitting" /\ submitted = batch.pending_count
    /\ pc' = "joining"
    /\ UNCHANGED <<block, next_tx, resume, batch, running, submitted, accepted, runner, acc, candidate>>

\* The runtime asks the coordinator to stop; the await cancels the group.
CancelAwait ==
    /\ pc = "joining"
    /\ pc' = "aborting"
    /\ UNCHANGED <<block, next_tx, resume, batch, running, submitted, accepted, runner, acc, candidate>>

RunTask(i) ==
    /\ i \in running
    /\ \E outcome \in LaneOutcomes(batch.slots[i].expected) :
          batch' = [batch EXCEPT !.slots[i].outcome = outcome]
    /\ running' = running \ {i}
    /\ UNCHANGED <<block, next_tx, pc, resume, submitted, accepted, runner, acc, candidate>>

\* A cancelled group may drop a task that did not start.
DropTask(i) ==
    /\ i \in running
    /\ pc \in {"cancelling", "aborting"}
    /\ running' = running \ {i}
    /\ UNCHANGED <<block, next_tx, pc, resume, batch, submitted, accepted, runner, acc, candidate>>

\* Mutant: a group that was refused a task is not waited for.
JoinedUnlessCancelled == running = {} \/ pc = "cancelling"

\* Mutant: the join waits for results, which dropped tasks never write.
JoinedByResults ==
    \A i \in 1 .. submitted : batch.slots[i].outcome # "none"

Joined == running = {}

\* flushPending when the runtime cannot overlap the batch.
Unavailable ==
    /\ pc = "cancelling" /\ Joined
    /\ runner' = StopParallel(RecordBatch(runner, submitted), "concurrency_unavailable",
                              batch.slots[submitted + 1].expected)
    /\ batch' = Disabled(Discarded(batch, acc.progress))
    /\ submitted' = 0
    /\ pc' = resume
    /\ UNCHANGED <<block, next_tx, resume, running, accepted, acc, candidate>>

\* error.Canceled leaves flush and the whole block fold.
Aborted ==
    /\ pc = "aborting" /\ Joined
    /\ batch' = Discarded(batch, acc.progress)
    /\ submitted' = 0
    /\ pc' = "done"
    /\ UNCHANGED <<block, next_tx, resume, running, accepted, runner, acc, candidate>>

Completed ==
    /\ pc = "joining" /\ Joined
    /\ runner' = [RecordBatch(runner, batch.pending_count) EXCEPT !.parallel_batches = @ + 1]
    /\ pc' = "accepting"
    /\ UNCHANGED <<block, next_tx, resume, batch, running, submitted, accepted, acc,
                   candidate>>

\* The results go to the runner in slot order; each slot is then reset.
AcceptSlot ==
    /\ pc = "accepting" /\ accepted < batch.pending_count
    /\ LET slot == batch.slots[accepted + 1]
       IN  \E failing \in FailingAcceptance :
              LET s == AcceptLaneOutcome([acc |-> acc, runner |-> runner, batch |-> batch],
                                         slot.expected, slot.outcome, failing)
              IN  /\ runner' = s.runner
                  /\ acc' = s.acc
                  /\ batch' = [s.batch EXCEPT !.slots[accepted + 1] = EmptySlot]
    /\ accepted' = accepted + 1
    /\ UNCHANGED <<block, next_tx, pc, resume, running, submitted, candidate>>

Drained(b, progress) ==
    [b EXCEPT !.pending_count = 0, !.expected_progress = progress]

Flushed ==
    /\ pc = "accepting" /\ accepted = batch.pending_count
    /\ batch' = Drained(batch, acc.progress)
    /\ submitted' = 0
    /\ accepted' = 0
    /\ pc' = resume
    /\ UNCHANGED <<block, next_tx, resume, running, runner, acc, candidate>>

-----------------------------------------------------------------------------
Coordinator ==
    \/ ClaimDecoded \/ BeforeBlock
    \/ IncludedAfterStop \/ IncludedAtBadBoundary \/ IncludedStaged
    \/ IncludedNotStaged \/ IncludedSerially \/ EndOfBlock
    \/ VerifyRejected \/ Finish \/ FinishCandidate \/ CompareBlock
    \/ Submit \/ Refuse \/ Await \/ Unavailable \/ Aborted
    \/ Completed \/ AcceptSlot \/ Flushed

Tasks == \E i \in 1 .. MaxInFlight : RunTask(i) \/ DropTask(i)

Next == Coordinator \/ Tasks \/ CancelAwait \/ Abandon

\* The coordinator is a thread that runs, and the runtime runs every task it
\* took; nothing obliges anyone to cancel the await or to leave the fold.
Spec ==
    /\ Init /\ [][Next]_vars
    /\ WF_vars(Coordinator)
    /\ \A i \in 1 .. MaxInFlight : WF_vars(RunTask(i))

-----------------------------------------------------------------------------
(* Properties                                                              *)

Statuses ==
    {"not_run", "outcomes_matched", "candidate_matched", "matched", "rejection_matched",
     "fallback_parallel_runtime", "diagnostic_failure", "claim_import_failed",
     "claim_not_covered", "outcome_mismatch", "candidate_artifact_mismatch",
     "candidate_rejection_mismatch", "unsupported_before_transaction_hooks",
     "unsupported_after_transaction_hooks"}

Agreed == {"outcomes_matched", "matched", "candidate_matched"}

\* Every counter stays within its bound; a batch never has more tasks or more
\* accepted slots than it staged.
TypeOK ==
    /\ next_tx \in 0 .. TxCount
    /\ batch.pending_count \in 0 .. MaxInFlight
    /\ running \subseteq 1 .. submitted
    /\ submitted \in 0 .. batch.pending_count
    /\ accepted \in 0 .. batch.pending_count
    /\ runner.status \in Statuses
    /\ runner.parallel_max_batch_size \in 0 .. MaxInFlight

\* Tasks and coordinator never share a slot: whenever the coordinator is not
\* inside batch_scheduler.run no task is alive, no slot beyond the staged
\* ones holds anything, and a staged one holds no outcome of its own or of an
\* earlier batch (the assertion in Schedule.stage).
BatchIsQuiescent ==
    pc \notin {"submitting", "joining", "cancelling", "aborting"} =>
        /\ running = {}
        /\ \A i \in 1 .. MaxInFlight :
              /\ i > batch.pending_count => batch.slots[i] = EmptySlot
              /\ pc # "accepting" => batch.slots[i].outcome = "none"

\* A live runner has lost nothing: what the fold reported is folded, or
\* staged behind it in order, and the next boundary is the one expected.
StagedFollowsFolded ==
    runner.active /\ pc \in {"observing", "rejecting", "finishing"} =>
        /\ acc.transaction_count = acc.progress
        /\ Len(acc.folded) = acc.progress
        /\ next_tx = acc.progress + batch.pending_count
        /\ batch.enabled => batch.expected_progress = next_tx
        /\ \A i \in 1 .. batch.pending_count :
              batch.slots[i].expected = acc.progress + i - 1

\* A block reported as matched in parallel ran every lane exactly once, in
\* as few batches as the slots allow.
EveryLaneRan ==
    runner.status \in Agreed /\ batch.enabled =>
        /\ runner.parallel_submitted_lanes = TxCount
        /\ runner.parallel_batches = (TxCount + MaxInFlight - 1) \div MaxInFlight

ResultKind ==
    IF runner.status \in Agreed THEN "agreed"
    ELSE IF runner.status = "rejection_matched" THEN "rejection_agreed"
    ELSE IF runner.status = "candidate_rejection_mismatch" THEN "rejection_differs"
    ELSE IF runner.status = "unsupported_after_transaction_hooks" THEN "after_hooks"
    ELSE IF runner.status = "candidate_artifact_mismatch"
    THEN IF candidate = None THEN "artifact_mismatch" ELSE "artifacts_differ"
    ELSE IF runner.status \in {"outcome_mismatch", "claim_not_covered"} THEN runner.status
    ELSE IF runner.status = "not_run" THEN "open"
    ELSE "gave_up"

ResultTx ==
    IF ResultKind \in {"open", "gave_up"} THEN 0
    ELSE IF ResultKind = "agreed" THEN TxCount
    ELSE runner.tx_index

Abstract == INSTANCE ClaimCheck
    WITH checked <- IF acc.folded = [i \in 1 .. Len(acc.folded) |-> i - 1]
                    THEN Len(acc.folded) ELSE -1,
         result <- [kind |-> ResultKind, tx |-> ResultTx]

\* Whatever order the lanes complete in, the report is that of checking the
\* transactions one by one: the first disagreement in block order, agreement
\* only when every transaction agreed, or no verdict at all.
ImplementsClaimCheck == Abstract!CCSpec

\* The check of a block ends.
CheckEnds == <>(pc = "done")
=============================================================================
