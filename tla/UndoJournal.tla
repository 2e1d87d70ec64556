---------------------------- MODULE UndoJournal ----------------------------
(***************************************************************************)
(* The rollback algorithm of state/world_state.zig, for one kind of row.   *)
(* A row is journaled at most once per scope: `journaled_scope` holds the  *)
(* stamp of the scope that already owns an undo record of the row, and     *)
(* stamps come from a clock that rollback never rewinds.  Every scope,     *)
(* root and transaction draws its stamp from that one clock.               *)
(*                                                                         *)
(* The module says nothing about what a row holds: accounts and storage    *)
(* slots of WorldState are two instances of it.                            *)
(***************************************************************************)
EXTENDS Naturals, Sequences, FiniteSets

CONSTANTS
    Ids,            \* row identifiers
    Vals,           \* the part of a row an undo record saves
    Parent,         \* the value each row is admitted with
    MaxClock,       \* u32 limit of the clock (callers must stay below it)
    MaxDepth,       \* u32 limit of scope_depth
    MaxSnapshots    \* bound on the branch snapshots held at once

ASSUME UndoConstants ==
    /\ IsFiniteSet(Ids)
    /\ Parent \in [Ids -> Vals]
    /\ MaxClock \in Nat
    /\ MaxDepth \in Nat
    /\ MaxSnapshots \in Nat

VARIABLES
    rows,           \* [val, js]: the row and its journaled_scope stamp
    journal,        \* undo records [id, val, js], oldest first
    clock,          \* last issued stamp
    scope,          \* lifetime.scope: the stamp of the open scope, 0 if none
    phase,          \* "idle", "open" (attempt_open) or "sealed"
    session,        \* scope_depth # 0
    checkpoints,    \* the checkpoints callers hold, innermost last
    snapshots       \* the row copies of the branch snapshots callers hold

ujVars == <<rows, journal, clock, scope, phase, session, checkpoints, snapshots>>

None == 0

Row == [val : Vals, js : Nat]
Undo == [id : Ids, val : Vals, js : Nat]
Checkpoint == [scope : Nat, parent : Nat, len : Nat]
FreshRows == [id \in Ids |-> [val |-> Parent[id], js |-> None]]

-----------------------------------------------------------------------------
(* revertJournalTo pops the records above a length newest first, so the    *)
(* oldest record of a row above that length has the last word.             *)

UndoIndices(j, id, len) == {i \in (len + 1) .. Len(j) : j[i].id = id}

Oldest(S) == CHOOSE i \in S : \A k \in S : i <= k

UndoneRow(j, r, id, len) ==
    LET U == UndoIndices(j, id, len)
    IN  IF U = {} THEN r[id]
        ELSE [val |-> j[Oldest(U)].val, js |-> j[Oldest(U)].js]

Undone(j, r, len) == [id \in Ids |-> UndoneRow(j, r, id, len)]

-----------------------------------------------------------------------------
Init ==
    /\ rows = FreshRows
    /\ journal = <<>>
    /\ clock = 0
    /\ scope = None
    /\ phase = "idle"
    /\ session = FALSE
    /\ checkpoints = <<>>
    /\ snapshots = {}

\* beginAttemptMode: one tick for the transaction, one for its first root.
BeginAttempt ==
    /\ phase = "idle"
    /\ clock + 2 <= MaxClock
    /\ clock' = clock + 2
    /\ scope' = clock + 2
    /\ phase' = "open"
    /\ UNCHANGED <<rows, journal, session, checkpoints, snapshots>>

\* openSession and closeSession move to a fresh root, so a row journaled
\* before is journaled again by the next write.
OpenSession ==
    /\ phase = "open" /\ ~session
    /\ clock < MaxClock
    /\ clock' = clock + 1
    /\ scope' = clock + 1
    /\ session' = TRUE
    /\ UNCHANGED <<rows, journal, phase, checkpoints, snapshots>>

CloseSession ==
    /\ session /\ checkpoints = <<>>
    /\ clock < MaxClock
    /\ clock' = clock + 1
    /\ scope' = clock + 1
    /\ session' = FALSE
    /\ UNCHANGED <<rows, journal, phase, checkpoints, snapshots>>

OpenCheckpoint ==
    /\ session
    /\ clock < MaxClock /\ Len(checkpoints) + 1 < MaxDepth
    /\ clock' = clock + 1
    /\ scope' = clock + 1
    /\ checkpoints' = Append(checkpoints,
            [scope |-> clock + 1, parent |-> scope, len |-> Len(journal)])
    /\ UNCHANGED <<rows, journal, phase, session, snapshots>>

Top == checkpoints[Len(checkpoints)]
Popped == SubSeq(checkpoints, 1, Len(checkpoints) - 1)

\* Mutant: the stamp of a committed scope is issued again.
CommitReusingStamp ==
    /\ checkpoints # <<>>
    /\ clock' = clock - 1
    /\ scope' = Top.parent
    /\ checkpoints' = Popped
    /\ UNCHANGED <<rows, journal, phase, session, snapshots>>

CommitCheckpoint ==
    /\ checkpoints # <<>>
    /\ scope' = Top.parent
    /\ checkpoints' = Popped
    /\ UNCHANGED <<rows, journal, clock, phase, session, snapshots>>

RevertToCheckpoint ==
    /\ checkpoints # <<>>
    /\ rows' = Undone(journal, rows, Top.len)
    /\ journal' = SubSeq(journal, 1, Top.len)
    /\ scope' = Top.parent
    /\ checkpoints' = Popped
    /\ UNCHANGED <<clock, phase, session, snapshots>>

\* The orders in which the rows of S can be journaled.
Orderings(S) ==
    {q \in [1 .. Cardinality(S) -> S] : \A x \in S : \E i \in DOMAIN q : q[i] = x}

UndoRecords(q) ==
    [i \in 1 .. Len(q) |-> [id |-> q[i], val |-> rows[q[i]].val, js |-> rows[q[i]].js]]

\* Mutant: a row is journaled once, not once per scope.
NeverJournaled(s, W) == {id \in W : rows[id].js = None}

\* needs_undo: the rows of W that the scope s holds no undo record of.
NeedsUndo(s, W) == {id \in W : rows[id].js # s}

\* A mutation of the rows W to the values f in the scope s: rows whose stamp
\* is not s are journaled first (appendAccountUndo, appendStorageUndo).
WriteIn(s, W, f) ==
    \E q \in Orderings(NeedsUndo(s, W)) :
        /\ journal' = journal \o UndoRecords(q)
        /\ rows' = [id \in Ids |->
              IF id \in W THEN [val |-> f[id], js |-> s] ELSE rows[id]]

Write(W, f) ==
    /\ phase = "open"
    /\ WriteIn(scope, W, f)
    /\ UNCHANGED <<clock, scope, phase, session, checkpoints, snapshots>>

\* finalizeLifecycle writes under a checkpoint of its own that it commits.
ScopedWrite(W, f) ==
    /\ session
    /\ clock < MaxClock
    /\ clock' = clock + 1
    /\ WriteIn(clock + 1, W, f)
    /\ UNCHANGED <<scope, phase, session, checkpoints, snapshots>>

\* ... and that it reverts when an allocation fails part-way.
ScopedFailure ==
    /\ session
    /\ clock < MaxClock
    /\ clock' = clock + 1
    /\ UNCHANGED <<rows, journal, scope, phase, session, checkpoints, snapshots>>

SealAttempt ==
    /\ phase = "open" /\ ~session
    /\ phase' = "sealed"
    /\ UNCHANGED <<rows, journal, clock, scope, session, checkpoints, snapshots>>

\* finishTransaction: the journal is released, row stamps stay behind.
Finish ==
    /\ journal' = <<>>
    /\ scope' = None
    /\ phase' = "idle"
    /\ UNCHANGED <<session, checkpoints>>

RetainAttempt ==
    /\ phase = "sealed"
    /\ Finish
    /\ UNCHANGED <<rows, clock, snapshots>>

DiscardAttempt ==
    /\ phase # "idle" /\ ~session
    /\ rows' = Undone(journal, rows, 0)
    /\ Finish
    /\ UNCHANGED <<clock, snapshots>>

TakeSnapshot ==
    /\ phase = "idle"
    /\ Cardinality(snapshots) < MaxSnapshots
    /\ snapshots' = snapshots \cup {rows}
    /\ UNCHANGED <<rows, journal, clock, scope, phase, session, checkpoints>>

\* restoreBranch: rows come back with the stamps they had, the clock stays.
\* The snapshot is consumed unless the caller cloned it.
RestoreBranch ==
    /\ ~session
    /\ \E s \in snapshots :
        /\ rows' = s
        /\ snapshots' \in {snapshots, snapshots \ {s}}
    /\ Finish
    /\ UNCHANGED clock

\* discardAccepted: the clock restarts because no old stamp survives.
DiscardAccepted ==
    /\ phase = "idle"
    /\ rows' = FreshRows
    /\ clock' = 0
    /\ snapshots' = {}
    /\ UNCHANGED <<journal, scope, phase, session, checkpoints>>

Next ==
    \/ BeginAttempt \/ OpenSession \/ CloseSession
    \/ OpenCheckpoint \/ CommitCheckpoint \/ RevertToCheckpoint
    \/ \E W \in SUBSET Ids : \E f \in [W -> Vals] : Write(W, f) \/ ScopedWrite(W, f)
    \/ ScopedFailure
    \/ SealAttempt \/ RetainAttempt \/ DiscardAttempt
    \/ TakeSnapshot \/ RestoreBranch \/ DiscardAccepted

Spec == Init /\ [][Next]_ujVars

-----------------------------------------------------------------------------
(* Properties                                                              *)

TypeOK ==
    /\ rows \in [Ids -> Row]
    /\ journal \in Seq(Undo)
    /\ clock \in Nat
    /\ scope \in Nat
    /\ phase \in {"idle", "open", "sealed"}
    /\ session \in BOOLEAN
    /\ checkpoints \in Seq(Checkpoint)
    /\ snapshots \in SUBSET [Ids -> Row]

\* Level 0 is the attempt's root scope, level k the k-th open checkpoint.
Levels == 0 .. Len(checkpoints)

ScopeAt(k) == IF k = Len(checkpoints) THEN scope ELSE checkpoints[k + 1].parent

BaseAt(k) == IF k = 0 THEN 0 ELSE checkpoints[k].len

\* The phases nest: nothing of an attempt outlives it, and checkpoints live
\* inside a session, as the assertions of world_state.zig demand.
PhaseShape ==
    /\ phase = "idle" => journal = <<>> /\ scope = None
    /\ session => phase = "open"
    /\ checkpoints # <<>> => session

\* Open scopes carry strictly increasing stamps and the journal lengths they
\* were opened at never exceed each other or the journal.
ScopeChain ==
    /\ phase # "idle" => \A k \in Levels : 0 < ScopeAt(k) /\ ScopeAt(k) <= clock
    /\ \A k \in Levels : \A m \in Levels : k < m => ScopeAt(k) < ScopeAt(m)
    /\ \A k \in 1 .. Len(checkpoints) : checkpoints[k].scope = ScopeAt(k)
    /\ \A k \in Levels : \A m \in Levels : k <= m => BaseAt(k) <= BaseAt(m)
    /\ \A k \in Levels : BaseAt(k) <= Len(journal)

\* No stamp anywhere lies in the clock's future.
StampsIssued ==
    /\ \A id \in Ids : rows[id].js <= clock
    /\ \A i \in 1 .. Len(journal) : journal[i].js <= clock
    /\ \A s \in snapshots : \A id \in Ids : s[id].js <= clock

\* The claim behind "journal once per scope": whenever a row's stamp is that
\* of an open scope, an undo record of the row really lies above the journal
\* length at which that scope was opened.  Then skipping the record is safe.
StampMeansUndo ==
    phase # "idle" =>
        \A k \in Levels : \A id \in Ids :
            rows[id].js = ScopeAt(k) => UndoIndices(journal, id, BaseAt(k)) # {}

\* The same of the stamps that undo records would put back.
SavedStampMeansUndo ==
    phase # "idle" =>
        \A k \in Levels : \A m \in 1 .. Len(journal) :
            journal[m].js = ScopeAt(k) =>
                \E i \in (BaseAt(k) + 1) .. (m - 1) : journal[i].id = journal[m].id

UndoInv == /\ TypeOK
           /\ PhaseShape
           /\ ScopeChain
           /\ StampsIssued
           /\ StampMeansUndo
           /\ SavedStampMeansUndo

-----------------------------------------------------------------------------
(* The refinement: what each open checkpoint would restore, read off the   *)
(* journal, is the stack of copies BranchStore keeps.                      *)

ValsOf(r) == [id \in Ids |-> r[id].val]

SavedCopies ==
    IF phase = "idle" THEN <<>>
    ELSE [k \in 1 .. Len(checkpoints) + 1 |->
            ValsOf(Undone(journal, rows, BaseAt(k - 1)))]

Abstract == INSTANCE BranchStore
    WITH cur <- ValsOf(rows),
         saved <- SavedCopies,
         branches <- {ValsOf(s) : s \in snapshots}

\* The journaled rows implement the stack of full copies: every revert,
\* discard and branch restore gives back exactly the values at its boundary.
ImplementsBranchStore == Abstract!BSSpec
=============================================================================
