---------------------------- MODULE BranchStore ----------------------------
(***************************************************************************)
(* What the journaled state of state/world_state.zig promises its callers, *)
(* with no journal in it: a mapping from identifiers to values, a stack of *)
(* full copies of that mapping, one for the begun attempt and one for each *)
(* open checkpoint, and the copies that branch snapshots hold.  Reverting  *)
(* a checkpoint or discarding an attempt puts the saved copy back, exactly.*)
(***************************************************************************)
EXTENDS Naturals, Sequences

CONSTANTS
    Ids,        \* the identifiers of the rows (accounts, or storage slots)
    Vals,       \* everything about a row that a rollback must restore
    Parent      \* the value of every row before the first transaction

VARIABLES
    cur,        \* the current value of every row
    saved,      \* <<>> between attempts; saved[1] is the accepted branch,
                \* saved[k + 1] the values when checkpoint k was opened
    branches    \* the contents of the branch snapshots callers hold

bsVars == <<cur, saved, branches>>

Mapping == [Ids -> Vals]

BSInit == /\ cur = Parent
          /\ saved = <<>>
          /\ branches = {}

Active == saved # <<>>

\* beginAttempt: the accepted branch is what a discard must restore.
BSBegin == /\ ~Active
           /\ saved' = <<cur>>
           /\ UNCHANGED <<cur, branches>>

\* Any mutation, of any number of rows: no saved copy may change.
BSWrite == /\ Active
           /\ cur' \in Mapping
           /\ UNCHANGED <<saved, branches>>

BSCheckpoint == /\ Active
                /\ saved' = Append(saved, cur)
                /\ UNCHANGED <<cur, branches>>

BSCommit == /\ Len(saved) > 1
            /\ saved' = SubSeq(saved, 1, Len(saved) - 1)
            /\ UNCHANGED <<cur, branches>>

BSRevert == /\ Len(saved) > 1
            /\ cur' = saved[Len(saved)]
            /\ saved' = SubSeq(saved, 1, Len(saved) - 1)
            /\ UNCHANGED branches

\* retainAttempt: the current values become the accepted branch.
BSRetain == /\ Len(saved) = 1
            /\ saved' = <<>>
            /\ UNCHANGED <<cur, branches>>

BSDiscard == /\ Len(saved) = 1
             /\ cur' = saved[1]
             /\ saved' = <<>>
             /\ UNCHANGED branches

BSSnapshot == /\ ~Active
              /\ branches' = branches \cup {cur}
              /\ UNCHANGED <<cur, saved>>

\* restoreBranch: an attempt in flight is discarded on the way.
BSRestore == /\ Len(saved) <= 1
             /\ cur' \in branches
             /\ saved' = <<>>
             /\ branches' \in SUBSET branches

\* discardAccepted: back to the parent state; the epoch moves, so no
\* snapshot taken before may be restored afterwards.
BSReset == /\ ~Active
           /\ cur' = Parent
           /\ branches' = {}
           /\ UNCHANGED saved

BSNext == \/ BSBegin \/ BSWrite \/ BSCheckpoint \/ BSCommit \/ BSRevert
          \/ BSRetain \/ BSDiscard \/ BSSnapshot \/ BSRestore \/ BSReset

BSSpec == BSInit /\ [][BSNext]_bsVars
=============================================================================
