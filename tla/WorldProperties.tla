-------------------------- MODULE WorldProperties --------------------------
(***************************************************************************)
(* What the world state promises the executor, the commitment code and the *)
(* block access list, stated over the views that world_state.zig hands     *)
(* out.                                                                    *)
(***************************************************************************)
EXTENDS WorldState

Stamps == 0 .. MaxClock

AccountFlags == {"block_changed", "storage_dirty", "storage_wiped", "touched",
                 "created", "selfdestructed"}

Effects == ValueFields \cup {"account_deleted", "created_contract", "selfdestruct",
                             "storage_wiped"}

AccountRow ==
    [current : AccountValue, code_ref : Int, flags : SUBSET AccountFlags,
     lifecycle_transaction : Stamps, journaled_scope : Stamps,
     warm_transaction : Stamps, observation : Stamps, dirty_transaction : Stamps,
     storage_incarnation : Nat, wiped_transaction : Stamps]

StorageRow ==
    [current : Nat, execution_original : Nat, block_dirty : BOOLEAN,
     journaled_scope : Stamps, warm_transaction : Stamps, observation : Stamps,
     execution_original_root : Stamps, undo_transaction : Stamps, undo_index : Nat,
     storage_incarnation : Nat]

\* Every row is well typed, its stamps come from the clock, a null account
\* has no fields, and checkpoints nest inside one session of an open attempt.
TypeOK ==
    /\ state.accounts \in [Accounts -> AccountRow]
    /\ state.storage \in [Slots -> StorageRow]
    /\ \A a \in Accounts :
          /\ ~state.accounts[a].current.exists => state.accounts[a].current = Null
          /\ state.observed_accounts[a].effect \subseteq Effects
    /\ InSession => Mutable
    /\ Len(checkpoints) = IF InSession THEN state.scope_depth - 1 ELSE 0
    /\ execution_phase \in {"idle", "closed"}
    /\ running_root \in {Single} \cup 0 .. Len(checkpoints)

Idle == ~state.transaction_active

Sealed == state.transaction_active /\ state.sealed

-----------------------------------------------------------------------------
(* Rollback, across every kind of journal entry                            *)

BranchVals ==
    [value : AccountValue, flags : SUBSET AccountFlags, incarnation : Nat]
        \cup [value : Nat]
        \cup [codes : Seq(Nat), ids : Seq(Nat)]

EffectVals ==
    [warm : SUBSET Accounts, warm_storage : SUBSET Slots,
     transient : [TransientKeys -> Nat], logs : Nat,
     account_effects : [Accounts -> SUBSET Effects],
     written : SUBSET Slots,
     changed : Seq(Accounts) \X Seq(Slots)]

\* What the reader holds, and an attempt that has done nothing.
ParentBranch ==
    [x \in Accounts \cup Slots \cup {"introduced"} |->
        IF x = "introduced" THEN [codes |-> <<>>, ids |-> <<>>]
        ELSE IF x \in Slots THEN [value |-> ParentStorage[x]]
        ELSE [value |-> ParentAccount[x], flags |-> {}, incarnation |-> 0]]

NoEffects ==
    [x \in {"effects"} |->
        [warm |-> {}, warm_storage |-> {}, transient |-> [k \in TransientKeys |-> 0],
         logs |-> 0, account_effects |-> [a \in Accounts |-> {}], written |-> {},
         changed |-> <<<<>>, <<>>>>]]

Branch == INSTANCE BranchStore
    WITH Ids <- Accounts \cup Slots \cup {"introduced"},
         Vals <- BranchVals,
         Parent <- ParentBranch,
         cur <- BranchValues(state),
         saved <- [i \in DOMAIN copies |-> copies[i].branch],
         branches <- ToSet(branch_copies)

\* revertToCheckpoint, discardAttempt and restoreBranch give back exactly
\* the accounts, flags, incarnations, slots and introduced code of their
\* boundary: the journal implements a stack of full copies.
RollbackIsExact == Branch!BSSpec

Scoped == INSTANCE BranchStore
    WITH Ids <- {"effects"},
         Vals <- EffectVals,
         Parent <- NoEffects,
         cur <- ScopeEffects(state),
         saved <- [i \in DOMAIN copies |-> copies[i].effects],
         branches <- {}

\* Warmth (of rows and of keys without a row), transient storage, logs,
\* observation effects and the attempt's change lists unwind with their
\* scope, and none of them outlives the attempt.
EffectsUnwind == Scoped!BSSpec

-----------------------------------------------------------------------------
(* The accepted branch under an attempt in flight                          *)

Prefix(q, len) == ToSet(IF Idle THEN q ELSE Truncate(q, len))

\* AcceptedView.changes: the block's delta without the pending attempt.
AcceptedChanges ==
    [accounts |-> {<<a, AcceptedAccountValue(state, a)>> :
        a \in Prefix(state.block_changed_accounts, state.accepted_len.accounts)},
     storage |-> {<<k, AcceptedStorageValue(state, k)>> :
        k \in Prefix(state.dirty_storage, state.accepted_len.storage)},
     wipes |-> Prefix(state.block_storage_wipes, state.accepted_len.wipes),
     codes |-> {state.introduced[i] :
        i \in Prefix(state.block_introduced_codes, state.accepted_len.codes)}]

\* Whatever an attempt does, the accepted view reads the same until the
\* attempt is retained, another branch is restored or the block is dropped.
AcceptedViewIsStable ==
    [][~(RetainAttempt \/ RestoreBranch \/ DiscardAccepted)
            => AcceptedChanges' = AcceptedChanges]_vars

-----------------------------------------------------------------------------
(* The deltas                                                              *)

NoRepeats(q) == Cardinality(ToSet(q)) = Len(q)

\* Between attempts the block's lists and the rows' flags say the same:
\* accountDirty and storageDirty read flags, the changes view reads lists.
BlockListsMatchFlags ==
    Idle =>
        /\ NoRepeats(state.block_changed_accounts)
        /\ NoRepeats(state.block_storage_wipes)
        /\ NoRepeats(state.dirty_storage)
        /\ ToSet(state.block_changed_accounts) =
              {a \in Accounts : "block_changed" \in state.accounts[a].flags}
        /\ ToSet(state.block_storage_wipes) =
              {a \in Accounts : "storage_wiped" \in state.accounts[a].flags}
        /\ ToSet(state.dirty_storage) = {k \in Slots : state.storage[k].block_dirty}

\* Between attempts the block's delta applied to the parent state gives the
\* branch: what is not listed is the parent's, or zero in a wiped account, and
\* no listed slot was retired by a later wipe.
BlockDeltaIsComplete ==
    Idle =>
        /\ \A a \in Accounts \ ToSet(state.block_changed_accounts) :
              state.accounts[a].current = LoadAccount(a)
        /\ \A k \in Slots \ ToSet(state.dirty_storage) :
              EffectiveStorage(state, k) =
                  IF Contains(state.block_storage_wipes, Owner[k])
                  THEN 0 ELSE ParentStorage[k]
        /\ \A k \in ToSet(state.dirty_storage) :
              /\ CurrentIncarnation(state, k)
              /\ "storage_dirty" \in state.accounts[Owner[k]].flags

\* A sealed attempt's changes applied to the accepted branch give the current
\* values, and its lists name every account once.
PendingDeltaIsComplete ==
    Sealed =>
        /\ NoRepeats(state.changed_accounts)
        /\ NoRepeats(state.changed_storage)
        /\ NoRepeats(state.transaction_storage_wipes)
        /\ ToSet(state.transaction_storage_wipes) =
              {a \in Accounts : state.accounts[a].wiped_transaction = state.transaction}
        /\ \A a \in Accounts \ ToSet(state.changed_accounts) :
              state.accounts[a].current = AcceptedAccountValue(state, a)
        /\ \A k \in Slots \ ToSet(state.changed_storage) :
              EffectiveStorage(state, k) =
                  IF Contains(state.transaction_storage_wipes, Owner[k])
                  THEN 0 ELSE AcceptedStorageValue(state, k)

\* The observations of a sealed attempt explain it: a field of an account
\* that differs from its original is marked written, or the account deleted;
\* an unwritten slot of an account that was not wiped has its original value.
EffectsExplainChanges ==
    Sealed =>
        /\ \A a \in Accounts : state.accounts[a].observation = state.transaction =>
              LET o == state.observed_accounts[a]
              IN  \/ "account_deleted" \in o.effect
                  \/ \A f \in ValueFields :
                        state.accounts[a].current[f] # o.original[f] => f \in o.effect
        /\ \A k \in Slots : state.storage[k].observation = state.transaction =>
              LET o == state.observed_storage[k]
              IN  \/ o.written
                  \/ state.accounts[Owner[k]].wiped_transaction = state.transaction
                  \/ EffectiveStorage(state, k) = o.original

-----------------------------------------------------------------------------
(* Lifetimes                                                               *)

\* No account leaves an attempt marked created or selfdestructed, not even
\* through a snapshot: the next transaction would misprice its SSTOREs and
\* destroy it a second time.
LifecycleEndsWithAttempt ==
    /\ Idle => \A a \in Accounts :
          state.accounts[a].flags \cap {"created", "selfdestructed"} = {}
    /\ \A i \in DOMAIN snapshots :
          \A n \in DOMAIN snapshots[i].rows.accounts :
              snapshots[i].rows.accounts[n].flags \cap {"created", "selfdestructed"} = {}

\* The original value SSTORE prices against is the slot's value when the
\* execution root was opened, whatever was written, wiped, created or rolled
\* back since, and whether or not the slot was captured before.
ExecutionOriginalIsRootValue ==
    Dispatching =>
        \A k \in Slots :
            LET row == state.storage[k]
            IN  /\ row.execution_original_root = state.root =>
                      row.execution_original = root_values[k]
                /\ \/ row.execution_original_root = state.root
                   \/ "created" \in state.accounts[Owner[k]].flags
                   \/ EffectiveStorage(state, k) = root_values[k]

\* Transient storage ends with the root that wrote it: while a root runs,
\* reverting to its own checkpoint or to any outside it, in which earlier
\* roots may have written, gives empty transient storage, although the clear
\* between two roots leaves no undo entry behind.
TransientEndsWithRoot ==
    \A i \in 1 .. running_root :
        RevertTo(state, checkpoints[i]).transient = InitialState.transient

\* Every account's code can be produced: a bound reference names an
\* introduced entry with the account's own code, an unbound one is found in
\* the parent cache, among the introduced codes, or at the reader.
CodeIsAvailable ==
    \A a \in Accounts :
        LET row == state.accounts[a]
        IN  CASE row.code_ref = EmptyRef -> row.current.code = EmptyCode
              [] row.code_ref = MissingRef ->
                    \/ row.current.code \in state.parent_code
                    \/ Contains(state.introduced, row.current.code)
                    \/ \E b \in Accounts : ParentAccount[b].code = row.current.code
              [] OTHER ->
                    /\ row.code_ref <= Len(state.introduced)
                    /\ state.introduced[row.code_ref] = row.current.code

\* A branch snapshot that was not resolved can be restored: the world still
\* has a row for each of its rows and the store each of its codes.
HeldSnapshotsRestorable ==
    \A i \in DOMAIN snapshots : Restorable(Resolved(state), snapshots[i])

\* Before Spurious Dragon touching an account materialises it.
TouchMaterializes ==
    [][\A a \in Touched :
        Dispatching /\ state' = TouchAccount(state, a)
            => state'.accounts[a].current.exists]_vars
=============================================================================
