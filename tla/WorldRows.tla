----------------------------- MODULE WorldRows -----------------------------
(***************************************************************************)
(* The State structure of state/world_state.zig over an OpenWorld, as a    *)
(* record `s`, and its operations as functions from records to records     *)
(* that compose the way the methods call each other.  Row identifiers are  *)
(* the keys themselves; the order in which rows were admitted is kept,     *)
(* because branch snapshots are positional.  Code bytes and their hash are *)
(* one value.                                                              *)
(***************************************************************************)
EXTENDS Integers, Sequences, SequencesExt, FiniteSets

CONSTANTS
    Accounts,       \* addresses
    Slots,          \* storage keys, each of one account
    Owner,          \* the account of each slot
    TransientKeys,  \* EIP-1153 keys
    ParentAccount,  \* what the reader returns for each account
    ParentStorage   \* what the reader returns for each slot

\* What is run: the fork's rules, the operations, their arguments and how
\* many of them.  Chosen when the world is set up and fixed from then on.
VARIABLE program

\* "legacy" (before Spurious Dragon), "cancun" or "amsterdam"
Fork == program.Fork

None == 0           \* the stamp `none`, never issued
EmptyCode == 0      \* keccak256_empty
EmptyRef == 0       \* CodeRef.empty; n > 0 is the n-th introduced code
MissingRef == -1    \* CodeRef.missing

-----------------------------------------------------------------------------
(* Values and rows                                                         *)

AccountValue == [exists : BOOLEAN, balance : Nat, nonce : Nat, code : Nat]

Null == [exists |-> FALSE, balance |-> 0, nonce |-> 0, code |-> EmptyCode]

\* `current orelse Account{}`: a null account has the default fields.
OrEmpty(value) == [value EXCEPT !.exists = TRUE]

IsEip161Empty(value) ==
    value.balance = 0 /\ value.nonce = 0 /\ value.code = EmptyCode

\* The parent state is one that every fork reads alike.
ASSUME WorldConstants ==
    /\ Owner \in [Slots -> Accounts]
    /\ ParentStorage \in [Slots -> Nat]
    /\ ParentAccount \in [Accounts -> AccountValue]
    /\ \A a \in Accounts :
          /\ IsEip161Empty(ParentAccount[a]) => ~ParentAccount[a].exists
          /\ ParentAccount[a].exists \/ ParentAccount[a] = Null

RetainsEmptyAccounts == Fork = "legacy"

LoadAccount(a) ==
    IF ParentAccount[a].exists /\ ~RetainsEmptyAccounts
                               /\ IsEip161Empty(ParentAccount[a])
    THEN Null ELSE ParentAccount[a]

AdmittedAccount(a) ==
    [current |-> LoadAccount(a),
     code_ref |-> IF LoadAccount(a).code = EmptyCode THEN EmptyRef ELSE MissingRef,
     flags |-> {},
     lifecycle_transaction |-> None,
     journaled_scope |-> None,
     warm_transaction |-> None,
     observation |-> None,
     dirty_transaction |-> None,
     storage_incarnation |-> 0,
     wiped_transaction |-> None]

AdmittedStorage(k) ==
    [current |-> ParentStorage[k],
     execution_original |-> 0,
     block_dirty |-> FALSE,
     journaled_scope |-> None,
     warm_transaction |-> None,
     observation |-> None,
     execution_original_root |-> None,
     undo_transaction |-> None,
     undo_index |-> 0,
     storage_incarnation |-> 0]

NoAccountObservation ==
    [original |-> Null, original_storage_incarnation |-> 0, effect |-> {}]

NoStorageObservation == [original |-> 0, written |-> FALSE]

InitialState ==
    [accounts |-> [a \in Accounts |-> AdmittedAccount(a)],
     storage |-> [k \in Slots |-> AdmittedStorage(k)],
     account_ids |-> <<>>,          \* admitted rows, in admission order
     storage_ids |-> <<>>,
     introduced |-> <<>>,           \* CodeStore.introduced
     parent_code |-> {},            \* OpenWorld's content-addressed cache
     transient |-> [t \in TransientKeys |-> 0],
     deferred_accounts |-> {},      \* keys whose deferred warm bit is set
     deferred_storage |-> {},
     logs |-> 0,
     retained_logs |-> 0,
     block_changed_accounts |-> <<>>,
     block_storage_wipes |-> <<>>,
     dirty_storage |-> <<>>,
     changed_accounts |-> <<>>,
     changed_storage |-> <<>>,
     transaction_storage_wipes |-> <<>>,
     lifecycle_accounts |-> <<>>,
     block_introduced_codes |-> <<>>,
     observed_accounts |-> [a \in Accounts |-> NoAccountObservation],
     observed_storage |-> [k \in Slots |-> NoStorageObservation],
     journal |-> <<>>,
     clock |-> 0,
     transaction |-> None,
     scope |-> None,
     root |-> None,
     scope_depth |-> 0,
     transaction_active |-> FALSE,
     sealed |-> FALSE,
     scope_reverted |-> FALSE,
     accepted_len |-> [accounts |-> 0, wipes |-> 0, storage |-> 0, codes |-> 0]]

-----------------------------------------------------------------------------
(* Small helpers                                                           *)

AppendIf(q, condition, x) == IF condition THEN Append(q, x) ELSE q

Truncate(q, len) == SubSeq(q, 1, len)

AttemptOpen(s) == s.transaction_active /\ ~s.sealed

\* openRoot: one tick serves as scope and as execution root.
OpenRoot(s) ==
    [s EXCEPT !.clock = @ + 1, !.scope = s.clock + 1, !.root = s.clock + 1]

EffectiveStorage(s, k) ==
    IF s.storage[k].storage_incarnation = s.accounts[Owner[k]].storage_incarnation
    THEN s.storage[k].current
    ELSE 0

-----------------------------------------------------------------------------
(* OpenWorld: rows are admitted on first required access                   *)

IsAdmitted(s, a) == Contains(s.account_ids, a)

IsStorageAdmitted(s, k) == Contains(s.storage_ids, k)

ResolveAccount(s, a) ==
    [s EXCEPT !.account_ids = AppendIf(@, ~IsAdmitted(s, a), a)]

ResolveStorageKey(s, k) ==
    [ResolveAccount(s, Owner[k]) EXCEPT
        !.storage_ids = AppendIf(@, ~IsStorageAdmitted(s, k), k)]

\* Rows come back by position; rows admitted after the capture are dropped.
CaptureSnapshot(s) ==
    [accounts |-> [i \in DOMAIN s.account_ids |-> s.accounts[s.account_ids[i]]],
     storage |-> [i \in DOMAIN s.storage_ids |-> s.storage[s.storage_ids[i]]]]

\* Mutant: rows admitted after the capture keep their values.
RestoreKeepingLaterRows(s, rows) ==
    [s EXCEPT
        !.accounts = [a \in Accounts |->
            LET at == {i \in DOMAIN rows.accounts : s.account_ids[i] = a}
            IN  IF at = {} THEN s.accounts[a]
                ELSE rows.accounts[CHOOSE i \in at : TRUE]],
        !.account_ids = Truncate(@, Len(rows.accounts))]

RestoreSnapshot(s, rows) ==
    LET kept == Truncate(s.account_ids, Len(rows.accounts))
        keptStorage == Truncate(s.storage_ids, Len(rows.storage))
    IN  [s EXCEPT
            !.accounts = [a \in Accounts |->
                IF Contains(kept, a)
                THEN rows.accounts[CHOOSE i \in DOMAIN kept : kept[i] = a]
                ELSE AdmittedAccount(a)],
            !.storage = [k \in Slots |->
                IF Contains(keptStorage, k)
                THEN rows.storage[CHOOSE i \in DOMAIN keptStorage : keptStorage[i] = k]
                ELSE AdmittedStorage(k)],
            !.account_ids = kept,
            !.storage_ids = keptStorage]

ResetRows(s) ==
    [s EXCEPT !.accounts = InitialState.accounts,
              !.storage = InitialState.storage,
              !.account_ids = <<>>,
              !.storage_ids = <<>>]

-----------------------------------------------------------------------------
(* Code: the store of introduced code and the cache of parent code         *)

Bind(s, code) ==
    IF code = EmptyCode THEN EmptyRef
    ELSE IF Contains(s.introduced, code)
         THEN CHOOSE i \in DOMAIN s.introduced : s.introduced[i] = code
         ELSE MissingRef

\* loadCode: the reader's bytes enter the parent cache.  A row whose
\* reference resolves, or whose code the cache or the store holds, needs none.
LoadCode(s, a) ==
    LET row == s.accounts[a]
        found == \/ row.code_ref # MissingRef
                 \/ row.current.code \in s.parent_code
                 \/ Contains(s.introduced, row.current.code)
    IN  [s EXCEPT !.parent_code = IF found THEN @ ELSE @ \cup {row.current.code}]

-----------------------------------------------------------------------------
(* Observations                                                            *)

\* observeAccount: the first touch in a transaction captures the original.
ObserveAccount(s, a) ==
    LET row == s.accounts[a]
    IN  IF row.observation = s.transaction THEN s
        ELSE [s EXCEPT
                !.accounts[a].observation = s.transaction,
                !.observed_accounts[a] =
                    [original |-> row.current,
                     original_storage_incarnation |-> row.storage_incarnation,
                     effect |-> {}]]

AcceptedAccountValue(s, a) ==
    IF s.transaction_active /\ s.accounts[a].dirty_transaction = s.transaction
    THEN s.observed_accounts[a].original
    ELSE s.accounts[a].current

\* Mutant: the accepted value is read under the incarnation of now.
AcceptedUnderCurrentIncarnation(s, k) ==
    LET row == s.storage[k]
        accepted == IF s.transaction_active /\ row.undo_transaction = s.transaction
                    THEN s.journal[row.undo_index] ELSE row
    IN  IF accepted.storage_incarnation = s.accounts[Owner[k]].storage_incarnation
        THEN accepted.current ELSE 0

AcceptedStorageValue(s, k) ==
    IF ~s.transaction_active THEN EffectiveStorage(s, k)
    ELSE LET account == s.accounts[Owner[k]]
             incarnation == IF account.observation = s.transaction
                            THEN s.observed_accounts[Owner[k]].original_storage_incarnation
                            ELSE account.storage_incarnation
             row == s.storage[k]
             accepted == IF row.undo_transaction = s.transaction
                         THEN s.journal[row.undo_index]
                         ELSE row
         IN  IF accepted.storage_incarnation = incarnation THEN accepted.current ELSE 0

ObserveStorage(s, k) ==
    IF s.storage[k].observation = s.transaction THEN s
    ELSE [s EXCEPT
            !.storage[k].observation = s.transaction,
            !.observed_storage[k] = [original |-> AcceptedStorageValue(s, k),
                                     written |-> FALSE]]

\* readAccount: a read outside an open attempt records nothing.
ReadAccount(s, a) ==
    LET resolved == ResolveAccount(s, a)
    IN  IF AttemptOpen(s) THEN ObserveAccount(resolved, a) ELSE resolved

ValueFields == {"balance", "nonce", "code"}

\* Mutant: a write forgets which fields earlier writes changed.
ForgetfulEffect(effect, previous, value) ==
    (effect \ ValueFields) \cup {f \in ValueFields : value[f] # previous[f]}

RecordAccountEffect(effect, previous, value) ==
    LET written == {f \in ValueFields : value[f] # previous[f]}
    IN  IF ~value.exists
        THEN IF previous.exists THEN effect \cup {"account_deleted"}
                                ELSE effect \ {"account_deleted"}
        ELSE IF previous.exists THEN effect \cup written
                                ELSE (effect \ ValueFields) \cup written

-----------------------------------------------------------------------------
(* Account mutations: journal once per scope, list once per layer          *)

AccountUndo(s, a) ==
    LET row == s.accounts[a]
    IN  [kind |-> "account", id |-> a,
         current |-> row.current, code_ref |-> row.code_ref, flags |-> row.flags,
         journaled_scope |-> row.journaled_scope,
         storage_incarnation |-> row.storage_incarnation,
         wiped_transaction |-> row.wiped_transaction,
         dirty_transaction |-> row.dirty_transaction,
         effect |-> s.observed_accounts[a].effect]

PrepareAccountMutation(s, a) ==
    LET row == s.accounts[a]
    IN  [s EXCEPT
            !.journal = AppendIf(@, row.journaled_scope # s.scope, AccountUndo(s, a)),
            !.accounts[a] = [row EXCEPT !.journaled_scope = s.scope,
                                        !.flags = @ \cup {"block_changed"},
                                        !.dirty_transaction = s.transaction],
            !.block_changed_accounts = AppendIf(@, "block_changed" \notin row.flags, a),
            !.changed_accounts = AppendIf(@, row.dirty_transaction # s.transaction, a)]

\* Mutant: the listing is deduplicated by the stamp of the dirty list.
ListedWhenFirstDirty(s, a) ==
    [PrepareAccountMutation(s, a) EXCEPT
        !.lifecycle_accounts =
            AppendIf(@, s.accounts[a].dirty_transaction # s.transaction, a)]

\* The lifecycle listing has its own stamp because it is not journaled.
PrepareLifecycleMutation(s, a) ==
    LET first == s.accounts[a].lifecycle_transaction # s.transaction
    IN  [PrepareAccountMutation(s, a) EXCEPT
            !.accounts[a].lifecycle_transaction = s.transaction,
            !.lifecycle_accounts = AppendIf(@, first, a)]

WriteAccount(s, a, value) ==
    LET prepared == PrepareAccountMutation(ObserveAccount(s, a), a)
        previous == prepared.accounts[a].current
    IN  [prepared EXCEPT
            !.accounts[a].current = value,
            !.accounts[a].code_ref = IF previous.code = value.code THEN @
                                     ELSE Bind(s, value.code),
            !.observed_accounts[a].effect = RecordAccountEffect(@, previous, value)]

\* setBalance and setNonce: writing the value an account already has is a read
\* that leaves no trace.
SetField(s, a, field, v) ==
    LET resolved == ResolveAccount(s, a)
        current == resolved.accounts[a].current
    IN  IF current.exists /\ current[field] = v THEN resolved
        ELSE WriteAccount(resolved, a, [OrEmpty(current) EXCEPT ![field] = v])

AddBalance(s, a, v) ==
    IF v = 0 THEN s
    ELSE LET read == ReadAccount(s, a)
         IN  SetField(read, a, "balance", read.accounts[a].current.balance + v)

\* Code the parent cache holds is not an introduction and stays unbound;
\* other code enters the store once and is popped with its journal entry.
SetCode(s, a, code) ==
    LET observed == ObserveAccount(ResolveAccount(s, a), a)
        parent == code \in s.parent_code
        fresh == ~parent /\ Bind(s, code) = MissingRef
        cached == [observed EXCEPT !.introduced = AppendIf(@, fresh, code)]
        prepared == PrepareAccountMutation(cached, a)
        previous == prepared.accounts[a].current
        value == [OrEmpty(previous) EXCEPT !.code = code]
    IN  [prepared EXCEPT
            !.block_introduced_codes = AppendIf(@, fresh, Len(cached.introduced)),
            !.journal = AppendIf(@, fresh, [kind |-> "introduced_code"]),
            !.accounts[a].current = value,
            !.accounts[a].code_ref = IF parent THEN MissingRef ELSE Bind(cached, code),
            !.observed_accounts[a].effect = RecordAccountEffect(@, previous, value)]

TouchAccount(s, a) ==
    LET observed == ObserveAccount(ResolveAccount(s, a), a)
    IN  IF "touched" \in observed.accounts[a].flags THEN observed
        ELSE [PrepareAccountMutation(observed, a) EXCEPT
                !.accounts[a].current = OrEmpty(@),
                !.accounts[a].flags = @ \cup {"touched"}]

-----------------------------------------------------------------------------
(* Warmth                                                                  *)

AccountWarm(s, a) ==
    \/ s.accounts[a].warm_transaction = s.transaction
    \/ a \in s.deferred_accounts

StorageWarm(s, k) ==
    \/ s.storage[k].warm_transaction = s.transaction
    \/ k \in s.deferred_storage

\* Mutant: a row whose key is already warm is stamped without a journal entry.
WarmWithoutEntry(s, a) ==
    LET cold == s.accounts[a].warm_transaction # s.transaction
    IN  [s EXCEPT !.journal = AppendIf(@, cold /\ a \notin s.deferred_accounts,
                                       [kind |-> "warm_account", id |-> a]),
                  !.accounts[a].warm_transaction = s.transaction]

WarmAccountId(s, a) ==
    LET cold == s.accounts[a].warm_transaction # s.transaction
    IN  [s EXCEPT !.journal = AppendIf(@, cold, [kind |-> "warm_account", id |-> a]),
                  !.accounts[a].warm_transaction = s.transaction]

WarmStorageId(s, k) ==
    LET cold == s.storage[k].warm_transaction # s.transaction
    IN  [s EXCEPT !.journal = AppendIf(@, cold, [kind |-> "warm_storage", id |-> k]),
                  !.storage[k].warm_transaction = s.transaction]

AccessAccount(s, a) ==
    WarmAccountId(ObserveAccount(ResolveAccount(s, a), a), a)

\* Warming alone admits no row: a key without one is warmed by key.
WarmAccount(s, a) ==
    IF IsAdmitted(s, a) THEN WarmAccountId(s, a)
    ELSE [s EXCEPT !.deferred_accounts = @ \cup {a},
                   !.journal = AppendIf(@, a \notin s.deferred_accounts,
                                        [kind |-> "deferred_warm_account", id |-> a])]

WarmStorage(s, k) ==
    IF IsStorageAdmitted(s, k) THEN WarmStorageId(s, k)
    ELSE [s EXCEPT !.deferred_storage = @ \cup {k},
                   !.journal = AppendIf(@, k \notin s.deferred_storage,
                                        [kind |-> "deferred_warm_storage", id |-> k])]

-----------------------------------------------------------------------------
(* Storage                                                                 *)

StorageUndo(s, k) ==
    LET row == s.storage[k]
    IN  [kind |-> "storage", id |-> k,
         current |-> row.current, block_dirty |-> row.block_dirty,
         journaled_scope |-> row.journaled_scope,
         storage_incarnation |-> row.storage_incarnation,
         undo_transaction |-> row.undo_transaction, undo_index |-> row.undo_index,
         written |-> s.observed_storage[k].written]

\* appendStorageUndo: the transaction's first record of a slot is remembered.
AppendStorageUndo(s, k) ==
    LET row == s.storage[k]
        first == row.undo_transaction # s.transaction
    IN  IF row.journaled_scope = s.scope THEN s
        ELSE [s EXCEPT
                !.journal = Append(@, StorageUndo(s, k)),
                !.storage[k] = [row EXCEPT
                    !.journaled_scope = s.scope,
                    !.undo_transaction = s.transaction,
                    !.undo_index = IF first THEN Len(s.journal) + 1 ELSE @]]

\* Mutant: the account's storage_dirty flag is set without an undo entry.
WriteWithoutFlagUndo(s, k, v) ==
    [AppendStorageUndo(s, k) EXCEPT
        !.accounts[Owner[k]].flags = @ \cup {"storage_dirty"},
        !.dirty_storage = AppendIf(@, ~s.storage[k].block_dirty, k),
        !.changed_storage =
            AppendIf(@, s.storage[k].undo_transaction # s.transaction, k),
        !.storage[k].block_dirty = TRUE,
        !.storage[k].current = v,
        !.storage[k].storage_incarnation = s.accounts[Owner[k]].storage_incarnation,
        !.observed_storage[k].written = TRUE]

WriteResolvedStorage(s, k, v) ==
    LET account == s.accounts[Owner[k]]
        row == s.storage[k]
        flagUndo == /\ "storage_dirty" \notin account.flags
                    /\ account.journaled_scope # s.scope
    IN  [AppendStorageUndo(s, k) EXCEPT
            !.journal = AppendIf(@, flagUndo,
                            [kind |-> "account_storage_dirty", id |-> Owner[k]]),
            !.accounts[Owner[k]].flags = @ \cup {"storage_dirty"},
            !.dirty_storage = AppendIf(@, ~row.block_dirty, k),
            !.changed_storage = AppendIf(@, row.undo_transaction # s.transaction, k),
            !.storage[k].block_dirty = TRUE,
            !.storage[k].current = v,
            !.storage[k].storage_incarnation = account.storage_incarnation,
            !.observed_storage[k].written = TRUE]

\* Mutant: creation does not bypass the cache.
CaptureInCreation(s, k) ==
    IF s.storage[k].execution_original_root = s.root THEN s
    ELSE [s EXCEPT !.storage[k].execution_original = EffectiveStorage(s, k),
                   !.storage[k].execution_original_root = s.root]

\* executionOriginal: captured by the first SSTORE under an execution root,
\* except in an account created by this transaction.
CaptureExecutionOriginal(s, k) ==
    IF \/ "created" \in s.accounts[Owner[k]].flags
       \/ s.storage[k].execution_original_root = s.root
    THEN s
    ELSE [s EXCEPT !.storage[k].execution_original = EffectiveStorage(s, k),
                   !.storage[k].execution_original_root = s.root]

SetResolvedStorage(s, k, v) ==
    LET captured == CaptureExecutionOriginal(ObserveStorage(s, k), k)
    IN  IF EffectiveStorage(s, k) = v THEN captured
        ELSE WriteResolvedStorage(captured, k, v)

AccessedStorage(s, k) ==
    WarmStorageId(ObserveAccount(ResolveStorageKey(s, k), Owner[k]), k)

LoadStorage(s, k) == ObserveStorage(AccessedStorage(s, k), k)

StoreStorage(s, k, v) == SetResolvedStorage(AccessedStorage(s, k), k, v)

\* setStorage: the same write without the warmth of EIP-2929.
SetStorage(s, k, v) ==
    SetResolvedStorage(ObserveAccount(ResolveStorageKey(s, k), Owner[k]), k, v)

SetTransientStorage(s, t, v) ==
    IF s.transient[t] = v THEN s
    ELSE [s EXCEPT !.transient[t] = v,
                   !.journal = Append(@, [kind |-> "transient_storage", id |-> t,
                                          previous |-> s.transient[t]])]

\* Mutant: the values that are cleared are journaled like written ones.
ClearWithUndo(s) ==
    FoldLeft(LAMBDA r, t : SetTransientStorage(r, t, 0), s, SetToSeq(TransientKeys))

\* Not journaled: the values of a root end with it, whatever is reverted.
ClearTransientStorage(s) == [s EXCEPT !.transient = InitialState.transient]

WipeStorage(s, a) ==
    LET observed == ObserveAccount(s, a)
        row == observed.accounts[a]
    IN  [PrepareAccountMutation(observed, a) EXCEPT
            !.block_storage_wipes = AppendIf(@, "storage_wiped" \notin row.flags, a),
            !.transaction_storage_wipes =
                AppendIf(@, row.wiped_transaction # s.transaction, a),
            !.accounts[a].flags = @ \cup {"storage_dirty", "storage_wiped"},
            !.accounts[a].storage_incarnation = @ + 1,
            !.accounts[a].wiped_transaction = s.transaction]

-----------------------------------------------------------------------------
(* Creation, self-destruction and their fork rules                         *)

InitialNonce == IF Fork = "legacy" THEN 0 ELSE 1

SelfDestructPolicy(same, created) ==
    CASE Fork = "legacy" -> [clear_balance |-> TRUE, mark |-> TRUE]
      [] Fork = "cancun" -> [clear_balance |-> ~same \/ created, mark |-> TRUE]
      [] Fork = "amsterdam" -> [clear_balance |-> ~same, mark |-> ~same \/ created]

Finalization(created) ==
    [clear_storage |-> Fork = "legacy" \/ created,
     delete_account |-> Fork = "legacy" \/ (Fork = "cancun" /\ created),
     reset_account |-> Fork = "amsterdam" /\ created]

InitializeContract(s, a) ==
    LET resolved == ResolveAccount(s, a)
        value == [OrEmpty(resolved.accounts[a].current) EXCEPT
                    !.nonce = InitialNonce, !.code = EmptyCode]
        wiped == WipeStorage(WriteAccount(resolved, a, value), a)
    IN  [PrepareLifecycleMutation(wiped, a) EXCEPT
            !.accounts[a].flags = @ \cup {"created"},
            !.observed_accounts[a].effect = @ \cup {"created_contract"}]

MarkSelfdestructed(s, a) ==
    LET resolved == ResolveAccount(s, a)
    IN  IF "selfdestructed" \in resolved.accounts[a].flags THEN resolved
        ELSE [PrepareLifecycleMutation(ObserveAccount(resolved, a), a) EXCEPT
                !.accounts[a].flags = @ \cup {"selfdestructed"},
                !.observed_accounts[a].effect = @ \cup {"selfdestruct"}]

ApplySelfDestruct(s, source, beneficiary) ==
    LET read == ReadAccount(s, source)
        balance == read.accounts[source].current.balance
        same == source = beneficiary
        policy == SelfDestructPolicy(same, "created" \in read.accounts[source].flags)
        paid == IF same THEN read ELSE AddBalance(read, beneficiary, balance)
        moved == IF balance > 0
                 THEN IF policy.clear_balance THEN SetField(paid, source, "balance", 0)
                                              ELSE paid
                 ELSE IF ~same /\ Fork = "legacy" THEN TouchAccount(read, beneficiary)
                                                  ELSE read
    IN  IF policy.mark THEN MarkSelfdestructed(moved, source) ELSE moved

\* One listed row of finalizeLifecycle.
FinalizeRow(s, a) ==
    LET flags == s.accounts[a].flags
        policy == Finalization("created" \in flags)
        cleared == IF policy.clear_storage
                   THEN [WipeStorage(s, a) EXCEPT
                            !.observed_accounts[a].effect = @ \cup {"storage_wiped"}]
                   ELSE s
        reset == [OrEmpty(cleared.accounts[a].current) EXCEPT
                    !.nonce = 0, !.code = EmptyCode]
        settled == IF policy.reset_account
                   THEN WriteAccount(cleared, a, IF reset.balance = 0 THEN Null ELSE reset)
                   ELSE IF policy.delete_account THEN WriteAccount(cleared, a, Null)
                   ELSE cleared
        done == IF "selfdestructed" \in flags THEN settled ELSE s
    IN  IF flags \cap {"created", "selfdestructed"} = {} THEN s
        ELSE [PrepareAccountMutation(done, a) EXCEPT
                !.accounts[a].flags = @ \ {"created", "selfdestructed"}]

-----------------------------------------------------------------------------
(* Rollback                                                                *)

\* Mutant: an account undo leaves the code reference behind.
UndoKeepingCodeRef(s, e) ==
    CASE e.kind = "account" ->
            [s EXCEPT
                !.accounts[e.id] = [@ EXCEPT
                    !.current = e.current, !.flags = e.flags,
                    !.journaled_scope = e.journaled_scope,
                    !.storage_incarnation = e.storage_incarnation,
                    !.wiped_transaction = e.wiped_transaction,
                    !.dirty_transaction = e.dirty_transaction],
                !.observed_accounts[e.id].effect = e.effect]
      [] e.kind = "introduced_code" ->
            [s EXCEPT !.introduced = Truncate(@, Last(s.block_introduced_codes) - 1),
                      !.block_introduced_codes = Front(@)]
      [] OTHER -> s

\* One entry popped by revertJournalTo.
UndoEntry(s, e) ==
    CASE e.kind = "account" ->
            [s EXCEPT
                !.accounts[e.id] = [@ EXCEPT
                    !.current = e.current, !.code_ref = e.code_ref, !.flags = e.flags,
                    !.journaled_scope = e.journaled_scope,
                    !.storage_incarnation = e.storage_incarnation,
                    !.wiped_transaction = e.wiped_transaction,
                    !.dirty_transaction = e.dirty_transaction],
                !.observed_accounts[e.id].effect = e.effect]
      [] e.kind = "storage" ->
            [s EXCEPT
                !.storage[e.id] = [@ EXCEPT
                    !.current = e.current, !.block_dirty = e.block_dirty,
                    !.journaled_scope = e.journaled_scope,
                    !.storage_incarnation = e.storage_incarnation,
                    !.undo_transaction = e.undo_transaction,
                    !.undo_index = e.undo_index],
                !.observed_storage[e.id].written = e.written]
      [] e.kind = "account_storage_dirty" ->
            [s EXCEPT !.accounts[e.id].flags = @ \ {"storage_dirty"}]
      [] e.kind = "warm_account" -> [s EXCEPT !.accounts[e.id].warm_transaction = None]
      [] e.kind = "warm_storage" -> [s EXCEPT !.storage[e.id].warm_transaction = None]
      [] e.kind = "deferred_warm_account" -> [s EXCEPT !.deferred_accounts = @ \ {e.id}]
      [] e.kind = "deferred_warm_storage" -> [s EXCEPT !.deferred_storage = @ \ {e.id}]
      [] e.kind = "transient_storage" -> [s EXCEPT !.transient[e.id] = e.previous]
      [] e.kind = "introduced_code" ->
            [s EXCEPT !.introduced = Truncate(@, Last(s.block_introduced_codes) - 1),
                      !.block_introduced_codes = Front(@)]

UndoLast(s) == [UndoEntry(s, Last(s.journal)) EXCEPT !.journal = Front(@)]

\* revertJournalTo: newest entry first.  undone[n] is the state when n entries
\* have been popped.
RevertJournalTo(s, len) ==
    LET undone[n \in 0 .. Len(s.journal) - len] ==
            IF n = 0 THEN s ELSE UndoLast(undone[n - 1])
    IN  undone[Len(s.journal) - len]

Checkpoint(s) ==
    [scope |-> s.clock + 1, parent |-> s.scope, journal_len |-> Len(s.journal),
     changed_accounts_len |-> Len(s.changed_accounts),
     changed_storage_len |-> Len(s.changed_storage), logs |-> s.logs]

Opened(s) ==
    [s EXCEPT !.clock = @ + 1, !.scope = s.clock + 1, !.scope_depth = @ + 1]

\* Mutant: the depth is not counted down.
CommitKeepingDepth(s, c) == [s EXCEPT !.scope = c.parent]

CommitTo(s, c) == [s EXCEPT !.scope = c.parent, !.scope_depth = @ - 1]

RevertTo(s, c) ==
    [RevertJournalTo(s, c.journal_len) EXCEPT
        !.scope_reverted = TRUE,
        !.changed_accounts = Truncate(@, c.changed_accounts_len),
        !.changed_storage = Truncate(@, c.changed_storage_len),
        !.logs = c.logs,
        !.scope = c.parent,
        !.scope_depth = @ - 1]

\* The first n listed rows, under a checkpoint of their own.
FinalizeRows(s, n) ==
    LET finalized[i \in 0 .. n] ==
            IF i = 0 THEN Opened(s)
            ELSE FinalizeRow(finalized[i - 1], s.lifecycle_accounts[i])
    IN  finalized[n]

FinalizeLifecycle(s) ==
    IF s.lifecycle_accounts = <<>> THEN s
    ELSE CommitTo(FinalizeRows(s, Len(s.lifecycle_accounts)), Checkpoint(s))

\* ... and an allocation failure after n rows leaves the scope as it was.
FailFinalizeLifecycle(s, n) == RevertTo(FinalizeRows(s, n), Checkpoint(s))

-----------------------------------------------------------------------------
(* Sealing and retention: the lists are compacted, flags decide            *)

CurrentIncarnation(s, k) ==
    s.storage[k].storage_incarnation = s.accounts[Owner[k]].storage_incarnation

\* The entries of q that are live.  A pass that deduplicates consumes a row's
\* flag, and sets it again on the entries it kept.
Compacted(q, live, deduplicate) ==
    LET kept[n \in 0 .. Len(q)] ==
            IF n = 0 THEN <<>>
            ELSE AppendIf(kept[n - 1],
                          /\ q[n] \in live
                          /\ deduplicate => ~Contains(kept[n - 1], q[n]),
                          q[n])
    IN  kept[Len(q)]

CompactTransactionStorageChanges(s) ==
    LET live == {k \in Slots : CurrentIncarnation(s, k)}
    IN  [s EXCEPT !.changed_storage = Compacted(@, live, FALSE)]

\* Mutant: repeats made by a revert stay listed.
WipesUncompacted(s) == s

CompactTransactionStorageWipes(s) ==
    LET live == {a \in Accounts : s.accounts[a].wiped_transaction = s.transaction}
    IN  IF s.scope_reverted
        THEN [s EXCEPT !.transaction_storage_wipes = Compacted(@, live, TRUE)]
        ELSE s

CompactAcceptedAccountChanges(s) ==
    LET start == s.accepted_len.accounts
        live == {a \in Accounts : "block_changed" \in s.accounts[a].flags}
    IN  IF s.scope_reverted
        THEN [s EXCEPT !.block_changed_accounts =
                Truncate(@, start) \o Compacted(SubSeq(@, start + 1, Len(@)), live, TRUE)]
        ELSE s

CompactAcceptedStorageWipes(s) ==
    LET start == s.accepted_len.wipes
        live == {a \in Accounts : "storage_wiped" \in s.accounts[a].flags}
    IN  IF s.scope_reverted
        THEN [s EXCEPT !.block_storage_wipes =
                Truncate(@, start) \o Compacted(SubSeq(@, start + 1, Len(@)), live, TRUE)]
        ELSE s

\* Mutant: entries that a revert orphaned and a later write repeated all stay.
CompactWithoutDeduplication(s) ==
    LET wiped == s.transaction_storage_wipes # <<>>
        start == IF wiped THEN 0 ELSE s.accepted_len.storage
        scanned == SubSeq(s.dirty_storage, start + 1, Len(s.dirty_storage))
        live == {k \in Slots : s.storage[k].block_dirty /\ CurrentIncarnation(s, k)}
        kept == Compacted(scanned, live, FALSE)
    IN  [s EXCEPT
            !.dirty_storage = Truncate(@, start) \o kept,
            !.storage = [k \in Slots |->
                IF Contains(scanned, k)
                THEN [s.storage[k] EXCEPT !.block_dirty = Contains(kept, k)]
                ELSE s.storage[k]]]

\* Mutant: the accepted prefix is never scanned.
CompactSuffixOnly(s) ==
    LET start == s.accepted_len.storage
        live == {k \in Slots : s.storage[k].block_dirty /\ CurrentIncarnation(s, k)}
        kept == Compacted(SubSeq(s.dirty_storage, start + 1, Len(s.dirty_storage)),
                          live, TRUE)
    IN  [s EXCEPT !.dirty_storage = Truncate(@, start) \o kept]

\* Without a revert the list has no repeats and is filtered; a wipe of this
\* attempt may retire entries of the accepted prefix too.
CompactAcceptedStorageChanges(s) ==
    LET wiped == s.transaction_storage_wipes # <<>>
        start == IF wiped THEN 0 ELSE s.accepted_len.storage
        scanned == SubSeq(s.dirty_storage, start + 1, Len(s.dirty_storage))
        live == {k \in Slots : s.storage[k].block_dirty /\ CurrentIncarnation(s, k)}
        kept == Compacted(scanned, live, s.scope_reverted)
    IN  IF s.scope_reverted \/ wiped
        THEN [s EXCEPT
                !.dirty_storage = Truncate(@, start) \o kept,
                !.storage = [k \in Slots |->
                    IF Contains(scanned, k)
                    THEN [s.storage[k] EXCEPT !.block_dirty = Contains(kept, k)]
                    ELSE s.storage[k]]]
        ELSE s

Seal(s) ==
    [CompactTransactionStorageWipes(CompactTransactionStorageChanges(s)) EXCEPT
        !.sealed = TRUE]

FinishTransaction(s) ==
    [s EXCEPT
        !.deferred_accounts = {}, !.deferred_storage = {},
        !.scope_reverted = FALSE,
        !.transient = InitialState.transient,
        !.changed_accounts = <<>>, !.changed_storage = <<>>,
        !.transaction_storage_wipes = <<>>, !.lifecycle_accounts = <<>>,
        !.observed_accounts = InitialState.observed_accounts,
        !.observed_storage = InitialState.observed_storage,
        !.logs = 0,
        !.journal = <<>>,
        !.transaction_active = FALSE, !.sealed = FALSE,
        !.scope = None, !.root = None, !.scope_depth = 0]

Retained(s) ==
    FinishTransaction(
        CompactAcceptedStorageChanges(
            CompactAcceptedStorageWipes(
                CompactAcceptedAccountChanges([s EXCEPT !.retained_logs = s.logs]))))

Discarded(s) ==
    FinishTransaction(
        [RevertJournalTo(s, 0) EXCEPT
            !.block_changed_accounts = Truncate(@, s.accepted_len.accounts),
            !.block_storage_wipes = Truncate(@, s.accepted_len.wipes),
            !.dirty_storage = Truncate(@, s.accepted_len.storage),
            !.block_introduced_codes = Truncate(@, s.accepted_len.codes)])

Begun(s) ==
    [OpenRoot([s EXCEPT !.clock = @ + 1, !.transaction = s.clock + 1]) EXCEPT
        !.sealed = FALSE, !.transaction_active = TRUE,
        !.accepted_len = [accounts |-> Len(s.block_changed_accounts),
                          wipes |-> Len(s.block_storage_wipes),
                          storage |-> Len(s.dirty_storage),
                          codes |-> Len(s.block_introduced_codes)],
        !.retained_logs = 0]

-----------------------------------------------------------------------------
(* Branch snapshots                                                        *)

BranchSnapshot(s) ==
    [rows |-> CaptureSnapshot(s),
     retained_logs |-> s.retained_logs,
     block_changed_accounts |-> s.block_changed_accounts,
     block_storage_wipes |-> s.block_storage_wipes,
     dirty_storage |-> s.dirty_storage,
     block_introduced_codes_len |-> Len(s.block_introduced_codes),
     introduced_len |-> Len(s.introduced)]

\* restoreBranch first discards an attempt in flight.
Resolved(s) == IF s.transaction_active THEN Discarded(s) ELSE s

\* The lengths restoreSnapshot and truncateIntroduced assert.
Restorable(s, snapshot) ==
    /\ Len(snapshot.rows.accounts) <= Len(s.account_ids)
    /\ Len(snapshot.rows.storage) <= Len(s.storage_ids)
    /\ snapshot.introduced_len <= Len(s.introduced)

RestoredBranch(s, snapshot) ==
    [RestoreSnapshot(s, snapshot.rows) EXCEPT
        !.block_changed_accounts = snapshot.block_changed_accounts,
        !.block_storage_wipes = snapshot.block_storage_wipes,
        !.dirty_storage = snapshot.dirty_storage,
        !.block_introduced_codes = Truncate(@, snapshot.block_introduced_codes_len),
        !.introduced = Truncate(@, snapshot.introduced_len),
        !.retained_logs = snapshot.retained_logs]

AcceptedDiscarded(s) ==
    [ResetRows(s) EXCEPT
        !.introduced = <<>>,
        !.block_changed_accounts = <<>>, !.block_storage_wipes = <<>>,
        !.dirty_storage = <<>>, !.block_introduced_codes = <<>>,
        !.retained_logs = 0,
        !.clock = 0]
=============================================================================
