---------------------------- MODULE WorldState ----------------------------
(***************************************************************************)
(* The transactional world state of state/world_state.zig as a state       *)
(* machine: `state` is the State structure, `checkpoints` and `snapshots`  *)
(* are the tokens its callers hold, `execution_phase` is the Executor's    *)
(* permission to dispatch.  One action is one public method, called the    *)
(* way executor.zig and transaction/runtime.zig call it.  Operations that  *)
(* run code need a session whose dispatch was not ended by finalization.   *)
(***************************************************************************)
EXTENDS WorldRows

CONSTANT Programs   \* records of the fields below and Fork

Balances == program.Balances                    \* values written
Nonces == program.Nonces
StorageValues == program.StorageValues
TransientValues == program.TransientValues
DeployCodes == program.DeployCodes              \* code installed by setCode
Probed == program.Probed                        \* accounts whose value is read
Fetched == program.Fetched                      \* accounts whose code is fetched
Accessed == program.Accessed                    \* accounts an instruction accesses
Listed == program.Listed                        \* what is warmed without a read
Stored == program.Stored                        \* slots its code reads and writes
Unpriced == program.Unpriced                    \* slots set without an access
Touched == program.Touched                      \* empty-call recipients
Creatable == program.Creatable                  \* CREATE destinations
Destructible == program.Destructible            \* accounts that may SELFDESTRUCT
Beneficiaries == program.Beneficiaries
Written == program.Written                      \* accounts whose value is set
MaxClock == program.MaxClock        \* ticks between two discardAccepted calls
MaxDepth == program.MaxDepth        \* bound on scope_depth
MaxJournal == program.MaxJournal    \* journal entries at a transient write
MaxLogs == program.MaxLogs          \* bound on the logs of an attempt
MaxSnapshots == program.MaxSnapshots    \* branch snapshots held at once
MultiRoot == program.MultiRoot      \* its sessions run several roots

ASSUME ProgramsAssumption ==
    \A p \in Programs :
        /\ p.Fork \in {"legacy", "cancun", "amsterdam"}
        /\ UNION {p.Balances, p.Nonces, p.StorageValues, p.TransientValues,
                  p.DeployCodes} \subseteq Nat
        /\ UNION {p.Probed, p.Fetched, p.Accessed, p.Touched, p.Creatable,
                  p.Destructible, p.Beneficiaries, p.Written} \subseteq Accounts
        /\ p.Stored \cup p.Unpriced \subseteq Slots
        /\ {p.MaxClock, p.MaxDepth} \subseteq Nat

VARIABLES
    state,
    checkpoints,        \* innermost last
    snapshots,          \* in capture order
    execution_phase,    \* "idle" or "closed"
    running_root,       \* the position of the running root's checkpoint, 0
                        \* between two roots, Single if the session has one
    root_values,        \* history: the slots' values when the root was opened
    copies,             \* history: full copies taken when the attempt was
                        \* begun and when each checkpoint was opened
    branch_copies       \* history: full copies taken with each snapshot

permission == <<execution_phase, running_root>>

Single == -1

history == <<root_values, copies, branch_copies>>

vars == <<program, state, checkpoints, snapshots, permission, history>>

\* The branch: everything that survives an attempt when it is retained.  The
\* introduced code is listed under a key of its own.
BranchValues(s) ==
    [x \in Accounts \cup Slots \cup {"introduced"} |->
        IF x = "introduced" THEN [codes |-> s.introduced, ids |-> s.block_introduced_codes]
        ELSE IF x \in Slots THEN [value |-> EffectiveStorage(s, x)]
        ELSE [value |-> s.accounts[x].current, flags |-> s.accounts[x].flags,
              incarnation |-> s.accounts[x].storage_incarnation]]

\* The effects: everything of an attempt that must unwind with its scopes
\* and that is gone when the attempt ends.  Transient storage is one of them
\* in a session of one root.
ScopeEffects(s) ==
    [x \in {"effects"} |->
        [warm |-> {a \in Accounts : s.transaction_active /\ AccountWarm(s, a)},
         warm_storage |-> {k \in Slots : s.transaction_active /\ StorageWarm(s, k)},
         transient |-> IF running_root = Single THEN s.transient
                       ELSE InitialState.transient,
         logs |-> s.logs,
         account_effects |-> [a \in Accounts |-> s.observed_accounts[a].effect],
         written |-> {k \in Slots : s.observed_storage[k].written},
         changed |-> <<s.changed_accounts, s.changed_storage>>]]

Copy(s) == [branch |-> BranchValues(s), effects |-> ScopeEffects(s)]

Init ==
    /\ program \in Programs
    /\ state = InitialState
    /\ checkpoints = <<>>
    /\ snapshots = <<>>
    /\ execution_phase = "closed"
    /\ running_root = Single
    /\ root_values = ParentStorage
    /\ copies = <<>>
    /\ branch_copies = <<>>

\* One tick is always left for the closing of the session.
Ticks(n) == state.clock + n < MaxClock

InSession == state.scope_depth > 0

Mutable == AttemptOpen(state)

Dispatching == InSession /\ execution_phase = "idle" /\ running_root # 0

ValuesNow(s) == [k \in Slots |-> EffectiveStorage(s, k)]

-----------------------------------------------------------------------------
(* Attempts and sessions                                                   *)

BeginAttempt ==
    /\ ~state.transaction_active
    /\ Ticks(2)
    /\ state' = Begun(state)
    /\ root_values' = ValuesNow(state)
    /\ copies' = <<Copy(state)>>
    /\ UNCHANGED <<checkpoints, snapshots, permission, branch_copies>>

\* beginExecution, beginRootSession and runPrelude permit dispatch anew.
OpenSession ==
    /\ Mutable /\ ~InSession
    /\ Ticks(1)
    /\ state' = [OpenRoot(state) EXCEPT !.scope_depth = 1]
    /\ execution_phase' = "idle"
    /\ running_root' = IF MultiRoot THEN 0 ELSE Single
    /\ root_values' = ValuesNow(state)
    /\ UNCHANGED <<checkpoints, snapshots, copies, branch_copies>>

CloseSession ==
    /\ state.scope_depth = 1
    /\ state' = [OpenRoot(state) EXCEPT !.scope_depth = 0]
    /\ running_root' = Single
    /\ root_values' = ValuesNow(state)
    /\ UNCHANGED <<checkpoints, snapshots, execution_phase, copies, branch_copies>>

\* sealAttempt asserts that no listed row is left created or selfdestructed.
SealAttempt ==
    /\ Mutable /\ ~InSession
    /\ \A i \in DOMAIN state.lifecycle_accounts :
          state.accounts[state.lifecycle_accounts[i]].flags
              \cap {"created", "selfdestructed"} = {}
    /\ state' = Seal(state)
    /\ UNCHANGED <<checkpoints, snapshots, permission, history>>

RetainAttempt ==
    /\ state.transaction_active /\ state.sealed
    /\ state' = Retained(state)
    /\ copies' = <<>>
    /\ UNCHANGED <<checkpoints, snapshots, permission, root_values, branch_copies>>

DiscardAttempt ==
    /\ state.transaction_active /\ ~InSession
    /\ state' = Discarded(state)
    /\ copies' = <<>>
    /\ UNCHANGED <<checkpoints, snapshots, permission, root_values, branch_copies>>

DiscardAccepted ==
    /\ ~state.transaction_active
    /\ state' = AcceptedDiscarded(state)
    /\ snapshots' = <<>>            \* their epoch is over
    /\ branch_copies' = <<>>
    /\ UNCHANGED <<checkpoints, permission, root_values, copies>>

-----------------------------------------------------------------------------
(* Checkpoints                                                             *)

OpenCheckpoint ==
    /\ InSession /\ state.scope_depth < MaxDepth
    /\ Ticks(1)
    /\ checkpoints' = Append(checkpoints, Checkpoint(state))
    /\ state' = Opened(state)
    /\ copies' = Append(copies, Copy(state))
    /\ UNCHANGED <<snapshots, permission, root_values, branch_copies>>

\* One of several roots of a session starts: transient storage is emptied
\* without an undo entry, then the root's own checkpoint is opened.
RunRoot ==
    /\ InSession /\ execution_phase = "idle" /\ running_root = 0
    /\ state.scope_depth < MaxDepth
    /\ Ticks(1)
    /\ LET cleared == ClearTransientStorage(state)
       IN  /\ checkpoints' = Append(checkpoints, Checkpoint(cleared))
           /\ state' = Opened(cleared)
           /\ copies' = Append(copies, Copy(cleared))
    /\ running_root' = Len(checkpoints) + 1
    /\ UNCHANGED <<snapshots, execution_phase, root_values, branch_copies>>

\* The root that runs ends with its own checkpoint.
EndRoot == running_root' = IF running_root = Len(checkpoints) THEN 0 ELSE running_root

CommitCheckpoint ==
    /\ checkpoints # <<>>
    /\ EndRoot
    /\ state' = CommitTo(state, Last(checkpoints))
    /\ checkpoints' = Front(checkpoints)
    /\ copies' = Front(copies)
    /\ UNCHANGED <<snapshots, execution_phase, root_values, branch_copies>>

RevertToCheckpoint ==
    /\ checkpoints # <<>>
    /\ EndRoot
    /\ state' = RevertTo(state, Last(checkpoints))
    /\ checkpoints' = Front(checkpoints)
    /\ copies' = Front(copies)
    /\ UNCHANGED <<snapshots, execution_phase, root_values, branch_copies>>

-----------------------------------------------------------------------------
(* Reads and writes                                                        *)

Becomes(s) ==
    /\ state' = s
    /\ UNCHANGED <<checkpoints, snapshots, permission, history>>

\* setBalance and setNonce serve execution, validation and settlement alike.
WriteValue ==
    /\ Mutable
    /\ \E a \in Written :
          \/ \E v \in Balances : Becomes(SetField(state, a, "balance", v))
          \/ \E v \in Nonces : Becomes(SetField(state, a, "nonce", v))

InstallCode ==
    /\ Mutable
    /\ \E a \in Written, code \in DeployCodes : Becomes(SetCode(state, a, code))

Probe == \E a \in Probed : Becomes(ReadAccount(state, a))

GetCode == \E a \in Fetched : Becomes(LoadCode(ReadAccount(state, a), a))

\* touchEmptyCallRecipient: a call to an account without code, by the rules
\* before Spurious Dragon.
Touch ==
    /\ Dispatching /\ Fork = "legacy"
    /\ \E a \in Touched :
          /\ state.accounts[a].current.code = EmptyCode
          /\ Becomes(TouchAccount(state, a))

Access == Dispatching /\ \E a \in Accessed : Becomes(AccessAccount(state, a))

WarmListed ==
    /\ Dispatching
    /\ \/ \E a \in Listed \cap Accounts : Becomes(WarmAccount(state, a))
       \/ \E k \in Listed \cap Slots : Becomes(WarmStorage(state, k))

\* An account runs code if it has code or is being created.
Runs(a) ==
    /\ Dispatching
    /\ \/ state.accounts[a].current.code # EmptyCode
       \/ "created" \in state.accounts[a].flags

SLoad == \E k \in Stored : Runs(Owner[k]) /\ Becomes(LoadStorage(state, k))

SStore ==
    \E k \in Stored, v \in StorageValues :
        /\ Runs(Owner[k])
        /\ \/ Becomes(StoreStorage(state, k, v))
           \/ k \in Unpriced /\ Becomes(SetStorage(state, k, v))

TStore ==
    /\ Dispatching
    /\ Len(state.journal) < MaxJournal
    /\ \E t \in TransientKeys, v \in TransientValues :
          Becomes(SetTransientStorage(state, t, v))

EmitLog ==
    /\ Dispatching
    /\ state.logs < MaxLogs
    /\ Becomes([state EXCEPT !.logs = @ + 1])

\* beginPreparedCreate: the destination has neither nonce nor code.
Create ==
    /\ Dispatching /\ state.scope_depth > 1
    /\ \E a \in Creatable :
          /\ state.accounts[a].current.nonce = 0
          /\ state.accounts[a].current.code = EmptyCode
          /\ Becomes(InitializeContract(state, a))

SelfDestruct ==
    /\ state.scope_depth > 1
    /\ \E a \in Destructible, b \in Beneficiaries :
          Runs(a) /\ Becomes(ApplySelfDestruct(state, a, b))

\* finalizeExecution: rollback does not reopen dispatch.
Finalize ==
    /\ InSession /\ running_root <= 0
    /\ Ticks(1)
    /\ state' = FinalizeLifecycle(state)
    /\ execution_phase' = "closed"
    /\ UNCHANGED <<checkpoints, snapshots, running_root, history>>

FailFinalize ==
    /\ InSession /\ running_root <= 0
    /\ Ticks(1)
    /\ \E n \in 0 .. Len(state.lifecycle_accounts) - 1 :
          Becomes(FailFinalizeLifecycle(state, n))

-----------------------------------------------------------------------------
(* Branch snapshots                                                        *)

TakeSnapshot ==
    /\ ~state.transaction_active
    /\ Len(snapshots) < MaxSnapshots
    /\ snapshots' = Append(snapshots, BranchSnapshot(state))
    /\ branch_copies' = Append(branch_copies, BranchValues(state))
    /\ UNCHANGED <<state, checkpoints, permission, root_values, copies>>

Restore(i) ==
    /\ ~InSession
    /\ Restorable(Resolved(state), snapshots[i])
    /\ state' = RestoredBranch(Resolved(state), snapshots[i])
    /\ copies' = <<>>
    /\ UNCHANGED <<checkpoints, permission, root_values>>

\* Mutant: later snapshots stay in use.
RestoreKeepingLater ==
    \E i \in DOMAIN snapshots :
        /\ Restore(i)
        /\ snapshots' = RemoveAt(snapshots, i)
        /\ branch_copies' = RemoveAt(branch_copies, i)

\* Snapshots are used like a stack, as system_contracts.zig and the block
\* benchmarks do: restoring one ends the use of every later one, and the one
\* restored is consumed unless the caller cloned it.
RestoreBranch ==
    \E i \in DOMAIN snapshots : \E held \in {i, i - 1} :
        /\ Restore(i)
        /\ snapshots' = Truncate(snapshots, held)
        /\ branch_copies' = Truncate(branch_copies, held)

-----------------------------------------------------------------------------
Next ==
    \/ BeginAttempt \/ OpenSession \/ CloseSession
    \/ SealAttempt \/ RetainAttempt \/ DiscardAttempt \/ DiscardAccepted
    \/ OpenCheckpoint \/ CommitCheckpoint \/ RevertToCheckpoint \/ RunRoot
    \/ WriteValue \/ InstallCode \/ Probe \/ GetCode \/ Touch
    \/ Access \/ WarmListed \/ SLoad \/ SStore \/ TStore \/ EmitLog
    \/ Create \/ SelfDestruct \/ Finalize \/ FailFinalize
    \/ TakeSnapshot \/ RestoreBranch

Spec == Init /\ [][Next /\ UNCHANGED program]_vars
=============================================================================
