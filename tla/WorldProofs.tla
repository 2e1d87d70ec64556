---------------------------- MODULE WorldProofs ----------------------------
(***************************************************************************)
(* The world state, for any accounts, slots and programs: every rollback   *)
(* is exact.  The invariant keeps, for every open scope, the state it was  *)
(* opened in, and, for every branch snapshot held, the state it was taken  *)
(* of.                                                                     *)
(***************************************************************************)
EXTENDS WorldRowsProofs

-----------------------------------------------------------------------------
(* Reverting to a boundary                                                 *)

\* What the views say about rows.
SameValues(r, b) ==
    /\ \A a \in Accounts :
          /\ r.accounts[a].current = b.accounts[a].current
          /\ r.accounts[a].code_ref = b.accounts[a].code_ref
          /\ r.accounts[a].flags = b.accounts[a].flags
          /\ r.accounts[a].storage_incarnation = b.accounts[a].storage_incarnation
    /\ \A k \in Slots :
          /\ r.storage[k].current = b.storage[k].current
          /\ r.storage[k].block_dirty = b.storage[k].block_dirty
          /\ r.storage[k].storage_incarnation = b.storage[k].storage_incarnation

SameEffects(r, b) ==
    /\ \A a \in Accounts : r.observed_accounts[a].effect = b.observed_accounts[a].effect
    /\ \A k \in Slots : r.observed_storage[k].written = b.observed_storage[k].written

SameWarm(r, b) ==
    /\ \A a \in Accounts : /\ r.accounts[a].warm_transaction = r.transaction
                                 <=> b.accounts[a].warm_transaction = b.transaction
                           /\ a \in r.deferred_accounts <=> a \in b.deferred_accounts
    /\ \A k \in Slots : /\ r.storage[k].warm_transaction = r.transaction
                              <=> b.storage[k].warm_transaction = b.transaction
                        /\ k \in r.deferred_storage <=> k \in b.deferred_storage

LEMMA AccountViewDetermines ==
  ASSUME NEW r, NEW b, NEW a, AccountView(r, a) = AccountView(b, a)
  PROVE  /\ r.accounts[a].current = b.accounts[a].current
         /\ r.accounts[a].code_ref = b.accounts[a].code_ref
         /\ r.accounts[a].flags \ {"storage_dirty"} = b.accounts[a].flags \ {"storage_dirty"}
         /\ r.accounts[a].storage_incarnation = b.accounts[a].storage_incarnation
         /\ r.observed_accounts[a].effect = b.observed_accounts[a].effect
  BY DEF AccountView

LEMMA StorageViewDetermines ==
  ASSUME NEW r, NEW b, NEW k, StorageView(r, k) = StorageView(b, k)
  PROVE  /\ r.storage[k].current = b.storage[k].current
         /\ r.storage[k].block_dirty = b.storage[k].block_dirty
         /\ r.storage[k].storage_incarnation = b.storage[k].storage_incarnation
         /\ r.observed_storage[k].written = b.observed_storage[k].written
  BY DEF StorageView

LEMMA ViewsDetermine ==
  ASSUME NEW r, NEW b, \A o \in Objects : View(r, o) = View(b, o)
  PROVE  SameValues(r, b) /\ SameEffects(r, b) /\ SameWarm(r, b)
<1>1. ASSUME NEW a \in Accounts
      PROVE  /\ AccountView(r, a) = AccountView(b, a)
             /\ "storage_dirty" \in r.accounts[a].flags
                   <=> "storage_dirty" \in b.accounts[a].flags
             /\ r.accounts[a].warm_transaction = r.transaction
                   <=> b.accounts[a].warm_transaction = b.transaction
             /\ a \in r.deferred_accounts <=> a \in b.deferred_accounts
  <2>1. \A kind \in {"account", "account_storage_dirty", "warm_account",
                     "deferred_warm_account"} : <<kind, a>> \in Objects
    BY DEF Objects
  <2>2. /\ View(r, <<"account", a>>) = View(b, <<"account", a>>)
        /\ View(r, <<"account_storage_dirty", a>>) = View(b, <<"account_storage_dirty", a>>)
        /\ View(r, <<"warm_account", a>>) = View(b, <<"warm_account", a>>)
        /\ View(r, <<"deferred_warm_account", a>>) = View(b, <<"deferred_warm_account", a>>)
    BY <2>1
  <2>3. /\ AccountView(r, a) = AccountView(b, a)
        /\ Bit("storage_dirty" \in r.accounts[a].flags)
              = Bit("storage_dirty" \in b.accounts[a].flags)
        /\ Bit(r.accounts[a].warm_transaction = r.transaction)
              = Bit(b.accounts[a].warm_transaction = b.transaction)
        /\ Bit(a \in r.deferred_accounts) = Bit(a \in b.deferred_accounts)
    BY <2>2, ViewOf
  <2> QED BY <2>3 DEF Bit
<1>2. ASSUME NEW k \in Slots
      PROVE  /\ StorageView(r, k) = StorageView(b, k)
             /\ r.storage[k].warm_transaction = r.transaction
                   <=> b.storage[k].warm_transaction = b.transaction
             /\ k \in r.deferred_storage <=> k \in b.deferred_storage
  <2>1. \A kind \in {"storage", "warm_storage", "deferred_warm_storage"} :
            <<kind, k>> \in Objects
    BY DEF Objects
  <2>2. /\ View(r, <<"storage", k>>) = View(b, <<"storage", k>>)
        /\ View(r, <<"warm_storage", k>>) = View(b, <<"warm_storage", k>>)
        /\ View(r, <<"deferred_warm_storage", k>>) = View(b, <<"deferred_warm_storage", k>>)
    BY <2>1
  <2>3. /\ StorageView(r, k) = StorageView(b, k)
        /\ Bit(r.storage[k].warm_transaction = r.transaction)
              = Bit(b.storage[k].warm_transaction = b.transaction)
        /\ Bit(k \in r.deferred_storage) = Bit(k \in b.deferred_storage)
    BY <2>2, ViewOf
  <2> QED BY <2>3 DEF Bit
<1>3. ASSUME NEW a \in Accounts PROVE r.accounts[a].flags = b.accounts[a].flags
  <2>1. r.accounts[a].flags \ {"storage_dirty"} = b.accounts[a].flags \ {"storage_dirty"}
    BY <1>1, AccountViewDetermines
  <2> DEFINE p == r.accounts[a].flags
             q == b.accounts[a].flags
  <2>2. "storage_dirty" \in p <=> "storage_dirty" \in q
    BY <1>1
  <2>3. p \ {"storage_dirty"} = q \ {"storage_dirty"}
    BY <2>1
  <2> HIDE DEF p, q
  <2>4. \A x : x \in p <=> x \in q
    BY <2>2, <2>3
  <2>5. p = q
    BY <2>4
  <2> QED BY <2>5 DEF p, q
<1>4. SameValues(r, b)
  BY <1>1, <1>2, <1>3, AccountViewDetermines, StorageViewDetermines DEF SameValues
<1>5. SameEffects(r, b)
  BY <1>1, <1>2, AccountViewDetermines, StorageViewDetermines DEF SameEffects
<1>6. SameWarm(r, b)
  BY <1>1, <1>2 DEF SameWarm
<1> QED BY <1>4, <1>5, <1>6

\* u is s returned to b.
GivenBack(s, u, b) ==
    /\ Typed(u) /\ CodesListed(u) /\ UndoKeeps(s, u)
    /\ u.journal = b.journal /\ u.introduced = b.introduced
    /\ \A o \in Objects : View(u, o) = View(b, o)

LEMMA UndoneKeptFields ==
  ASSUME NEW s, NEW u, UndoKeeps(s, u)
  PROVE  /\ u.transaction = s.transaction /\ u.transaction_active = s.transaction_active
         /\ u.lifecycle_accounts = s.lifecycle_accounts /\ u.parent_code = s.parent_code
         /\ u.account_ids = s.account_ids /\ u.storage_ids = s.storage_ids
         /\ u.clock = s.clock /\ u.changed_accounts = s.changed_accounts
         /\ u.changed_storage = s.changed_storage /\ u.scope_depth = s.scope_depth
         /\ u.sealed = s.sealed /\ u.accepted_len = s.accepted_len /\ u.root = s.root
         /\ u.block_changed_accounts = s.block_changed_accounts
         /\ u.block_storage_wipes = s.block_storage_wipes
         /\ u.dirty_storage = s.dirty_storage /\ u.scope_reverted = s.scope_reverted
         /\ u.transaction_storage_wipes = s.transaction_storage_wipes
         /\ u.retained_logs = s.retained_logs /\ IsState(u)
  BY DEF UndoKeeps, SameBut, UndoFields, StateFields

LEMMA UndoneSound ==
  ASSUME NEW s, Sound(s), NEW b, Base(b, s), NEW u, GivenBack(s, u, b)
  PROVE  Sound(u) /\ SameValues(u, b) /\ SameEffects(u, b) /\ SameWarm(u, b)
<1>1. /\ Typed(u) /\ CodesListed(u) /\ UndoKeeps(s, u) /\ u.introduced = b.introduced
      /\ \A o \in Objects : View(u, o) = View(b, o)
  BY DEF GivenBack
<1>2. SameValues(u, b) /\ SameEffects(u, b) /\ SameWarm(u, b)
  BY <1>1, ViewsDetermine
<1>3. /\ u.transaction = s.transaction /\ u.transaction_active = s.transaction_active
      /\ u.lifecycle_accounts = s.lifecycle_accounts /\ u.parent_code = s.parent_code
      /\ u.account_ids = s.account_ids /\ u.storage_ids = s.storage_ids
  BY <1>1, UndoneKeptFields
<1>4. /\ Typed(b) /\ Unobserved(b) /\ LifecycleListed(b) /\ CodesBound(b) /\ Pristine(b)
      /\ Grows(b, s) /\ b.transaction = s.transaction
  BY DEF Base, Sound
<1>5. Unobserved(u)
  BY <1>1, <1>2, <1>3, <1>4 DEF Unobserved, UndoKeeps, SameEffects, Grows
<1>6. LifecycleListed(u)
  <2>1. /\ Len(b.lifecycle_accounts) \in Nat /\ Len(u.lifecycle_accounts) \in Nat
        /\ PrefixOf(b.lifecycle_accounts, u.lifecycle_accounts)
    BY <1>1, <1>3, <1>4, LifecycleLength DEF Grows, ListFields
  <2>2. \A a : InLifecycle(b, a) => InLifecycle(u, a)
    BY <2>1, StillListed
  <2>3. ASSUME NEW a \in Accounts, u.accounts[a].flags \cap LifecycleBits # {}
        PROVE  InLifecycle(u, a)
    BY <1>2, <1>4, <2>2, <2>3 DEF LifecycleListed, SameValues
  <2>4. ASSUME NEW a \in Accounts, u.accounts[a].lifecycle_transaction = u.transaction
        PROVE  InLifecycle(u, a)
    <3>1. s.accounts[a].lifecycle_transaction = s.transaction
      BY <1>1, <1>3, <2>4 DEF UndoKeeps
    <3>2. InLifecycle(s, a)
      BY <3>1 DEF Sound, LifecycleListed
    <3> QED BY <1>3, <3>2 DEF InLifecycle
  <2> QED BY <2>3, <2>4 DEF LifecycleListed
<1>7. CodesBound(u)
  <2>1. /\ Len(b.introduced) \in Nat /\ PrefixOf(b.introduced, u.introduced)
        /\ Len(u.introduced) \in Nat /\ b.parent_code \subseteq u.parent_code
    BY <1>1, <1>3, <1>4, ListFacts, PrefixReflexive DEF Grows
  <2>2. ASSUME NEW a \in Accounts
        PROVE  CodeBound(u, u.accounts[a].code_ref, u.accounts[a].current.code)
    <3>1. CodeBound(b, u.accounts[a].code_ref, u.accounts[a].current.code)
      BY <1>2, <1>4 DEF CodesBound, SameValues
    <3> QED BY <2>1, <3>1, StillBound
  <2> QED BY <2>2 DEF CodesBound
<1>8. Pristine(u)
  <2>1. /\ \A a : IsAdmitted(b, a) => IsAdmitted(u, a)
        /\ \A k : IsStorageAdmitted(b, k) => IsStorageAdmitted(u, k)
    BY <1>1, <1>3, <1>4, StillAdmitted DEF Typed, Grows, ListFields
  <2> QED BY <1>2, <1>4, <2>1 DEF Pristine, ParentRow, ParentSlot, SameValues
<1>9. u.transaction_active
  BY <1>3 DEF Sound
<1> QED BY <1>1, <1>2, <1>5, <1>6, <1>7, <1>8, <1>9 DEF Sound
\* The effects of s with w as its transient storage.
EffectsOf(s, w) ==
    [x \in {"effects"} |->
        [warm |-> {a \in Accounts : s.transaction_active /\ AccountWarm(s, a)},
         warm_storage |-> {k \in Slots : s.transaction_active /\ StorageWarm(s, k)},
         transient |-> w,
         logs |-> s.logs,
         account_effects |-> [a \in Accounts |-> s.observed_accounts[a].effect],
         written |-> {k \in Slots : s.observed_storage[k].written},
         changed |-> <<s.changed_accounts, s.changed_storage>>]]

LEMMA SameBranch ==
  ASSUME NEW r, NEW b, SameValues(r, b), r.introduced = b.introduced,
         r.block_introduced_codes = b.block_introduced_codes
  PROVE  BranchValues(r) = BranchValues(b)
<1>1. \A k \in Slots : EffectiveStorage(r, k) = EffectiveStorage(b, k)
  BY WorldConstants DEF SameValues, EffectiveStorage
<1> QED BY <1>1 DEF SameValues, BranchValues

LEMMA SameScopeEffects ==
  ASSUME NEW r, NEW b, SameEffects(r, b), SameWarm(r, b), r.logs = b.logs,
         r.transaction_active = b.transaction_active,
         r.changed_accounts = b.changed_accounts, r.changed_storage = b.changed_storage,
         NEW w
  PROVE  EffectsOf(r, w) = EffectsOf(b, w)
<1>1. {a \in Accounts : r.transaction_active /\ AccountWarm(r, a)}
         = {a \in Accounts : b.transaction_active /\ AccountWarm(b, a)}
  BY DEF SameWarm, AccountWarm
<1>2. {k \in Slots : r.transaction_active /\ StorageWarm(r, k)}
         = {k \in Slots : b.transaction_active /\ StorageWarm(b, k)}
  BY DEF SameWarm, StorageWarm
<1>3. [a \in Accounts |-> r.observed_accounts[a].effect]
         = [a \in Accounts |-> b.observed_accounts[a].effect]
  BY DEF SameEffects
<1>4. {k \in Slots : r.observed_storage[k].written}
         = {k \in Slots : b.observed_storage[k].written}
  BY DEF SameEffects
<1> QED BY <1>1, <1>2, <1>3, <1>4 DEF EffectsOf

LEMMA ListedSame ==
  ASSUME NEW r, Typed(r), NEW b, Typed(b), CodesListed(r), CodesListed(b),
         r.introduced = b.introduced
  PROVE  r.block_introduced_codes = b.block_introduced_codes
<1>1. r.block_introduced_codes \in Seq(Nat) /\ b.block_introduced_codes \in Seq(Nat)
  BY DEF Typed, ListsTyped
<1>2. /\ Len(r.block_introduced_codes) = Len(b.block_introduced_codes)
      /\ \A i \in 1 .. Len(b.block_introduced_codes) :
            r.block_introduced_codes[i] = b.block_introduced_codes[i]
  BY DEF CodesListed
<1> QED BY <1>1, <1>2, SameSequence

\* The token of a checkpoint opened in b.
TokenOf(c, b) ==
    /\ c.journal_len = Len(b.journal)
    /\ c.changed_accounts_len = Len(b.changed_accounts)
    /\ c.changed_storage_len = Len(b.changed_storage)
    /\ c.logs = b.logs

\* x was a boundary when b became one.
Before(x, b) ==
    /\ Len(x.journal) <= Len(b.journal)
    /\ Len(x.changed_accounts) <= Len(b.changed_accounts)
    /\ Len(x.changed_storage) <= Len(b.changed_storage)

RevertFields ==
    {"scope_reverted", "changed_accounts", "changed_storage", "logs", "scope", "scope_depth"}

LEMMA CutToPrefix ==
  ASSUME NEW S, NEW q \in Seq(S), NEW p \in Seq(S), PrefixOf(q, p)
  PROVE  Truncate(p, Len(q)) = q /\ Len(q) \in 0 .. Len(p)
<1>1. Len(q) \in 0 .. Len(p)
  BY DEF PrefixOf
<1>2. /\ Truncate(p, Len(q)) \in Seq(S) /\ Len(Truncate(p, Len(q))) = Len(q)
      /\ \A i \in 1 .. Len(q) : Truncate(p, Len(q))[i] = p[i]
  BY <1>1, Shortened DEF Truncate
<1>3. \A i \in 1 .. Len(q) : Truncate(p, Len(q))[i] = q[i]
  BY <1>2 DEF PrefixOf
<1> QED BY <1>1, <1>2, <1>3, SameSequence

LEMMA GivesBack ==
  ASSUME NEW s, Sound(s), NEW b, Base(b, s)
  PROVE  LET u == RevertJournalTo(s, Len(b.journal))
         IN  /\ GivenBack(s, u, b)
             /\ \A x : Returns(s, x) /\ Len(x.journal) <= Len(b.journal) => Returns(u, x)
             /\ \A len \in 0 .. Len(b.journal) : \A w :
                   TransientEntries(s, len, w) =>
                      /\ TransientEntries(u, len, w)
                      /\ TransientNow(s, len, w) => TransientNow(u, len, w)
  BY RevertGivesBack DEF GivenBack, Sound, Base

LEMMA GrowsAfterUndo ==
  ASSUME NEW s, NEW u, UndoKeeps(s, u), NEW x, Grows(x, s)
  PROVE  Grows(x, u)
<1>1. \A f \in ListFields : u[f] = s[f]
  BY DEF UndoKeeps, SameBut, UndoFields, ListFields, StateFields
<1>2. u.parent_code = s.parent_code /\ u.transaction = s.transaction
  BY UndoneKeptFields
<1> QED BY <1>1, <1>2 DEF Grows, UndoKeeps

Reverts(s, b, c, r) ==
    /\ Sound(r)
    /\ r.clock = s.clock /\ r.transaction = s.transaction /\ r.sealed = s.sealed
    /\ r.transaction_active = s.transaction_active
    /\ r.accepted_len = s.accepted_len /\ r.scope = c.parent
    /\ r.scope_depth = s.scope_depth - 1
    /\ BranchValues(r) = BranchValues(b)
    /\ \A w : EffectsOf(r, w) = EffectsOf(b, w)
    /\ \A x : Base(x, s) /\ Before(x, b) => Base(x, r)
    /\ \A len \in 0 .. Len(b.journal) : \A w :
          TransientEntries(s, len, w) =>
             /\ TransientEntries(r, len, w)
             /\ TransientNow(s, len, w) => TransientNow(r, len, w)
    /\ \A w \in [TransientKeys -> Nat] :
          /\ TransientEntries(s, Len(b.journal), w)
          /\ TransientNow(s, Len(b.journal), w)
          => r.transient = w

LEMMA RevertToFields ==
  ASSUME NEW s, NEW c, NEW u, u = RevertJournalTo(s, c.journal_len), IsState(u)
  PROVE  LET r == RevertTo(s, c)
         IN  /\ SameBut(r, u, RevertFields)
             /\ r.scope_reverted = TRUE
             /\ r.changed_accounts = Truncate(u.changed_accounts, c.changed_accounts_len)
             /\ r.changed_storage = Truncate(u.changed_storage, c.changed_storage_len)
             /\ r.logs = c.logs /\ r.scope = c.parent /\ r.scope_depth = u.scope_depth - 1
  BY DEF RevertTo, SameBut, IsState, StateFields, RevertFields

LEMMA RevertReverts ==
  ASSUME NEW s, Sound(s), s.scope_depth > 0, NEW b, Base(b, s), NEW c, TokenOf(c, b),
         c.parent \in 0 .. s.clock
  PROVE  Reverts(s, b, c, RevertTo(s, c))
<1> DEFINE u == RevertJournalTo(s, Len(b.journal))
           r == RevertTo(s, c)
<1>1. /\ GivenBack(s, u, b)
      /\ \A x : Returns(s, x) /\ Len(x.journal) <= Len(b.journal) => Returns(u, x)
      /\ \A len \in 0 .. Len(b.journal) : \A w :
            TransientEntries(s, len, w) =>
               /\ TransientEntries(u, len, w)
               /\ TransientNow(s, len, w) => TransientNow(u, len, w)
  BY GivesBack
<1>2. /\ Typed(u) /\ CodesListed(u) /\ UndoKeeps(s, u) /\ u.journal = b.journal
      /\ u.introduced = b.introduced /\ IsState(u)
  BY <1>1 DEF GivenBack, Typed
<1>3. /\ u = RevertJournalTo(s, c.journal_len) /\ c.logs = b.logs
      /\ c.changed_accounts_len = Len(b.changed_accounts)
      /\ c.changed_storage_len = Len(b.changed_storage)
  BY DEF TokenOf
<1> HIDE DEF u
<1>4. /\ SameBut(r, u, RevertFields) /\ r.scope_reverted = TRUE
      /\ r.changed_accounts = Truncate(u.changed_accounts, Len(b.changed_accounts))
      /\ r.changed_storage = Truncate(u.changed_storage, Len(b.changed_storage))
      /\ r.logs = b.logs /\ r.scope = c.parent /\ r.scope_depth = u.scope_depth - 1
  BY ZenonT(40), <1>2, <1>3, RevertToFields
<1> HIDE DEF r
<1>5. /\ Sound(u) /\ SameValues(u, b) /\ SameEffects(u, b) /\ SameWarm(u, b)
  BY <1>1, UndoneSound
<1>6. /\ u.transaction = s.transaction /\ u.transaction_active = s.transaction_active
      /\ u.clock = s.clock /\ u.changed_accounts = s.changed_accounts
      /\ u.changed_storage = s.changed_storage /\ u.scope_depth = s.scope_depth
      /\ u.sealed = s.sealed /\ u.accepted_len = s.accepted_len
  BY <1>2, UndoneKeptFields
<1>7. Typed(b) /\ Sound(b) /\ Typed(s) /\ Grows(b, s) /\ CodesListed(b) /\ b.transaction_active
  BY DEF Base, Sound
<1>8. /\ b.changed_accounts \in Seq(Accounts) /\ s.changed_accounts \in Seq(Accounts)
      /\ b.changed_storage \in Seq(Slots) /\ s.changed_storage \in Seq(Slots)
      /\ PrefixOf(b.changed_accounts, s.changed_accounts)
      /\ PrefixOf(b.changed_storage, s.changed_storage)
  BY <1>7 DEF Typed, ListsTyped, Grows, ListFields
<1>9. r.changed_accounts = b.changed_accounts /\ r.changed_storage = b.changed_storage
  BY <1>4, <1>6, <1>8, CutToPrefix
<1>10. /\ r.accounts = u.accounts /\ r.storage = u.storage /\ r.clock = u.clock
       /\ r.introduced = u.introduced /\ r.block_introduced_codes = u.block_introduced_codes
       /\ r.observed_accounts = u.observed_accounts
       /\ r.observed_storage = u.observed_storage
       /\ r.deferred_accounts = u.deferred_accounts
       /\ r.deferred_storage = u.deferred_storage
       /\ r.transaction = u.transaction /\ r.transaction_active = u.transaction_active
       /\ r.sealed = u.sealed /\ r.accepted_len = u.accepted_len
       /\ r.transient = u.transient /\ r.journal = u.journal /\ r.root = u.root
       /\ r.parent_code = u.parent_code
  BY <1>4 DEF SameBut, RevertFields, StateFields
<1>11. /\ r.block_changed_accounts = u.block_changed_accounts
       /\ r.block_storage_wipes = u.block_storage_wipes
       /\ r.dirty_storage = u.dirty_storage
       /\ r.transaction_storage_wipes = u.transaction_storage_wipes
  BY <1>4 DEF SameBut, RevertFields, StateFields
<1>12. SameBut(r, u, AdjustFields)
  BY <1>4 DEF SameBut, RevertFields, AdjustFields, LogLists
<1>13. Adjusts(u, r)
  <2>1. /\ r.block_changed_accounts \in Seq(Accounts)
        /\ r.block_storage_wipes \in Seq(Accounts)
        /\ r.transaction_storage_wipes \in Seq(Accounts)
        /\ r.dirty_storage \in Seq(Slots)
        /\ r.changed_accounts \in Seq(Accounts) /\ r.changed_storage \in Seq(Slots)
    BY <1>2, <1>8, <1>9, <1>11 DEF Typed, ListsTyped
  <2>2. \A f \in {"block_changed_accounts", "block_storage_wipes", "changed_accounts",
                  "transaction_storage_wipes"} : r[f] \in Seq(Accounts)
    BY <2>1
  <2>3. ControlTyped(u) /\ ControlTyped(b) /\ u.clock \in Nat
    BY <1>2, <1>7 DEF Typed, RowsTyped
  <2>4. r.scope_depth \in Nat /\ r.logs \in Nat /\ r.scope \in 0 .. r.clock
    BY SMTT(30), <1>4, <1>6, <1>10, <2>3 DEF ControlTyped
  <2>5. ControlTyped(r)
    BY <1>4, <1>10, <2>3, <2>4 DEF ControlTyped
  <2> QED BY <1>10, <1>12, <2>1, <2>2, <2>3, <2>5 DEF Adjusts
<1>14. Sound(r)
  BY <1>5, <1>13, AdjustsSound
<1>15. BranchValues(r) = BranchValues(b)
  <2>1. SameValues(r, b)
    BY <1>5, <1>10 DEF SameValues
  <2>2. u.block_introduced_codes = b.block_introduced_codes
    BY <1>2, <1>7, ListedSame
  <2> QED BY <1>2, <1>10, <2>1, <2>2, SameBranch
<1>16. ASSUME NEW w PROVE EffectsOf(r, w) = EffectsOf(b, w)
  <2>1. SameEffects(r, b)
    BY <1>5, <1>10 DEF SameEffects
  <2>2. SameWarm(r, b)
    BY <1>5, <1>10 DEF SameWarm
  <2>3. r.transaction_active = b.transaction_active
    BY <1>6, <1>7, <1>10 DEF Sound
  <2> QED BY <1>4, <1>9, <2>1, <2>2, <2>3, SameScopeEffects
<1>17. ASSUME NEW x, Base(x, s), Before(x, b) PROVE Base(x, r)
  <2>1. /\ Sound(x) /\ Typed(x) /\ x.transaction = s.transaction /\ x.clock <= s.clock
        /\ Returns(s, x) /\ Grows(x, s)
    BY <1>17 DEF Base, Sound
  <2>2. Returns(u, x)
    BY <1>1, <1>17, <2>1 DEF Before
  <2>3. Returns(r, x)
    BY <1>12, <2>2, AdjustsReturns
  <2>4. Grows(x, u)
    BY <1>2, <2>1, GrowsAfterUndo
  <2>5. ASSUME NEW S, NEW p \in Seq(S), NEW q \in Seq(S), NEW t \in Seq(S),
               PrefixOf(p, t), PrefixOf(q, t), Len(p) <= Len(q)
        PROVE  PrefixOf(p, q)
    BY <2>5 DEF PrefixOf
  <2>6. /\ x.changed_accounts \in Seq(Accounts) /\ x.changed_storage \in Seq(Slots)
        /\ PrefixOf(x.changed_accounts, s.changed_accounts)
        /\ PrefixOf(x.changed_storage, s.changed_storage)
    BY <2>1 DEF Typed, ListsTyped, Grows, ListFields
  <2>7. /\ PrefixOf(x.changed_accounts, r.changed_accounts)
        /\ PrefixOf(x.changed_storage, r.changed_storage)
    BY <1>8, <1>9, <1>17, <2>5, <2>6 DEF Before
  <2>8. \A f \in ListFields : PrefixOf(x[f], r[f])
    <3>1. \A f \in ListFields \ {"changed_accounts", "changed_storage"} : r[f] = u[f]
      BY <1>4 DEF SameBut, RevertFields, StateFields, ListFields
    <3>2. ASSUME NEW f \in ListFields PROVE PrefixOf(x[f], r[f])
      <4>1. CASE f = "changed_accounts"
        BY <2>7, <4>1
      <4>2. CASE f = "changed_storage"
        BY <2>7, <4>2
      <4>3. CASE f \notin {"changed_accounts", "changed_storage"}
        BY <2>4, <3>1, <4>3 DEF Grows
      <4> QED BY <4>1, <4>2, <4>3
    <3> QED BY <3>2
  <2>9. Grows(x, r)
    BY <1>10, <2>4, <2>8 DEF Grows
  <2> QED BY <1>6, <1>10, <2>1, <2>3, <2>9 DEF Base
<1>18. ASSUME NEW len \in 0 .. Len(b.journal), NEW w, TransientEntries(s, len, w)
       PROVE  /\ TransientEntries(r, len, w)
              /\ TransientNow(s, len, w) => TransientNow(r, len, w)
  BY <1>1, <1>10, <1>18, TransientSame
<1>19. ASSUME NEW w \in [TransientKeys -> Nat], TransientEntries(s, Len(b.journal), w),
              TransientNow(s, Len(b.journal), w)
       PROVE  r.transient = w
  <2>1. Len(b.journal) \in 0 .. Len(b.journal) /\ Len(r.journal) = Len(b.journal)
    BY <1>2, <1>7, <1>10, ListFacts
  <2>2. TransientNow(r, Len(b.journal), w)
    BY <1>18, <1>19, <2>1
  <2>3. \A t \in TransientKeys : ~TransientLogged(r.journal, t, Len(b.journal), Len(r.journal))
    BY <2>1 DEF TransientLogged
  <2>4. \A t \in TransientKeys : r.transient[t] = w[t]
    BY <2>2, <2>3 DEF TransientNow
  <2>5. r.transient \in [TransientKeys -> Nat]
    BY <1>14, ControlFacts
  <2> QED BY <2>4, <2>5
<1>20. /\ r.clock = s.clock /\ r.transaction = s.transaction /\ r.sealed = s.sealed
       /\ r.transaction_active = s.transaction_active
       /\ r.accepted_len = s.accepted_len /\ r.scope = c.parent
       /\ r.scope_depth = s.scope_depth - 1
  BY <1>4, <1>6, <1>10
<1> QED BY <1>14, <1>15, <1>16, <1>17, <1>18, <1>19, <1>20 DEF Reverts, r
LEMMA BehindIsBefore ==
  ASSUME NEW s, Sound(s), NEW b, Base(b, s)
  PROVE  Before(b, s)
<1>1. Len(b.journal) <= Len(s.journal)
  BY DEF Base, Returns, Extension
<1>2. /\ Len(b.changed_accounts) <= Len(s.changed_accounts)
      /\ Len(b.changed_storage) <= Len(s.changed_storage)
  BY DEF Base, Grows, ListFields, PrefixOf
<1> QED BY <1>1, <1>2 DEF Before

\* A finalization that fails is undone by its own scope.
LEMMA FailFinalizeCarries ==
  ASSUME NEW s, Sound(s), NEW n \in 0 .. Len(s.lifecycle_accounts)
  PROVE  LET r == FailFinalizeLifecycle(s, n)
         IN  Carries(s, r) /\ EntriesKept(s, r) /\ Steady(s, r) /\ r.clock = s.clock + 1
<1> DEFINE f == FinalizeRows(s, n)
           c == Checkpoint(s)
           r == RevertTo(f, c)
<1>1. /\ Sound(f) /\ Behind(s, f) /\ EntriesKept(s, f) /\ TransientsKept(s, f)
      /\ \A b : Behind(b, s) => Behind(b, f)
      /\ f.clock = s.clock + 1 /\ f.scope_depth = s.scope_depth + 1
      /\ f.transaction = s.transaction /\ f.transaction_active = s.transaction_active
      /\ f.sealed = s.sealed /\ f.accepted_len = s.accepted_len
  BY FinalizingFacts
<1>2. c.parent = s.scope /\ TokenOf(c, s)
  BY DEF Checkpoint, TokenOf
<1> HIDE DEF f, c
<1>3. c.parent \in 0 .. f.clock /\ f.scope_depth > 0 /\ Base(s, f)
  BY <1>1, <1>2, ControlFacts DEF Behind
<1>4. Reverts(f, s, c, r)
  BY <1>1, <1>2, <1>3, RevertReverts
<1> HIDE DEF r
<1>5. /\ Sound(r) /\ Steady(s, r) /\ r.clock = s.clock + 1 /\ s.clock <= r.clock
  BY <1>1, <1>2, <1>4, ControlFacts DEF Reverts, Steady
<1>6. ASSUME NEW b, Behind(b, s) PROVE Behind(b, r)
  <2>1. Base(b, f) /\ Base(b, s) /\ Unstamped(b, s.scope)
    BY <1>1, <1>6 DEF Behind
  <2>2. Before(b, s)
    BY <2>1, BehindIsBefore
  <2>3. Base(b, r)
    BY <1>4, <2>1, <2>2 DEF Reverts
  <2> QED BY <1>5, <2>1, <2>3 DEF Behind, Steady
<1>7. EntriesKept(s, r) /\ TransientsKept(s, r)
  BY <1>1, <1>4 DEF EntriesKept, TransientsKept, Reverts
<1> QED BY <1>5, <1>6, <1>7 DEF Carries, FailFinalizeLifecycle, f, c, r

-----------------------------------------------------------------------------
(* Between attempts                                                        *)

NoLifecycle(s) == \A a \in Accounts : s.accounts[a].flags \cap LifecycleBits = {}

BlockListsTyped(s) ==
    /\ s.account_ids \in Seq(Accounts)
    /\ s.storage_ids \in Seq(Slots)
    /\ s.introduced \in Seq(Nat)
    /\ s.block_introduced_codes \in Seq(Nat)
    /\ s.block_changed_accounts \in Seq(Accounts)
    /\ s.block_storage_wipes \in Seq(Accounts)
    /\ s.dirty_storage \in Seq(Slots)

\* The accepted branch.
Settled(s) ==
    /\ IsState(s)
    /\ RowsTyped(s)
    /\ BlockListsTyped(s)
    /\ s.transaction \in Nat
    /\ CodesListed(s)
    /\ CodesBound(s)
    /\ Pristine(s)
    /\ NoLifecycle(s)

\* Nothing is left of an attempt, or nothing was done in it yet.
Quiescent(s) ==
    /\ s.journal = <<>> /\ s.changed_accounts = <<>> /\ s.changed_storage = <<>>
    /\ s.transaction_storage_wipes = <<>> /\ s.lifecycle_accounts = <<>>
    /\ s.deferred_accounts = {} /\ s.deferred_storage = {}
    /\ s.transient = NoTransient /\ s.logs = 0
    /\ s.observed_accounts = [a \in Accounts |-> NoAccountObservation]
    /\ s.observed_storage = [k \in Slots |-> NoStorageObservation]
    /\ s.scope_depth = 0 /\ s.sealed = FALSE /\ s.scope_reverted = FALSE

Resting(s) ==
    /\ Settled(s)
    /\ Quiescent(s)
    /\ s.transaction_active = FALSE
    /\ s.scope = 0 /\ s.root = 0

LEMMA InitialObservations ==
  /\ InitialState.observed_accounts = [a \in Accounts |-> NoAccountObservation]
  /\ InitialState.observed_storage = [k \in Slots |-> NoStorageObservation]
  /\ NoAccountObservation \in AccountObservation
  /\ NoAccountObservation.effect = {}
  /\ DOMAIN NoStorageObservation = {"original", "written"}
  /\ NoStorageObservation.written = FALSE
<1>1. Null \in Value
  BY DEF Null, Value, AccountValue, EmptyCode
<1> QED BY <1>1 DEF InitialState, NoAccountObservation, NoStorageObservation,
                    AccountObservation

LEMMA QuiescentFacts ==
  ASSUME NEW s, Quiescent(s)
  PROVE  /\ ObservationsTyped(s)
         /\ \A a \in Accounts : s.observed_accounts[a].effect = {}
         /\ \A k \in Slots : s.observed_storage[k].written = FALSE
         /\ s.transient \in [TransientKeys -> Nat]
<1>1. /\ s.observed_accounts = [a \in Accounts |-> NoAccountObservation]
      /\ s.observed_storage = [k \in Slots |-> NoStorageObservation]
      /\ s.transient = [t \in TransientKeys |-> 0]
  BY DEF Quiescent, NoTransient
<1>2. /\ \A a \in Accounts : s.observed_accounts[a] = NoAccountObservation
      /\ \A k \in Slots : s.observed_storage[k] = NoStorageObservation
      /\ DOMAIN s.observed_storage = Slots
  BY <1>1
<1>3. s.observed_accounts \in [Accounts -> AccountObservation]
  BY <1>1, InitialObservations
<1>4. s.transient \in [TransientKeys -> Nat]
  BY <1>1
<1>5. ObservationsTyped(s)
  BY <1>2, <1>3, InitialObservations DEF ObservationsTyped
<1> QED BY <1>2, <1>4, <1>5, InitialObservations

LEMMA QuiescentTyped ==
  ASSUME NEW s, Settled(s), Quiescent(s), s.scope \in 0 .. s.clock, s.root \in 0 .. s.clock,
         s.transaction_active \in BOOLEAN,
         s.transaction_active => s.transaction \in 1 .. s.clock
  PROVE  Typed(s)
<1>1. \A S : <<>> \in Seq(S)
  OBVIOUS
<1>2. ListsTyped(s)
  <2>1. /\ s.journal = <<>> /\ s.changed_accounts = <<>> /\ s.changed_storage = <<>>
        /\ s.transaction_storage_wipes = <<>> /\ s.lifecycle_accounts = <<>>
    BY DEF Quiescent
  <2>2. BlockListsTyped(s)
    BY DEF Settled
  <2> QED BY <1>1, <2>1, <2>2 DEF BlockListsTyped, ListsTyped
<1>3. ObservationsTyped(s) /\ s.transient \in [TransientKeys -> Nat]
  BY QuiescentFacts
<1>4. /\ s.logs = 0 /\ s.scope_depth = 0 /\ s.sealed = FALSE /\ s.scope_reverted = FALSE
  BY DEF Quiescent
<1>5. /\ s.sealed \in BOOLEAN /\ s.scope_reverted \in BOOLEAN /\ s.logs \in Nat
      /\ s.scope_depth \in Nat /\ s.transaction \in Nat
  <2>1. s.sealed \in BOOLEAN /\ s.scope_reverted \in BOOLEAN
    BY <1>4, Zenon
  <2>2. s.logs \in Nat /\ s.scope_depth \in Nat
    BY <1>4
  <2> QED BY <2>1, <2>2 DEF Settled
<1>6. ControlTyped(s)
  BY <1>3, <1>5 DEF ControlTyped
<1> QED BY <1>2, <1>3, <1>6 DEF Typed, Settled

LEMMA RestingTyped ==
  ASSUME NEW s, Resting(s)
  PROVE  Typed(s) /\ s.clock \in Nat
<1>1. s.clock \in Nat
  BY DEF Resting, Settled, RowsTyped
<1>2. /\ s.scope \in 0 .. s.clock /\ s.root \in 0 .. s.clock
      /\ Settled(s) /\ Quiescent(s)
  BY <1>1 DEF Resting
<1>3. s.transaction_active \in BOOLEAN /\ ~s.transaction_active
  BY DEF Resting
<1> QED BY <1>1, <1>2, <1>3, QuiescentTyped

FinishFields ==
    {"deferred_accounts", "deferred_storage", "scope_reverted", "transient",
     "changed_accounts", "changed_storage", "transaction_storage_wipes",
     "lifecycle_accounts", "observed_accounts", "observed_storage", "logs", "journal",
     "transaction_active", "sealed", "scope", "root", "scope_depth"}

LEMMA SettledIf ==
  ASSUME NEW x, Settled(x), NEW r, SameBut(r, x, FinishFields)
  PROVE  Settled(r)
<1>1. /\ r.accounts = x.accounts /\ r.storage = x.storage /\ r.clock = x.clock
      /\ r.account_ids = x.account_ids /\ r.storage_ids = x.storage_ids
      /\ r.introduced = x.introduced /\ r.parent_code = x.parent_code
      /\ r.block_introduced_codes = x.block_introduced_codes
      /\ r.block_changed_accounts = x.block_changed_accounts
      /\ r.block_storage_wipes = x.block_storage_wipes
      /\ r.dirty_storage = x.dirty_storage /\ r.transaction = x.transaction /\ IsState(r)
  BY DEF SameBut, FinishFields, StateFields
<1>2. RowsTyped(r) /\ BlockListsTyped(r) /\ NoLifecycle(r)
  BY <1>1 DEF Settled, RowsTyped, BlockListsTyped, NoLifecycle
<1>3. CodesBound(r) /\ CodesListed(r)
  BY <1>1 DEF Settled, CodesBound, CodeBound, CodesListed
<1>4. Pristine(r)
  BY <1>1 DEF Settled, Pristine, ParentRow, ParentSlot, IsAdmitted, IsStorageAdmitted
<1> QED BY <1>1, <1>2, <1>3, <1>4 DEF Settled

LEMMA FinishRests ==
  ASSUME NEW x, Settled(x)
  PROVE  LET r == FinishTransaction(x)
         IN  Resting(r) /\ SameBut(r, x, FinishFields)
<1> DEFINE r == FinishTransaction(x)
<1>1. SameBut(r, x, FinishFields)
  BY DEF FinishTransaction, SameBut, FinishFields, StateFields, IsState, Settled
<1>2. /\ Quiescent(r) /\ r.transaction_active = FALSE /\ r.scope = 0 /\ r.root = 0
  BY InitialObservations, ZeroTransient
     DEF FinishTransaction, Quiescent, Settled, IsState, StateFields, None
<1> HIDE DEF r
<1>3. Settled(r)
  BY <1>1, SettledIf
<1> QED BY <1>1, <1>2, <1>3 DEF Resting, r
-----------------------------------------------------------------------------
(* Beginning and discarding an attempt                                     *)

BeginFields ==
    {"clock", "transaction", "scope", "root", "sealed", "transaction_active",
     "accepted_len", "retained_logs"}

\* The lengths beginAttempt records.
AcceptedIn(lens, b) ==
    /\ lens.accounts = Len(b.block_changed_accounts)
    /\ lens.wipes = Len(b.block_storage_wipes)
    /\ lens.storage = Len(b.dirty_storage)
    /\ lens.codes = Len(b.block_introduced_codes)

\* A state in which the attempt has done nothing.
Fresh(b) ==
    /\ Sound(b)
    /\ Quiescent(b)
    /\ NoLifecycle(b)
    /\ Unstamped(b, b.scope)
    /\ EffectsOf(b, NoTransient) = NoEffects

LEMMA NothingDone ==
  ASSUME NEW s, Quiescent(s),
         \A a \in Accounts : s.transaction_active
                                => s.accounts[a].warm_transaction # s.transaction,
         \A k \in Slots : s.transaction_active
                             => s.storage[k].warm_transaction # s.transaction
  PROVE  EffectsOf(s, NoTransient) = NoEffects
<1>1. {a \in Accounts : s.transaction_active /\ AccountWarm(s, a)} = {}
  BY DEF AccountWarm, Quiescent
<1>2. {k \in Slots : s.transaction_active /\ StorageWarm(s, k)} = {}
  BY DEF StorageWarm, Quiescent
<1>3. [a \in Accounts |-> s.observed_accounts[a].effect] = [a \in Accounts |-> {}]
  BY QuiescentFacts
<1>4. {k \in Slots : s.observed_storage[k].written} = {}
  BY QuiescentFacts
<1>5. s.logs = 0 /\ s.changed_accounts = <<>> /\ s.changed_storage = <<>>
  BY DEF Quiescent
<1> QED BY <1>1, <1>2, <1>3, <1>4, <1>5 DEF EffectsOf, NoEffects, NoTransient

LEMMA RestingEffects ==
  ASSUME NEW s, Resting(s)
  PROVE  EffectsOf(s, NoTransient) = NoEffects
<1>1. Quiescent(s) /\ ~s.transaction_active
  BY DEF Resting
<1> QED BY <1>1, NothingDone

LEMMA BegunFields ==
  ASSUME NEW s, IsState(s), s.clock \in Nat
  PROVE  LET r == Begun(s)
         IN  /\ SameBut(r, s, BeginFields)
             /\ r.clock = s.clock + 2 /\ r.transaction = s.clock + 1
             /\ r.scope = s.clock + 2 /\ r.root = s.clock + 2 /\ r.sealed = FALSE
             /\ r.transaction_active = TRUE
             /\ AcceptedIn(r.accepted_len, s)
<1> DEFINE p == [s EXCEPT !.clock = @ + 1, !.transaction = s.clock + 1]
           q == OpenRoot(p)
           r == Begun(s)
<1>1. /\ SameBut(p, s, {"clock", "transaction"}) /\ p.clock = s.clock + 1
      /\ p.transaction = s.clock + 1
  BY DEF SameBut, IsState, StateFields
<1> HIDE DEF p
<1>2. /\ SameBut(q, p, {"clock", "scope", "root"}) /\ q.clock = p.clock + 1
      /\ q.scope = p.clock + 1 /\ q.root = p.clock + 1
  BY <1>1 DEF SameBut, IsState, StateFields, OpenRoot
<1> HIDE DEF q
<1>3. /\ SameBut(r, q, {"sealed", "transaction_active", "accepted_len", "retained_logs"})
      /\ r.sealed = FALSE /\ r.transaction_active = TRUE
      /\ r.accepted_len = [accounts |-> Len(s.block_changed_accounts),
                           wipes |-> Len(s.block_storage_wipes),
                           storage |-> Len(s.dirty_storage),
                           codes |-> Len(s.block_introduced_codes)]
  BY <1>2 DEF Begun, p, q, SameBut, IsState, StateFields
<1> HIDE DEF r
<1>4. SameBut(r, s, BeginFields)
  BY <1>1, <1>2, <1>3 DEF SameBut, BeginFields
<1>5. /\ r.clock = q.clock /\ r.scope = q.scope /\ r.root = q.root
      /\ r.transaction = q.transaction /\ q.transaction = p.transaction
  BY <1>2, <1>3 DEF SameBut, StateFields
<1>6. AcceptedIn(r.accepted_len, s)
  BY <1>3 DEF AcceptedIn
<1> QED BY <1>1, <1>2, <1>3, <1>4, <1>5, <1>6 DEF r

LEMMA BegunFresh ==
  ASSUME NEW s, Resting(s)
  PROVE  LET r == Begun(s)
         IN  /\ Fresh(r) /\ Behind(r, r)
             /\ BranchValues(r) = BranchValues(s)
             /\ AcceptedIn(r.accepted_len, r)
             /\ r.clock = s.clock + 2
             /\ SameBut(r, s, BeginFields)
<1> DEFINE r == Begun(s)
<1>1. Typed(s) /\ s.clock \in Nat /\ Settled(s) /\ Quiescent(s) /\ IsState(s)
  BY RestingTyped DEF Resting, Typed
<1>2. /\ SameBut(r, s, BeginFields)
      /\ r.clock = s.clock + 2 /\ r.transaction = s.clock + 1
      /\ r.scope = s.clock + 2 /\ r.root = s.clock + 2 /\ r.sealed = FALSE
      /\ r.transaction_active = TRUE
      /\ AcceptedIn(r.accepted_len, s)
  BY <1>1, BegunFields
<1> HIDE DEF r
<1>3. /\ r.accounts = s.accounts /\ r.storage = s.storage
      /\ r.account_ids = s.account_ids /\ r.storage_ids = s.storage_ids
      /\ r.introduced = s.introduced /\ r.parent_code = s.parent_code
      /\ r.block_introduced_codes = s.block_introduced_codes
      /\ r.block_changed_accounts = s.block_changed_accounts
      /\ r.block_storage_wipes = s.block_storage_wipes
      /\ r.dirty_storage = s.dirty_storage
  BY <1>2 DEF SameBut, BeginFields, StateFields
<1>4. Quiescent(r)
  BY ZenonT(40), <1>1, <1>2 DEF SameBut, BeginFields, StateFields, Quiescent
<1>5. RowsTyped(r)
  <2>1. r.clock \in Nat /\ s.clock <= r.clock
    BY <1>1, <1>2
  <2>2. /\ AccountRowOf(s.clock) \subseteq AccountRowOf(r.clock)
        /\ StorageRowOf(s.clock) \subseteq StorageRowOf(r.clock)
    BY <1>1, <2>1, TypesWiden
  <2>3. /\ s.accounts \in [Accounts -> AccountRowOf(s.clock)]
        /\ s.storage \in [Slots -> StorageRowOf(s.clock)]
    BY <1>1 DEF Typed, RowsTyped
  <2> QED BY <1>3, <2>1, <2>2, <2>3 DEF RowsTyped
<1>6. Settled(r)
  <2>1. BlockListsTyped(r) /\ NoLifecycle(r)
    BY <1>1, <1>3 DEF Settled, BlockListsTyped, NoLifecycle
  <2>2. CodesBound(r) /\ CodesListed(r)
    BY <1>1, <1>3 DEF Settled, CodesBound, CodeBound, CodesListed
  <2>3. Pristine(r)
    BY <1>1, <1>3 DEF Settled, Pristine, ParentRow, ParentSlot, IsAdmitted,
                      IsStorageAdmitted
  <2>4. IsState(r) /\ r.transaction \in Nat
    BY <1>1, <1>2 DEF SameBut
  <2> QED BY <1>5, <2>1, <2>2, <2>3, <2>4 DEF Settled
<1>7. Typed(r)
  <2>1. /\ r.scope \in 0 .. r.clock /\ r.root \in 0 .. r.clock
        /\ r.transaction \in 1 .. r.clock
    BY <1>1, <1>2
  <2>2. r.transaction_active \in BOOLEAN
    BY <1>2
  <2> QED BY <1>4, <1>6, <2>1, <2>2, QuiescentTyped
<1>8. \A a \in Accounts : /\ r.accounts[a].warm_transaction # r.transaction
                          /\ r.accounts[a].lifecycle_transaction # r.transaction
  BY <1>1, <1>2, <1>3 DEF Typed, RowsTyped, AccountRowOf
<1>9. \A k \in Slots : r.storage[k].warm_transaction # r.transaction
  BY <1>1, <1>2, <1>3 DEF Typed, RowsTyped, StorageRowOf
<1>10. Sound(r)
  <2>1. Unobserved(r)
    BY <1>4, QuiescentFacts DEF Unobserved
  <2>2. LifecycleListed(r)
    BY <1>6, <1>8 DEF Settled, LifecycleListed, NoLifecycle
  <2> QED BY <1>2, <1>6, <1>7, <2>1, <2>2 DEF Sound, Settled
<1>11. EffectsOf(r, NoTransient) = NoEffects
  BY <1>4, <1>8, <1>9, NothingDone
<1>12. Unstamped(r, r.scope)
  <2>1. Unstamped(s, r.scope)
    BY <1>1, <1>2, FreshScope
  <2> QED BY <1>3, <2>1 DEF Unstamped, JournaledIn
<1>13. Fresh(r)
  BY <1>4, <1>6, <1>10, <1>11, <1>12 DEF Fresh, Settled
<1>14. Behind(r, r)
  BY <1>7, <1>10, <1>12, ReturnsReflexive, GrowsReflexive, ControlFacts DEF Behind, Base
<1>15. BranchValues(r) = BranchValues(s)
  BY <1>3, SameBranch DEF SameValues
<1>16. AcceptedIn(r.accepted_len, r)
  BY <1>2, <1>3 DEF AcceptedIn
<1> QED BY <1>2, <1>13, <1>14, <1>15, <1>16 DEF r

\* What the attempt leaves behind when it is discarded.
Discards(s, b, r) ==
    /\ Resting(r)
    /\ BranchValues(r) = BranchValues(b)
    /\ SameValues(r, b)
    /\ r.clock = s.clock
    /\ r.account_ids = s.account_ids /\ r.storage_ids = s.storage_ids
    /\ r.introduced = b.introduced
    /\ r.parent_code = s.parent_code

DiscardFields ==
    {"block_changed_accounts", "block_storage_wipes", "dirty_storage",
     "block_introduced_codes"}

LEMMA DiscardDiscards ==
  ASSUME NEW s, Sound(s), NEW b, Base(b, s), Fresh(b), AcceptedIn(s.accepted_len, b)
  PROVE  Discards(s, b, Discarded(s))
<1> DEFINE u == RevertJournalTo(s, 0)
           x == [u EXCEPT
                    !.block_changed_accounts = Truncate(@, s.accepted_len.accounts),
                    !.block_storage_wipes = Truncate(@, s.accepted_len.wipes),
                    !.dirty_storage = Truncate(@, s.accepted_len.storage),
                    !.block_introduced_codes = Truncate(@, s.accepted_len.codes)]
           r == FinishTransaction(x)
<1>1. Len(b.journal) = 0 /\ NoLifecycle(b) /\ Sound(b) /\ Typed(b) /\ CodesListed(b)
  BY DEF Fresh, Quiescent, Sound
<1>2. GivenBack(s, u, b)
  BY <1>1, GivesBack
<1>3. /\ Typed(u) /\ CodesListed(u) /\ UndoKeeps(s, u) /\ u.introduced = b.introduced
      /\ IsState(u)
  BY <1>2 DEF GivenBack, Typed
<1>4. Sound(u) /\ SameValues(u, b)
  BY <1>2, UndoneSound
<1>5. u.block_introduced_codes = b.block_introduced_codes
  BY <1>1, <1>3, ListedSame
<1>6. /\ u.block_changed_accounts = s.block_changed_accounts
      /\ u.block_storage_wipes = s.block_storage_wipes
      /\ u.dirty_storage = s.dirty_storage /\ u.clock = s.clock
      /\ u.account_ids = s.account_ids /\ u.storage_ids = s.storage_ids
      /\ u.parent_code = s.parent_code
  BY <1>3, UndoneKeptFields
<1>7. /\ SameBut(x, u, DiscardFields)
      /\ x.block_changed_accounts = Truncate(u.block_changed_accounts, s.accepted_len.accounts)
      /\ x.block_storage_wipes = Truncate(u.block_storage_wipes, s.accepted_len.wipes)
      /\ x.dirty_storage = Truncate(u.dirty_storage, s.accepted_len.storage)
      /\ x.block_introduced_codes = Truncate(u.block_introduced_codes, s.accepted_len.codes)
  BY <1>3 DEF SameBut, IsState, StateFields, DiscardFields
<1> HIDE DEF u, x
<1>8. /\ s.block_changed_accounts \in Seq(Accounts) /\ s.block_storage_wipes \in Seq(Accounts)
      /\ s.dirty_storage \in Seq(Slots) /\ b.block_changed_accounts \in Seq(Accounts)
      /\ b.block_storage_wipes \in Seq(Accounts) /\ b.dirty_storage \in Seq(Slots)
      /\ b.block_introduced_codes \in Seq(Nat) /\ Len(b.block_introduced_codes) \in Nat
  BY <1>1 DEF Sound, Typed, ListsTyped
<1>9. /\ PrefixOf(b.block_changed_accounts, s.block_changed_accounts)
      /\ PrefixOf(b.block_storage_wipes, s.block_storage_wipes)
      /\ PrefixOf(b.dirty_storage, s.dirty_storage)
  BY DEF Base, Grows, ListFields
<1>10. /\ x.block_changed_accounts = b.block_changed_accounts
       /\ x.block_storage_wipes = b.block_storage_wipes
       /\ x.dirty_storage = b.dirty_storage
  BY <1>6, <1>7, <1>8, <1>9, CutToPrefix DEF AcceptedIn
<1>11. x.block_introduced_codes = b.block_introduced_codes
  <2>1. PrefixOf(b.block_introduced_codes, b.block_introduced_codes)
    BY <1>8, PrefixReflexive
  <2> QED BY <1>5, <1>7, <1>8, <2>1, CutToPrefix DEF AcceptedIn
<1>12. /\ x.accounts = u.accounts /\ x.storage = u.storage /\ x.clock = u.clock
       /\ x.account_ids = u.account_ids /\ x.storage_ids = u.storage_ids
       /\ x.introduced = u.introduced /\ x.parent_code = u.parent_code
       /\ x.transaction = u.transaction /\ IsState(x)
  BY <1>7 DEF SameBut, DiscardFields, StateFields
<1>13. Settled(x)
  <2>1. RowsTyped(x) /\ x.transaction \in Nat
    BY <1>3, <1>12 DEF Typed, RowsTyped, ControlTyped
  <2>2. BlockListsTyped(x)
    BY <1>1, <1>3, <1>10, <1>11, <1>12 DEF Typed, ListsTyped, BlockListsTyped
  <2>3. CodesListed(x)
    BY <1>3, <1>5, <1>11, <1>12 DEF CodesListed
  <2>4. CodesBound(x)
    BY <1>4, <1>12 DEF Sound, CodesBound, CodeBound
  <2>5. Pristine(x)
    BY <1>4, <1>12 DEF Sound, Pristine, ParentRow, ParentSlot, IsAdmitted,
                       IsStorageAdmitted
  <2>6. NoLifecycle(x)
    BY <1>1, <1>4, <1>12 DEF NoLifecycle, SameValues
  <2> QED BY <1>12, <2>1, <2>2, <2>3, <2>4, <2>5, <2>6 DEF Settled
<1>14. Resting(r) /\ SameBut(r, x, FinishFields)
  BY <1>13, FinishRests
<1> HIDE DEF r
<1>15. /\ r.accounts = x.accounts /\ r.storage = x.storage /\ r.clock = x.clock
       /\ r.account_ids = x.account_ids /\ r.storage_ids = x.storage_ids
       /\ r.introduced = x.introduced /\ r.parent_code = x.parent_code
       /\ r.block_introduced_codes = x.block_introduced_codes
  BY <1>14 DEF SameBut, FinishFields, StateFields
<1>16. SameValues(r, b)
  BY <1>4, <1>12, <1>15 DEF SameValues
<1>17. BranchValues(r) = BranchValues(b)
  BY <1>3, <1>11, <1>12, <1>15, <1>16, SameBranch
<1>18. Discards(s, b, r)
  BY <1>3, <1>6, <1>12, <1>14, <1>15, <1>16, <1>17 DEF Discards
<1> QED BY <1>18 DEF Discarded, r, x, u
-----------------------------------------------------------------------------
(* Sealing and retaining an attempt                                        *)

\* A compacted list holds live entries only.
LEMMA CompactedTyped ==
  ASSUME NEW S, NEW q \in Seq(S), NEW live, NEW deduplicate
  PROVE  Compacted(q, live, deduplicate) \in Seq(S \cap live)
<1> DEFINE L == S \cap live
           n == Len(q)
<1>1. n \in Nat /\ \A i \in 1 .. n : q[i] \in S
  OBVIOUS
<1>2. PICK f : /\ Compacting(f, q, live, deduplicate, n)
               /\ Compacted(q, live, deduplicate) = f[n]
  BY <1>1, CompactedIsCompacting
<1> DEFINE Step(kept, i) == AppendIf(kept, /\ q[i] \in live
                                           /\ deduplicate => ~Contains(kept, q[i]), q[i])
<1>3. f[0] = <<>> /\ \A i \in 1 .. n : f[i] = Step(f[i - 1], i)
  <2> DEFINE g == [i \in 0 .. n |-> IF i = 0 THEN <<>> ELSE Step(f[i - 1], i)]
  <2>1. f = g
    BY <1>2 DEF Compacting
  <2> HIDE DEF Step
  <2>2. g[0] = <<>> /\ \A i \in 1 .. n : g[i] = Step(f[i - 1], i)
    BY <1>1
  <2> HIDE DEF g
  <2> QED BY <2>1, <2>2
<1> DEFINE G == {i \in 0 .. n : f[i] \in Seq(L)}
<1>4. 0 \in G
  <2>1. <<>> \in Seq(L)
    <3> HIDE DEF L
    <3> QED OBVIOUS
  <2>2. f[0] = <<>>
    BY <1>3
  <2>3. f[0] \in Seq(L)
    BY <2>1, <2>2, Zenon
  <2>4. 0 \in 0 .. n
    BY <1>1
  <2> QED BY <2>3, <2>4
<1>5. ASSUME NEW i \in 0 .. n - 1, i \in G PROVE i + 1 \in G
  <2>1. i + 1 \in 1 .. n /\ i + 1 \in 0 .. n /\ (i + 1) - 1 = i /\ f[i] \in Seq(L)
    BY <1>1, <1>5
  <2>2. f[i + 1] = Step(f[i], i + 1)
    BY <1>3, <2>1
  <2>3. q[i + 1] \in S
    BY <1>1, <2>1
  <2>4. Step(f[i], i + 1) \in Seq(L)
    BY <2>1, <2>3 DEF AppendIf
  <2> QED BY <2>1, <2>2, <2>4
<1>6. n \in G
  <2> HIDE DEF G
  <2> QED BY <1>1, <1>4, <1>5, UpTo
<1> QED BY <1>2, <1>6

LEMMA LiveTyped ==
  ASSUME NEW S, NEW live, NEW q \in Seq(S \cap live)
  PROVE  q \in Seq(S) /\ \A i \in 1 .. Len(q) : q[i] \in live
  OBVIOUS

LEMMA SealAdjusts ==
  ASSUME NEW s, Sound(s)
  PROVE  LET r == Seal(s)
         IN  /\ Adjusts(s, r)
             /\ SameBut(r, s, {"changed_storage", "transaction_storage_wipes", "sealed"})
             /\ r.sealed = TRUE
             /\ Len(r.changed_storage) \in Nat
             /\ Len(r.transaction_storage_wipes) \in Nat
<1> DEFINE live == {k \in Slots : CurrentIncarnation(s, k)}
           p == CompactTransactionStorageChanges(s)
           wiped == {a \in Accounts : p.accounts[a].wiped_transaction = p.transaction}
           q == CompactTransactionStorageWipes(p)
           r == Seal(s)
<1>1. Typed(s) /\ IsState(s) /\ s.changed_storage \in Seq(Slots)
      /\ s.transaction_storage_wipes \in Seq(Accounts)
  BY DEF Sound, Typed, ListsTyped
<1>2. /\ SameBut(p, s, {"changed_storage"})
      /\ p.changed_storage = Compacted(s.changed_storage, live, FALSE)
  BY <1>1 DEF CompactTransactionStorageChanges, SameBut, IsState, StateFields
<1>3. p.changed_storage \in Seq(Slots)
  <2> HIDE DEF live
  <2>1. p.changed_storage \in Seq(Slots \cap live)
    BY ZenonT(40), <1>1, <1>2, CompactedTyped
  <2> QED BY <2>1, LiveTyped
<1>4. p.transaction_storage_wipes = s.transaction_storage_wipes
  BY <1>2 DEF SameBut, StateFields
<1> HIDE DEF p
<1>5. /\ SameBut(q, p, {"transaction_storage_wipes"})
      /\ \/ q.transaction_storage_wipes = p.transaction_storage_wipes
         \/ q.transaction_storage_wipes = Compacted(p.transaction_storage_wipes, wiped, TRUE)
  BY <1>2 DEF CompactTransactionStorageWipes, SameBut, IsState, StateFields
<1>6. q.transaction_storage_wipes \in Seq(Accounts)
  <2> HIDE DEF wiped
  <2>1. Compacted(p.transaction_storage_wipes, wiped, TRUE)
            \in Seq(Accounts \cap wiped)
    BY <1>1, <1>4, CompactedTyped
  <2>2. Compacted(p.transaction_storage_wipes, wiped, TRUE) \in Seq(Accounts)
    BY <2>1, LiveTyped
  <2> QED BY <1>1, <1>4, <1>5, <2>2
<1> HIDE DEF q
<1>7. SameBut(r, q, {"sealed"}) /\ r.sealed = TRUE
  BY <1>5 DEF Seal, p, q, SameBut, IsState, StateFields
<1> HIDE DEF r
<1>8. SameBut(r, s, {"changed_storage", "transaction_storage_wipes", "sealed"})
  BY <1>2, <1>5, <1>7 DEF SameBut
<1>9. /\ r.changed_storage = p.changed_storage
      /\ r.transaction_storage_wipes = q.transaction_storage_wipes
  BY <1>5, <1>7 DEF SameBut, StateFields
<1>10. r.changed_storage \in Seq(Slots) /\ r.transaction_storage_wipes \in Seq(Accounts)
  BY <1>3, <1>6, <1>9
<1>11. Adjusts(s, r)
  <2>1. SameBut(r, s, AdjustFields)
    BY <1>8 DEF SameBut, AdjustFields, LogLists
  <2>2. /\ r.clock = s.clock /\ r.block_changed_accounts = s.block_changed_accounts
        /\ r.block_storage_wipes = s.block_storage_wipes
        /\ r.dirty_storage = s.dirty_storage /\ r.changed_accounts = s.changed_accounts
        /\ r.transient = s.transient /\ r.logs = s.logs /\ r.scope = s.scope
        /\ r.root = s.root /\ r.transaction = s.transaction
        /\ r.scope_depth = s.scope_depth /\ r.scope_reverted = s.scope_reverted
        /\ r.transaction_active = s.transaction_active
    BY <1>8 DEF SameBut, StateFields
  <2>3. r.sealed \in BOOLEAN
    BY <1>7, Zenon
  <2>4. ControlTyped(r)
    BY <1>1, <2>2, <2>3 DEF Typed, ControlTyped
  <2>5. /\ r.block_changed_accounts \in Seq(Accounts)
        /\ r.block_storage_wipes \in Seq(Accounts)
        /\ r.changed_accounts \in Seq(Accounts) /\ r.dirty_storage \in Seq(Slots)
    BY <1>1, <2>2 DEF Typed, ListsTyped
  <2>6. \A f \in {"block_changed_accounts", "block_storage_wipes", "changed_accounts",
                  "transaction_storage_wipes"} : r[f] \in Seq(Accounts)
    BY <1>10, <2>5
  <2>7. r.clock \in Nat /\ s.clock <= r.clock
    BY <1>1, <2>2 DEF Typed, RowsTyped
  <2> QED BY <1>10, <2>1, <2>4, <2>5, <2>6, <2>7 DEF Adjusts
<1>12. Len(r.changed_storage) \in Nat /\ Len(r.transaction_storage_wipes) \in Nat
  BY <1>10
<1> QED BY <1>7, <1>8, <1>11, <1>12 DEF r

LEMMA SealKeeps ==
  ASSUME NEW s, Sound(s), NEW b, Behind(b, s), Fresh(b)
  PROVE  LET r == Seal(s)
         IN  /\ Sound(r) /\ Behind(b, r) /\ r.sealed = TRUE
             /\ SameBut(r, s, {"changed_storage", "transaction_storage_wipes", "sealed"})
<1> DEFINE r == Seal(s)
<1>1. /\ Adjusts(s, r) /\ r.sealed = TRUE
      /\ SameBut(r, s, {"changed_storage", "transaction_storage_wipes", "sealed"})
      /\ Len(r.changed_storage) \in Nat /\ Len(r.transaction_storage_wipes) \in Nat
  BY SealAdjusts
<1> HIDE DEF r
<1>2. Sound(r)
  BY <1>1, AdjustsSound
<1>3. /\ r.clock = s.clock /\ r.scope = s.scope /\ r.transaction = s.transaction
      /\ r.accounts = s.accounts /\ r.storage = s.storage /\ r.parent_code = s.parent_code
      /\ \A f \in ListFields \ {"changed_storage", "transaction_storage_wipes"} : r[f] = s[f]
  BY <1>1 DEF SameBut, StateFields, ListFields
<1>4. /\ Sound(b) /\ b.transaction = s.transaction /\ b.clock <= s.clock
      /\ Returns(s, b) /\ Grows(b, s) /\ Unstamped(b, s.scope)
  BY DEF Behind, Base
<1>5. Returns(r, b)
  BY <1>1, <1>4, AdjustsReturns DEF Adjusts
<1>6. b.changed_storage = <<>> /\ b.transaction_storage_wipes = <<>>
  BY DEF Fresh, Quiescent
<1>7. /\ PrefixOf(b.changed_storage, r.changed_storage)
      /\ PrefixOf(b.transaction_storage_wipes, r.transaction_storage_wipes)
  BY <1>1, <1>6 DEF PrefixOf
<1>8. ASSUME NEW f \in ListFields PROVE PrefixOf(b[f], r[f])
  <2>1. CASE f = "changed_storage"
    BY <1>7, <2>1
  <2>2. CASE f = "transaction_storage_wipes"
    BY <1>7, <2>2
  <2>3. CASE f \notin {"changed_storage", "transaction_storage_wipes"}
    BY <1>3, <1>4, <2>3 DEF Grows
  <2> QED BY <2>1, <2>2, <2>3
<1>9. Grows(b, r)
  BY <1>3, <1>4, <1>8 DEF Grows
<1> QED BY <1>1, <1>2, <1>3, <1>4, <1>5, <1>9 DEF Behind, Base, r
LEMMA TailTyped ==
  ASSUME NEW S, NEW q \in Seq(S), NEW n \in 0 .. Len(q)
  PROVE  Truncate(q, n) \in Seq(S) /\ SubSeq(q, n + 1, Len(q)) \in Seq(S)
  BY DEF Truncate

LEMMA CompactedTail ==
  ASSUME NEW S, NEW q \in Seq(S), NEW n \in 0 .. Len(q), NEW live, NEW deduplicate
  PROVE  Truncate(q, n) \o Compacted(SubSeq(q, n + 1, Len(q)), live, deduplicate) \in Seq(S)
<1> DEFINE p == Truncate(q, n)
           t == SubSeq(q, n + 1, Len(q))
           k == Compacted(t, live, deduplicate)
<1>1. p \in Seq(S) /\ t \in Seq(S)
  BY TailTyped
<1> HIDE DEF p, t
<1>2. k \in Seq(S \cap live)
  BY <1>1, CompactedTyped
<1> HIDE DEF k
<1>3. k \in Seq(S)
  BY <1>2, LiveTyped
<1>4. p \o k \in Seq(S)
  BY <1>1, <1>3
<1> QED BY <1>4 DEF p, t, k

BlockFields == {"retained_logs", "block_changed_accounts", "block_storage_wipes"}

AcceptedWithin(s) ==
    /\ s.accepted_len.accounts \in 0 .. Len(s.block_changed_accounts)
    /\ s.accepted_len.wipes \in 0 .. Len(s.block_storage_wipes)
    /\ s.accepted_len.storage \in 0 .. Len(s.dirty_storage)

\* The lists of accounts.
LEMMA RetainLists ==
  ASSUME NEW s, Typed(s), AcceptedWithin(s)
  PROVE  LET x == CompactAcceptedStorageWipes(
                     CompactAcceptedAccountChanges([s EXCEPT !.retained_logs = s.logs]))
         IN  /\ SameBut(x, s, BlockFields)
             /\ x.block_changed_accounts \in Seq(Accounts)
             /\ x.block_storage_wipes \in Seq(Accounts)
<1> DEFINE p == [s EXCEPT !.retained_logs = s.logs]
           q == CompactAcceptedAccountChanges(p)
           x == CompactAcceptedStorageWipes(q)
           liveP == {a \in Accounts : "block_changed" \in p.accounts[a].flags}
           liveQ == {a \in Accounts : "storage_wiped" \in q.accounts[a].flags}
<1>1. /\ s.block_changed_accounts \in Seq(Accounts) /\ s.block_storage_wipes \in Seq(Accounts)
      /\ IsState(s)
  BY DEF Typed, ListsTyped
<1>2. SameBut(p, s, {"retained_logs"})
  BY <1>1 DEF SameBut, IsState, StateFields
<1>3. /\ p.block_changed_accounts = s.block_changed_accounts
      /\ p.block_storage_wipes = s.block_storage_wipes
      /\ p.accepted_len = s.accepted_len
  BY <1>2 DEF SameBut, StateFields
<1> HIDE DEF p
<1> DEFINE n == p.accepted_len.accounts
           d == p.block_changed_accounts
           e == Truncate(d, n) \o Compacted(SubSeq(d, n + 1, Len(d)), liveP, TRUE)
<1>4. /\ SameBut(q, p, {"block_changed_accounts"})
      /\ q.block_changed_accounts \in {d, e}
  BY <1>2 DEF CompactAcceptedAccountChanges, SameBut, IsState, StateFields
<1>5. d \in Seq(Accounts) /\ n \in 0 .. Len(d)
  BY <1>1, <1>3 DEF AcceptedWithin
<1> HIDE DEF n, d, liveP
<1>6. q.block_changed_accounts \in Seq(Accounts)
  BY <1>4, <1>5, CompactedTail
<1>7. q.block_storage_wipes = s.block_storage_wipes /\ q.accepted_len = s.accepted_len
  BY <1>3, <1>4 DEF SameBut, StateFields
<1> HIDE DEF q, e
<1> DEFINE m == q.accepted_len.wipes
           g == q.block_storage_wipes
           h == Truncate(g, m) \o Compacted(SubSeq(g, m + 1, Len(g)), liveQ, TRUE)
<1>8. /\ SameBut(x, q, {"block_storage_wipes"})
      /\ x.block_storage_wipes \in {g, h}
  BY <1>4 DEF CompactAcceptedStorageWipes, SameBut, IsState, StateFields
<1>9. g \in Seq(Accounts) /\ m \in 0 .. Len(g)
  BY <1>1, <1>7 DEF AcceptedWithin
<1> HIDE DEF m, g, liveQ
<1>10. x.block_storage_wipes \in Seq(Accounts)
  BY <1>8, <1>9, CompactedTail
<1> HIDE DEF x
<1>11. x.block_changed_accounts = q.block_changed_accounts
  BY <1>8 DEF SameBut, StateFields
<1>12. SameBut(x, s, BlockFields)
  BY SMTT(30), <1>2, <1>4, <1>8 DEF SameBut, BlockFields
<1> QED BY <1>6, <1>10, <1>11, <1>12 DEF x, q, p

\* The list of slots: only the flag block_dirty of listed slots changes.
FlagsOnly(r, s) ==
    /\ r.storage \in [Slots -> StorageRowOf(s.clock)]
    /\ \A k \in Slots : /\ r.storage[k].current = s.storage[k].current
                        /\ r.storage[k].storage_incarnation = s.storage[k].storage_incarnation
                        /\ r.storage[k].block_dirty => s.storage[k].block_dirty

LEMMA RetainSlots ==
  ASSUME NEW s, IsState(s), RowsTyped(s), s.dirty_storage \in Seq(Slots),
         s.accepted_len.storage \in 0 .. Len(s.dirty_storage)
  PROVE  LET r == CompactAcceptedStorageChanges(s)
         IN  /\ SameBut(r, s, {"dirty_storage", "storage"})
             /\ r.dirty_storage \in Seq(Slots)
             /\ FlagsOnly(r, s)
<1> DEFINE q == s.dirty_storage
           start == IF s.transaction_storage_wipes # <<>> THEN 0 ELSE s.accepted_len.storage
           scanned == SubSeq(q, start + 1, Len(q))
           live == {k \in Slots : s.storage[k].block_dirty /\ CurrentIncarnation(s, k)}
           kept == Compacted(scanned, live, s.scope_reverted)
           rows == [k \in Slots |-> IF Contains(scanned, k)
                                    THEN [s.storage[k] EXCEPT !.block_dirty = Contains(kept, k)]
                                    ELSE s.storage[k]]
           r == CompactAcceptedStorageChanges(s)
<1> SUFFICES /\ SameBut(r, s, {"dirty_storage", "storage"})
             /\ r.dirty_storage \in Seq(Slots) /\ FlagsOnly(r, s)
  OBVIOUS
<1>1. s.storage \in [Slots -> StorageRowOf(s.clock)]
  BY SMTT(30) DEF RowsTyped
<1>2. \/ r = s
      \/ /\ SameBut(r, s, {"dirty_storage", "storage"})
         /\ r.dirty_storage = Truncate(q, start) \o kept
         /\ r.storage = rows
  BY DEF CompactAcceptedStorageChanges, SameBut, IsState, StateFields
<1> HIDE DEF r
<1>3. CASE r = s
  BY <1>1, <1>3 DEF SameBut, FlagsOnly
<1>4. CASE /\ SameBut(r, s, {"dirty_storage", "storage"})
           /\ r.dirty_storage = Truncate(q, start) \o kept
           /\ r.storage = rows
  <2>1. start \in 0 .. Len(q) /\ q \in Seq(Slots)
    OBVIOUS
  <2>2. \A k \in live : s.storage[k].block_dirty = TRUE
    BY <1>1 DEF StorageRowOf
  <2> HIDE DEF q, start, live
  <2>3. Truncate(q, start) \o kept \in Seq(Slots)
    BY <2>1, CompactedTail
  <2>4. kept \in Seq(Slots \cap live)
    <3>1. scanned \in Seq(Slots)
      BY <2>1, TailTyped
    <3> HIDE DEF scanned
    <3> QED BY <3>1, CompactedTyped
  <2> HIDE DEF scanned, kept
  <2>5. \A k \in Slots : Contains(kept, k) => k \in live
    BY <2>4, LiveTyped DEF Contains
  <2>6. \A k \in Slots : Contains(kept, k) \in BOOLEAN
    BY DEF Contains
  <2>7. ASSUME NEW k \in Slots
        PROVE  /\ rows[k] \in StorageRowOf(s.clock)
               /\ rows[k].current = s.storage[k].current
               /\ rows[k].storage_incarnation = s.storage[k].storage_incarnation
               /\ rows[k].block_dirty => s.storage[k].block_dirty
    <3>1. s.storage[k] \in StorageRowOf(s.clock)
      BY <1>1
    <3> DEFINE c == Contains(kept, k)
               row == [s.storage[k] EXCEPT !.block_dirty = c]
    <3>2. c \in BOOLEAN /\ (c => s.storage[k].block_dirty = TRUE)
      BY <2>2, <2>5, <2>6
    <3> HIDE DEF c
    <3>3. /\ row \in StorageRowOf(s.clock) /\ row.current = s.storage[k].current
          /\ row.storage_incarnation = s.storage[k].storage_incarnation
          /\ row.block_dirty = c
      BY <3>1, <3>2 DEF StorageRowOf
    <3>4. rows[k] = row \/ rows[k] = s.storage[k]
      BY DEF c
    <3> HIDE DEF row, rows
    <3> QED BY <3>1, <3>2, <3>3, <3>4
  <2>8. rows \in [Slots -> StorageRowOf(s.clock)]
    BY <2>7
  <2> HIDE DEF rows
  <2>9. FlagsOnly(r, s)
    BY <1>4, <2>7, <2>8 DEF FlagsOnly
  <2> QED BY <1>4, <2>3, <2>9
<1> QED BY <1>2, <1>3, <1>4

Retains(s, r) ==
    /\ Resting(r)
    /\ BranchValues(r) = BranchValues(s)
    /\ r.clock = s.clock
    /\ r.account_ids = s.account_ids /\ r.storage_ids = s.storage_ids
    /\ r.introduced = s.introduced /\ r.parent_code = s.parent_code

LEMMA RetainRetains ==
  ASSUME NEW s, Sound(s), NoLifecycle(s), AcceptedWithin(s)
  PROVE  Retains(s, Retained(s))
<1> DEFINE p == CompactAcceptedStorageWipes(
                   CompactAcceptedAccountChanges([s EXCEPT !.retained_logs = s.logs]))
           x == CompactAcceptedStorageChanges(p)
           r == FinishTransaction(x)
<1>1. Typed(s) /\ CodesListed(s) /\ CodesBound(s) /\ Pristine(s)
  BY DEF Sound
<1>2. /\ SameBut(p, s, BlockFields)
      /\ p.block_changed_accounts \in Seq(Accounts)
      /\ p.block_storage_wipes \in Seq(Accounts)
  BY <1>1, RetainLists
<1>3. /\ p.accounts = s.accounts /\ p.storage = s.storage /\ p.clock = s.clock
      /\ p.account_ids = s.account_ids /\ p.storage_ids = s.storage_ids
      /\ p.introduced = s.introduced /\ p.parent_code = s.parent_code
      /\ p.block_introduced_codes = s.block_introduced_codes
      /\ p.dirty_storage = s.dirty_storage /\ p.transaction = s.transaction
      /\ p.accepted_len = s.accepted_len /\ IsState(p)
  BY <1>2 DEF SameBut, BlockFields, StateFields
<1> HIDE DEF p
<1>4. /\ RowsTyped(p) /\ p.dirty_storage \in Seq(Slots)
      /\ p.accepted_len.storage \in 0 .. Len(p.dirty_storage)
  BY <1>1, <1>3 DEF RowsTyped, Typed, ListsTyped, AcceptedWithin
<1>5. /\ SameBut(x, p, {"dirty_storage", "storage"})
      /\ x.dirty_storage \in Seq(Slots) /\ FlagsOnly(x, p)
  BY <1>3, <1>4, RetainSlots
<1> HIDE DEF x
<1>6. /\ x.accounts = p.accounts /\ x.clock = p.clock
      /\ x.account_ids = p.account_ids /\ x.storage_ids = p.storage_ids
      /\ x.introduced = p.introduced /\ x.parent_code = p.parent_code
      /\ x.block_introduced_codes = p.block_introduced_codes
      /\ x.transaction = p.transaction /\ IsState(x)
      /\ x.block_changed_accounts = p.block_changed_accounts
      /\ x.block_storage_wipes = p.block_storage_wipes
  BY <1>5 DEF SameBut, StateFields
<1>7. Settled(x)
  <2>1. RowsTyped(x) /\ x.transaction \in Nat
    BY <1>1, <1>3, <1>5, <1>6 DEF Typed, RowsTyped, ControlTyped, FlagsOnly
  <2>2. BlockListsTyped(x)
    BY <1>1, <1>2, <1>3, <1>5, <1>6 DEF Typed, ListsTyped, BlockListsTyped
  <2>3. CodesListed(x) /\ CodesBound(x)
    BY <1>1, <1>3, <1>6 DEF CodesListed, CodesBound, CodeBound
  <2>4. Pristine(x)
    <3>1. ASSUME NEW k \in Slots, ~IsStorageAdmitted(x, k) PROVE ParentSlot(x, k)
      <4>1. ParentSlot(s, k)
        BY <1>1, <1>3, <1>6, <3>1 DEF Pristine, IsStorageAdmitted
      <4>2. x.storage[k].block_dirty \in BOOLEAN
        BY <1>5 DEF FlagsOnly, StorageRowOf
      <4>3. x.storage[k].block_dirty = FALSE
        BY <1>3, <1>5, <4>1, <4>2 DEF FlagsOnly, ParentSlot
      <4> QED BY <1>3, <1>5, <4>1, <4>3 DEF FlagsOnly, ParentSlot
    <3>2. \A a \in Accounts : ~IsAdmitted(x, a) => ParentRow(x, a)
      BY <1>1, <1>3, <1>6 DEF Pristine, ParentRow, IsAdmitted
    <3> QED BY <3>1, <3>2 DEF Pristine
  <2>5. NoLifecycle(x)
    BY <1>3, <1>6 DEF NoLifecycle
  <2> QED BY <1>6, <2>1, <2>2, <2>3, <2>4, <2>5 DEF Settled
<1>8. Resting(r) /\ SameBut(r, x, FinishFields)
  BY <1>7, FinishRests
<1> HIDE DEF r
<1>9. /\ r.accounts = x.accounts /\ r.storage = x.storage /\ r.clock = x.clock
      /\ r.account_ids = x.account_ids /\ r.storage_ids = x.storage_ids
      /\ r.introduced = x.introduced /\ r.parent_code = x.parent_code
      /\ r.block_introduced_codes = x.block_introduced_codes
  BY <1>8 DEF SameBut, FinishFields, StateFields
<1>10. \A k \in Slots : EffectiveStorage(r, k) = EffectiveStorage(s, k)
  <2>1. ASSUME NEW k \in Slots PROVE EffectiveStorage(r, k) = EffectiveStorage(s, k)
    <3>1. /\ r.storage[k].current = s.storage[k].current
          /\ r.storage[k].storage_incarnation = s.storage[k].storage_incarnation
          /\ r.accounts = s.accounts
      BY <1>3, <1>5, <1>6, <1>9 DEF FlagsOnly
    <3> QED BY <3>1 DEF EffectiveStorage
  <2> QED BY <2>1
<1>11. BranchValues(r) = BranchValues(s)
  <2>1. /\ r.accounts = s.accounts /\ r.introduced = s.introduced
        /\ r.block_introduced_codes = s.block_introduced_codes
    BY <1>3, <1>6, <1>9
  <2> QED BY <1>10, <2>1 DEF BranchValues
<1>12. Retains(s, r)
  BY <1>3, <1>6, <1>8, <1>9, <1>11 DEF Retains
<1> QED BY <1>12 DEF Retained, r, x, p

-----------------------------------------------------------------------------
(* Between attempts: the parent state, reads, and the block's reset        *)

\* What a later state of the same epoch still has of an earlier one.
Reaches(x, z) ==
    /\ x.clock <= z.clock
    /\ PrefixOf(x.account_ids, z.account_ids)
    /\ PrefixOf(x.storage_ids, z.storage_ids)
    /\ PrefixOf(x.introduced, z.introduced)
    /\ x.parent_code \subseteq z.parent_code

Indexed(x) ==
    /\ x.clock \in Nat
    /\ x.account_ids \in Seq(Accounts)
    /\ x.storage_ids \in Seq(Slots)
    /\ x.introduced \in Seq(Nat)

LEMMA IndexedIf ==
  ASSUME NEW x, Typed(x) \/ Resting(x)
  PROVE  Indexed(x)
<1>1. Typed(x)
  BY RestingTyped
<1> QED BY <1>1 DEF Typed, RowsTyped, ListsTyped, Indexed

LEMMA ReachesReflexive ==
  ASSUME NEW x, Indexed(x)
  PROVE  Reaches(x, x)
  BY PrefixReflexive DEF Indexed, Reaches

LEMMA IndexLengths ==
  ASSUME NEW x, Indexed(x)
  PROVE  /\ x.clock \in Nat
         /\ \A f \in {"account_ids", "storage_ids", "introduced"} : Len(x[f]) \in Nat
<1>1. /\ x["account_ids"] \in Seq(Accounts) /\ x["storage_ids"] \in Seq(Slots)
      /\ x["introduced"] \in Seq(Nat) /\ x.clock \in Nat
  BY DEF Indexed
<1>2. /\ Len(x["account_ids"]) \in Nat /\ Len(x["storage_ids"]) \in Nat
      /\ Len(x["introduced"]) \in Nat
  BY <1>1
<1> QED BY <1>1, <1>2

LEMMA ReachesTransitive ==
  ASSUME NEW x, NEW y, NEW z, Indexed(x), Indexed(y), Indexed(z),
         Reaches(x, y), Reaches(y, z)
  PROVE  Reaches(x, z)
<1>1. /\ x.clock \in Nat /\ y.clock \in Nat /\ z.clock \in Nat
      /\ \A f \in {"account_ids", "storage_ids", "introduced"} :
            Len(x[f]) \in Nat /\ Len(y[f]) \in Nat /\ Len(z[f]) \in Nat
  BY IndexLengths
<1>2. \A f \in {"account_ids", "storage_ids", "introduced"} :
         PrefixOf(x[f], y[f]) /\ PrefixOf(y[f], z[f])
  BY DEF Reaches
<1>3. \A f \in {"account_ids", "storage_ids", "introduced"} : PrefixOf(x[f], z[f])
  <2> TAKE f \in {"account_ids", "storage_ids", "introduced"}
  <2> DEFINE q == x[f]
             p == y[f]
             t == z[f]
  <2>1. /\ Len(q) \in Nat /\ Len(p) \in Nat /\ Len(t) \in Nat
        /\ PrefixOf(q, p) /\ PrefixOf(p, t)
    BY <1>1, <1>2
  <2> SUFFICES PrefixOf(q, t)
    OBVIOUS
  <2> HIDE DEF q, p, t
  <2> QED BY <2>1, PrefixTransitive
<1> QED BY <1>1, <1>3 DEF Reaches

LEMMA ParentValue ==
  ASSUME NEW a \in Accounts
  PROVE  /\ ParentAccount[a] \in Value
         /\ LoadAccount(a) = ParentAccount[a]
         /\ ParentAccount[a].code \in Nat
  BY WorldConstants DEF Value, LoadAccount, AccountValue

LEMMA AdmittedFacts ==
  ASSUME NEW a \in Accounts, NEW c \in Nat
  PROVE  /\ AdmittedAccount(a) \in AccountRowOf(c)
         /\ AdmittedAccount(a).current = ParentAccount[a]
         /\ AdmittedAccount(a).flags = {}
         /\ AdmittedAccount(a).storage_incarnation = 0
         /\ \A s : CodeBound(s, AdmittedAccount(a).code_ref, ParentAccount[a].code)
<1>1. AdmittedAccount(a) \in AccountRowOf(c)
  BY ParentValue DEF AdmittedAccount, AccountRowOf, None, EmptyRef, MissingRef
<1>2. /\ AdmittedAccount(a).current = ParentAccount[a]
      /\ AdmittedAccount(a).flags = {}
      /\ AdmittedAccount(a).storage_incarnation = 0
      /\ AdmittedAccount(a).code_ref =
            IF ParentAccount[a].code = EmptyCode THEN EmptyRef ELSE MissingRef
  BY ParentValue DEF AdmittedAccount
<1>3. \A s : CodeBound(s, AdmittedAccount(a).code_ref, ParentAccount[a].code)
  BY <1>2 DEF CodeBound
<1> QED BY <1>1, <1>2, <1>3

LEMMA AdmittedSlotFacts ==
  ASSUME NEW k \in Slots, NEW c \in Nat
  PROVE  /\ AdmittedStorage(k) \in StorageRowOf(c)
         /\ AdmittedStorage(k).current = ParentStorage[k]
         /\ AdmittedStorage(k).block_dirty = FALSE
         /\ AdmittedStorage(k).storage_incarnation = 0
  BY WorldConstants DEF AdmittedStorage, StorageRowOf, None

ParentRows(r) ==
    /\ IsState(r)
    /\ r.accounts = [a \in Accounts |-> AdmittedAccount(a)]
    /\ r.storage = [k \in Slots |-> AdmittedStorage(k)]
    /\ r.account_ids = <<>> /\ r.storage_ids = <<>> /\ r.introduced = <<>>
    /\ r.block_changed_accounts = <<>> /\ r.block_storage_wipes = <<>>
    /\ r.dirty_storage = <<>> /\ r.block_introduced_codes = <<>>
    /\ r.clock \in Nat /\ r.transaction \in Nat

LEMMA ParentRowsSettled ==
  ASSUME NEW r, ParentRows(r)
  PROVE  Settled(r) /\ BranchValues(r) = ParentBranch
<1>1. /\ r.clock \in Nat
      /\ \A a \in Accounts : r.accounts[a] = AdmittedAccount(a)
      /\ \A k \in Slots : r.storage[k] = AdmittedStorage(k)
  BY DEF ParentRows
<1>2. RowsTyped(r)
  BY <1>1, AdmittedFacts, AdmittedSlotFacts DEF ParentRows, RowsTyped
<1>3. BlockListsTyped(r) /\ CodesListed(r)
  BY DEF ParentRows, BlockListsTyped, CodesListed
<1>4. CodesBound(r) /\ NoLifecycle(r)
  BY <1>1, AdmittedFacts DEF CodesBound, NoLifecycle
<1>5. Pristine(r)
  BY <1>1, AdmittedFacts, AdmittedSlotFacts DEF Pristine, ParentRow, ParentSlot
<1>6. Settled(r)
  BY <1>2, <1>3, <1>4, <1>5 DEF Settled, ParentRows
<1>7. \A a \in Accounts : /\ r.accounts[a].current = ParentAccount[a]
                          /\ r.accounts[a].flags = {}
                          /\ r.accounts[a].storage_incarnation = 0
  BY <1>1, AdmittedFacts
<1>8. \A k \in Slots : EffectiveStorage(r, k) = ParentStorage[k]
  <2>1. \A k \in Slots : /\ r.storage[k].current = ParentStorage[k]
                         /\ r.storage[k].storage_incarnation = 0
    BY <1>1, AdmittedSlotFacts
  <2>2. \A k \in Slots : Owner[k] \in Accounts
    BY WorldConstants
  <2> QED BY <1>7, <2>1, <2>2 DEF EffectiveStorage
<1>9. r.introduced = <<>> /\ r.block_introduced_codes = <<>>
  BY DEF ParentRows
<1> QED BY <1>6, <1>7, <1>8, <1>9 DEF BranchValues, ParentBranch

LEMMA InitialRests ==
  /\ Resting(InitialState)
  /\ BranchValues(InitialState) = ParentBranch
  /\ InitialState.clock = 0
<1> DEFINE r == InitialState
<1>1. ParentRows(r)
  BY DEF InitialState, ParentRows, IsState, StateFields, None
<1>2. /\ Quiescent(r) /\ r.transaction_active = FALSE /\ r.scope = 0 /\ r.root = 0
      /\ r.clock = 0
  BY DEF InitialState, Quiescent, NoTransient, None
<1> HIDE DEF r
<1> QED BY <1>1, <1>2, ParentRowsSettled DEF Resting, r

LEMMA ResetRests ==
  ASSUME NEW s, Resting(s)
  PROVE  LET r == AcceptedDiscarded(s)
         IN  Resting(r) /\ BranchValues(r) = ParentBranch /\ r.clock = 0
<1> DEFINE r == AcceptedDiscarded(s)
<1>1. IsState(s) /\ s.transaction \in Nat
  BY DEF Resting, Settled
<1>2. /\ InitialState.accounts = [a \in Accounts |-> AdmittedAccount(a)]
      /\ InitialState.storage = [k \in Slots |-> AdmittedStorage(k)]
  BY DEF InitialState
<1>3. ParentRows(r) /\ r.clock = 0
  BY <1>1, <1>2 DEF AcceptedDiscarded, ResetRows, ParentRows, IsState, StateFields
<1>4. SameBut(r, s, {"accounts", "storage", "account_ids", "storage_ids", "introduced",
                     "block_changed_accounts", "block_storage_wipes", "dirty_storage",
                     "block_introduced_codes", "retained_logs", "clock"})
  BY <1>1 DEF AcceptedDiscarded, ResetRows, SameBut, IsState, StateFields
<1> HIDE DEF r
<1>5. Quiescent(r) /\ r.transaction_active = FALSE /\ r.scope = 0 /\ r.root = 0
  BY <1>4 DEF Resting, Quiescent, SameBut, StateFields
<1> QED BY <1>3, <1>5, ParentRowsSettled DEF Resting, r

LEMMA AdmitRests ==
  ASSUME NEW s, Resting(s), NEW r, SameBut(r, s, AdmitFields),
         r.account_ids \in Seq(Accounts), PrefixOf(s.account_ids, r.account_ids),
         s.parent_code \subseteq r.parent_code, r.storage_ids = s.storage_ids
  PROVE  Resting(r) /\ BranchValues(r) = BranchValues(s) /\ Reaches(s, r)
<1>1. /\ r.accounts = s.accounts /\ r.storage = s.storage /\ r.clock = s.clock
      /\ r.introduced = s.introduced /\ r.block_introduced_codes = s.block_introduced_codes
      /\ r.transaction = s.transaction /\ IsState(r)
      /\ r.block_changed_accounts = s.block_changed_accounts
      /\ r.block_storage_wipes = s.block_storage_wipes /\ r.dirty_storage = s.dirty_storage
  BY DEF SameBut, AdmitFields, StateFields
<1>2. Settled(s)
  BY DEF Resting
<1>3. RowsTyped(r) /\ BlockListsTyped(r) /\ CodesListed(r) /\ NoLifecycle(r)
  BY <1>1, <1>2 DEF Settled, RowsTyped, BlockListsTyped, CodesListed, NoLifecycle
<1>4. CodesBound(r)
  BY <1>1, <1>2 DEF Settled, CodesBound, CodeBound
<1>5. \A a : IsAdmitted(s, a) => IsAdmitted(r, a)
  <2>1. s.account_ids \in Seq(Accounts)
    BY <1>2 DEF Settled, BlockListsTyped
  <2> QED BY <2>1 DEF IsAdmitted, Contains, PrefixOf
<1>6. Pristine(r)
  BY <1>1, <1>2, <1>5 DEF Settled, Pristine, ParentRow, ParentSlot, IsStorageAdmitted
<1>7. Settled(r)
  BY <1>1, <1>2, <1>3, <1>4, <1>6 DEF Settled
<1>8. Quiescent(r) /\ r.transaction_active = FALSE /\ r.scope = 0 /\ r.root = 0
  BY DEF Resting, Quiescent, SameBut, AdmitFields, StateFields
<1>9. BranchValues(r) = BranchValues(s)
  BY <1>1 DEF BranchValues, EffectiveStorage
<1>10. Reaches(s, r)
  <2>1. Indexed(s)
    BY IndexedIf
  <2> QED BY <1>1, <2>1, PrefixReflexive DEF Reaches, Indexed
<1> QED BY <1>7, <1>8, <1>9, <1>10 DEF Resting

LEMMA IdleReadRests ==
  ASSUME NEW s, Resting(s), NEW a \in Accounts
  PROVE  LET r == ReadAccount(s, a)
             x == LoadCode(r, a)
         IN  /\ Resting(r) /\ BranchValues(r) = BranchValues(s) /\ Reaches(s, r)
             /\ Resting(x) /\ BranchValues(x) = BranchValues(s) /\ Reaches(s, x)
             /\ r.clock = s.clock /\ x.clock = s.clock
<1> DEFINE r == ReadAccount(s, a)
           x == LoadCode(r, a)
<1>1. IsState(s) /\ s.account_ids \in Seq(Accounts) /\ ~AttemptOpen(s)
  BY DEF Resting, Settled, BlockListsTyped, AttemptOpen
<1>2. r = ResolveAccount(s, a)
  BY <1>1 DEF ReadAccount
<1>3. /\ SameBut(r, s, AdmitFields) /\ r.storage_ids = s.storage_ids
      /\ r.parent_code = s.parent_code /\ r.clock = s.clock
      /\ r.account_ids = AppendIf(s.account_ids, ~Contains(s.account_ids, a), a)
  BY <1>1, <1>2 DEF ResolveAccount, SameBut, AdmitFields, IsState, StateFields, IsAdmitted
<1>4. r.account_ids \in Seq(Accounts) /\ PrefixOf(s.account_ids, r.account_ids)
  BY <1>1, <1>3, AppendedFacts
<1> HIDE DEF r
<1>5. Resting(r) /\ BranchValues(r) = BranchValues(s) /\ Reaches(s, r)
  BY <1>3, <1>4, AdmitRests
<1>6. IsState(r)
  BY <1>3 DEF SameBut
<1>7. /\ SameBut(x, r, AdmitFields) /\ x.storage_ids = r.storage_ids
      /\ r.parent_code \subseteq x.parent_code /\ x.clock = r.clock
      /\ x.account_ids = r.account_ids
  BY <1>6 DEF LoadCode, SameBut, AdmitFields, IsState, StateFields
<1> HIDE DEF x
<1>8. x.account_ids \in Seq(Accounts) /\ PrefixOf(r.account_ids, x.account_ids)
  BY <1>4, <1>7, PrefixReflexive
<1>9. Resting(x) /\ BranchValues(x) = BranchValues(r) /\ Reaches(r, x)
  BY <1>5, <1>7, <1>8, AdmitRests
<1>10. Reaches(s, x)
  BY <1>5, <1>9, IndexedIf, ReachesTransitive
<1> QED BY <1>3, <1>5, <1>7, <1>9, <1>10 DEF r, x

-----------------------------------------------------------------------------
(* Branch snapshots                                                        *)

\* y is a state of the same epoch that x can be taken back to.
Captured(y, x) == Resting(y) /\ Reaches(y, x)

LEMMA CapturedPositions ==
  ASSUME NEW S, NEW q \in Seq(S), NEW p \in Seq(S), PrefixOf(q, p), NEW rows, NEW f,
         rows = [i \in DOMAIN q |-> f[q[i]]]
  PROVE  /\ Len(rows) = Len(q) /\ Len(q) <= Len(p)
         /\ Truncate(p, Len(rows)) = q
         /\ \A a : Contains(q, a)
               => rows[CHOOSE i \in DOMAIN q : q[i] = a] = f[a]
<1>1. DOMAIN q = 1 .. Len(q) /\ Len(q) \in Nat /\ Len(p) \in Nat
  OBVIOUS
<1>2. Len(rows) = Len(q)
  BY <1>1
<1>3. Truncate(p, Len(rows)) = q
  BY <1>2, CutToPrefix
<1>4. ASSUME NEW a, Contains(q, a)
      PROVE  rows[CHOOSE i \in DOMAIN q : q[i] = a] = f[a]
  <2>1. \E i \in DOMAIN q : q[i] = a
    BY <1>1, <1>4 DEF Contains
  <2> DEFINE j == CHOOSE i \in DOMAIN q : q[i] = a
  <2>2. j \in DOMAIN q /\ q[j] = a
    BY <2>1
  <2> HIDE DEF j
  <2>3. rows[j] = f[a]
    BY <2>2
  <2> QED BY <2>3 DEF j
<1> QED BY <1>2, <1>3, <1>4 DEF PrefixOf

LEMMA RestoreFields ==
  ASSUME NEW x, IsState(x), NEW y, Captured(y, x), Indexed(x)
  PROVE  LET r == RestoredBranch(x, BranchSnapshot(y))
         IN  /\ Restorable(x, BranchSnapshot(y))
             /\ SameBut(r, x, {"accounts", "storage", "account_ids", "storage_ids",
                               "block_changed_accounts", "block_storage_wipes",
                               "dirty_storage", "block_introduced_codes", "introduced",
                               "retained_logs"})
             /\ r.account_ids = y.account_ids /\ r.storage_ids = y.storage_ids
             /\ r.accounts = [a \in Accounts |-> IF IsAdmitted(y, a) THEN y.accounts[a]
                                                 ELSE AdmittedAccount(a)]
             /\ r.storage = [k \in Slots |-> IF IsStorageAdmitted(y, k) THEN y.storage[k]
                                             ELSE AdmittedStorage(k)]
             /\ r.introduced = y.introduced
             /\ r.block_introduced_codes =
                   Truncate(x.block_introduced_codes, Len(y.block_introduced_codes))
             /\ r.block_changed_accounts = y.block_changed_accounts
             /\ r.block_storage_wipes = y.block_storage_wipes
             /\ r.dirty_storage = y.dirty_storage
<1> DEFINE snap == BranchSnapshot(y)
           rows == snap.rows
           r == RestoredBranch(x, snap)
           z == RestoreSnapshot(x, rows)
           Rows(ids) == [a \in Accounts |->
                           IF Contains(ids, a)
                           THEN rows.accounts[CHOOSE i \in DOMAIN ids : ids[i] = a]
                           ELSE AdmittedAccount(a)]
           SlotRows(ids) == [k \in Slots |->
                               IF Contains(ids, k)
                               THEN rows.storage[CHOOSE i \in DOMAIN ids : ids[i] = k]
                               ELSE AdmittedStorage(k)]
<1>1. /\ Indexed(y) /\ PrefixOf(y.account_ids, x.account_ids)
      /\ PrefixOf(y.storage_ids, x.storage_ids) /\ PrefixOf(y.introduced, x.introduced)
  BY IndexedIf DEF Captured, Reaches
<1>2. /\ rows.accounts = [i \in DOMAIN y.account_ids |-> y.accounts[y.account_ids[i]]]
      /\ rows.storage = [i \in DOMAIN y.storage_ids |-> y.storage[y.storage_ids[i]]]
      /\ snap.introduced_len = Len(y.introduced)
      /\ snap.block_introduced_codes_len = Len(y.block_introduced_codes)
      /\ snap.block_changed_accounts = y.block_changed_accounts
      /\ snap.block_storage_wipes = y.block_storage_wipes
      /\ snap.dirty_storage = y.dirty_storage
  BY DEF BranchSnapshot, CaptureSnapshot
<1>3. /\ SameBut(z, x, {"accounts", "storage", "account_ids", "storage_ids"})
      /\ z.account_ids = Truncate(x.account_ids, Len(rows.accounts))
      /\ z.storage_ids = Truncate(x.storage_ids, Len(rows.storage))
      /\ z.accounts = Rows(z.account_ids) /\ z.storage = SlotRows(z.storage_ids)
  <2> DEFINE kept == Truncate(x.account_ids, Len(rows.accounts))
             keptStorage == Truncate(x.storage_ids, Len(rows.storage))
             f == Rows(kept)
             g == SlotRows(keptStorage)
  <2>1. z = [x EXCEPT !.accounts = f, !.storage = g, !.account_ids = kept,
                      !.storage_ids = keptStorage]
    BY DEF RestoreSnapshot
  <2> HIDE DEF f, g, kept, keptStorage, z
  <2>2. /\ SameBut(z, x, {"accounts", "storage", "account_ids", "storage_ids"})
        /\ z.account_ids = kept /\ z.storage_ids = keptStorage
        /\ z.accounts = f /\ z.storage = g
    BY <2>1 DEF SameBut, IsState, StateFields
  <2> HIDE DEF Rows, SlotRows
  <2> QED BY <2>2 DEF f, g, kept, keptStorage
<1>4. /\ SameBut(r, z, {"block_changed_accounts", "block_storage_wipes",
                        "dirty_storage", "block_introduced_codes", "introduced",
                        "retained_logs"})
      /\ r.introduced = Truncate(z.introduced, snap.introduced_len)
      /\ r.block_introduced_codes =
            Truncate(z.block_introduced_codes, snap.block_introduced_codes_len)
      /\ r.block_changed_accounts = snap.block_changed_accounts
      /\ r.block_storage_wipes = snap.block_storage_wipes
      /\ r.dirty_storage = snap.dirty_storage
  <2>1. IsState(z)
    BY <1>3 DEF SameBut
  <2> HIDE DEF z
  <2>2. r = [z EXCEPT
        !.block_changed_accounts = snap.block_changed_accounts,
        !.block_storage_wipes = snap.block_storage_wipes,
        !.dirty_storage = snap.dirty_storage,
        !.block_introduced_codes = Truncate(@, snap.block_introduced_codes_len),
        !.introduced = Truncate(@, snap.introduced_len),
        !.retained_logs = snap.retained_logs]
    BY DEF RestoredBranch, z
  <2> HIDE DEF r, snap
  <2> QED BY <2>1, <2>2 DEF SameBut, IsState, StateFields
<1> HIDE DEF r, z, snap, Rows, SlotRows
<1>5. /\ Len(rows.accounts) = Len(y.account_ids) /\ Len(y.account_ids) <= Len(x.account_ids)
      /\ z.account_ids = y.account_ids
      /\ \A a : Contains(y.account_ids, a)
            => rows.accounts[CHOOSE i \in DOMAIN y.account_ids : y.account_ids[i] = a]
                 = y.accounts[a]
  <2> DEFINE q == y.account_ids
             p == x.account_ids
             m == rows.accounts
             f == y.accounts
  <2>1. /\ q \in Seq(Accounts) /\ p \in Seq(Accounts) /\ PrefixOf(q, p)
        /\ m = [i \in DOMAIN q |-> f[q[i]]] /\ z.account_ids = Truncate(p, Len(m))
    BY <1>1, <1>2, <1>3 DEF Indexed
  <2> HIDE DEF q, p, m, f
  <2>2. /\ Len(m) = Len(q) /\ Len(q) <= Len(p) /\ Truncate(p, Len(m)) = q
        /\ \A a : Contains(q, a) => m[CHOOSE i \in DOMAIN q : q[i] = a] = f[a]
    BY <2>1, CapturedPositions
  <2> QED BY <2>1, <2>2 DEF q, p, m, f
<1>6. /\ Len(rows.storage) = Len(y.storage_ids) /\ Len(y.storage_ids) <= Len(x.storage_ids)
      /\ z.storage_ids = y.storage_ids
      /\ \A k : Contains(y.storage_ids, k)
            => rows.storage[CHOOSE i \in DOMAIN y.storage_ids : y.storage_ids[i] = k]
                 = y.storage[k]
  <2> DEFINE q == y.storage_ids
             p == x.storage_ids
             m == rows.storage
             f == y.storage
  <2>1. /\ q \in Seq(Slots) /\ p \in Seq(Slots) /\ PrefixOf(q, p)
        /\ m = [i \in DOMAIN q |-> f[q[i]]] /\ z.storage_ids = Truncate(p, Len(m))
    BY <1>1, <1>2, <1>3 DEF Indexed
  <2> HIDE DEF q, p, m, f
  <2>2. /\ Len(m) = Len(q) /\ Len(q) <= Len(p) /\ Truncate(p, Len(m)) = q
        /\ \A k : Contains(q, k) => m[CHOOSE i \in DOMAIN q : q[i] = k] = f[k]
    BY <2>1, CapturedPositions
  <2> QED BY <2>1, <2>2 DEF q, p, m, f
<1>7. z.accounts = [a \in Accounts |-> IF IsAdmitted(y, a) THEN y.accounts[a]
                                       ELSE AdmittedAccount(a)]
  <2> DEFINE ids == y.account_ids
             m == rows.accounts
             f == y.accounts
             At(a) == m[CHOOSE i \in DOMAIN ids : ids[i] = a]
  <2>1. z.accounts = [a \in Accounts |-> IF Contains(ids, a) THEN At(a)
                                         ELSE AdmittedAccount(a)]
    <3>1. z.accounts = Rows(ids)
      BY <1>3, <1>5
    <3> QED BY <3>1 DEF Rows
  <2>2. \A a \in Accounts : Contains(ids, a) => At(a) = f[a]
    BY <1>5
  <2> HIDE DEF At, m, f, ids
  <2>3. z.accounts = [a \in Accounts |-> IF Contains(ids, a) THEN f[a]
                                         ELSE AdmittedAccount(a)]
    BY <2>1, <2>2
  <2> QED BY <2>3 DEF IsAdmitted, ids, f
<1>8. z.storage = [k \in Slots |-> IF IsStorageAdmitted(y, k) THEN y.storage[k]
                                   ELSE AdmittedStorage(k)]
  <2> DEFINE ids == y.storage_ids
             m == rows.storage
             f == y.storage
             At(k) == m[CHOOSE i \in DOMAIN ids : ids[i] = k]
  <2>1. z.storage = [k \in Slots |-> IF Contains(ids, k) THEN At(k)
                                     ELSE AdmittedStorage(k)]
    <3>1. z.storage = SlotRows(ids)
      BY <1>3, <1>6
    <3> QED BY <3>1 DEF SlotRows
  <2>2. \A k \in Slots : Contains(ids, k) => At(k) = f[k]
    BY <1>6
  <2> HIDE DEF At, m, f, ids
  <2>3. z.storage = [k \in Slots |-> IF Contains(ids, k) THEN f[k]
                                     ELSE AdmittedStorage(k)]
    BY <2>1, <2>2
  <2> QED BY <2>3 DEF IsStorageAdmitted, ids, f
<1>9. z.introduced = x.introduced /\ z.block_introduced_codes = x.block_introduced_codes
  BY <1>3 DEF SameBut, StateFields
<1>10. r.introduced = y.introduced /\ Len(y.introduced) <= Len(x.introduced)
  <2>1. y.introduced \in Seq(Nat) /\ x.introduced \in Seq(Nat)
    BY <1>1 DEF Indexed
  <2> QED BY <1>1, <1>2, <1>4, <1>9, <2>1, CutToPrefix
<1>11. SameBut(r, x, {"accounts", "storage", "account_ids", "storage_ids",
                               "block_changed_accounts", "block_storage_wipes",
                               "dirty_storage", "block_introduced_codes", "introduced",
                               "retained_logs"})
  BY <1>3, <1>4 DEF SameBut
<1>12. /\ r.accounts = z.accounts /\ r.storage = z.storage
       /\ r.account_ids = z.account_ids /\ r.storage_ids = z.storage_ids
  BY <1>4 DEF SameBut, StateFields
<1>13. Restorable(x, snap)
  BY <1>2, <1>5, <1>6, <1>10 DEF Restorable
<1> QED BY <1>2, <1>4, <1>5, <1>6, <1>7, <1>8, <1>9, <1>10, <1>11, <1>12, <1>13 DEF r, snap

LEMMA RestoredRows ==
  ASSUME NEW y, Resting(y), NEW r, NEW c \in Nat, y.clock <= c,
         r.accounts = [a \in Accounts |-> IF IsAdmitted(y, a) THEN y.accounts[a]
                                          ELSE AdmittedAccount(a)],
         r.storage = [k \in Slots |-> IF IsStorageAdmitted(y, k) THEN y.storage[k]
                                      ELSE AdmittedStorage(k)]
  PROVE  /\ r.accounts \in [Accounts -> AccountRowOf(c)]
         /\ r.storage \in [Slots -> StorageRowOf(c)]
         /\ \A a \in Accounts :
               /\ r.accounts[a].current = y.accounts[a].current
               /\ r.accounts[a].flags = y.accounts[a].flags
               /\ r.accounts[a].storage_incarnation = y.accounts[a].storage_incarnation
               /\ IsAdmitted(y, a) => r.accounts[a].code_ref = y.accounts[a].code_ref
               /\ ~IsAdmitted(y, a) =>
                     \A s : CodeBound(s, r.accounts[a].code_ref, r.accounts[a].current.code)
         /\ \A k \in Slots :
               /\ r.storage[k].current = y.storage[k].current
               /\ r.storage[k].storage_incarnation = y.storage[k].storage_incarnation
               /\ r.storage[k].block_dirty = y.storage[k].block_dirty
<1>1. /\ RowsTyped(y) /\ Pristine(y) /\ y.clock \in Nat
  BY DEF Resting, Settled, RowsTyped
<1>2. ASSUME NEW a \in Accounts
      PROVE  /\ r.accounts[a] \in AccountRowOf(c)
             /\ r.accounts[a].current = y.accounts[a].current
             /\ r.accounts[a].flags = y.accounts[a].flags
             /\ r.accounts[a].storage_incarnation = y.accounts[a].storage_incarnation
             /\ IsAdmitted(y, a) => r.accounts[a].code_ref = y.accounts[a].code_ref
             /\ ~IsAdmitted(y, a) =>
                   \A s : CodeBound(s, r.accounts[a].code_ref, r.accounts[a].current.code)
  <2>1. y.accounts[a] \in AccountRowOf(c)
    BY <1>1, TypesWiden DEF RowsTyped
  <2>2. CASE IsAdmitted(y, a)
    BY <2>1, <2>2
  <2>3. CASE ~IsAdmitted(y, a)
    <3>1. r.accounts[a] = AdmittedAccount(a) /\ ParentRow(y, a)
      BY <1>1, <2>3 DEF Pristine
    <3> QED BY <2>3, <3>1, AdmittedFacts DEF ParentRow
  <2> QED BY <2>2, <2>3
<1>3. ASSUME NEW k \in Slots
      PROVE  /\ r.storage[k] \in StorageRowOf(c)
             /\ r.storage[k].current = y.storage[k].current
             /\ r.storage[k].storage_incarnation = y.storage[k].storage_incarnation
             /\ r.storage[k].block_dirty = y.storage[k].block_dirty
  <2>1. y.storage[k] \in StorageRowOf(c)
    BY <1>1, TypesWiden DEF RowsTyped
  <2>2. CASE IsStorageAdmitted(y, k)
    BY <2>1, <2>2
  <2>3. CASE ~IsStorageAdmitted(y, k)
    <3>1. r.storage[k] = AdmittedStorage(k) /\ ParentSlot(y, k)
      BY <1>1, <2>3 DEF Pristine
    <3> QED BY <2>3, <3>1, AdmittedSlotFacts DEF ParentSlot
  <2> QED BY <2>2, <2>3
<1> QED BY <1>2, <1>3

LEMMA ListedPrefix ==
  ASSUME NEW x, Resting(x), NEW y, Resting(y), PrefixOf(y.introduced, x.introduced)
  PROVE  /\ Truncate(x.block_introduced_codes, Len(y.block_introduced_codes))
               = y.block_introduced_codes
  <1>1. /\ x.block_introduced_codes \in Seq(Nat) /\ y.block_introduced_codes \in Seq(Nat)
        /\ CodesListed(x) /\ CodesListed(y)
        /\ Len(x.introduced) \in Nat /\ Len(y.introduced) \in Nat
    BY SMTT(30) DEF Resting, Settled, BlockListsTyped
  <1>2. PrefixOf(y.block_introduced_codes, x.block_introduced_codes)
    BY SMTT(30), <1>1 DEF CodesListed, PrefixOf
  <1> QED BY <1>1, <1>2, CutToPrefix

\* restoreBranch gives back the branch the snapshot was taken of.
LEMMA RestoreRests ==
  ASSUME NEW x, Resting(x), NEW y, Captured(y, x)
  PROVE  LET r == RestoredBranch(x, BranchSnapshot(y))
         IN  /\ Restorable(x, BranchSnapshot(y))
             /\ Resting(r) /\ BranchValues(r) = BranchValues(y)
             /\ Reaches(y, r) /\ r.clock = x.clock
<1> DEFINE r == RestoredBranch(x, BranchSnapshot(y))
<1>1. /\ Settled(x) /\ Settled(y) /\ IsState(x) /\ Indexed(x) /\ Indexed(y) /\ Resting(y)
      /\ Reaches(y, x)
  BY IndexedIf DEF Resting, Settled, Captured
<1>2. /\ Restorable(x, BranchSnapshot(y))
      /\ SameBut(r, x, {"accounts", "storage", "account_ids", "storage_ids",
                        "block_changed_accounts", "block_storage_wipes",
                        "dirty_storage", "block_introduced_codes", "introduced",
                        "retained_logs"})
      /\ r.account_ids = y.account_ids /\ r.storage_ids = y.storage_ids
      /\ r.accounts = [a \in Accounts |-> IF IsAdmitted(y, a) THEN y.accounts[a]
                                          ELSE AdmittedAccount(a)]
      /\ r.storage = [k \in Slots |-> IF IsStorageAdmitted(y, k) THEN y.storage[k]
                                      ELSE AdmittedStorage(k)]
      /\ r.introduced = y.introduced
      /\ r.block_introduced_codes =
            Truncate(x.block_introduced_codes, Len(y.block_introduced_codes))
      /\ r.block_changed_accounts = y.block_changed_accounts
      /\ r.block_storage_wipes = y.block_storage_wipes
      /\ r.dirty_storage = y.dirty_storage
  BY <1>1, RestoreFields
<1> HIDE DEF r
<1>3. /\ r.clock = x.clock /\ r.parent_code = x.parent_code
      /\ r.transaction = x.transaction /\ IsState(r)
  BY <1>2 DEF SameBut, StateFields
<1>4. r.clock \in Nat /\ y.clock <= r.clock /\ r.transaction \in Nat
      /\ y.parent_code \subseteq r.parent_code
  BY <1>1, <1>3 DEF Indexed, Reaches, Settled
<1>5. /\ r.accounts \in [Accounts -> AccountRowOf(r.clock)]
      /\ r.storage \in [Slots -> StorageRowOf(r.clock)]
      /\ \A a \in Accounts :
            /\ r.accounts[a].current = y.accounts[a].current
            /\ r.accounts[a].flags = y.accounts[a].flags
            /\ r.accounts[a].storage_incarnation = y.accounts[a].storage_incarnation
            /\ IsAdmitted(y, a) => r.accounts[a].code_ref = y.accounts[a].code_ref
            /\ ~IsAdmitted(y, a) =>
                  \A s : CodeBound(s, r.accounts[a].code_ref, r.accounts[a].current.code)
      /\ \A k \in Slots :
            /\ r.storage[k].current = y.storage[k].current
            /\ r.storage[k].storage_incarnation = y.storage[k].storage_incarnation
            /\ r.storage[k].block_dirty = y.storage[k].block_dirty
  <2> DEFINE c == r.clock
  <2>1. c \in Nat /\ y.clock <= c
    BY <1>4
  <2> HIDE DEF c
  <2>2. /\ r.accounts \in [Accounts -> AccountRowOf(c)]
        /\ r.storage \in [Slots -> StorageRowOf(c)]
    BY <1>1, <1>2, <2>1, RestoredRows
  <2>3. \A a \in Accounts :
            /\ r.accounts[a].current = y.accounts[a].current
            /\ r.accounts[a].flags = y.accounts[a].flags
            /\ r.accounts[a].storage_incarnation = y.accounts[a].storage_incarnation
            /\ IsAdmitted(y, a) => r.accounts[a].code_ref = y.accounts[a].code_ref
            /\ ~IsAdmitted(y, a) =>
                  \A s : CodeBound(s, r.accounts[a].code_ref, r.accounts[a].current.code)
    BY <1>1, <1>2, <2>1, RestoredRows
  <2>4. \A k \in Slots :
            /\ r.storage[k].current = y.storage[k].current
            /\ r.storage[k].storage_incarnation = y.storage[k].storage_incarnation
            /\ r.storage[k].block_dirty = y.storage[k].block_dirty
    BY <1>1, <1>2, <2>1, RestoredRows
  <2> QED BY <2>2, <2>3, <2>4 DEF c
<1>6. r.block_introduced_codes = y.block_introduced_codes
  BY <1>1, <1>2, ListedPrefix DEF Reaches
<1>7. RowsTyped(r) /\ BlockListsTyped(r) /\ CodesListed(r) /\ NoLifecycle(r)
  <2>1. RowsTyped(r)
    BY <1>4, <1>5 DEF RowsTyped
  <2>2. BlockListsTyped(r) /\ CodesListed(r)
    BY <1>1, <1>2, <1>6 DEF Settled, BlockListsTyped, CodesListed
  <2>3. NoLifecycle(r)
    BY <1>1, <1>5 DEF Settled, NoLifecycle
  <2> QED BY <2>1, <2>2, <2>3
<1>8. CodesBound(r)
  <2> SUFFICES ASSUME NEW a \in Accounts
               PROVE  CodeBound(r, r.accounts[a].code_ref, r.accounts[a].current.code)
    BY DEF CodesBound
  <2>1. CodeBound(y, y.accounts[a].code_ref, y.accounts[a].current.code)
    BY <1>1 DEF Settled, CodesBound
  <2>2. CASE IsAdmitted(y, a)
    <3>1. CodeBound(y, r.accounts[a].code_ref, r.accounts[a].current.code)
      BY <1>5, <2>1, <2>2
    <3> QED BY <1>2, <1>4, <3>1 DEF CodeBound
  <2>3. CASE ~IsAdmitted(y, a)
    BY <1>5, <2>3
  <2> QED BY <2>2, <2>3
<1>9. Pristine(r)
  <2>1. Pristine(y)
    BY <1>1 DEF Settled
  <2>2. \A a \in Accounts : ~IsAdmitted(r, a) => ParentRow(r, a)
    BY <1>2, <1>5, <2>1 DEF Pristine, ParentRow, IsAdmitted
  <2>3. \A k \in Slots : ~IsStorageAdmitted(r, k) => ParentSlot(r, k)
    BY <1>2, <1>5, <2>1 DEF Pristine, ParentSlot, IsStorageAdmitted
  <2> QED BY <2>2, <2>3 DEF Pristine
<1>10. Settled(r)
  BY <1>3, <1>4, <1>7, <1>8, <1>9 DEF Settled
<1>11. Quiescent(r) /\ r.transaction_active = FALSE /\ r.scope = 0 /\ r.root = 0
  BY <1>2 DEF Resting, Quiescent, SameBut, StateFields
<1>12. BranchValues(r) = BranchValues(y)
  <2>1. \A k \in Slots : EffectiveStorage(r, k) = EffectiveStorage(y, k)
    <3>1. \A k \in Slots : Owner[k] \in Accounts
      BY WorldConstants
    <3> QED BY <1>5, <3>1 DEF EffectiveStorage
  <2> QED BY <1>2, <1>5, <1>6, <2>1 DEF BranchValues
<1>13. Reaches(y, r)
  <2>1. Reaches(y, y)
    BY <1>1, ReachesReflexive
  <2> QED BY <1>2, <1>4, <2>1 DEF Reaches
<1> QED BY <1>2, <1>3, <1>10, <1>11, <1>12, <1>13 DEF Resting, r

-----------------------------------------------------------------------------
(* The inductive invariant                                                 *)

Tokens ==
    [scope : Nat, parent : Nat, journal_len : Nat, changed_accounts_len : Nat,
     changed_storage_len : Nat, logs : Nat]

\* B[1] is the state the attempt began in and B[i + 1] the one checkpoint i
\* was opened in: the journal leads from the current state s back to each.
Backed(B, s, cps) ==
    /\ Fresh(B[1])
    /\ AcceptedIn(s.accepted_len, B[1])
    /\ \A j \in 1 .. Len(cps) + 1 : Behind(B[j], s)
    /\ \A i \in 1 .. Len(cps) : TokenOf(cps[i], B[i + 1]) /\ cps[i].parent \in 0 .. s.clock
    /\ \A i \in 1 .. Len(cps) : \A j \in 1 .. i : Unstamped(B[j], cps[i].parent)
    /\ \A i, j \in 1 .. Len(cps) + 1 : i <= j => Before(B[i], B[j])

CopyOf(b, root) ==
    [branch |-> BranchValues(b),
     effects |-> EffectsOf(b, IF root = -1 THEN b.transient ELSE NoTransient)]

Copied(B, n, cop, root) == cop = [j \in 1 .. n + 1 |-> CopyOf(B[j], root)]

\* What the journal's transient entries lead back to: the values when the
\* checkpoint was opened in a session of one root, nothing in one of several.
TransientTo(s, b, w) ==
    TransientEntries(s, Len(b.journal), w) /\ TransientNow(s, Len(b.journal), w)

TransientKnown(B, n, s, root) ==
    /\ root = -1 => \A i \in 1 .. n : TransientTo(s, B[i + 1], B[i + 1].transient)
    /\ root = 0 => \A i \in 1 .. n : TransientEntries(s, Len(B[i + 1].journal), NoTransient)
    /\ \A i \in 1 .. n : i <= root => TransientTo(s, B[i + 1], NoTransient)

Nesting(s, n, root, max) ==
    /\ n \in Nat
    /\ root \in {-1} \cup 0 .. n
    /\ s.scope_depth > 0 => n = s.scope_depth - 1 /\ s.sealed = FALSE /\ s.clock < max
    /\ s.scope_depth = 0 => n = 0 /\ root = -1
    /\ s.sealed => NoLifecycle(s)

Working(B, s, cps, cop, root, max) ==
    /\ Sound(s)
    /\ cps \in Seq(Tokens)
    /\ Backed(B, s, cps)
    /\ Copied(B, Len(cps), cop, root)
    /\ TransientKnown(B, Len(cps), s, root)
    /\ Nesting(s, Len(cps), root, max)

Held(Y, x, snaps, kept) ==
    /\ Len(snaps) \in Nat
    /\ snaps = [i \in 1 .. Len(snaps) |-> BranchSnapshot(Y[i])]
    /\ kept = [i \in 1 .. Len(snaps) |-> BranchValues(Y[i])]
    /\ \A i \in 1 .. Len(snaps) : Captured(Y[i], x)
    /\ \A i, j \in 1 .. Len(snaps) : i <= j => Reaches(Y[i], Y[j])

WhenIdle(s, cps, cop, root, snaps, kept) ==
    /\ Resting(s)
    /\ cps = <<>> /\ cop = <<>> /\ root = -1
    /\ \E Y : Held(Y, s, snaps, kept)

WhenActive(s, cps, cop, root, snaps, kept, max) ==
    \E B, Y : /\ Working(B, s, cps, cop, root, max)
              /\ Held(Y, B[1], snaps, kept)

LEMMA BaseLengths ==
  ASSUME NEW s, Sound(s), NEW b, Base(b, s)
  PROVE  /\ Len(b.journal) \in 0 .. Len(s.journal)
         /\ Len(s.journal) \in Nat
         /\ Sound(b) /\ b.clock \in Nat /\ b.clock <= s.clock
         /\ b.transient \in [TransientKeys -> Nat]
<1>1. Sound(b) /\ Returns(s, b) /\ b.clock <= s.clock
  BY DEF Base
<1>2. /\ Typed(b) /\ Typed(s) /\ b.clock \in Nat /\ b.transient \in [TransientKeys -> Nat]
  BY <1>1, ControlFacts
<1>3. Len(b.journal) \in Nat /\ Len(s.journal) \in Nat
  BY <1>2, ListFacts
<1>4. Len(b.journal) <= Len(s.journal)
  BY <1>1 DEF Returns, Extension
<1> QED BY <1>1, <1>2, <1>3, <1>4

\* A step that carries every base of its state keeps what is known of them.
LEMMA TransientKnownKept ==
  ASSUME NEW B, NEW n \in Nat, NEW s, Sound(s), NEW root, NEW r,
         \A j \in 1 .. n + 1 : Base(B[j], s),
         TransientsKept(s, r), EntriesKept(s, r) \/ root # 0,
         TransientKnown(B, n, s, root)
  PROVE  TransientKnown(B, n, r, root)
<1>1. \A i \in 1 .. n : Len(B[i + 1].journal) \in 0 .. Len(s.journal)
  <2> TAKE i \in 1 .. n
  <2>1. i + 1 \in 1 .. n + 1
    OBVIOUS
  <2>2. Base(B[i + 1], s)
    BY <2>1
  <2> QED BY <2>2, BaseLengths
<1>2. ASSUME NEW i \in 1 .. n, NEW w, TransientTo(s, B[i + 1], w)
      PROVE  TransientTo(r, B[i + 1], w)
  BY <1>1, <1>2 DEF TransientTo, TransientsKept
<1>3. ASSUME NEW i \in 1 .. n, NEW w, EntriesKept(s, r),
             TransientEntries(s, Len(B[i + 1].journal), w)
      PROVE  TransientEntries(r, Len(B[i + 1].journal), w)
  BY <1>1, <1>3 DEF EntriesKept
<1> QED BY <1>2, <1>3 DEF TransientKnown

LEMMA WorkingBases ==
  ASSUME NEW B, NEW s, NEW cps, NEW cop, NEW root, NEW max,
         Working(B, s, cps, cop, root, max)
  PROVE  /\ Sound(s) /\ Len(cps) \in Nat
         /\ \A j \in 1 .. Len(cps) + 1 : Base(B[j], s) /\ Behind(B[j], s)
         /\ Fresh(B[1]) /\ Behind(B[1], s) /\ Base(B[1], s) /\ AcceptedIn(s.accepted_len, B[1])
<1>1. Sound(s) /\ Len(cps) \in Nat /\ Backed(B, s, cps)
  BY DEF Working
<1>2. 1 \in 1 .. Len(cps) + 1
  BY <1>1
<1> QED BY <1>1, <1>2 DEF Backed, Behind

LEMMA BackedKept ==
  ASSUME NEW B, NEW s, NEW cps, NEW r, Backed(B, s, cps), s.clock \in Nat, r.clock \in Nat,
         s.clock <= r.clock, r.accepted_len = s.accepted_len,
         \A j \in 1 .. Len(cps) + 1 : Behind(B[j], r)
  PROVE  Backed(B, r, cps)
<1>1. \A i \in 1 .. Len(cps) : cps[i].parent \in 0 .. s.clock => cps[i].parent \in 0 .. r.clock
  OBVIOUS
<1> QED BY <1>1 DEF Backed

LEMMA WorkingStep ==
  ASSUME NEW B, NEW s, NEW cps, NEW cop, NEW root, NEW max,
         Working(B, s, cps, cop, root, max),
         NEW r, Carries(s, r), Steady(s, r), EntriesKept(s, r) \/ root # 0,
         s.sealed => r.accounts = s.accounts,
         s.scope_depth > 0 => r.clock < max
  PROVE  Working(B, r, cps, cop, root, max)
<1>1. /\ Sound(s) /\ Len(cps) \in Nat /\ Backed(B, s, cps)
      /\ \A j \in 1 .. Len(cps) + 1 : Base(B[j], s) /\ Behind(B[j], s)
      /\ cps \in Seq(Tokens) /\ Copied(B, Len(cps), cop, root)
      /\ TransientKnown(B, Len(cps), s, root) /\ Nesting(s, Len(cps), root, max)
  BY WorkingBases DEF Working
<1>2. Sound(r) /\ s.clock <= r.clock /\ TransientsKept(s, r)
  BY DEF Carries
<1>3. \A j \in 1 .. Len(cps) + 1 : Behind(B[j], r)
  BY <1>1 DEF Carries
<1>4. s.clock \in Nat /\ r.clock \in Nat
  BY <1>1, <1>2, ControlFacts
<1>5. Backed(B, r, cps)
  BY <1>1, <1>2, <1>3, <1>4, BackedKept DEF Steady
<1>6. TransientKnown(B, Len(cps), r, root)
  BY <1>1, <1>2, TransientKnownKept
<1>7. Nesting(r, Len(cps), root, max)
  BY <1>1 DEF Nesting, Steady, NoLifecycle
<1> QED BY <1>1, <1>2, <1>5, <1>6, <1>7 DEF Working

LEMMA FreshTransient ==
  ASSUME NEW b, Fresh(b)
  PROVE  b.transient = NoTransient /\ CopyOf(b, -1) = CopyOf(b, 0)
         /\ CopyOf(b, -1).effects = NoEffects
<1>1. b.transient = NoTransient /\ EffectsOf(b, NoTransient) = NoEffects
  BY DEF Fresh, Quiescent
<1> QED BY <1>1 DEF CopyOf

LEMMA BeginWorks ==
  ASSUME NEW s, Resting(s), NEW max, s.clock + 2 < max
  PROVE  LET r == Begun(s)
             B == [j \in 1 .. 1 |-> r]
         IN  Working(B, r, <<>>, <<CopyOf(s, -1)>>, -1, max) /\ Reaches(s, r)
<1> DEFINE r == Begun(s)
           B == [j \in 1 .. 1 |-> r]
<1>1. /\ Fresh(r) /\ Behind(r, r) /\ BranchValues(r) = BranchValues(s)
      /\ AcceptedIn(r.accepted_len, r) /\ r.clock = s.clock + 2 /\ SameBut(r, s, BeginFields)
  BY BegunFresh
<1> HIDE DEF r
<1>2. B[1] = r
  OBVIOUS
<1>3. s.transient = NoTransient /\ EffectsOf(s, NoTransient) = NoEffects
  BY RestingEffects DEF Resting, Quiescent
<1>4. CopyOf(s, -1) = CopyOf(r, -1)
  <2>1. EffectsOf(s, s.transient) = NoEffects
    BY <1>3
  <2>2. r.transient = NoTransient /\ EffectsOf(r, NoTransient) = NoEffects
    BY <1>1 DEF Fresh, Quiescent
  <2> QED BY <1>1, <2>1, <2>2 DEF CopyOf
<1> HIDE DEF B
<1>5. Sound(r) /\ r.scope_depth = 0 /\ r.sealed = FALSE
  BY <1>1 DEF Fresh, Quiescent
<1>6. Len(<<>>) = 0 /\ <<>> \in Seq(Tokens)
  OBVIOUS
<1>7. Before(r, r)
  BY <1>1, <1>5, BehindIsBefore DEF Behind
<1>8. Backed(B, r, <<>>)
  BY <1>1, <1>2, <1>6, <1>7 DEF Backed
<1>9. Copied(B, 0, <<CopyOf(s, -1)>>, -1)
  BY <1>2, <1>4 DEF Copied
<1>10. TransientKnown(B, 0, r, -1)
  BY DEF TransientKnown
<1>11. Nesting(r, 0, -1, max)
  BY <1>5 DEF Nesting
<1>12. Reaches(s, r)
  <2>1. Indexed(s) /\ Reaches(s, s)
    BY IndexedIf, ReachesReflexive
  <2>2. /\ r.account_ids = s.account_ids /\ r.storage_ids = s.storage_ids
        /\ r.introduced = s.introduced /\ r.parent_code = s.parent_code
    BY <1>1 DEF SameBut, BeginFields, StateFields
  <2> QED BY <1>1, <2>1, <2>2 DEF Reaches, Indexed
<1> QED BY <1>5, <1>6, <1>8, <1>9, <1>10, <1>11, <1>12 DEF Working, r, B

Session(s, d) == [OpenRoot(s) EXCEPT !.scope_depth = d]

LEMMA SessionWorks ==
  ASSUME NEW B, NEW s, NEW cop, NEW root, NEW max, Working(B, s, <<>>, cop, root, max),
         NEW d \in Nat, NEW to \in {-1, 0}, ~s.sealed,
         d > 0 => d = 1 /\ s.clock + 1 < max, d = 0 => to = -1
  PROVE  /\ Working(B, Session(s, d), <<>>, cop, to, max)
         /\ Session(s, d).clock = s.clock + 1
         /\ SameBut(Session(s, d), s, {"clock", "scope", "root", "scope_depth"})
<1> DEFINE r == [OpenRoot(s) EXCEPT !.scope_depth = d]
<1>0. s.sealed = FALSE
  <2>1. s.sealed \in BOOLEAN
    BY DEF Working, Sound, Typed, ControlTyped
  <2> QED BY <2>1
<1>1. /\ Sound(s) /\ Len(<<>>) = 0 /\ Fresh(B[1]) /\ Behind(B[1], s)
      /\ Backed(B, s, <<>>) /\ Copied(B, 0, cop, root) /\ Nesting(s, 0, root, max)
  BY WorkingBases DEF Working
<1>2. /\ Carries(s, r) /\ r.transaction_active = s.transaction_active
      /\ r.sealed = s.sealed /\ r.accepted_len = s.accepted_len
      /\ r.clock = s.clock + 1 /\ r.scope_depth = d
      /\ SameBut(r, s, {"clock", "scope", "root", "scope_depth"})
  BY <1>1, RootCarries
<1> HIDE DEF r
<1>3. Sound(r) /\ Behind(B[1], r) /\ s.clock \in Nat /\ r.clock \in Nat
  BY <1>1, <1>2, ControlFacts DEF Carries
<1>4. Backed(B, r, <<>>)
  BY <1>1, <1>2, <1>3, BackedKept
<1>5. Copied(B, 0, cop, to)
  <2>1. CopyOf(B[1], root) = CopyOf(B[1], to)
    BY <1>1, FreshTransient DEF CopyOf
  <2> QED BY <1>1, <2>1 DEF Copied
<1>6. TransientKnown(B, 0, r, to) /\ <<>> \in Seq(Tokens)
  BY DEF TransientKnown
<1>7. Nesting(r, 0, to, max)
  BY <1>0, <1>1, <1>2 DEF Nesting
<1>8. Working(B, r, <<>>, cop, to, max)
  BY <1>1, <1>2, <1>3, <1>4, <1>5, <1>6, <1>7 DEF Working
<1>9. r = Session(s, d)
  BY DEF r, Session
<1> QED BY <1>2, <1>8, <1>9

LEMMA SealWorks ==
  ASSUME NEW B, NEW s, NEW cop, NEW root, NEW max, Working(B, s, <<>>, cop, root, max),
         s.scope_depth = 0, NoLifecycle(s)
  PROVE  LET r == Seal(s)
         IN  /\ Working(B, r, <<>>, cop, root, max) /\ r.clock = s.clock
             /\ SameBut(r, s, {"changed_storage", "transaction_storage_wipes", "sealed"})
<1> DEFINE r == Seal(s)
<1>1. /\ Sound(s) /\ Len(<<>>) = 0 /\ Fresh(B[1]) /\ Behind(B[1], s)
      /\ Backed(B, s, <<>>) /\ Copied(B, 0, cop, root) /\ Nesting(s, 0, root, max)
  BY WorkingBases DEF Working
<1>2. /\ Sound(r) /\ Behind(B[1], r) /\ r.sealed = TRUE
      /\ SameBut(r, s, {"changed_storage", "transaction_storage_wipes", "sealed"})
  BY <1>1, SealKeeps
<1> HIDE DEF r
<1>3. /\ r.clock = s.clock /\ r.accepted_len = s.accepted_len
      /\ r.scope_depth = s.scope_depth /\ r.accounts = s.accounts
  BY <1>2 DEF SameBut, StateFields
<1>4. Backed(B, r, <<>>)
  BY <1>1, <1>2, <1>3, BackedKept, ControlFacts
<1>5. TransientKnown(B, 0, r, root) /\ <<>> \in Seq(Tokens)
  BY DEF TransientKnown
<1>6. Nesting(r, 0, root, max)
  BY <1>1, <1>2, <1>3 DEF Nesting, NoLifecycle
<1> QED BY <1>1, <1>2, <1>3, <1>4, <1>5, <1>6 DEF Working, r

LEMMA CheckpointFacts ==
  ASSUME NEW t, Sound(t)
  PROVE  /\ Checkpoint(t) \in Tokens /\ TokenOf(Checkpoint(t), t)
         /\ Checkpoint(t).parent = t.scope /\ t.scope \in 0 .. t.clock /\ t.clock \in Nat
<1>1. Typed(t) /\ t.clock \in Nat /\ t.scope \in 0 .. t.clock /\ t.logs \in Nat
  BY ControlFacts
<1>2. Len(t.journal) \in Nat /\ Len(t.changed_accounts) \in Nat /\ Len(t.changed_storage) \in Nat
  <2>1. /\ t.changed_accounts \in Seq(Accounts) /\ t.changed_storage \in Seq(Slots)
    BY <1>1 DEF Typed, ListsTyped
  <2> QED BY <1>1, <2>1, ListFacts
<1> QED BY <1>1, <1>2 DEF Checkpoint, Tokens, TokenOf

LEMMA AppendFacts ==
  ASSUME NEW S, NEW q \in Seq(S), NEW x \in S
  PROVE  /\ Append(q, x) \in Seq(S) /\ Len(Append(q, x)) = Len(q) + 1
         /\ Append(q, x)[Len(q) + 1] = x
         /\ \A i \in 1 .. Len(q) : Append(q, x)[i] = q[i]
  OBVIOUS

LEMMA AppendCopy ==
  ASSUME NEW n \in Nat, NEW f, NEW x, NEW g, NEW q,
         q = [j \in 1 .. n |-> f[j]],
         g[n + 1] = x, \A j \in 1 .. n : g[j] = f[j]
  PROVE  Append(q, x) = [j \in 1 .. n + 1 |-> g[j]] /\ Len(q) = n
<1>1. Len(q) = n /\ DOMAIN q = 1 .. n
  OBVIOUS
<1>2. Append(q, x) = [j \in 1 .. n + 1 |-> IF j = n + 1 THEN x ELSE q[j]]
  BY <1>1
<1> QED BY <1>1, <1>2

LEMMA PushBacked ==
  ASSUME NEW B, NEW t, NEW cps, Backed(B, t, cps), Sound(t), cps \in Seq(Tokens),
         NEW D, D[Len(cps) + 2] = t, \A j \in 1 .. Len(cps) + 1 : D[j] = B[j]
  PROVE  Backed(D, Opened(t), Append(cps, Checkpoint(t)))
<1> DEFINE r == Opened(t)
           n == Len(cps)
           c == Checkpoint(t)
           p == Append(cps, c)
<1>1. /\ Carries(t, r) /\ Behind(t, r) /\ r.accepted_len = t.accepted_len
      /\ r.clock = t.clock + 1
  BY OpenedCarries
<1>2. /\ c \in Tokens /\ TokenOf(c, t) /\ c.parent = t.scope /\ t.scope \in 0 .. t.clock
      /\ t.clock \in Nat
  BY CheckpointFacts
<1> HIDE DEF r, c
<1>3. /\ n \in Nat /\ Len(p) = n + 1 /\ p[n + 1] = c /\ \A i \in 1 .. n : p[i] = cps[i]
  BY <1>2, AppendFacts
<1> HIDE DEF n, p
<1>4. /\ Fresh(B[1]) /\ AcceptedIn(t.accepted_len, B[1])
      /\ \A j \in 1 .. n + 1 : Behind(B[j], t)
      /\ \A i \in 1 .. n : TokenOf(cps[i], B[i + 1]) /\ cps[i].parent \in 0 .. t.clock
      /\ \A i \in 1 .. n : \A j \in 1 .. i : Unstamped(B[j], cps[i].parent)
      /\ \A i, j \in 1 .. n + 1 : i <= j => Before(B[i], B[j])
  BY DEF Backed, n
<1>5. D[n + 2] = t /\ \A j \in 1 .. n + 1 : D[j] = B[j]
  BY DEF n
<1>6. \A j \in 1 .. n + 2 : Behind(D[j], r)
  <2>1. \A j \in 1 .. n + 1 : Behind(B[j], r)
    BY <1>1, <1>4 DEF Carries
  <2> QED BY <1>1, <1>3, <1>5, <2>1
<1>7. \A i \in 1 .. n + 1 : TokenOf(p[i], D[i + 1]) /\ p[i].parent \in 0 .. r.clock
  <2> TAKE i \in 1 .. n + 1
  <2>1. CASE i = n + 1
    BY <1>1, <1>2, <1>3, <1>5, <2>1
  <2>2. CASE i \in 1 .. n
    <3>1. i + 1 \in 1 .. n + 1
      BY <1>3, <2>2
    <3>2. D[i + 1] = B[i + 1] /\ p[i] = cps[i]
      BY <1>3, <1>5, <2>2, <3>1
    <3> QED BY <1>1, <1>2, <1>4, <2>2, <3>2
  <2> QED BY <1>3, <2>1, <2>2
<1>8. \A i \in 1 .. n + 1 : \A j \in 1 .. i : Unstamped(D[j], p[i].parent)
  <2> TAKE i \in 1 .. n + 1
  <2> TAKE j \in 1 .. i
  <2>1. D[j] = B[j]
    BY <1>3, <1>5
  <2>2. CASE i = n + 1
    <3>1. Unstamped(B[j], t.scope)
      BY <1>3, <1>4, <2>2 DEF Behind
    <3> QED BY <1>2, <1>3, <2>1, <2>2, <3>1
  <2>3. CASE i \in 1 .. n
    BY <1>3, <1>4, <2>1, <2>3
  <2> QED BY <1>3, <2>2, <2>3
<1>9. \A i, j \in 1 .. n + 2 : i <= j => Before(D[i], D[j])
  <2>1. \A i \in 1 .. n + 1 : Before(B[i], t)
    BY <1>4, BehindIsBefore DEF Behind
  <2>2. Before(t, t)
    <3>1. Typed(t)
      BY ControlFacts
    <3>2. Len(t.journal) \in Nat /\ t.changed_accounts \in Seq(Accounts)
          /\ t.changed_storage \in Seq(Slots)
      BY <3>1, ListFacts DEF Typed, ListsTyped
    <3> QED BY <3>2 DEF Before
  <2> QED BY <1>3, <1>4, <1>5, <2>1, <2>2
<1>10. Fresh(D[1]) /\ AcceptedIn(r.accepted_len, D[1])
  BY <1>1, <1>3, <1>4, <1>5
<1>11. Backed(D, r, p)
  BY <1>3, <1>6, <1>7, <1>8, <1>9, <1>10 DEF Backed
<1> QED BY <1>11 DEF r, p, c

LEMMA PushTransient ==
  ASSUME NEW B, NEW t, Sound(t), NEW n \in Nat, NEW root \in {-1} \cup 0 .. n,
         \A j \in 1 .. n + 1 : Base(B[j], t),
         TransientKnown(B, n, t, root),
         NEW D, D[n + 2] = t, \A j \in 1 .. n + 1 : D[j] = B[j],
         NEW to, to = root \/ (root = 0 /\ to = n + 1 /\ t.transient = NoTransient)
  PROVE  TransientKnown(D, n + 1, Opened(t), to)
<1> DEFINE r == Opened(t)
<1>1. /\ TransientsKept(t, r) /\ EntriesKept(t, r) /\ r.journal = t.journal
  BY OpenedCarries DEF Carries
<1>2. r.transient = t.transient
  BY OpenedFacts, ControlFacts DEF SameBut, StateFields
<1> HIDE DEF r
<1>3. TransientKnown(B, n, r, root)
  BY <1>1, TransientKnownKept
<1>4. \A w : TransientEntries(r, Len(t.journal), w)
  <2>1. Len(t.journal) \in Nat
    BY ControlFacts, ListFacts
  <2> QED BY <1>1, <2>1 DEF TransientEntries
<1>5. TransientTo(r, t, t.transient)
  BY <1>2, <1>4 DEF TransientTo, TransientNow
<1>6. \A i \in 1 .. n : D[i + 1] = B[i + 1]
  OBVIOUS
<1>7. D[(n + 1) + 1] = t
  OBVIOUS
<1>8. CASE to = root
  <2>1. to # n + 1
    BY <1>8
  <2> QED BY <1>3, <1>4, <1>5, <1>6, <1>7, <1>8, <2>1 DEF TransientKnown, r
<1>9. CASE root = 0 /\ to = n + 1 /\ t.transient = NoTransient
  <2>1. \A len : TransientNow(r, len, NoTransient)
    BY <1>2, <1>9 DEF TransientNow
  <2>2. \A i \in 1 .. n : TransientTo(r, B[i + 1], NoTransient)
    BY <1>3, <1>9, <2>1 DEF TransientKnown, TransientTo
  <2> QED BY <1>5, <1>6, <1>7, <1>9, <2>2 DEF TransientKnown, r
<1> QED BY <1>8, <1>9

LEMMA PushWorks ==
  ASSUME NEW B, NEW t, NEW cps, NEW cop, NEW root, NEW max, NEW to,
         Working(B, t, cps, cop, root, max),
         t.scope_depth > 0, t.clock + 1 < max,
         to = root \/ (root = 0 /\ to = Len(cps) + 1 /\ t.transient = NoTransient),
         NEW D, D = [j \in 1 .. Len(cps) + 2 |-> IF j = Len(cps) + 2 THEN t ELSE B[j]]
  PROVE  /\ Working(D, Opened(t), Append(cps, Checkpoint(t)),
                    Append(cop, CopyOf(t, root)), to, max)
         /\ D[1] = B[1]
<1> DEFINE r == Opened(t)
           n == Len(cps)
           c == Checkpoint(t)
           p == Append(cps, c)
<1>1. /\ Sound(t) /\ n \in Nat /\ cps \in Seq(Tokens) /\ Backed(B, t, cps)
      /\ \A j \in 1 .. n + 1 : Base(B[j], t)
      /\ Copied(B, n, cop, root)
      /\ TransientKnown(B, n, t, root) /\ Nesting(t, n, root, max)
  BY WorkingBases DEF Working
<1>2. D[n + 2] = t /\ (\A j \in 1 .. n + 1 : D[j] = B[j])
  BY <1>1
<1>3. Backed(D, r, p)
  BY <1>1, <1>2, PushBacked
<1>4. c \in Tokens
  BY <1>1, CheckpointFacts
<1> HIDE DEF c
<1>5. Len(p) = n + 1 /\ p \in Seq(Tokens)
  BY <1>1, <1>4, AppendFacts
<1> HIDE DEF n, p
<1>6. root \in {-1} \cup 0 .. n
  BY <1>1 DEF Nesting
<1>7. to = root \/ (root = 0 /\ to = n + 1 /\ t.transient = NoTransient)
  BY DEF n
<1>8. TransientKnown(D, n + 1, r, to)
  BY <1>1, <1>2, <1>6, <1>7, PushTransient
<1>9. Copied(D, n + 1, Append(cop, CopyOf(t, root)), to)
  <2> DEFINE f == [j \in 1 .. n + 1 |-> CopyOf(B[j], root)]
             g == [j \in 1 .. n + 2 |-> CopyOf(D[j], to)]
             x == CopyOf(t, root)
  <2>1. \A b : CopyOf(b, root) = CopyOf(b, to)
    BY <1>1, <1>6, <1>7 DEF CopyOf
  <2>2. cop = f
    BY <1>1 DEF Copied
  <2>3. /\ DOMAIN g = 1 .. n + 2 /\ \A j \in 1 .. n + 2 : g[j] = CopyOf(D[j], to)
        /\ DOMAIN f = 1 .. n + 1 /\ \A j \in 1 .. n + 1 : f[j] = CopyOf(B[j], root)
    OBVIOUS
  <2>4. cop = [j \in 1 .. n + 1 |-> f[j]]
    BY <2>2
  <2>5. g = [j \in 1 .. (n + 1) + 1 |-> CopyOf(D[j], to)]
    BY <1>1
  <2> DEFINE m == n + 1
  <2>6. m \in Nat /\ m + 1 = n + 2 /\ m + 1 \in 1 .. n + 2 /\ 1 .. m \subseteq 1 .. n + 2
    BY <1>1
  <2> HIDE DEF f, g, m
  <2>7. g[m + 1] = x
    BY <1>2, <2>1, <2>3, <2>6
  <2>8. \A j \in 1 .. m : g[j] = f[j]
    <3> TAKE j \in 1 .. m
    <3>1. j \in 1 .. n + 2 /\ j \in 1 .. n + 1
      BY <2>6 DEF m
    <3>2. D[j] = B[j]
      BY <1>2, <3>1
    <3> QED BY ZenonT(40), <2>1, <2>3, <3>1, <3>2
  <2>9. cop = [j \in 1 .. m |-> f[j]]
    BY <2>4 DEF m
  <2> HIDE DEF x
  <2>10. Append(cop, x) = [j \in 1 .. m + 1 |-> g[j]]
    BY <2>6, <2>7, <2>8, <2>9, AppendCopy
  <2>11. g = [j \in 1 .. m + 1 |-> g[j]]
    BY <2>5 DEF m
  <2> QED BY <2>5, <2>10, <2>11 DEF Copied, x
<1>10. /\ Sound(r) /\ r.clock = t.clock + 1 /\ r.scope_depth = t.scope_depth + 1
       /\ r.sealed = t.sealed
  BY <1>1, OpenedCarries DEF Carries
<1>11. t.scope_depth \in Nat
  BY <1>1, ControlFacts
<1> HIDE DEF r
<1>12. Nesting(r, n + 1, to, max)
  BY SMTT(30), <1>1, <1>7, <1>10, <1>11 DEF Nesting
<1>13. Working(D, r, p, Append(cop, CopyOf(t, root)), to, max)
  BY <1>3, <1>5, <1>8, <1>9, <1>10, <1>12 DEF Working
<1> QED BY <1>1, <1>2, <1>13 DEF r, p, c

LEMMA ClearedWorks ==
  ASSUME NEW B, NEW s, NEW cps, NEW cop, NEW max, Working(B, s, cps, cop, 0, max)
  PROVE  LET t == ClearTransientStorage(s)
         IN  /\ Working(B, t, cps, cop, 0, max) /\ t.transient = NoTransient
             /\ SameBut(t, s, {"transient"})
<1> DEFINE t == ClearTransientStorage(s)
<1>1. /\ Sound(s) /\ Len(cps) \in Nat /\ cps \in Seq(Tokens) /\ Backed(B, s, cps)
      /\ \A j \in 1 .. Len(cps) + 1 : Base(B[j], s) /\ Behind(B[j], s)
      /\ Copied(B, Len(cps), cop, 0)
      /\ TransientKnown(B, Len(cps), s, 0) /\ Nesting(s, Len(cps), 0, max)
  BY WorkingBases DEF Working
<1>2. /\ Sound(t) /\ EntriesKept(s, t) /\ SameBut(t, s, {"transient"})
      /\ t.transient = NoTransient
      /\ \A b : Behind(b, s) => Behind(b, t)
  BY <1>1, ClearedFacts
<1> HIDE DEF t
<1>3. /\ t.clock = s.clock /\ t.accepted_len = s.accepted_len /\ t.scope_depth = s.scope_depth
      /\ t.sealed = s.sealed /\ t.accounts = s.accounts
  BY <1>2 DEF SameBut, StateFields
<1>4. Backed(B, t, cps)
  BY <1>1, <1>2, <1>3, BackedKept, ControlFacts
<1>5. TransientKnown(B, Len(cps), t, 0)
  <2>1. \A i \in 1 .. Len(cps) : Len(B[i + 1].journal) \in 0 .. Len(s.journal)
    <3> TAKE i \in 1 .. Len(cps)
    <3>1. i + 1 \in 1 .. Len(cps) + 1
      BY <1>1
    <3> QED BY <1>1, <3>1, BaseLengths
  <2>2. \A i \in 1 .. Len(cps) : TransientEntries(t, Len(B[i + 1].journal), NoTransient)
    BY <1>1, <1>2, <2>1 DEF TransientKnown, EntriesKept
  <2>3. \A i \in 1 .. Len(cps) : ~(i <= 0)
    BY <1>1
  <2> QED BY <2>2, <2>3 DEF TransientKnown
<1>6. Nesting(t, Len(cps), 0, max)
  BY <1>1, <1>3 DEF Nesting, NoLifecycle
<1> QED BY <1>1, <1>2, <1>4, <1>5, <1>6 DEF Working, t

LEMMA PopFacts ==
  ASSUME NEW S, NEW q \in Seq(S), q # <<>>
  PROVE  /\ Len(q) \in Nat /\ Len(q) > 0 /\ Last(q) = q[Len(q)] /\ Last(q) \in S
         /\ Front(q) \in Seq(S) /\ Len(Front(q)) = Len(q) - 1
         /\ \A i \in 1 .. Len(q) - 1 : Front(q)[i] = q[i]
<1>1. Len(q) \in Nat /\ Len(q) > 0
  OBVIOUS
<1>2. Len(q) - 1 \in 0 .. Len(q)
  BY <1>1
<1>3. Last(q) = q[Len(q)] /\ Front(q) = SubSeq(q, 1, Len(q) - 1)
  BY DEF Last, Front
<1> DEFINE m == Len(q) - 1
<1>4. m \in 0 .. Len(q)
  BY <1>2
<1> HIDE DEF m
<1>5. /\ SubSeq(q, 1, m) \in Seq(S) /\ Len(SubSeq(q, 1, m)) = m
      /\ \A i \in 1 .. m : SubSeq(q, 1, m)[i] = q[i]
  BY <1>4, Shortened
<1> QED BY <1>1, <1>3, <1>5 DEF m

LEMMA PopCopy ==
  ASSUME NEW n \in Nat, n > 0, NEW q, NEW f, q = [j \in 1 .. n + 1 |-> f[j]]
  PROVE  Front(q) = [j \in 1 .. n |-> f[j]] /\ Last(q) = f[n + 1] /\ Len(q) = n + 1
<1>1. Len(q) = n + 1
  OBVIOUS
<1>2. Front(q) = SubSeq(q, 1, n) /\ Last(q) = q[n + 1]
  BY <1>1 DEF Front, Last
<1>3. SubSeq(q, 1, n) = [j \in 1 .. n |-> q[j]]
  OBVIOUS
<1> QED BY <1>1, <1>2, <1>3

\* Both ways of closing the innermost checkpoint keep the outer ones.
LEMMA PopWorks ==
  ASSUME NEW B, NEW s, NEW cps, NEW cop, NEW root, NEW max,
         Working(B, s, cps, cop, root, max), cps # <<>>,
         NEW r, Sound(r), r.clock = s.clock, r.accepted_len = s.accepted_len,
         r.scope = Last(cps).parent, r.scope_depth = s.scope_depth - 1,
         r.sealed = s.sealed,
         \A x : Base(x, s) /\ Before(x, B[Len(cps) + 1]) => Base(x, r),
         \A len \in 0 .. Len(B[Len(cps) + 1].journal) : \A w :
            TransientEntries(s, len, w) =>
               /\ TransientEntries(r, len, w)
               /\ TransientNow(s, len, w) => TransientNow(r, len, w),
         NEW to, to = IF root = Len(cps) THEN 0 ELSE root
  PROVE  Working(B, r, Front(cps), Front(cop), to, max)
<1> DEFINE n == Len(cps)
           p == Front(cps)
<1>1. /\ Sound(s) /\ cps \in Seq(Tokens) /\ Backed(B, s, cps)
      /\ \A j \in 1 .. n + 1 : Base(B[j], s)
      /\ Copied(B, n, cop, root)
      /\ TransientKnown(B, n, s, root) /\ Nesting(s, n, root, max)
  BY WorkingBases DEF Working
<1>2. /\ n \in Nat /\ n > 0 /\ Last(cps) = cps[n] /\ p \in Seq(Tokens) /\ Len(p) = n - 1
      /\ \A i \in 1 .. n - 1 : p[i] = cps[i]
  BY <1>1, PopFacts
<1>3. /\ Fresh(B[1]) /\ AcceptedIn(s.accepted_len, B[1])
      /\ \A j \in 1 .. n + 1 : Behind(B[j], s)
      /\ \A i \in 1 .. n : TokenOf(cps[i], B[i + 1]) /\ cps[i].parent \in 0 .. s.clock
      /\ \A i \in 1 .. n : \A j \in 1 .. i : Unstamped(B[j], cps[i].parent)
      /\ \A i, j \in 1 .. n + 1 : i <= j => Before(B[i], B[j])
  BY <1>1 DEF Backed
<1>4. /\ r.scope = cps[n].parent
      /\ \A x : Base(x, s) /\ Before(x, B[n + 1]) => Base(x, r)
      /\ \A len \in 0 .. Len(B[n + 1].journal) : \A w :
            TransientEntries(s, len, w) =>
               /\ TransientEntries(r, len, w)
               /\ TransientNow(s, len, w) => TransientNow(r, len, w)
      /\ to = IF root = n THEN 0 ELSE root
  BY <1>2
<1> HIDE DEF n, p
<1>5. n \in 1 .. n /\ n + 1 \in 1 .. n + 1
  BY <1>2
<1>6. \A j \in 1 .. n : Behind(B[j], r)
  <2> TAKE j \in 1 .. n
  <2>1. j \in 1 .. n + 1 /\ j <= n + 1
    BY <1>2
  <2>2. Base(B[j], r)
    BY <1>1, <1>3, <1>4, <1>5, <2>1
  <2>3. Unstamped(B[j], cps[n].parent)
    BY <1>3, <1>5
  <2> QED BY <1>4, <2>2, <2>3 DEF Behind
<1>7. Backed(B, r, p)
  <2>1. /\ \A i \in 1 .. n - 1 : TokenOf(p[i], B[i + 1]) /\ p[i].parent \in 0 .. r.clock
        /\ \A i \in 1 .. n - 1 : \A j \in 1 .. i : Unstamped(B[j], p[i].parent)
    <3>1. \A i \in 1 .. n - 1 : i \in 1 .. n /\ p[i] = cps[i]
      BY <1>2
    <3>2. \A i \in 1 .. n - 1 : TokenOf(p[i], B[i + 1]) /\ p[i].parent \in 0 .. r.clock
      BY <1>3, <3>1
    <3>3. \A i \in 1 .. n - 1 : \A j \in 1 .. i : Unstamped(B[j], p[i].parent)
      BY <1>3, <3>1
    <3> QED BY <3>2, <3>3
  <2>2. \A i, j \in 1 .. n : i <= j => Before(B[i], B[j])
    BY <1>2, <1>3
  <2>3. Len(p) + 1 = n
    BY <1>2
  <2> QED BY <1>2, <1>3, <1>6, <2>1, <2>2, <2>3 DEF Backed
<1>8. Copied(B, n - 1, Front(cop), to)
  <2> DEFINE f == [j \in 1 .. n + 1 |-> CopyOf(B[j], root)]
  <2>1. cop = [j \in 1 .. n + 1 |-> f[j]]
    BY <1>1 DEF Copied
  <2>2. \A j \in 1 .. n : f[j] = CopyOf(B[j], to)
    <3>1. root = -1 <=> to = -1
      BY <1>2, <1>4
    <3>2. \A b : CopyOf(b, root) = CopyOf(b, to)
      BY <3>1 DEF CopyOf
    <3>3. \A j \in 1 .. n : f[j] = CopyOf(B[j], root)
      BY <1>2
    <3> QED BY <3>2, <3>3
  <2> HIDE DEF f
  <2>3. Front(cop) = [j \in 1 .. n |-> f[j]]
    BY SMTT(30), <1>2, <2>1, PopCopy
  <2>4. (n - 1) + 1 = n
    BY <1>2
  <2> QED BY <2>2, <2>3, <2>4 DEF Copied
<1>9. TransientKnown(B, n - 1, r, to)
  <2>1. \A i \in 1 .. n - 1 : Len(B[i + 1].journal) \in 0 .. Len(B[n + 1].journal)
    <3> TAKE i \in 1 .. n - 1
    <3>1. i + 1 \in 1 .. n + 1 /\ i + 1 <= n + 1
      BY <1>2
    <3>2. Before(B[i + 1], B[n + 1]) /\ Base(B[i + 1], s) /\ Base(B[n + 1], s)
      BY <1>1, <1>3, <1>5, <3>1
    <3>3. Len(B[i + 1].journal) \in Nat /\ Len(B[n + 1].journal) \in Nat
      BY <1>1, <3>2, BaseLengths
    <3> QED BY <3>2, <3>3 DEF Before
  <2>2. ASSUME NEW i \in 1 .. n - 1, NEW w
        PROVE  /\ TransientTo(s, B[i + 1], w) => TransientTo(r, B[i + 1], w)
               /\ TransientEntries(s, Len(B[i + 1].journal), w)
                     => TransientEntries(r, Len(B[i + 1].journal), w)
    BY <1>4, <2>1 DEF TransientTo
  <2>3. 1 .. n - 1 \subseteq 1 .. n /\ \A i \in 1 .. n - 1 : ~(i <= 0) /\ i <= n
    BY <1>2
  <2>4. CASE root = -1
    <3>1. to = -1 /\ \A i \in 1 .. n - 1 : ~(i <= to)
      BY <1>2, <1>4, <2>4
    <3> QED BY <1>1, <2>2, <2>3, <2>4, <3>1 DEF TransientKnown
  <2>5. CASE root = 0
    <3>1. to = 0
      BY <1>2, <1>4, <2>5
    <3> QED BY <1>1, <2>2, <2>3, <2>5, <3>1 DEF TransientKnown
  <2>6. CASE root = n
    <3>1. to = 0
      BY <1>2, <1>4, <2>6
    <3>2. \A i \in 1 .. n - 1 : TransientTo(s, B[i + 1], NoTransient)
      BY <1>1, <2>3, <2>6 DEF TransientKnown
    <3>3. \A i \in 1 .. n - 1 : TransientEntries(s, Len(B[i + 1].journal), NoTransient)
      BY <3>2 DEF TransientTo
    <3>4. \A i \in 1 .. n - 1 : TransientEntries(r, Len(B[i + 1].journal), NoTransient)
      BY <2>2, <3>3
    <3> QED BY <2>3, <3>1, <3>4 DEF TransientKnown
  <2>7. CASE root \notin {-1, 0, n}
    <3>1. to = root
      BY <1>4, <2>7
    <3> QED BY <1>1, <2>2, <2>3, <2>7, <3>1 DEF TransientKnown
  <2> QED BY <2>4, <2>5, <2>6, <2>7
<1>10. Nesting(r, n - 1, to, max)
  <2>1. s.scope_depth \in Nat
    BY <1>1, ControlFacts
  <2>2. n = s.scope_depth - 1 /\ s.sealed = FALSE /\ s.clock < max
        /\ root \in {-1} \cup 0 .. n
    BY <1>1, <1>2, <2>1 DEF Nesting
  <2> QED BY <1>2, <1>4, <2>1, <2>2 DEF Nesting
<1>11. Working(B, r, p, Front(cop), to, max)
  BY <1>2, <1>7, <1>8, <1>9, <1>10 DEF Working
<1> QED BY <1>11 DEF p

LEMMA TopBase ==
  ASSUME NEW B, NEW s, NEW cps, NEW cop, NEW root, NEW max,
         Working(B, s, cps, cop, root, max), cps # <<>>
  PROVE  LET b == B[Len(cps) + 1]
             c == Last(cps)
         IN  /\ Sound(s) /\ s.scope_depth > 0 /\ Base(b, s) /\ TokenOf(c, b)
             /\ c.parent \in 0 .. s.clock
             /\ Len(b.journal) \in 0 .. Len(s.journal)
             /\ b.transient \in [TransientKeys -> Nat]
             /\ root = -1 => TransientTo(s, b, b.transient)
<1> DEFINE n == Len(cps)
<1>1. /\ Sound(s) /\ cps \in Seq(Tokens) /\ Backed(B, s, cps)
      /\ \A j \in 1 .. n + 1 : Base(B[j], s)
      /\ TransientKnown(B, n, s, root) /\ Nesting(s, n, root, max)
  BY WorkingBases DEF Working
<1>2. n \in Nat /\ n > 0 /\ Last(cps) = cps[n]
  BY <1>1, PopFacts
<1>3. \A i \in 1 .. n : TokenOf(cps[i], B[i + 1]) /\ cps[i].parent \in 0 .. s.clock
  BY <1>1 DEF Backed
<1> HIDE DEF n
<1>4. n \in 1 .. n /\ n + 1 \in 1 .. n + 1
  BY <1>2
<1>5. Base(B[n + 1], s) /\ TokenOf(cps[n], B[n + 1]) /\ cps[n].parent \in 0 .. s.clock
  BY <1>1, <1>3, <1>4
<1>6. s.scope_depth > 0
  <2>1. s.scope_depth \in Nat
    BY <1>1, ControlFacts
  <2> QED BY <1>1, <1>2, <2>1 DEF Nesting
<1>7. root = -1 => TransientTo(s, B[n + 1], B[n + 1].transient)
  BY <1>1, <1>4 DEF TransientKnown
<1> QED BY <1>1, <1>2, <1>5, <1>6, <1>7, BaseLengths DEF n

LEMMA CommitWorks ==
  ASSUME NEW B, NEW s, NEW cps, NEW cop, NEW root, NEW max,
         Working(B, s, cps, cop, root, max), cps # <<>>,
         NEW to, to = IF root = Len(cps) THEN 0 ELSE root
  PROVE  LET r == CommitTo(s, Last(cps))
         IN  /\ Working(B, r, Front(cps), Front(cop), to, max) /\ r.clock = s.clock
             /\ SameBut(r, s, {"scope", "scope_depth"})
<1> DEFINE b == B[Len(cps) + 1]
           c == Last(cps)
           r == CommitTo(s, c)
<1>1. /\ Sound(s) /\ s.scope_depth > 0 /\ c.parent \in 0 .. s.clock
      /\ Len(b.journal) \in 0 .. Len(s.journal) /\ Len(s.journal) \in Nat
  BY TopBase, BaseLengths
<1>2. /\ Sound(r) /\ SameBut(r, s, {"scope", "scope_depth"})
      /\ r.scope = c.parent /\ r.scope_depth = s.scope_depth - 1
      /\ \A x : Base(x, s) => Base(x, r)
  BY <1>1, CommitFacts
<1> HIDE DEF r
<1>3. /\ r.clock = s.clock /\ r.accepted_len = s.accepted_len /\ r.sealed = s.sealed
      /\ r.journal = s.journal /\ r.transient = s.transient
  BY <1>2 DEF SameBut, StateFields
<1>4. \A len : \A w : TransientEntries(s, len, w) =>
               /\ TransientEntries(r, len, w)
               /\ TransientNow(s, len, w) => TransientNow(r, len, w)
  BY <1>3, TransientSame
<1>5. Working(B, r, Front(cps), Front(cop), to, max)
  BY <1>2, <1>3, <1>4, PopWorks DEF c
<1> QED BY <1>2, <1>3, <1>5 DEF r, c

LEMMA RevertWorks ==
  ASSUME NEW B, NEW s, NEW cps, NEW cop, NEW root, NEW max,
         Working(B, s, cps, cop, root, max), cps # <<>>,
         NEW to, to = IF root = Len(cps) THEN 0 ELSE root
  PROVE  LET r == RevertTo(s, Last(cps))
             b == B[Len(cps) + 1]
         IN  /\ Working(B, r, Front(cps), Front(cop), to, max) /\ r.clock = s.clock
             /\ BranchValues(r) = BranchValues(b)
             /\ \A w : EffectsOf(r, w) = EffectsOf(b, w)
             /\ root = -1 => r.transient = b.transient
<1> DEFINE b == B[Len(cps) + 1]
           c == Last(cps)
           r == RevertTo(s, c)
<1>1. /\ Sound(s) /\ s.scope_depth > 0 /\ Base(b, s) /\ TokenOf(c, b)
      /\ c.parent \in 0 .. s.clock /\ b.transient \in [TransientKeys -> Nat]
      /\ root = -1 => TransientTo(s, b, b.transient)
  BY TopBase
<1> HIDE DEF b, c
<1>2. Reverts(s, b, c, r)
  BY <1>1, RevertReverts
<1> HIDE DEF r
<1>3. /\ Sound(r) /\ r.clock = s.clock /\ r.sealed = s.sealed
      /\ r.accepted_len = s.accepted_len /\ r.scope = c.parent
      /\ r.scope_depth = s.scope_depth - 1
      /\ BranchValues(r) = BranchValues(b)
      /\ \A w : EffectsOf(r, w) = EffectsOf(b, w)
      /\ \A x : Base(x, s) /\ Before(x, b) => Base(x, r)
      /\ \A len \in 0 .. Len(b.journal) : \A w :
            TransientEntries(s, len, w) =>
               /\ TransientEntries(r, len, w)
               /\ TransientNow(s, len, w) => TransientNow(r, len, w)
  BY <1>2 DEF Reverts
<1>4. root = -1 => r.transient = b.transient
  BY <1>1, <1>2 DEF Reverts, TransientTo
<1>5. Working(B, r, Front(cps), Front(cop), to, max)
  BY <1>3, PopWorks DEF b, c
<1> QED BY <1>3, <1>4, <1>5 DEF r, b, c

-----------------------------------------------------------------------------
(* The snapshots held                                                      *)

LEMMA HeldIndexed ==
  ASSUME NEW Y, NEW x, NEW snaps, NEW kept, Held(Y, x, snaps, kept)
  PROVE  \A i \in 1 .. Len(snaps) : Indexed(Y[i]) /\ Resting(Y[i]) /\ Reaches(Y[i], x)
  BY IndexedIf DEF Held, Captured

LEMMA HeldKept ==
  ASSUME NEW Y, NEW x, NEW snaps, NEW kept, Held(Y, x, snaps, kept), Indexed(x),
         NEW z, Indexed(z), Reaches(x, z)
  PROVE  Held(Y, z, snaps, kept)
<1>1. ASSUME NEW i \in 1 .. Len(snaps) PROVE Captured(Y[i], z)
  <2> DEFINE y == Y[i]
  <2>1. Indexed(y) /\ Resting(y) /\ Reaches(y, x)
    BY HeldIndexed
  <2> HIDE DEF y
  <2>2. Captured(y, z)
    BY <2>1, ReachesTransitive DEF Captured
  <2> QED BY <2>2 DEF y
<1> QED BY <1>1 DEF Held

LEMMA BaseReaches ==
  ASSUME NEW s, Sound(s), NEW b, Base(b, s)
  PROVE  Reaches(b, s) /\ Indexed(b) /\ Indexed(s)
<1>1. Sound(b) /\ b.clock <= s.clock /\ Returns(s, b) /\ Grows(b, s)
  BY DEF Base
<1>2. Indexed(b) /\ Indexed(s)
  BY <1>1, IndexedIf, ControlFacts
<1>3. /\ PrefixOf(b.account_ids, s.account_ids) /\ PrefixOf(b.storage_ids, s.storage_ids)
      /\ b.parent_code \subseteq s.parent_code
  BY <1>1 DEF Grows, ListFields
<1>4. PrefixOf(b.introduced, s.introduced)
  <2>1. /\ Len(s.introduced) =
             Len(b.introduced) + Cardinality(Introductions(s.journal, Len(b.journal)))
        /\ \A i \in 1 .. Len(b.introduced) : s.introduced[i] = b.introduced[i]
    BY <1>1 DEF Returns, CodesReturn
  <2>2. Len(b.journal) \in Nat /\ Len(s.journal) \in Nat
    BY BaseLengths
  <2>3. Cardinality(Introductions(s.journal, Len(b.journal))) \in Nat
    BY <2>2, IntroductionsFinite
  <2>4. Len(b.introduced) \in Nat
    BY <1>2 DEF Indexed
  <2> QED BY <2>1, <2>3, <2>4 DEF PrefixOf
<1> QED BY <1>1, <1>2, <1>3, <1>4 DEF Reaches

LEMMA RetainHolds ==
  ASSUME NEW B, NEW s, NEW cps, NEW cop, NEW root, NEW max,
         Working(B, s, cps, cop, root, max), s.sealed,
         NEW Y, NEW snaps, NEW kept, Held(Y, B[1], snaps, kept)
  PROVE  LET r == Retained(s)
         IN  /\ WhenIdle(r, cps, <<>>, root, snaps, kept) /\ r.clock = s.clock
             /\ BranchValues(r) = BranchValues(s) /\ Len(cop) = 1
<1> DEFINE r == Retained(s)
<1>1. /\ Sound(s) /\ Base(B[1], s) /\ AcceptedIn(s.accepted_len, B[1])
      /\ Copied(B, Len(cps), cop, root)
      /\ Nesting(s, Len(cps), root, max) /\ cps \in Seq(Tokens)
  BY WorkingBases DEF Working
<1>2. s.scope_depth = 0 /\ Len(cps) = 0 /\ root = -1 /\ NoLifecycle(s)
  <2>1. s.scope_depth \in Nat
    BY <1>1, ControlFacts
  <2> QED BY <1>1, <2>1 DEF Nesting
<1>3. cps = <<>> /\ Len(cop) = 1
  BY <1>1, <1>2 DEF Copied
<1>4. AcceptedWithin(s)
  <2> DEFINE b == B[1]
  <2>1. Typed(b) /\ Typed(s) /\ Grows(b, s)
    BY <1>1, ControlFacts DEF Base
  <2> HIDE DEF b
  <2>2. /\ \A f \in ListFields : Len(b[f]) \in Nat /\ Len(s[f]) \in Nat
    BY <2>1, TypedLists DEF Typed
  <2>3. /\ \A f \in {"block_changed_accounts", "block_storage_wipes", "dirty_storage"} :
              Len(b[f]) \in 0 .. Len(s[f])
    BY <2>1, <2>2 DEF Grows, ListFields, PrefixOf
  <2>4. AcceptedIn(s.accepted_len, b)
    BY <1>1 DEF b
  <2> QED BY <2>3, <2>4 DEF AcceptedIn, AcceptedWithin
<1>5. Retains(s, r)
  BY <1>1, <1>2, <1>4, RetainRetains
<1> HIDE DEF r
<1>6. /\ Resting(r) /\ BranchValues(r) = BranchValues(s) /\ r.clock = s.clock
      /\ r.account_ids = s.account_ids /\ r.storage_ids = s.storage_ids
      /\ r.introduced = s.introduced /\ r.parent_code = s.parent_code
  BY <1>5 DEF Retains
<1>7. Reaches(B[1], s) /\ Indexed(B[1]) /\ Indexed(r)
  BY <1>1, <1>6, BaseReaches, IndexedIf
<1>8. Reaches(B[1], r)
  BY <1>6, <1>7 DEF Reaches
<1>9. Held(Y, r, snaps, kept)
  <2> DEFINE b == B[1]
  <2> HIDE DEF b
  <2> QED BY <1>7, <1>8, HeldKept DEF b
<1> QED BY <1>2, <1>3, <1>6, <1>9 DEF WhenIdle, r

LEMMA DiscardHolds ==
  ASSUME NEW B, NEW s, NEW cps, NEW cop, NEW root, NEW max,
         Working(B, s, cps, cop, root, max), s.scope_depth = 0,
         NEW Y, NEW snaps, NEW kept, Held(Y, B[1], snaps, kept)
  PROVE  LET r == Discarded(s)
         IN  /\ WhenIdle(r, cps, <<>>, root, snaps, kept) /\ r.clock = s.clock
             /\ Held(Y, r, snaps, kept)
             /\ BranchValues(r) = BranchValues(B[1]) /\ cop = <<CopyOf(B[1], -1)>>
<1> DEFINE r == Discarded(s)
           b == B[1]
<1>1. /\ Sound(s) /\ Base(b, s) /\ AcceptedIn(s.accepted_len, b) /\ Fresh(b)
      /\ Copied(B, Len(cps), cop, root)
      /\ Nesting(s, Len(cps), root, max) /\ cps \in Seq(Tokens)
  BY WorkingBases DEF Working
<1>2. Len(cps) = 0 /\ root = -1
  BY <1>1 DEF Nesting
<1>3. cps = <<>> /\ cop = <<CopyOf(b, -1)>>
  BY <1>1, <1>2 DEF Copied
<1> HIDE DEF b
<1>4. Discards(s, b, r)
  BY <1>1, DiscardDiscards
<1> HIDE DEF r
<1>5. /\ Resting(r) /\ BranchValues(r) = BranchValues(b) /\ r.clock = s.clock
      /\ r.account_ids = s.account_ids /\ r.storage_ids = s.storage_ids
      /\ r.introduced = b.introduced /\ r.parent_code = s.parent_code
  BY <1>4 DEF Discards
<1>6. Reaches(b, s) /\ Indexed(b) /\ Indexed(r)
  BY <1>1, <1>5, BaseReaches, IndexedIf
<1>7. Reaches(b, r)
  <2>1. Reaches(b, b)
    BY <1>6, ReachesReflexive
  <2> QED BY <1>5, <1>6, <2>1 DEF Reaches
<1>8. Held(Y, r, snaps, kept)
  BY <1>6, <1>7, HeldKept DEF b
<1> QED BY <1>2, <1>3, <1>5, <1>8 DEF WhenIdle, r, b

LEMMA IdleStep ==
  ASSUME NEW s, NEW cps, NEW cop, NEW root, NEW snaps, NEW kept,
         WhenIdle(s, cps, cop, root, snaps, kept),
         NEW r, Resting(r), Reaches(s, r)
  PROVE  WhenIdle(r, cps, cop, root, snaps, kept)
<1>1. Resting(s) /\ cps = <<>> /\ cop = <<>> /\ root = -1
  BY DEF WhenIdle
<1>2. PICK Y : Held(Y, s, snaps, kept)
  BY DEF WhenIdle
<1>3. Held(Y, r, snaps, kept)
  BY <1>1, <1>2, IndexedIf, HeldKept
<1> QED BY <1>1, <1>3 DEF WhenIdle

LEMMA EmptyHolds ==
  ASSUME NEW x
  PROVE  \E Y : Held(Y, x, <<>>, <<>>)
<1>1. Held(<<>>, x, <<>>, <<>>)
  BY DEF Held
<1> QED BY <1>1

LEMMA BeginHolds ==
  ASSUME NEW s, NEW cps, NEW cop, NEW root, NEW snaps, NEW kept,
         WhenIdle(s, cps, cop, root, snaps, kept), NEW max, s.clock + 2 < max
  PROVE  /\ WhenActive(Begun(s), cps, <<CopyOf(s, -1)>>, root, snaps, kept, max)
         /\ Begun(s).clock = s.clock + 2 /\ BranchValues(Begun(s)) = BranchValues(s)
         /\ EffectsOf(Begun(s), NoTransient) = NoEffects
         /\ Begun(s).transient = NoTransient
<1> DEFINE r == Begun(s)
           B == [j \in 1 .. 1 |-> r]
<1>1. Resting(s) /\ cps = <<>> /\ cop = <<>> /\ root = -1
  BY DEF WhenIdle
<1>2. PICK Y : Held(Y, s, snaps, kept)
  BY DEF WhenIdle
<1>3. /\ Working(B, r, <<>>, <<CopyOf(s, -1)>>, -1, max) /\ Reaches(s, r)
  BY <1>1, BeginWorks
<1>4. Fresh(r) /\ r.clock = s.clock + 2 /\ BranchValues(r) = BranchValues(s)
  BY <1>1, BegunFresh
<1>5. Sound(r) /\ r.transient = NoTransient /\ EffectsOf(r, NoTransient) = NoEffects
  BY <1>4 DEF Fresh, Quiescent
<1>6. B[1] = r
  OBVIOUS
<1> HIDE DEF r, B
<1>7. Indexed(s) /\ Indexed(r)
  BY <1>1, <1>5, IndexedIf, ControlFacts
<1>8. Held(Y, r, snaps, kept)
  BY <1>2, <1>3, <1>7, HeldKept
<1>9. WhenActive(r, cps, <<CopyOf(s, -1)>>, root, snaps, kept, max)
  BY <1>1, <1>3, <1>6, <1>8 DEF WhenActive
<1> QED BY <1>4, <1>5, <1>9 DEF r

LEMMA TakeHolds ==
  ASSUME NEW s, NEW cps, NEW cop, NEW root, NEW snaps, NEW kept,
         WhenIdle(s, cps, cop, root, snaps, kept)
  PROVE  WhenIdle(s, cps, cop, root, Append(snaps, BranchSnapshot(s)),
                  Append(kept, BranchValues(s)))
<1>1. Resting(s) /\ cps = <<>> /\ cop = <<>> /\ root = -1
  BY DEF WhenIdle
<1>2. PICK Y : Held(Y, s, snaps, kept)
  BY DEF WhenIdle
<1> DEFINE n == Len(snaps)
           Z == [i \in 1 .. n + 1 |-> IF i = n + 1 THEN s ELSE Y[i]]
           f == [i \in 1 .. n |-> BranchSnapshot(Y[i])]
           g == [i \in 1 .. n + 1 |-> BranchSnapshot(Z[i])]
           u == [i \in 1 .. n |-> BranchValues(Y[i])]
           v == [i \in 1 .. n + 1 |-> BranchValues(Z[i])]
<1>3. /\ n \in Nat /\ snaps = f /\ kept = u
      /\ \A i \in 1 .. n : Captured(Y[i], s)
      /\ \A i, j \in 1 .. n : i <= j => Reaches(Y[i], Y[j])
  BY <1>2 DEF Held
<1>4. n + 1 \in 1 .. n + 1 /\ Z[n + 1] = s /\ \A i \in 1 .. n : Z[i] = Y[i]
  BY <1>3
<1> HIDE DEF n, Z
<1>a. f = [i \in 1 .. n |-> f[i]] /\ \A i \in 1 .. n : f[i] = BranchSnapshot(Y[i])
  OBVIOUS
<1>b. /\ g = [i \in 1 .. n + 1 |-> g[i]]
      /\ \A i \in 1 .. n + 1 : g[i] = BranchSnapshot(Z[i])
  OBVIOUS
<1>c. u = [i \in 1 .. n |-> u[i]] /\ \A i \in 1 .. n : u[i] = BranchValues(Y[i])
  OBVIOUS
<1>d. /\ v = [i \in 1 .. n + 1 |-> v[i]]
      /\ \A i \in 1 .. n + 1 : v[i] = BranchValues(Z[i])
  OBVIOUS
<1>e. \A i \in 1 .. n : i \in 1 .. n + 1
  BY <1>3
<1>5. Append(snaps, BranchSnapshot(s)) = g /\ Len(g) = n + 1
  <2> DEFINE x == BranchSnapshot(s)
  <2>1. g[n + 1] = x
    BY <1>4, <1>b
  <2>2. \A i \in 1 .. n : g[i] = f[i]
    BY <1>4, <1>a, <1>b, <1>e
  <2>4. Len(g) = n + 1
    BY <1>3
  <2> HIDE DEF f, g, x
  <2>3. snaps = [i \in 1 .. n |-> f[i]]
    BY <1>3, <1>a
  <2>5. Append(snaps, x) = [i \in 1 .. n + 1 |-> g[i]]
    BY <1>3, <2>1, <2>2, <2>3, AppendCopy
  <2> QED BY <1>b, <2>4, <2>5 DEF x
<1>6. Append(kept, BranchValues(s)) = v
  <2> DEFINE x == BranchValues(s)
  <2>1. v[n + 1] = x
    BY <1>4, <1>d
  <2>2. \A i \in 1 .. n : v[i] = u[i]
    BY <1>4, <1>c, <1>d, <1>e
  <2> HIDE DEF u, v, x
  <2>3. kept = [i \in 1 .. n |-> u[i]]
    BY <1>3, <1>c
  <2>5. Append(kept, x) = [i \in 1 .. n + 1 |-> v[i]]
    BY <1>3, <2>1, <2>2, <2>3, AppendCopy
  <2> QED BY <1>d, <2>5 DEF x
<1>7. Reaches(s, s)
  BY <1>1, IndexedIf, ReachesReflexive
<1>8. \A i \in 1 .. n + 1 : Captured(Z[i], s)
  BY <1>1, <1>3, <1>4, <1>7 DEF Captured
<1>9. ASSUME NEW i \in 1 .. n + 1, NEW j \in 1 .. n + 1, i <= j PROVE Reaches(Z[i], Z[j])
  <2>1. CASE j = n + 1
    BY <1>4, <1>8, <2>1 DEF Captured
  <2>2. CASE j # n + 1
    <3>1. i \in 1 .. n /\ j \in 1 .. n
      BY <1>3, <1>9, <2>2
    <3> QED BY <1>3, <1>4, <1>9, <3>1
  <2> QED BY <2>1, <2>2
<1>10. Held(Z, s, Append(snaps, BranchSnapshot(s)), Append(kept, BranchValues(s)))
  <2> DEFINE m == n + 1
             snap == Append(snaps, BranchSnapshot(s))
             keep == Append(kept, BranchValues(s))
  <2>1. Len(snap) = m /\ m \in Nat
    BY <1>3, <1>5
  <2>2. /\ snap = [i \in 1 .. m |-> BranchSnapshot(Z[i])]
        /\ keep = [i \in 1 .. m |-> BranchValues(Z[i])]
    BY <1>5, <1>6
  <2>3. \A i \in 1 .. m : Captured(Z[i], s)
    BY <1>8
  <2>4. \A i, j \in 1 .. m : i <= j => Reaches(Z[i], Z[j])
    BY <1>9
  <2> HIDE DEF m, snap, keep
  <2>5. Held(Z, s, snap, keep)
    BY <2>1, <2>2, <2>3, <2>4 DEF Held
  <2> QED BY <2>5 DEF snap, keep
<1> QED BY <1>1, <1>10 DEF WhenIdle

LEMMA CutCopy ==
  ASSUME NEW n \in Nat, NEW h \in 0 .. n, NEW q, NEW f, q = [i \in 1 .. n |-> f[i]]
  PROVE  Truncate(q, h) = [i \in 1 .. h |-> f[i]] /\ Len(Truncate(q, h)) = h
<1>1. Truncate(q, h) = [i \in 1 .. h |-> q[i]]
  BY DEF Truncate
<1> QED BY <1>1

LEMMA RestoreHolds ==
  ASSUME NEW x, Resting(x), NEW Y, NEW snaps, NEW kept, Held(Y, x, snaps, kept),
         NEW i \in DOMAIN snaps, NEW h \in {i, i - 1}
  PROVE  LET r == RestoredBranch(x, snaps[i])
         IN  /\ Restorable(x, snaps[i])
             /\ WhenIdle(r, <<>>, <<>>, -1, Truncate(snaps, h), Truncate(kept, h))
             /\ BranchValues(r) = kept[i] /\ r.clock = x.clock
             /\ kept[i] \in ToSet(kept)
             /\ ToSet(Truncate(kept, h)) \subseteq ToSet(kept)
<1> DEFINE n == Len(snaps)
           y == Y[i]
           r == RestoredBranch(x, snaps[i])
           f == [j \in 1 .. n |-> BranchSnapshot(Y[j])]
           u == [j \in 1 .. n |-> BranchValues(Y[j])]
<1>1. /\ n \in Nat /\ snaps = f /\ kept = u
      /\ \A j \in 1 .. n : Captured(Y[j], x)
      /\ \A j, k \in 1 .. n : j <= k => Reaches(Y[j], Y[k])
  BY DEF Held
<1>2. i \in 1 .. n /\ h \in 0 .. n /\ h <= i
  BY <1>1
<1>3. snaps[i] = BranchSnapshot(y) /\ kept[i] = BranchValues(y)
  BY <1>1, <1>2
<1> HIDE DEF n, y
<1>4. Captured(y, x)
  BY <1>1, <1>2 DEF y
<1>5. /\ Restorable(x, snaps[i])
      /\ Resting(r) /\ BranchValues(r) = kept[i] /\ Reaches(y, r) /\ r.clock = x.clock
  BY <1>3, <1>4, RestoreRests
<1> HIDE DEF r
<1>n. n \in Nat /\ h \in 0 .. n
  BY <1>1, <1>2
<1>6. Truncate(snaps, h) = [j \in 1 .. h |-> BranchSnapshot(Y[j])] /\ Len(Truncate(snaps, h)) = h
  <2>0. f = [j \in 1 .. n |-> f[j]] /\ \A j \in 1 .. n : f[j] = BranchSnapshot(Y[j])
    OBVIOUS
  <2> HIDE DEF f
  <2>1. snaps = [j \in 1 .. n |-> f[j]]
    BY <1>1, <2>0
  <2>2. \A j \in 1 .. h : f[j] = BranchSnapshot(Y[j])
    BY <1>1, <1>2, <2>0
  <2>3. Truncate(snaps, h) = [j \in 1 .. h |-> f[j]] /\ Len(Truncate(snaps, h)) = h
    BY <1>n, <2>1, CutCopy
  <2> DEFINE w == [j \in 1 .. h |-> BranchSnapshot(Y[j])]
  <2>w. w = [j \in 1 .. h |-> w[j]] /\ \A j \in 1 .. h : w[j] = BranchSnapshot(Y[j])
    OBVIOUS
  <2> HIDE DEF w
  <2>4. [j \in 1 .. h |-> f[j]] = w
    BY <2>2, <2>w
  <2> QED BY <2>3, <2>4 DEF w
<1>7. Truncate(kept, h) = [j \in 1 .. h |-> BranchValues(Y[j])]
  <2>0. u = [j \in 1 .. n |-> u[j]] /\ \A j \in 1 .. n : u[j] = BranchValues(Y[j])
    OBVIOUS
  <2> HIDE DEF u
  <2>1. kept = [j \in 1 .. n |-> u[j]]
    BY <1>1, <2>0
  <2>2. \A j \in 1 .. h : u[j] = BranchValues(Y[j])
    BY <1>1, <1>2, <2>0
  <2>3. Truncate(kept, h) = [j \in 1 .. h |-> u[j]]
    BY <1>n, <2>1, CutCopy
  <2> DEFINE w == [j \in 1 .. h |-> BranchValues(Y[j])]
  <2>w. w = [j \in 1 .. h |-> w[j]] /\ \A j \in 1 .. h : w[j] = BranchValues(Y[j])
    OBVIOUS
  <2> HIDE DEF w
  <2>4. [j \in 1 .. h |-> u[j]] = w
    BY <2>2, <2>w
  <2> QED BY <2>3, <2>4 DEF w
<1>8. Indexed(y) /\ Indexed(r)
  BY <1>4, <1>5, IndexedIf DEF Captured
<1>9. ASSUME NEW j \in 1 .. h PROVE Captured(Y[j], r)
  <2> DEFINE z == Y[j]
  <2>1. j \in 1 .. n /\ j <= i
    BY <1>1, <1>2
  <2>2. Reaches(z, y) /\ Resting(z)
    BY <1>1, <1>2, <2>1 DEF y, Captured
  <2> HIDE DEF z
  <2>3. Captured(z, r)
    BY <1>5, <1>8, <2>2, IndexedIf, ReachesTransitive DEF Captured
  <2> QED BY <2>3 DEF z
<1>10. \A j, k \in 1 .. h : j <= k => Reaches(Y[j], Y[k])
  BY <1>1, <1>2
<1>11. Held(Y, r, Truncate(snaps, h), Truncate(kept, h))
  BY <1>2, <1>6, <1>7, <1>9, <1>10 DEF Held
<1>12. WhenIdle(r, <<>>, <<>>, -1, Truncate(snaps, h), Truncate(kept, h))
  BY <1>5, <1>11 DEF WhenIdle
<1>13. DOMAIN kept = 1 .. n /\ Len(kept) = n
  BY <1>1
<1>14. kept[i] \in ToSet(kept)
  BY <1>2, <1>13 DEF ToSet
<1>15. ToSet(Truncate(kept, h)) \subseteq ToSet(kept)
  <2>1. \A j \in 1 .. h : Truncate(kept, h)[j] = kept[j] /\ j \in 1 .. n
    BY <1>1, <1>2, <1>7
  <2>2. DOMAIN Truncate(kept, h) = 1 .. h
    BY <1>7
  <2> QED BY <1>13, <2>1, <2>2 DEF ToSet
<1> QED BY <1>5, <1>12, <1>14, <1>15 DEF r

-----------------------------------------------------------------------------
(* The inductive invariant of the specification                            *)

WorldInv ==
    /\ program \in Programs
    /\ execution_phase \in {"idle", "closed"}
    /\ state.clock <= MaxClock
    /\ \/ WhenIdle(state, checkpoints, copies, running_root, snapshots, branch_copies)
       \/ WhenActive(state, checkpoints, copies, running_root, snapshots, branch_copies,
                     MaxClock)

BranchStep == Branch!BSNext \/ UNCHANGED Branch!bsVars

EffectStep == Scoped!BSNext \/ UNCHANGED Scoped!bsVars

Saved(cop, field) == [i \in DOMAIN cop |-> cop[i][field]]

EffectsUnder(s, root) == EffectsOf(s, IF root = -1 THEN s.transient ELSE NoTransient)

BranchMappings == [Accounts \cup Slots \cup {"introduced"} -> BranchVals]

EffectMappings == [{"effects"} -> EffectVals]

LEMMA ScopeEffectsAre ==
  /\ ScopeEffects(state) = EffectsUnder(state, running_root)
  /\ ScopeEffects(state)' = EffectsUnder(state', running_root')
  /\ Copy(state) = CopyOf(state, running_root)
<1>1. ScopeEffects(state) = EffectsUnder(state, running_root)
  BY DEF ScopeEffects, EffectsUnder, EffectsOf, Single, InitialState, NoTransient
<1>2. ScopeEffects(state)' = EffectsUnder(state', running_root')
  BY DEF ScopeEffects, EffectsUnder, EffectsOf, Single, InitialState, NoTransient
<1>3. Copy(state) = CopyOf(state, running_root)
  BY <1>1 DEF Copy, CopyOf, EffectsUnder
<1> QED BY <1>1, <1>2, <1>3

LEMMA SavedAppend ==
  ASSUME NEW S, NEW cop \in Seq(S), NEW c \in S, NEW field
  PROVE  Saved(Append(cop, c), field) = Append(Saved(cop, field), c[field])
  BY DEF Saved

LEMMA SavedFront ==
  ASSUME NEW S, NEW cop \in Seq(S), Len(cop) > 1, NEW field
  PROVE  /\ Saved(Front(cop), field)
               = SubSeq(Saved(cop, field), 1, Len(Saved(cop, field)) - 1)
         /\ Len(Saved(cop, field)) = Len(cop)
         /\ Saved(cop, field)[Len(cop)] = cop[Len(cop)][field]
<1> DEFINE f == Saved(cop, field)
<1>1. Len(cop) \in Nat /\ DOMAIN cop = 1 .. Len(cop)
  OBVIOUS
<1>2. /\ f = [i \in 1 .. Len(cop) |-> f[i]]
      /\ \A i \in 1 .. Len(cop) : f[i] = cop[i][field]
  BY <1>1 DEF Saved
<1>3. Front(cop) = [i \in 1 .. Len(cop) - 1 |-> cop[i]]
  BY <1>1 DEF Front
<1> HIDE DEF f
<1>4. Len(f) = Len(cop)
  BY <1>1, <1>2
<1>5. SubSeq(f, 1, Len(f) - 1) = [i \in 1 .. Len(cop) - 1 |-> f[i]]
  BY <1>1, <1>2, <1>4
<1>6. Saved(Front(cop), field) = [i \in 1 .. Len(cop) - 1 |-> cop[i][field]]
  BY <1>1, <1>3 DEF Saved
<1>7. [i \in 1 .. Len(cop) - 1 |-> cop[i][field]] = [i \in 1 .. Len(cop) - 1 |-> f[i]]
  BY <1>1, <1>2
<1> QED BY <1>1, <1>2, <1>4, <1>5, <1>6, <1>7 DEF f

LEMMA BranchTyped ==
  ASSUME NEW s, Typed(s)
  PROVE  BranchValues(s) \in BranchMappings
<1>1. /\ s.introduced \in Seq(Nat) /\ s.block_introduced_codes \in Seq(Nat)
      /\ s.accounts \in [Accounts -> AccountRowOf(s.clock)]
      /\ s.storage \in [Slots -> StorageRowOf(s.clock)]
  BY DEF Typed, ListsTyped, RowsTyped
<1>3. \A k \in Slots : EffectiveStorage(s, k) \in Nat
  BY <1>1 DEF EffectiveStorage, StorageRowOf
<1>2. \A a \in Accounts : /\ s.accounts[a].current \in AccountValue
                          /\ s.accounts[a].flags \in SUBSET AccountFlags
                          /\ s.accounts[a].storage_incarnation \in Nat
  BY <1>1 DEF AccountRowOf, Value
<1> QED BY <1>1, <1>2, <1>3 DEF BranchValues, BranchMappings, BranchVals

LEMMA EffectsTyped ==
  ASSUME NEW s, Typed(s), NEW root
  PROVE  EffectsUnder(s, root) \in EffectMappings
<1>1. /\ s.changed_accounts \in Seq(Accounts) /\ s.changed_storage \in Seq(Slots)
      /\ s.logs \in Nat /\ s.transient \in [TransientKeys -> Nat]
      /\ s.observed_accounts \in [Accounts -> AccountObservation]
  BY DEF Typed, ListsTyped, ControlTyped, ObservationsTyped
<1>2. NoTransient \in [TransientKeys -> Nat]
  BY DEF NoTransient
<1>3. \A a \in Accounts : s.observed_accounts[a].effect \in SUBSET Effects
  BY <1>1 DEF AccountObservation
<1> DEFINE w == IF root = -1 THEN s.transient ELSE NoTransient
<1>4. w \in [TransientKeys -> Nat]
  BY <1>1, <1>2
<1> HIDE DEF w
<1>5. EffectsOf(s, w) \in EffectMappings
  BY <1>1, <1>3, <1>4 DEF EffectsOf, EffectMappings, EffectVals
<1> QED BY <1>5 DEF EffectsUnder, w

-----------------------------------------------------------------------------
(* Which step of the store of full copies a step of the world is           *)

LEMMA CopiesListed ==
  ASSUME NEW B, NEW s, NEW cps, NEW cop, NEW root, NEW max,
         Working(B, s, cps, cop, root, max)
  PROVE  /\ Len(cps) \in Nat /\ cop # <<>> /\ Len(cop) = Len(cps) + 1
         /\ \A c : \E S : cop \in Seq(S) /\ c \in S
         /\ \A j \in 1 .. Len(cps) + 1 : cop[j] = CopyOf(B[j], root)
<1> DEFINE n == Len(cps)
           S == {cop[j] : j \in 1 .. n + 1}
<1>1. n \in Nat /\ cop = [j \in 1 .. n + 1 |-> CopyOf(B[j], root)]
  BY WorkingBases DEF Working, Copied
<1> HIDE DEF n
<1>2. /\ cop = [j \in 1 .. n + 1 |-> cop[j]]
      /\ \A j \in 1 .. n + 1 : cop[j] = CopyOf(B[j], root)
  BY <1>1
<1>3. cop \in Seq(S) /\ Len(cop) = n + 1
  BY <1>1, <1>2
<1>4. cop # <<>>
  BY <1>1, <1>3
<1>5. ASSUME NEW c PROVE \E T : cop \in Seq(T) /\ c \in T
  <2>1. cop \in Seq(S \cup {c}) /\ c \in S \cup {c}
    BY <1>1, <1>2
  <2> QED BY <2>1
<1> QED BY <1>1, <1>2, <1>3, <1>4, <1>5 DEF n

LEMMA WriteStep ==
  ASSUME copies # <<>>, copies' = copies, branch_copies' = branch_copies, Typed(state')
  PROVE  BranchStep /\ EffectStep
<1>1. /\ BranchValues(state') \in BranchMappings
      /\ ScopeEffects(state)' \in EffectMappings
  BY BranchTyped, EffectsTyped, ScopeEffectsAre
<1>2. BranchStep
  BY <1>1 DEF BranchMappings, BranchStep, Branch!BSNext, Branch!BSWrite, Branch!Active,
              Branch!Mapping
<1>3. EffectStep
  BY <1>1 DEF EffectMappings, EffectStep, Scoped!BSNext, Scoped!BSWrite, Scoped!Active,
              Scoped!Mapping
<1> QED BY <1>2, <1>3

LEMMA StutterStep ==
  ASSUME BranchValues(state') = BranchValues(state),
         EffectsUnder(state', running_root') = EffectsUnder(state, running_root),
         copies' = copies, branch_copies' = branch_copies
  PROVE  BranchStep /\ EffectStep
<1>1. BranchStep
  BY DEF BranchStep, Branch!bsVars
<1>2. EffectStep
  BY ScopeEffectsAre DEF EffectStep, Scoped!bsVars
<1> QED BY <1>1, <1>2

LEMMA BeginStep ==
  ASSUME copies = <<>>, copies' = <<CopyOf(state, running_root)>>,
         BranchValues(state') = BranchValues(state),
         EffectsUnder(state', running_root') = EffectsUnder(state, running_root),
         branch_copies' = branch_copies
  PROVE  BranchStep /\ EffectStep
<1> DEFINE c == CopyOf(state, running_root)
<1>1. c.branch = BranchValues(state) /\ c.effects = ScopeEffects(state)
  BY ScopeEffectsAre DEF CopyOf, EffectsUnder
<1> HIDE DEF c
<1>2. copies' = <<c>>
  BY DEF c
<1>3. \A f : Saved(copies', f) = <<c[f]>> /\ Saved(copies, f) = <<>>
  BY <1>2 DEF Saved
<1>4. BranchStep
  BY <1>1, <1>3 DEF BranchStep, Branch!BSNext, Branch!BSBegin, Branch!Active, Saved
<1>5. EffectStep
  BY <1>1, <1>3, ScopeEffectsAre
     DEF EffectStep, Scoped!BSNext, Scoped!BSBegin, Scoped!Active, Saved
<1> QED BY <1>4, <1>5

LEMMA CheckpointStep ==
  ASSUME NEW S, copies \in Seq(S), copies # <<>>, NEW c \in S, copies' = Append(copies, c),
         c.branch = BranchValues(state), c.effects = EffectsUnder(state, running_root),
         BranchValues(state') = BranchValues(state),
         EffectsUnder(state', running_root') = EffectsUnder(state, running_root),
         branch_copies' = branch_copies
  PROVE  BranchStep /\ EffectStep
<1>1. \A f : /\ Saved(copies', f) = Append(Saved(copies, f), c[f])
             /\ Saved(copies, f) # <<>>
  <2>1. ASSUME NEW f PROVE Saved(copies', f) = Append(Saved(copies, f), c[f])
    <3>1. Saved(Append(copies, c), f) = Append(Saved(copies, f), c[f])
      BY SavedAppend
    <3> QED BY <3>1
  <2>2. Len(copies) \in Nat /\ DOMAIN copies = 1 .. Len(copies) /\ Len(copies) # 0
    <3>1. Len(copies) \in Nat /\ DOMAIN copies = 1 .. Len(copies)
      OBVIOUS
    <3>2. Len(copies) # 0
      OBVIOUS
    <3> QED BY <3>1, <3>2
  <2>3. \A f : DOMAIN Saved(copies, f) # {}
    <3>1. 1 \in DOMAIN copies
      BY <2>2
    <3> QED BY <3>1 DEF Saved
  <2> QED BY <2>1, <2>3
<1>2. BranchStep
  BY <1>1 DEF BranchStep, Branch!BSNext, Branch!BSCheckpoint, Branch!Active, Saved
<1>3. EffectStep
  BY <1>1, ScopeEffectsAre
     DEF EffectStep, Scoped!BSNext, Scoped!BSCheckpoint, Scoped!Active, Saved
<1> QED BY <1>2, <1>3

LEMMA CommitStep ==
  ASSUME NEW S, copies \in Seq(S), Len(copies) > 1, copies' = Front(copies),
         BranchValues(state') = BranchValues(state),
         EffectsUnder(state', running_root') = EffectsUnder(state, running_root),
         branch_copies' = branch_copies
  PROVE  BranchStep /\ EffectStep
<1>1. \A f : /\ Saved(copies', f) = SubSeq(Saved(copies, f), 1, Len(Saved(copies, f)) - 1)
             /\ Len(Saved(copies, f)) > 1
  BY SavedFront
<1>2. BranchStep
  BY <1>1 DEF BranchStep, Branch!BSNext, Branch!BSCommit, Saved
<1>3. EffectStep
  BY <1>1, ScopeEffectsAre DEF EffectStep, Scoped!BSNext, Scoped!BSCommit, Saved
<1> QED BY <1>2, <1>3

LEMMA RevertStep ==
  ASSUME NEW S, copies \in Seq(S), Len(copies) > 1, copies' = Front(copies),
         BranchValues(state') = copies[Len(copies)].branch,
         EffectsUnder(state', running_root') = copies[Len(copies)].effects,
         branch_copies' = branch_copies
  PROVE  BranchStep /\ EffectStep
<1>1. \A f : /\ Saved(copies', f) = SubSeq(Saved(copies, f), 1, Len(Saved(copies, f)) - 1)
             /\ Len(Saved(copies, f)) > 1
             /\ Saved(copies, f)[Len(Saved(copies, f))] = copies[Len(copies)][f]
  BY SavedFront
<1>2. BranchStep
  BY <1>1 DEF BranchStep, Branch!BSNext, Branch!BSRevert, Saved
<1>3. EffectStep
  BY <1>1, ScopeEffectsAre DEF EffectStep, Scoped!BSNext, Scoped!BSRevert, Saved
<1> QED BY <1>2, <1>3

LEMMA SingleSaved ==
  ASSUME NEW cop, Len(cop) = 1, NEW S, cop \in Seq(S), NEW f
  PROVE  /\ Len(Saved(cop, f)) = 1 /\ Saved(cop, f)[1] = cop[1][f]
         /\ Saved(<<>>, f) = <<>>
<1>1. DOMAIN cop = 1 .. 1
  OBVIOUS
<1>2. Saved(cop, f) = [i \in 1 .. 1 |-> cop[i][f]]
  BY <1>1 DEF Saved
<1> QED BY <1>2 DEF Saved

\* The attempt ends: its effects are gone whether it is retained, discarded or
\* left for another branch.
LEMMA EndStep ==
  ASSUME NEW S, copies \in Seq(S), Len(copies) = 1, copies' = <<>>,
         copies[1].effects = NoEffects,
         EffectsUnder(state', running_root') = NoEffects,
         \/ /\ BranchValues(state') \in {BranchValues(state), copies[1].branch}
            /\ branch_copies' = branch_copies
         \/ /\ BranchValues(state') \in ToSet(branch_copies)
            /\ ToSet(branch_copies') \subseteq ToSet(branch_copies)
  PROVE  BranchStep /\ EffectStep
<1>1. \A f : /\ Len(Saved(copies, f)) = 1 /\ Saved(copies, f)[1] = copies[1][f]
             /\ Saved(copies', f) = <<>>
  BY SingleSaved
<1>2. EffectStep
  BY <1>1, ScopeEffectsAre DEF EffectStep, Scoped!BSNext, Scoped!BSDiscard, Saved
<1> DEFINE p == Saved(copies, "branch")
           q == Saved(copies', "branch")
<1>6. Len(p) = 1 /\ p[1] = copies[1].branch /\ q = <<>>
  BY <1>1
<1>3. CASE /\ BranchValues(state') = BranchValues(state)
           /\ branch_copies' = branch_copies
  <2>1. Branch!BSRetain
    BY <1>3, <1>6 DEF Branch!BSRetain, Saved
  <2> QED BY <1>2, <2>1 DEF BranchStep, Branch!BSNext
<1>4. CASE /\ BranchValues(state') = copies[1].branch
           /\ branch_copies' = branch_copies
  BY <1>1, <1>2, <1>4 DEF BranchStep, Branch!BSNext, Branch!BSDiscard, Saved
<1>5. CASE /\ BranchValues(state') \in ToSet(branch_copies)
           /\ ToSet(branch_copies') \subseteq ToSet(branch_copies)
  BY <1>1, <1>2, <1>5 DEF BranchStep, Branch!BSNext, Branch!BSRestore, Saved
<1> QED BY <1>2, <1>3, <1>4, <1>5

\* Between attempts a snapshot is taken, another branch restored, or the
\* accepted branch dropped.
LEMMA IdleBranchStep ==
  ASSUME copies = <<>>, copies' = <<>>,
         EffectsUnder(state', running_root') = EffectsUnder(state, running_root),
         \/ /\ BranchValues(state') = BranchValues(state)
            /\ ToSet(branch_copies') = ToSet(branch_copies) \cup {BranchValues(state)}
         \/ /\ BranchValues(state') \in ToSet(branch_copies)
            /\ ToSet(branch_copies') \subseteq ToSet(branch_copies)
         \/ /\ BranchValues(state') = ParentBranch
            /\ ToSet(branch_copies') = {}
  PROVE  BranchStep /\ EffectStep
<1>1. \A f : Saved(copies, f) = <<>> /\ Saved(copies', f) = <<>>
  BY DEF Saved
<1>2. EffectStep
  BY ScopeEffectsAre DEF EffectStep, Scoped!bsVars
<1>3. CASE /\ BranchValues(state') = BranchValues(state)
           /\ ToSet(branch_copies') = ToSet(branch_copies) \cup {BranchValues(state)}
  BY <1>1, <1>2, <1>3 DEF BranchStep, Branch!BSNext, Branch!BSSnapshot, Branch!Active, Saved
<1>4. CASE /\ BranchValues(state') \in ToSet(branch_copies)
           /\ ToSet(branch_copies') \subseteq ToSet(branch_copies)
  BY <1>1, <1>2, <1>4 DEF BranchStep, Branch!BSNext, Branch!BSRestore, Saved
<1>5. CASE /\ BranchValues(state') = ParentBranch
           /\ ToSet(branch_copies') = {}
  BY <1>1, <1>2, <1>5
     DEF BranchStep, Branch!BSNext, Branch!BSReset, Branch!Active, Saved
<1> QED BY <1>2, <1>3, <1>4, <1>5

-----------------------------------------------------------------------------
(* The steps that keep an attempt open                                     *)

Preserved == WorldInv' /\ BranchStep /\ EffectStep

LEMMA InvIf ==
  ASSUME WorldInv, program' = program, execution_phase' \in {"idle", "closed"},
         state'.clock <= MaxClock,
         \/ WhenIdle(state', checkpoints', copies', running_root', snapshots',
                     branch_copies')
         \/ WhenActive(state', checkpoints', copies', running_root', snapshots',
                       branch_copies', MaxClock)
  PROVE  WorldInv'
  BY DEF WorldInv, MaxClock

LEMMA ProgramFacts ==
  ASSUME WorldInv
  PROVE  /\ MaxClock \in Nat
         /\ Written \cup Probed \cup Fetched \cup Touched \cup Accessed \cup Creatable
               \cup Destructible \cup Beneficiaries \subseteq Accounts
         /\ Stored \cup Unpriced \subseteq Slots
         /\ Balances \cup Nonces \cup StorageValues \cup TransientValues \cup DeployCodes
               \subseteq Nat
<1>1. program \in Programs
  BY DEF WorldInv
<1>2. /\ UNION {program.Balances, program.Nonces, program.StorageValues,
                program.TransientValues, program.DeployCodes} \subseteq Nat
      /\ UNION {program.Probed, program.Fetched, program.Accessed, program.Touched,
                program.Creatable, program.Destructible, program.Beneficiaries,
                program.Written} \subseteq Accounts
      /\ program.Stored \cup program.Unpriced \subseteq Slots
      /\ {program.MaxClock, program.MaxDepth} \subseteq Nat
  BY <1>1, ProgramsAssumption
<1>3. MaxClock \in Nat
  BY <1>2 DEF MaxClock
<1>4. Written \cup Probed \cup Fetched \cup Touched \cup Accessed \cup Creatable
               \cup Destructible \cup Beneficiaries \subseteq Accounts
  BY <1>2 DEF Written, Probed, Fetched, Touched, Accessed, Creatable, Destructible,
              Beneficiaries
<1>5. Stored \cup Unpriced \subseteq Slots
  BY <1>2 DEF Stored, Unpriced
<1>6. Balances \cup Nonces \cup StorageValues \cup TransientValues \cup DeployCodes
               \subseteq Nat
  BY <1>2 DEF Balances, Nonces, StorageValues, TransientValues, DeployCodes
<1> QED BY <1>3, <1>4, <1>5, <1>6

\* While an attempt is open.
LEMMA ActiveFacts ==
  ASSUME WorldInv, state.transaction_active
  PROVE  /\ \E B, Y : /\ Working(B, state, checkpoints, copies, running_root, MaxClock)
                      /\ Held(Y, B[1], snapshots, branch_copies)
         /\ Sound(state) /\ copies # <<>> /\ state.clock \in Nat /\ state.scope_depth \in Nat
         /\ state.clock <= MaxClock /\ MaxClock \in Nat
         /\ state.scope_depth > 0 => state.clock < MaxClock /\ state.sealed = FALSE
         /\ state.scope_depth = 0 => checkpoints = <<>> /\ running_root = -1
<1>1. PICK B, Y : /\ Working(B, state, checkpoints, copies, running_root, MaxClock)
                  /\ Held(Y, B[1], snapshots, branch_copies)
  BY DEF WorldInv, WhenIdle, WhenActive, Resting
<1>2. /\ Sound(state) /\ Nesting(state, Len(checkpoints), running_root, MaxClock)
      /\ checkpoints \in Seq(Tokens)
  BY <1>1 DEF Working
<1>3. copies # <<>>
  BY <1>1, CopiesListed
<1>4. state.clock \in Nat /\ state.scope_depth \in Nat
  BY <1>2, ControlFacts
<1>5. /\ state.scope_depth > 0 => state.clock < MaxClock /\ state.sealed = FALSE
      /\ state.scope_depth = 0 => checkpoints = <<>> /\ running_root = -1
  BY <1>2 DEF Nesting
<1> QED BY <1>1, <1>2, <1>3, <1>4, <1>5, ProgramFacts DEF WorldInv

LEMMA IdleFacts ==
  ASSUME WorldInv, ~state.transaction_active
  PROVE  /\ WhenIdle(state, checkpoints, copies, running_root, snapshots, branch_copies)
         /\ Resting(state) /\ checkpoints = <<>> /\ copies = <<>> /\ running_root = -1
         /\ state.clock \in Nat /\ state.clock <= MaxClock /\ MaxClock \in Nat
         /\ EffectsUnder(state, running_root) = NoEffects
<1>1. WhenIdle(state, checkpoints, copies, running_root, snapshots, branch_copies)
  BY ControlFacts DEF WorldInv, WhenActive, Working
<1>2. Resting(state) /\ checkpoints = <<>> /\ copies = <<>> /\ running_root = -1
  BY <1>1 DEF WhenIdle
<1>3. state.clock \in Nat
  BY <1>2, RestingTyped
<1>4. EffectsUnder(state, running_root) = NoEffects
  BY <1>2, RestingEffects DEF EffectsUnder, Resting, Quiescent
<1> QED BY <1>1, <1>2, <1>3, <1>4, ProgramFacts DEF WorldInv

LEMMA OrdinaryStep ==
  ASSUME WorldInv, program' = program, execution_phase' \in {"idle", "closed"},
         state.transaction_active, NEW r, state' = r,
         UNCHANGED <<checkpoints, snapshots, running_root, copies, branch_copies>>,
         Carries(state, r), Steady(state, r),
         EntriesKept(state, r) \/ running_root # 0,
         state.sealed => r.accounts = state.accounts,
         r.clock <= MaxClock, state.scope_depth > 0 => r.clock < MaxClock
  PROVE  Preserved
<1>1. PICK B, Y : /\ Working(B, state, checkpoints, copies, running_root, MaxClock)
                  /\ Held(Y, B[1], snapshots, branch_copies)
  BY ActiveFacts
<1>2. Working(B, state', checkpoints', copies', running_root', MaxClock)
  BY <1>1, WorkingStep
<1>3. WhenActive(state', checkpoints', copies', running_root', snapshots', branch_copies',
                 MaxClock)
  BY <1>1, <1>2 DEF WhenActive
<1>4. WorldInv'
  BY <1>3, InvIf
<1>5. Typed(state')
  BY ControlFacts DEF Carries
<1> QED BY <1>4, <1>5, ActiveFacts, WriteStep DEF Preserved

LEMMA FollowsStep ==
  ASSUME WorldInv, program' = program, state.transaction_active, NEW r, Becomes(r),
         Follows(state, r), state.sealed => r.accounts = state.accounts
  PROVE  Preserved
<1>1. /\ Sound(state) /\ state.clock <= MaxClock
      /\ state.scope_depth > 0 => state.clock < MaxClock
  BY ActiveFacts
<1>2. Carries(state, r) /\ EntriesKept(state, r) /\ Steady(state, r) /\ r.clock = state.clock
  BY <1>1, FollowsCarries
<1>3. /\ state' = r /\ execution_phase' \in {"idle", "closed"}
      /\ UNCHANGED <<checkpoints, snapshots, running_root, copies, branch_copies>>
  BY DEF Becomes, permission, history, WorldInv
<1> QED BY <1>1, <1>2, <1>3, OrdinaryStep

LEMMA DispatchingFacts ==
  ASSUME WorldInv, Dispatching \/ InSession \/ Mutable
  PROVE  /\ state.transaction_active /\ Sound(state) /\ ~state.sealed
         /\ Dispatching => running_root # 0
<1>1. CASE Mutable
  BY <1>1, ActiveFacts DEF Mutable, AttemptOpen, Dispatching
<1>2. CASE Dispatching \/ InSession
  <2>1. state.scope_depth > 0
    BY <1>2 DEF Dispatching, InSession
  <2>2. state.transaction_active
    <3>1. ~state.transaction_active => state.scope_depth = 0
      BY IdleFacts DEF Resting, Quiescent
    <3> QED BY <2>1, <3>1
  <2> QED BY <2>1, <2>2, ActiveFacts DEF Dispatching
<1> QED BY <1>1, <1>2

LEMMA ValueSteps ==
  ASSUME WorldInv, program' = program, WriteValue \/ InstallCode
  PROVE  Preserved
<1>1. state.transaction_active /\ Sound(state) /\ ~state.sealed
  BY DispatchingFacts DEF WriteValue, InstallCode
<1>2. CASE WriteValue
  <2>1. PICK a \in Written : \/ \E v \in Balances : Becomes(SetField(state, a, "balance", v))
                             \/ \E v \in Nonces : Becomes(SetField(state, a, "nonce", v))
    BY <1>2 DEF WriteValue
  <2>2. PICK v, f : /\ v \in Nat /\ f \in {"balance", "nonce"}
                    /\ Becomes(SetField(state, a, f, v))
    BY <2>1, ProgramFacts
  <2>3. a \in Accounts
    BY ProgramFacts
  <2> DEFINE r == SetField(state, a, f, v)
  <2>4. Follows(state, r)
    BY <1>1, <2>2, <2>3, SetFieldFollows
  <2> HIDE DEF r
  <2> QED BY <1>1, <2>2, <2>4, FollowsStep DEF r
<1>3. CASE InstallCode
  <2>1. PICK a \in Written, code \in DeployCodes : Becomes(SetCode(state, a, code))
    BY <1>3 DEF InstallCode
  <2> DEFINE r == SetCode(state, a, code)
  <2>2. Follows(state, r)
    BY <1>1, ProgramFacts, SetCodeFollows
  <2> HIDE DEF r
  <2> QED BY <1>1, <2>1, <2>2, FollowsStep DEF r
<1> QED BY <1>2, <1>3

\* A sealed attempt may still be read: rows are admitted and code is fetched,
\* and nothing is observed.
LEMMA SealedRead ==
  ASSUME NEW s, IsState(s), NEW a
  PROVE  /\ s.sealed => ReadAccount(s, a).accounts = s.accounts
         /\ LoadCode(s, a).accounts = s.accounts
  BY DEF IsState, StateFields, ReadAccount, AttemptOpen, ResolveAccount, LoadCode

LEMMA ReadSteps ==
  ASSUME WorldInv, program' = program, Probe \/ GetCode
  PROVE  Preserved
<1>1. PICK a \in Accounts : \/ Becomes(ReadAccount(state, a))
                            \/ Becomes(LoadCode(ReadAccount(state, a), a))
  BY ProgramFacts DEF Probe, GetCode
<1> DEFINE x == ReadAccount(state, a)
           y == LoadCode(x, a)
<1>2. CASE state.transaction_active
  <2>1. Sound(state)
    BY <1>2, ActiveFacts
  <2>2. Follows(state, x) /\ Sound(x)
    BY <2>1, ReadFollows
  <2>3. IsState(state) /\ IsState(x)
    BY <2>1, <2>2, ControlFacts
  <2>4. state.sealed => x.accounts = state.accounts
    BY <2>3, SealedRead
  <2> HIDE DEF x
  <2>5. Follows(x, y)
    BY <2>2, LoadCodeFollows
  <2>6. y.accounts = x.accounts
    BY <2>3, SealedRead
  <2> HIDE DEF y
  <2>7. Follows(state, y)
    BY <2>1, <2>2, <2>5, FollowsTransitive
  <2>8. Becomes(x) \/ Becomes(y)
    BY <1>1 DEF x, y
  <2> QED BY <1>2, <2>2, <2>4, <2>6, <2>7, <2>8, FollowsStep
<1>3. CASE ~state.transaction_active
  <2>1. /\ WhenIdle(state, checkpoints, copies, running_root, snapshots, branch_copies)
        /\ Resting(state) /\ running_root = -1 /\ state.clock <= MaxClock
        /\ EffectsUnder(state, running_root) = NoEffects
    BY <1>3, IdleFacts
  <2>2. \A r \in {x, y} : /\ Resting(r) /\ BranchValues(r) = BranchValues(state)
                          /\ Reaches(state, r) /\ r.clock = state.clock
    BY <2>1, IdleReadRests
  <2>3. /\ state' \in {x, y} /\ execution_phase' \in {"idle", "closed"}
        /\ UNCHANGED <<checkpoints, snapshots, running_root, copies, branch_copies>>
    BY <1>1 DEF Becomes, permission, history, WorldInv
  <2> HIDE DEF x, y
  <2>4. /\ Resting(state') /\ BranchValues(state') = BranchValues(state)
        /\ Reaches(state, state') /\ state'.clock = state.clock
    BY <2>2, <2>3
  <2>5. WhenIdle(state', checkpoints', copies', running_root', snapshots', branch_copies')
    BY <2>1, <2>3, <2>4, IdleStep
  <2>6. WorldInv'
    BY <2>1, <2>3, <2>4, <2>5, InvIf
  <2>7. EffectsUnder(state', running_root') = NoEffects
    BY <2>1, <2>3, <2>4, RestingEffects DEF EffectsUnder, Resting, Quiescent
  <2> QED BY <2>1, <2>3, <2>4, <2>6, <2>7, StutterStep DEF Preserved
<1> QED BY <1>2, <1>3

LEMMA AccessSteps ==
  ASSUME WorldInv, program' = program, Touch \/ Access \/ WarmListed
  PROVE  Preserved
<1>1. state.transaction_active /\ Sound(state) /\ ~state.sealed
  BY DispatchingFacts DEF Touch, Access, WarmListed
<1>2. PICK r : Becomes(r) /\ Follows(state, r)
  <2>1. CASE Touch
    BY <1>1, <2>1, ProgramFacts, TouchFollows DEF Touch
  <2>2. CASE Access
    BY <1>1, <2>2, ProgramFacts, AccessFollows DEF Access
  <2>3. CASE WarmListed
    BY <1>1, <2>3, DeferredFollows DEF WarmListed
  <2> QED BY <2>1, <2>2, <2>3
<1> QED BY <1>1, <1>2, FollowsStep

LEMMA StorageSteps ==
  ASSUME WorldInv, program' = program, SLoad \/ SStore
  PROVE  Preserved
<1>1. state.transaction_active /\ Sound(state) /\ ~state.sealed
  BY DispatchingFacts DEF SLoad, SStore, Runs
<1>2. PICK r : Becomes(r) /\ Follows(state, r)
  <2>1. CASE SLoad
    BY <1>1, <2>1, ProgramFacts, StorageFollows DEF SLoad
  <2>2. CASE SStore
    BY <1>1, <2>2, ProgramFacts, StorageFollows DEF SStore
  <2> QED BY <2>1, <2>2
<1> QED BY <1>1, <1>2, FollowsStep

LEMMA LifecycleSteps ==
  ASSUME WorldInv, program' = program, Create \/ SelfDestruct
  PROVE  Preserved
<1>1. state.transaction_active /\ Sound(state) /\ ~state.sealed
  BY DispatchingFacts DEF Create, SelfDestruct, Runs
<1>2. PICK r : Becomes(r) /\ Follows(state, r)
  <2>1. CASE Create
    BY <1>1, <2>1, ProgramFacts, InitializeFollows DEF Create
  <2>2. CASE SelfDestruct
    BY <1>1, <2>2, ProgramFacts, ApplySelfDestructFollows DEF SelfDestruct
  <2> QED BY <2>1, <2>2
<1> QED BY <1>1, <1>2, FollowsStep

LEMMA UnjournaledSteps ==
  ASSUME WorldInv, program' = program, TStore \/ EmitLog
  PROVE  Preserved
<1>1. state.transaction_active /\ Sound(state) /\ ~state.sealed /\ running_root # 0
  BY DispatchingFacts DEF TStore, EmitLog
<1>2. PICK r : Becomes(r) /\ Carries(state, r) /\ Steady(state, r) /\ r.clock = state.clock
  <2>1. CASE TStore
    BY <1>1, <2>1, ProgramFacts, TransientWriteCarries DEF TStore
  <2>2. CASE EmitLog
    BY <1>1, <2>2, EmitCarries DEF EmitLog
  <2> QED BY <2>1, <2>2
<1>3. /\ state' = r /\ execution_phase' \in {"idle", "closed"}
      /\ UNCHANGED <<checkpoints, snapshots, running_root, copies, branch_copies>>
  BY <1>2 DEF Becomes, permission, history, WorldInv
<1>4. state.clock <= MaxClock /\ (state.scope_depth > 0 => state.clock < MaxClock)
  BY <1>1, ActiveFacts
<1> QED BY <1>1, <1>2, <1>3, <1>4, OrdinaryStep

LEMMA FinalizeSteps ==
  ASSUME WorldInv, program' = program, Finalize \/ FailFinalize
  PROVE  Preserved
<1>1. state.transaction_active /\ Sound(state) /\ ~state.sealed
  BY DispatchingFacts DEF Finalize, FailFinalize
<1>2. state.clock + 1 < MaxClock /\ state.clock \in Nat /\ MaxClock \in Nat
  BY <1>1, ActiveFacts DEF Finalize, FailFinalize, Ticks
<1>3. PICK r : /\ state' = r /\ execution_phase' \in {"idle", "closed"}
               /\ UNCHANGED <<checkpoints, snapshots, running_root, copies, branch_copies>>
               /\ Carries(state, r) /\ EntriesKept(state, r) /\ Steady(state, r)
               /\ r.clock \in {state.clock, state.clock + 1}
  <2>1. CASE Finalize
    <3>1. /\ state' = FinalizeLifecycle(state) /\ execution_phase' = "closed"
          /\ UNCHANGED <<checkpoints, snapshots, running_root, copies, branch_copies>>
      BY <2>1 DEF Finalize, history
    <3> QED BY <1>1, <3>1, FinalizeCarries
  <2>2. CASE FailFinalize
    <3>1. PICK n \in 0 .. Len(state.lifecycle_accounts) - 1 :
               Becomes(FailFinalizeLifecycle(state, n))
      BY <2>2 DEF FailFinalize
    <3>2. n \in 0 .. Len(state.lifecycle_accounts)
      <4>1. Len(state.lifecycle_accounts) \in Nat
        BY <1>1 DEF Sound, Typed, ListsTyped
      <4> QED BY <4>1
    <3>3. /\ state' = FailFinalizeLifecycle(state, n)
          /\ execution_phase' \in {"idle", "closed"}
          /\ UNCHANGED <<checkpoints, snapshots, running_root, copies, branch_copies>>
      BY <3>1 DEF Becomes, permission, history, WorldInv
    <3> QED BY <1>1, <3>2, <3>3, FailFinalizeCarries
  <2> QED BY <2>1, <2>2
<1> QED BY <1>1, <1>2, <1>3, OrdinaryStep

-----------------------------------------------------------------------------
(* Attempts, sessions, checkpoints and snapshots                           *)

ControlFields ==
    {"clock", "scope", "root", "scope_depth", "changed_storage",
     "transaction_storage_wipes", "sealed", "transient"}

LEMMA BranchUnchanged ==
  ASSUME NEW s, NEW r, \A f \in StateFields \ ControlFields : r[f] = s[f]
  PROVE  BranchValues(r) = BranchValues(s)
<1>1. /\ r.accounts = s.accounts /\ r.storage = s.storage
      /\ r.introduced = s.introduced
      /\ r.block_introduced_codes = s.block_introduced_codes
  BY DEF StateFields, ControlFields
<1>2. SameValues(r, s)
  BY <1>1 DEF SameValues
<1> QED BY <1>1, <1>2, SameBranch

LEMMA EffectsUnchanged ==
  ASSUME NEW s, NEW r, NEW w,
         \A f \in StateFields \ {"clock", "scope", "root", "scope_depth", "transient"} :
            r[f] = s[f]
  PROVE  EffectsOf(r, w) = EffectsOf(s, w)
<1>1. /\ r.accounts = s.accounts /\ r.storage = s.storage
      /\ r.observed_accounts = s.observed_accounts /\ r.observed_storage = s.observed_storage
      /\ r.deferred_accounts = s.deferred_accounts /\ r.deferred_storage = s.deferred_storage
      /\ r.transaction = s.transaction /\ r.transaction_active = s.transaction_active
      /\ r.logs = s.logs
      /\ r.changed_accounts = s.changed_accounts /\ r.changed_storage = s.changed_storage
  BY DEF StateFields
<1>2. SameEffects(r, s)
  BY <1>1 DEF SameEffects
<1>3. SameWarm(r, s)
  BY <1>1 DEF SameWarm
<1> QED BY <1>1, <1>2, <1>3, SameScopeEffects

LEMMA RestingUnder ==
  ASSUME NEW r, Resting(r)
  PROVE  EffectsUnder(r, -1) = NoEffects
  BY RestingEffects DEF EffectsUnder, Resting, Quiescent

LEMMA BeginSteps ==
  ASSUME WorldInv, program' = program, BeginAttempt
  PROVE  Preserved
<1>1. /\ WhenIdle(state, checkpoints, copies, running_root, snapshots, branch_copies)
      /\ copies = <<>> /\ running_root = -1 /\ state.clock \in Nat /\ MaxClock \in Nat
      /\ EffectsUnder(state, running_root) = NoEffects
  BY IdleFacts DEF BeginAttempt
<1>2. /\ state.clock + 2 < MaxClock /\ state' = Begun(state)
      /\ copies' = <<CopyOf(state, -1)>>
      /\ UNCHANGED <<checkpoints, snapshots, execution_phase, running_root, branch_copies>>
  BY <1>1, ScopeEffectsAre DEF BeginAttempt, Ticks, permission
<1>3. /\ WhenActive(state', checkpoints', copies', running_root', snapshots',
                    branch_copies', MaxClock)
      /\ state'.clock = state.clock + 2 /\ BranchValues(state') = BranchValues(state)
      /\ EffectsOf(state', NoTransient) = NoEffects
      /\ state'.transient = NoTransient
  BY <1>1, <1>2, BeginHolds
<1>4. WorldInv'
  BY <1>1, <1>2, <1>3, InvIf DEF WorldInv
<1>5. EffectsUnder(state', running_root') = EffectsUnder(state, running_root)
  BY <1>1, <1>3 DEF EffectsUnder
<1> QED BY <1>1, <1>2, <1>3, <1>4, <1>5, BeginStep DEF Preserved

LEMMA SessionSteps ==
  ASSUME WorldInv, program' = program, OpenSession \/ CloseSession
  PROVE  Preserved
<1>1. state.transaction_active /\ ~state.sealed
  BY DispatchingFacts DEF OpenSession, CloseSession, InSession
<1>2. PICK B, Y : /\ Working(B, state, checkpoints, copies, running_root, MaxClock)
                  /\ Held(Y, B[1], snapshots, branch_copies)
  BY <1>1, ActiveFacts
<1>3. /\ state.clock \in Nat /\ state.scope_depth \in Nat /\ MaxClock \in Nat
      /\ copies # <<>> /\ Sound(state)
      /\ state.scope_depth > 0 => state.clock < MaxClock
  BY <1>1, ActiveFacts
<1>4. checkpoints = <<>>
  <2>1. Nesting(state, Len(checkpoints), running_root, MaxClock) /\ checkpoints \in Seq(Tokens)
    BY <1>2 DEF Working
  <2>2. state.scope_depth \in {0, 1}
    BY <1>3 DEF OpenSession, CloseSession, InSession
  <2> QED BY <2>1, <2>2 DEF Nesting
<1>5. PICK d \in Nat :
         /\ state' = Session(state, d)
         /\ running_root' \in {-1, 0} /\ execution_phase' \in {"idle", "closed"}
         /\ d > 0 => d = 1 /\ state.clock + 1 < MaxClock
         /\ d = 0 => running_root' = -1
         /\ state.clock + 1 <= MaxClock
         /\ UNCHANGED <<checkpoints, snapshots, copies, branch_copies>>
  <2>1. CASE OpenSession
    <3>1. /\ state' = Session(state, 1) /\ running_root' \in {-1, 0}
          /\ execution_phase' = "idle" /\ state.clock + 1 < MaxClock
          /\ UNCHANGED <<checkpoints, snapshots, copies, branch_copies>>
      BY <2>1 DEF OpenSession, Ticks, Single, Session
    <3> QED BY <1>3, <3>1
  <2>2. CASE CloseSession
    <3>1. /\ state' = Session(state, 0) /\ running_root' = -1
          /\ execution_phase' = execution_phase /\ state.scope_depth = 1
          /\ UNCHANGED <<checkpoints, snapshots, copies, branch_copies>>
      BY <2>2 DEF CloseSession, Single, Session
    <3> QED BY <1>3, <3>1 DEF WorldInv
  <2> QED BY <2>1, <2>2
<1> DEFINE to == running_root'
           r == Session(state, d)
<1>6. /\ to \in {-1, 0} /\ state' = r
  BY <1>5
<1>7. /\ Working(B, r, <<>>, copies, to, MaxClock) /\ r.clock = state.clock + 1
      /\ SameBut(r, state, {"clock", "scope", "root", "scope_depth"})
  <2> HIDE DEF to
  <2>1. Working(B, state, <<>>, copies, running_root, MaxClock)
    BY <1>2, <1>4
  <2>2. /\ to \in {-1, 0} /\ d \in Nat
        /\ d > 0 => d = 1 /\ state.clock + 1 < MaxClock
        /\ d = 0 => to = -1
    BY <1>5 DEF to
  <2> QED BY <1>1, <2>1, <2>2, SessionWorks
<1> HIDE DEF r
<1>8. WhenActive(state', checkpoints', copies', running_root', snapshots', branch_copies',
                 MaxClock)
  BY <1>2, <1>4, <1>5, <1>6, <1>7 DEF WhenActive
<1>9. WorldInv'
  BY <1>5, <1>6, <1>7, <1>8, InvIf
<1>10. Typed(state')
  BY <1>6, <1>7, ControlFacts DEF Working
<1> QED BY <1>3, <1>5, <1>9, <1>10, WriteStep DEF Preserved

LEMMA SealSteps ==
  ASSUME WorldInv, program' = program, SealAttempt
  PROVE  Preserved
<1>1. state.transaction_active
  BY DispatchingFacts DEF SealAttempt
<1>2. PICK B, Y : /\ Working(B, state, checkpoints, copies, running_root, MaxClock)
                  /\ Held(Y, B[1], snapshots, branch_copies)
  BY <1>1, ActiveFacts
<1>3. /\ Sound(state) /\ copies # <<>> /\ state.scope_depth = 0 /\ checkpoints = <<>>
      /\ state.clock <= MaxClock
  BY <1>1, ActiveFacts DEF SealAttempt, InSession
<1>4. NoLifecycle(state)
  <2>1. \A i \in DOMAIN state.lifecycle_accounts :
          state.accounts[state.lifecycle_accounts[i]].flags \cap LifecycleBits = {}
    BY DEF SealAttempt, LifecycleBits
  <2>2. LifecycleListed(state) /\ state.lifecycle_accounts \in Seq(Accounts)
    BY <1>3 DEF Sound, Typed, ListsTyped
  <2>3. ASSUME NEW a \in Accounts PROVE state.accounts[a].flags \cap LifecycleBits = {}
    <3>1. CASE InLifecycle(state, a)
      BY <2>1, <2>2, <3>1 DEF InLifecycle
    <3>2. CASE ~InLifecycle(state, a)
      BY <2>2, <3>2 DEF LifecycleListed
    <3> QED BY <3>1, <3>2
  <2> QED BY <2>3 DEF NoLifecycle
<1> DEFINE r == Seal(state)
<1>5. /\ Working(B, r, <<>>, copies, running_root, MaxClock) /\ r.clock = state.clock
      /\ SameBut(r, state, {"changed_storage", "transaction_storage_wipes", "sealed"})
  BY <1>2, <1>3, <1>4, SealWorks
<1>6. /\ state' = r /\ execution_phase' = execution_phase
      /\ UNCHANGED <<checkpoints, snapshots, running_root, copies, branch_copies>>
  BY DEF SealAttempt, permission, history
<1> HIDE DEF r
<1>7. WhenActive(state', checkpoints', copies', running_root', snapshots', branch_copies',
                 MaxClock)
  BY <1>2, <1>3, <1>5, <1>6 DEF WhenActive
<1>8. WorldInv'
  BY <1>3, <1>5, <1>6, <1>7, InvIf DEF WorldInv
<1>9. Typed(state')
  BY <1>5, <1>6, ControlFacts DEF Working
<1> QED BY <1>3, <1>6, <1>8, <1>9, WriteStep DEF Preserved

LEMMA RootCopy ==
  ASSUME NEW B, NEW s, NEW cps, NEW cop, NEW root, NEW max,
         Working(B, s, cps, cop, root, max), s.scope_depth = 0 \/ s.sealed
  PROVE  /\ cps = <<>> /\ root = -1 /\ Len(cop) = 1 /\ \E S : cop \in Seq(S)
         /\ cop[1].branch = BranchValues(B[1]) /\ cop[1].effects = NoEffects
<1>1. /\ Sound(s) /\ Nesting(s, Len(cps), root, max) /\ cps \in Seq(Tokens)
  BY DEF Working
<1>2. s.scope_depth = 0
  <2>1. s.scope_depth \in Nat
    BY <1>1, ControlFacts
  <2> QED BY <1>1, <2>1 DEF Nesting
<1>3. Len(cps) = 0 /\ root = -1 /\ cps = <<>>
  BY <1>1, <1>2 DEF Nesting
<1>4. Len(cop) = 1 /\ (\E S : cop \in Seq(S)) /\ cop[1] = CopyOf(B[1], -1)
  <2>1. /\ Len(cop) = Len(cps) + 1 /\ \A c : \E S : cop \in Seq(S) /\ c \in S
        /\ \A j \in 1 .. Len(cps) + 1 : cop[j] = CopyOf(B[j], root)
    BY SMTT(30), CopiesListed
  <2>2. Len(cop) = 1 /\ cop[1] = CopyOf(B[1], -1)
    BY <1>3, <2>1
  <2> QED BY <2>1, <2>2
<1>5. Fresh(B[1])
  BY WorkingBases
<1>6. CopyOf(B[1], -1).effects = NoEffects
  BY <1>5, FreshTransient
<1> QED BY <1>3, <1>4, <1>6 DEF CopyOf

LEMMA EndSteps ==
  ASSUME WorldInv, program' = program, RetainAttempt \/ DiscardAttempt
  PROVE  Preserved
<1>1. state.transaction_active
  BY DEF RetainAttempt, DiscardAttempt
<1>2. PICK B, Y : /\ Working(B, state, checkpoints, copies, running_root, MaxClock)
                  /\ Held(Y, B[1], snapshots, branch_copies)
  BY <1>1, ActiveFacts
<1>3. state.scope_depth \in Nat /\ state.clock <= MaxClock
  BY <1>1, ActiveFacts
<1>4. state.scope_depth = 0 \/ state.sealed
  BY <1>3 DEF RetainAttempt, DiscardAttempt, InSession
<1>5. /\ checkpoints = <<>> /\ running_root = -1 /\ Len(copies) = 1
      /\ copies[1].branch = BranchValues(B[1]) /\ copies[1].effects = NoEffects
  BY <1>2, <1>4, RootCopy
<1>6. PICK S : copies \in Seq(S)
  BY <1>2, <1>4, RootCopy
<1>7. /\ copies' = <<>>
      /\ UNCHANGED <<checkpoints, snapshots, execution_phase, running_root, branch_copies>>
  BY DEF RetainAttempt, DiscardAttempt, permission
<1>8. /\ WhenIdle(state', checkpoints', copies', running_root', snapshots', branch_copies')
      /\ state'.clock = state.clock
      /\ BranchValues(state') \in {BranchValues(state), copies[1].branch}
  <2>1. CASE RetainAttempt
    <3>1. state' = Retained(state) /\ state.sealed
      BY <2>1 DEF RetainAttempt
    <3> QED BY <1>2, <1>7, <3>1, RetainHolds
  <2>2. CASE DiscardAttempt
    <3>1. state' = Discarded(state) /\ state.scope_depth = 0
      BY <1>3, <2>2 DEF DiscardAttempt, InSession
    <3> QED BY <1>2, <1>5, <1>7, <3>1, DiscardHolds
  <2> QED BY <2>1, <2>2
<1>9. WorldInv'
  BY <1>3, <1>7, <1>8, InvIf DEF WorldInv
<1>10. EffectsUnder(state', running_root') = NoEffects
  BY <1>5, <1>7, <1>8, RestingUnder DEF WhenIdle
<1> QED BY <1>5, <1>6, <1>7, <1>8, <1>9, <1>10, EndStep DEF Preserved

LEMMA PushSteps ==
  ASSUME WorldInv, program' = program, OpenCheckpoint \/ RunRoot
  PROVE  Preserved
<1>1. state.transaction_active /\ state.scope_depth > 0
  BY DispatchingFacts DEF OpenCheckpoint, RunRoot, InSession
<1>2. PICK B, Y : /\ Working(B, state, checkpoints, copies, running_root, MaxClock)
                  /\ Held(Y, B[1], snapshots, branch_copies)
  BY <1>1, ActiveFacts
<1>3. /\ Sound(state) /\ copies # <<>> /\ state.clock \in Nat /\ MaxClock \in Nat
      /\ state.clock + 1 < MaxClock
  BY <1>1, ActiveFacts DEF OpenCheckpoint, RunRoot, Ticks
<1>4. PICK t : /\ t = state \/ (t = ClearTransientStorage(state) /\ running_root = 0)
               /\ checkpoints' = Append(checkpoints, Checkpoint(t))
               /\ state' = Opened(t) /\ copies' = Append(copies, Copy(t))
               /\ \/ running_root' = running_root
                  \/ /\ running_root = 0 /\ running_root' = Len(checkpoints) + 1
                     /\ t = ClearTransientStorage(state)
               /\ UNCHANGED <<snapshots, execution_phase, branch_copies>>
  <2>1. CASE OpenCheckpoint
    BY <2>1 DEF OpenCheckpoint, permission
  <2>2. CASE RunRoot
    BY <2>2 DEF RunRoot
  <2> QED BY <2>1, <2>2
<1>5. /\ Working(B, t, checkpoints, copies, running_root, MaxClock)
      /\ SameBut(t, state, {"transient"})
      /\ running_root # 0 => t = state
      /\ t = state \/ t.transient = NoTransient
      /\ t = ClearTransientStorage(state) => t.transient = NoTransient
  <2>1. CASE t = state
    <3>1. SameBut(t, state, {"transient"})
      BY <1>3, <2>1, ControlFacts DEF SameBut
    <3> QED BY <1>2, <1>3, <2>1, <3>1, ClearedFacts
  <2>2. CASE t = ClearTransientStorage(state) /\ running_root = 0
    BY <1>2, <2>2, ClearedWorks
  <2> QED BY <1>4, <2>1, <2>2
<1>6. t.scope_depth = state.scope_depth /\ t.clock = state.clock
  BY <1>5 DEF SameBut, StateFields
<1>7. CopyOf(t, running_root) = Copy(t)
  <2>1. ScopeEffects(t) = EffectsUnder(t, running_root)
    BY DEF ScopeEffects, EffectsUnder, EffectsOf, Single, InitialState, NoTransient
  <2> QED BY <2>1 DEF Copy, CopyOf, EffectsUnder
<1> DEFINE to == running_root'
           n == Len(checkpoints)
           D == [j \in 1 .. n + 2 |-> IF j = n + 2 THEN t ELSE B[j]]
<1>8. /\ Working(D, Opened(t), Append(checkpoints, Checkpoint(t)),
                 Append(copies, CopyOf(t, running_root)), to, MaxClock)
      /\ D[1] = B[1]
  <2>1. to = running_root \/ (running_root = 0 /\ to = n + 1 /\ t.transient = NoTransient)
    BY <1>4, <1>5
  <2>2. t.scope_depth > 0 /\ t.clock + 1 < MaxClock
    BY <1>1, <1>3, <1>6
  <2>3. D = [j \in 1 .. n + 2 |-> IF j = n + 2 THEN t ELSE B[j]]
    OBVIOUS
  <2> HIDE DEF to, D
  <2> QED BY <1>5, <2>1, <2>2, <2>3, PushWorks
<1> HIDE DEF D
<1>9. WhenActive(state', checkpoints', copies', running_root', snapshots', branch_copies',
                 MaxClock)
  BY <1>2, <1>4, <1>7, <1>8 DEF WhenActive
<1>10. state'.clock = state.clock + 1
  BY <1>3, <1>4, <1>6, ControlFacts DEF Opened, IsState, StateFields
<1>11. WorldInv'
  BY <1>3, <1>4, <1>9, <1>10, InvIf DEF WorldInv
<1>12. /\ \A f \in StateFields \ {"clock", "scope", "root", "scope_depth", "transient"} :
             Opened(t)[f] = state[f]
       /\ Opened(t).transient = t.transient
  <2>1. IsState(t)
    BY <1>5 DEF SameBut
  <2>2. \A f \in StateFields \ {"clock", "scope", "scope_depth"} : Opened(t)[f] = t[f]
    BY <2>1 DEF Opened, IsState, StateFields
  <2> QED BY <1>5, <2>2 DEF SameBut, StateFields
<1>13. /\ BranchValues(state') = BranchValues(state) /\ BranchValues(t) = BranchValues(state)
       /\ \A w : EffectsOf(state', w) = EffectsOf(state, w)
       /\ \A w : EffectsOf(t, w) = EffectsOf(state, w)
  <2>1. \A f \in StateFields \ {"clock", "scope", "root", "scope_depth", "transient"} :
             t[f] = state[f]
    BY <1>5 DEF SameBut
  <2>2. \A f \in StateFields \ ControlFields : t[f] = state[f] /\ Opened(t)[f] = state[f]
    BY <1>12, <2>1 DEF ControlFields
  <2> QED BY <1>4, <1>12, <2>1, <2>2, BranchUnchanged, EffectsUnchanged
<1>14. /\ EffectsUnder(t, running_root) = EffectsUnder(state, running_root)
       /\ EffectsUnder(state', running_root') = EffectsUnder(state, running_root)
  <2>1. CASE running_root = -1
    <3>1. t = state /\ state'.transient = state.transient /\ running_root' = -1
      BY <1>4, <1>5, <1>12, <2>1
    <3> QED BY <1>13, <2>1, <3>1 DEF EffectsUnder
  <2>2. CASE running_root # -1
    <3>1. running_root' # -1
      <4>1. Len(checkpoints) \in Nat
        BY <1>2, WorkingBases
      <4> QED BY <1>4, <2>2, <4>1
    <3> QED BY <1>13, <2>2, <3>1 DEF EffectsUnder
  <2> QED BY <2>1, <2>2
<1> DEFINE c == CopyOf(t, running_root)
<1>15. c.branch = BranchValues(state) /\ c.effects = EffectsUnder(state, running_root)
  BY <1>13, <1>14 DEF CopyOf, EffectsUnder
<1> HIDE DEF c
<1>16. PICK S : copies \in Seq(S) /\ c \in S
  BY <1>2, CopiesListed
<1>17. copies' = Append(copies, c)
  BY <1>4, <1>7 DEF c
<1>18. BranchStep /\ EffectStep
  BY <1>3, <1>4, <1>13, <1>14, <1>15, <1>16, <1>17, CheckpointStep
<1> QED BY <1>11, <1>18 DEF Preserved

LEMMA PopSteps ==
  ASSUME WorldInv, program' = program, CommitCheckpoint \/ RevertToCheckpoint
  PROVE  Preserved
<1>1. state.transaction_active
  <2>1. ~state.transaction_active => checkpoints = <<>>
    BY IdleFacts
  <2> QED BY <2>1 DEF CommitCheckpoint, RevertToCheckpoint
<1>2. PICK B, Y : /\ Working(B, state, checkpoints, copies, running_root, MaxClock)
                  /\ Held(Y, B[1], snapshots, branch_copies)
  BY <1>1, ActiveFacts
<1>3. state.clock <= MaxClock
  BY <1>1, ActiveFacts
<1> DEFINE to == running_root'
           n == Len(checkpoints)
<1>4. /\ checkpoints # <<>> /\ to = IF running_root = n THEN 0 ELSE running_root
      /\ checkpoints' = Front(checkpoints) /\ copies' = Front(copies)
      /\ UNCHANGED <<snapshots, execution_phase, branch_copies>>
  BY DEF CommitCheckpoint, RevertToCheckpoint, EndRoot
<1>5. /\ n \in Nat /\ n > 0 /\ Len(copies) = n + 1 /\ Len(copies) > 1
      /\ \A j \in 1 .. n + 1 : copies[j] = CopyOf(B[j], running_root)
  <2>1. checkpoints \in Seq(Tokens) /\ n \in Nat
    BY <1>2, WorkingBases DEF Working
  <2>2. n > 0
    BY <1>4, <2>1, PopFacts
  <2> QED BY <1>2, <2>1, <2>2, CopiesListed
<1>6. PICK S : copies \in Seq(S)
  BY <1>2, CopiesListed
<1>7. running_root = -1 <=> to = -1
  BY <1>4, <1>5
<1> HIDE DEF to
<1>8. CASE CommitCheckpoint
  <2> DEFINE r == CommitTo(state, Last(checkpoints))
  <2>1. state' = r
    BY <1>8 DEF CommitCheckpoint
  <2>2. /\ Working(B, r, checkpoints', copies', to, MaxClock) /\ r.clock = state.clock
        /\ SameBut(r, state, {"scope", "scope_depth"})
    BY <1>2, <1>4, CommitWorks
  <2> HIDE DEF r
  <2>3. WhenActive(state', checkpoints', copies', to, snapshots', branch_copies', MaxClock)
    BY <1>2, <1>4, <2>1, <2>2 DEF WhenActive
  <2>4. WorldInv'
    BY <1>3, <1>4, <2>1, <2>2, <2>3, InvIf DEF WorldInv, to
  <2>5. \A f \in StateFields \ {"scope", "scope_depth"} : state'[f] = state[f]
    BY <2>1, <2>2 DEF SameBut
  <2>6. /\ \A f \in StateFields \ ControlFields : state'[f] = state[f]
        /\ \A f \in StateFields \ {"clock", "scope", "root", "scope_depth", "transient"} :
              state'[f] = state[f]
        /\ state'.transient = state.transient
    BY <2>5 DEF StateFields, ControlFields
  <2>7. /\ BranchValues(state') = BranchValues(state)
        /\ \A w : EffectsOf(state', w) = EffectsOf(state, w)
    BY <2>6, BranchUnchanged, EffectsUnchanged
  <2>8. EffectsUnder(state', to) = EffectsUnder(state, running_root)
    BY <1>7, <2>6, <2>7 DEF EffectsUnder
  <2>9. BranchStep /\ EffectStep
    BY <1>4, <1>5, <1>6, <2>7, <2>8, CommitStep DEF to
  <2> QED BY <2>4, <2>9 DEF Preserved
<1>9. CASE RevertToCheckpoint
  <2> DEFINE r == RevertTo(state, Last(checkpoints))
             b == B[n + 1]
  <2>1. state' = r
    BY <1>9 DEF RevertToCheckpoint
  <2>2. /\ Working(B, r, checkpoints', copies', to, MaxClock) /\ r.clock = state.clock
        /\ BranchValues(r) = BranchValues(b)
        /\ \A w : EffectsOf(r, w) = EffectsOf(b, w)
        /\ running_root = -1 => r.transient = b.transient
    BY <1>2, <1>4, RevertWorks
  <2>3. copies[Len(copies)] = CopyOf(b, running_root)
    BY <1>5
  <2> HIDE DEF r, b
  <2>4. WhenActive(state', checkpoints', copies', to, snapshots', branch_copies', MaxClock)
    BY <1>2, <1>4, <2>1, <2>2 DEF WhenActive
  <2>5. WorldInv'
    BY <1>3, <1>4, <2>1, <2>2, <2>4, InvIf DEF WorldInv, to
  <2>6. BranchValues(state') = copies[Len(copies)].branch
    BY <2>1, <2>2, <2>3 DEF CopyOf
  <2>7. EffectsUnder(state', to) = copies[Len(copies)].effects
    BY <1>7, <2>1, <2>2, <2>3 DEF CopyOf, EffectsUnder
  <2>8. BranchStep /\ EffectStep
    BY <1>4, <1>5, <1>6, <2>6, <2>7, RevertStep DEF to
  <2> QED BY <2>5, <2>8 DEF Preserved
<1> QED BY <1>8, <1>9

LEMMA AppendSet ==
  ASSUME NEW S, NEW q \in Seq(S), NEW x \in S
  PROVE  ToSet(Append(q, x)) = ToSet(q) \cup {x}
<1> DEFINE p == Append(q, x)
           n == Len(q)
<1>1. /\ n \in Nat /\ p \in Seq(S) /\ Len(p) = n + 1 /\ p[n + 1] = x
      /\ \A i \in 1 .. n : p[i] = q[i]
  BY AppendFacts
<1>2. DOMAIN p = 1 .. n + 1 /\ DOMAIN q = 1 .. n
  BY <1>1
<1> HIDE DEF p, n
<1>3. ASSUME NEW e \in ToSet(p) PROVE e \in ToSet(q) \cup {x}
  <2>1. PICK i \in 1 .. n + 1 : p[i] = e
    BY <1>2 DEF ToSet
  <2>2. i \in 1 .. n \/ i = n + 1
    BY <1>1
  <2> QED BY <1>1, <1>2, <2>1, <2>2 DEF ToSet
<1>4. ASSUME NEW e \in ToSet(q) \cup {x} PROVE e \in ToSet(p)
  <2>1. PICK i \in 1 .. n + 1 : p[i] = e
    <3>1. \A i \in 1 .. n : i \in 1 .. n + 1
      BY <1>1
    <3>2. n + 1 \in 1 .. n + 1
      BY <1>1
    <3> QED BY <1>1, <1>2, <3>1, <3>2 DEF ToSet
  <2> QED BY <1>2, <2>1 DEF ToSet
<1> QED BY <1>3, <1>4 DEF p

LEMMA SnapshotSteps ==
  ASSUME WorldInv, program' = program, TakeSnapshot \/ DiscardAccepted
  PROVE  Preserved
<1>1. /\ WhenIdle(state, checkpoints, copies, running_root, snapshots, branch_copies)
      /\ Resting(state) /\ checkpoints = <<>> /\ copies = <<>> /\ running_root = -1
      /\ state.clock \in Nat /\ state.clock <= MaxClock /\ MaxClock \in Nat
      /\ EffectsUnder(state, running_root) = NoEffects
  BY IdleFacts DEF TakeSnapshot, DiscardAccepted
<1>2. UNCHANGED <<checkpoints, execution_phase, running_root, copies>>
  BY DEF TakeSnapshot, DiscardAccepted, permission
<1>3. CASE TakeSnapshot
  <2>1. /\ state' = state /\ snapshots' = Append(snapshots, BranchSnapshot(state))
        /\ branch_copies' = Append(branch_copies, BranchValues(state))
    BY <1>3 DEF TakeSnapshot
  <2>2. WhenIdle(state', checkpoints', copies', running_root', snapshots', branch_copies')
    BY <1>1, <1>2, <2>1, TakeHolds
  <2>3. WorldInv'
    BY <1>1, <1>2, <2>1, <2>2, InvIf DEF WorldInv
  <2>4. ToSet(branch_copies') = ToSet(branch_copies) \cup {BranchValues(state)}
    <3> DEFINE v == BranchValues(state)
    <3>1. PICK Y : Held(Y, state, snapshots, branch_copies)
      BY <1>1 DEF WhenIdle
    <3>2. branch_copies \in Seq(ToSet(branch_copies) \cup {v})
      <4> DEFINE u == [i \in 1 .. Len(snapshots) |-> BranchValues(Y[i])]
      <4>1. Len(snapshots) \in Nat /\ branch_copies = u
        BY <3>1 DEF Held
      <4>2. u = [i \in 1 .. Len(snapshots) |-> u[i]]
        OBVIOUS
      <4> DEFINE S == {u[i] : i \in 1 .. Len(snapshots)}
      <4>3. ToSet(branch_copies) = S
        BY <4>1 DEF ToSet
      <4> HIDE DEF u, v
      <4>4. u \in Seq(S \cup {v})
        BY <4>1, <4>2
      <4> QED BY <4>1, <4>3, <4>4
    <3> HIDE DEF v
    <3>3. ToSet(Append(branch_copies, v)) = ToSet(branch_copies) \cup {v}
      BY <3>2, AppendSet
    <3> QED BY <2>1, <3>3 DEF v
  <2> QED BY <1>1, <1>2, <2>1, <2>3, <2>4, IdleBranchStep DEF Preserved
<1>4. CASE DiscardAccepted
  <2>1. state' = AcceptedDiscarded(state) /\ snapshots' = <<>> /\ branch_copies' = <<>>
    BY <1>4 DEF DiscardAccepted
  <2>2. Resting(state') /\ BranchValues(state') = ParentBranch /\ state'.clock = 0
    BY <1>1, <2>1, ResetRests
  <2>3. WhenIdle(state', checkpoints', copies', running_root', snapshots', branch_copies')
    BY <1>1, <1>2, <2>1, <2>2, EmptyHolds DEF WhenIdle
  <2>4. WorldInv'
    BY <1>1, <1>2, <2>2, <2>3, InvIf DEF WorldInv
  <2>5. ToSet(branch_copies') = {}
    BY <2>1 DEF ToSet
  <2>6. EffectsUnder(state', running_root') = NoEffects
    BY <1>1, <1>2, <2>2, RestingUnder
  <2> QED BY <1>1, <1>2, <2>2, <2>4, <2>5, <2>6, IdleBranchStep DEF Preserved
<1> QED BY <1>3, <1>4

LEMMA RestoreSteps ==
  ASSUME WorldInv, program' = program, RestoreBranch
  PROVE  Preserved
<1>0. PICK i \in DOMAIN snapshots : \E h \in {i, i - 1} :
         /\ Restore(i) /\ snapshots' = Truncate(snapshots, h)
         /\ branch_copies' = Truncate(branch_copies, h)
  BY DEF RestoreBranch
<1>1. PICK h \in {i, i - 1} :
         /\ Restore(i) /\ snapshots' = Truncate(snapshots, h)
         /\ branch_copies' = Truncate(branch_copies, h)
  BY <1>0
<1>2. /\ ~InSession /\ state' = RestoredBranch(Resolved(state), snapshots[i])
      /\ copies' = <<>> /\ UNCHANGED <<checkpoints, execution_phase, running_root>>
  BY <1>1 DEF Restore, permission
<1>3. PICK x, Y : /\ x = Resolved(state) /\ Resting(x) /\ Held(Y, x, snapshots, branch_copies)
                  /\ x.clock = state.clock /\ checkpoints = <<>> /\ running_root = -1
  <2>1. CASE state.transaction_active
    <3>1. PICK B, Y : /\ Working(B, state, checkpoints, copies, running_root, MaxClock)
                      /\ Held(Y, B[1], snapshots, branch_copies)
      BY <2>1, ActiveFacts
    <3>2. state.scope_depth = 0 /\ Resolved(state) = Discarded(state)
      BY <1>2, <2>1, ActiveFacts DEF InSession, Resolved
    <3>3. /\ WhenIdle(Discarded(state), checkpoints, <<>>, running_root, snapshots,
                      branch_copies)
          /\ Discarded(state).clock = state.clock
          /\ Held(Y, Discarded(state), snapshots, branch_copies)
      BY <3>1, <3>2, DiscardHolds
    <3> QED BY <3>2, <3>3 DEF WhenIdle
  <2>2. CASE ~state.transaction_active
    BY <2>2, IdleFacts DEF Resolved, WhenIdle
  <2> QED BY <2>1, <2>2
<1> DEFINE r == RestoredBranch(x, snapshots[i])
<1>4. /\ WhenIdle(r, <<>>, <<>>, -1, Truncate(snapshots, h), Truncate(branch_copies, h))
      /\ BranchValues(r) = branch_copies[i] /\ r.clock = x.clock
      /\ branch_copies[i] \in ToSet(branch_copies)
      /\ ToSet(Truncate(branch_copies, h)) \subseteq ToSet(branch_copies)
  BY <1>3, RestoreHolds
<1>5. state' = r
  BY <1>2, <1>3
<1> HIDE DEF r
<1>6. WhenIdle(state', checkpoints', copies', running_root', snapshots', branch_copies')
  BY <1>1, <1>2, <1>3, <1>4, <1>5
<1>7. WorldInv'
  BY <1>2, <1>3, <1>4, <1>5, <1>6, InvIf DEF WorldInv
<1>8. /\ BranchValues(state') \in ToSet(branch_copies)
      /\ ToSet(branch_copies') \subseteq ToSet(branch_copies)
  BY <1>1, <1>4, <1>5
<1>9. EffectsUnder(state', running_root') = NoEffects
  BY <1>2, <1>3, <1>4, <1>5, RestingUnder DEF WhenIdle
<1>10. CASE state.transaction_active
  <2>1. PICK B : Working(B, state, checkpoints, copies, running_root, MaxClock)
    BY <1>10, ActiveFacts
  <2>2. state.scope_depth = 0
    BY <1>2, <1>10, ActiveFacts DEF InSession
  <2>3. /\ Len(copies) = 1 /\ copies[1].effects = NoEffects
        /\ \E S : copies \in Seq(S)
    BY <2>1, <2>2, RootCopy
  <2>4. PICK S : copies \in Seq(S)
    BY <2>3
  <2> QED BY <1>2, <1>7, <1>8, <1>9, <2>3, <2>4, EndStep DEF Preserved
<1>11. CASE ~state.transaction_active
  BY <1>2, <1>7, <1>8, <1>9, <1>11, IdleFacts, IdleBranchStep DEF Preserved
<1> QED BY <1>10, <1>11

-----------------------------------------------------------------------------
(* Every step keeps the invariant and is a step of both stores of copies   *)

LEMMA InitEstablishes ==
  ASSUME Init
  PROVE  WorldInv /\ Branch!BSInit /\ Scoped!BSInit
<1>1. /\ program \in Programs /\ state = InitialState /\ checkpoints = <<>>
      /\ snapshots = <<>> /\ execution_phase = "closed" /\ running_root = -1
      /\ copies = <<>> /\ branch_copies = <<>>
  BY DEF Init, Single
<1>2. Resting(state) /\ BranchValues(state) = ParentBranch /\ state.clock = 0
  BY <1>1, InitialRests
<1>3. WhenIdle(state, checkpoints, copies, running_root, snapshots, branch_copies)
  BY <1>1, <1>2, EmptyHolds DEF WhenIdle
<1>4. MaxClock \in Nat
  BY <1>1, ProgramsAssumption DEF MaxClock
<1>5. WorldInv
  BY <1>1, <1>2, <1>3, <1>4 DEF WorldInv
<1>6. ScopeEffects(state) = NoEffects
  BY <1>1, <1>2, ScopeEffectsAre, RestingUnder
<1>7. ToSet(branch_copies) = {} /\ \A f : Saved(copies, f) = <<>>
  BY <1>1 DEF ToSet, Saved
<1>8. Branch!BSInit
  BY <1>2, <1>7 DEF Branch!BSInit, Saved
<1>9. Scoped!BSInit
  BY <1>6, <1>7 DEF Scoped!BSInit, Saved
<1> QED BY <1>5, <1>8, <1>9

LEMMA NextPreserves ==
  ASSUME WorldInv, [Next /\ UNCHANGED program]_vars
  PROVE  Preserved
<1>1. CASE UNCHANGED vars
  <2>1. /\ state' = state /\ program' = program
        /\ UNCHANGED <<checkpoints, snapshots, execution_phase, running_root, copies,
                       branch_copies>>
    BY <1>1 DEF vars, permission, history
  <2>2. WorldInv'
    BY <2>1 DEF WorldInv, MaxClock
  <2> QED BY <2>1, <2>2, StutterStep DEF Preserved
<1>2. CASE Next /\ program' = program
  <2>1. CASE BeginAttempt
    BY <1>2, <2>1, BeginSteps
  <2>2. CASE OpenSession \/ CloseSession
    BY <1>2, <2>2, SessionSteps
  <2>3. CASE SealAttempt
    BY <1>2, <2>3, SealSteps
  <2>4. CASE RetainAttempt \/ DiscardAttempt
    BY <1>2, <2>4, EndSteps
  <2>5. CASE TakeSnapshot \/ DiscardAccepted
    BY <1>2, <2>5, SnapshotSteps
  <2>6. CASE OpenCheckpoint \/ RunRoot
    BY <1>2, <2>6, PushSteps
  <2>7. CASE CommitCheckpoint \/ RevertToCheckpoint
    BY <1>2, <2>7, PopSteps
  <2>8. CASE WriteValue \/ InstallCode
    BY <1>2, <2>8, ValueSteps
  <2>9. CASE Probe \/ GetCode
    BY <1>2, <2>9, ReadSteps
  <2>10. CASE Touch \/ Access \/ WarmListed
    BY <1>2, <2>10, AccessSteps
  <2>11. CASE SLoad \/ SStore
    BY <1>2, <2>11, StorageSteps
  <2>12. CASE TStore \/ EmitLog
    BY <1>2, <2>12, UnjournaledSteps
  <2>13. CASE Create \/ SelfDestruct
    BY <1>2, <2>13, LifecycleSteps
  <2>14. CASE Finalize \/ FailFinalize
    BY <1>2, <2>14, FinalizeSteps
  <2>15. CASE RestoreBranch
    BY <1>2, <2>15, RestoreSteps
  <2> QED BY <1>2, <2>1, <2>2, <2>3, <2>4, <2>5, <2>6, <2>7, <2>8, <2>9, <2>10, <2>11,
             <2>12, <2>13, <2>14, <2>15 DEF Next
<1> QED BY <1>1, <1>2

LEMMA Invariance == Spec => []WorldInv
<1>1. Init => WorldInv
  BY InitEstablishes
<1>2. WorldInv /\ [Next /\ UNCHANGED program]_vars => WorldInv'
  BY NextPreserves DEF Preserved
<1> QED BY <1>1, <1>2, PTL DEF Spec

(***************************************************************************)
(* revertToCheckpoint, discardAttempt and restoreBranch give back exactly  *)
(* the accounts, flags, incarnations, slots and introduced code of their   *)
(* boundary, for any accounts, slots, programs and depth: the one journal  *)
(* with its stamps implements a stack of full copies.                      *)
(***************************************************************************)
THEOREM RollbackExact == Spec => RollbackIsExact
<1>1. Init => Branch!BSInit
  BY InitEstablishes
<1>2. WorldInv /\ [Next /\ UNCHANGED program]_vars => [Branch!BSNext]_(Branch!bsVars)
  BY NextPreserves DEF Preserved, BranchStep
<1> QED BY <1>1, <1>2, Invariance, PTL DEF Spec, RollbackIsExact, Branch!BSSpec

(***************************************************************************)
(* Warmth, transient storage, logs, observation effects and the attempt's  *)
(* change lists unwind with the scope that revertToCheckpoint ends, and    *)
(* none of them outlives the attempt.                                      *)
(***************************************************************************)
THEOREM ScopesUnwind == Spec => EffectsUnwind
<1>1. Init => Scoped!BSInit
  BY InitEstablishes
<1>2. WorldInv /\ [Next /\ UNCHANGED program]_vars => [Scoped!BSNext]_(Scoped!bsVars)
  BY NextPreserves DEF Preserved, EffectStep
<1> QED BY <1>1, <1>2, Invariance, PTL DEF Spec, EffectsUnwind, Scoped!BSSpec

-----------------------------------------------------------------------------
(* What the invariant gives                                                *)

LEMMA StateTyped ==
  ASSUME WorldInv
  PROVE  Typed(state) /\ CodesBound(state)
<1>1. CASE state.transaction_active
  BY <1>1, ActiveFacts DEF Sound
<1>2. CASE ~state.transaction_active
  BY <1>2, IdleFacts, RestingTyped DEF Resting, Settled
<1> QED BY <1>1, <1>2

(***************************************************************************)
(* Rows, stamps and flags stay of their types, an account that does not    *)
(* exist is null, and the checkpoints held are those of the open scopes.   *)
(***************************************************************************)
THEOREM TypeCorrect == Spec => []TypeOK
<1> SUFFICES ASSUME WorldInv PROVE TypeOK
  BY Invariance, PTL
<1>1. /\ state.clock \in Nat /\ state.clock <= MaxClock /\ MaxClock \in Nat
      /\ RowsTyped(state) /\ ObservationsTyped(state)
  BY StateTyped, ProgramFacts DEF Typed, RowsTyped, WorldInv
<1>2. \A stamp \in 0 .. state.clock : stamp \in Stamps
  BY <1>1 DEF Stamps
<1>3. \A row \in AccountRowOf(state.clock) :
         /\ row \in AccountRow
         /\ ~row.current.exists => row.current = Null
  BY <1>2 DEF AccountRowOf, AccountRow, Value
<1>4. \A row \in StorageRowOf(state.clock) : row \in StorageRow
  BY <1>2 DEF StorageRowOf, StorageRow
<1>5. state.accounts \in [Accounts -> AccountRow] /\ state.storage \in [Slots -> StorageRow]
  BY <1>1, <1>3, <1>4 DEF RowsTyped
<1>6. ASSUME NEW a \in Accounts
      PROVE  /\ ~state.accounts[a].current.exists => state.accounts[a].current = Null
             /\ state.observed_accounts[a].effect \subseteq Effects
  <2>1. state.accounts[a] \in AccountRowOf(state.clock)
    BY <1>1 DEF RowsTyped
  <2>2. state.observed_accounts[a].effect \in SUBSET Effects
    BY <1>1 DEF ObservationsTyped, AccountObservation
  <2> QED BY <1>3, <2>1, <2>2
<1>7. /\ InSession => Mutable
      /\ Len(checkpoints) = IF InSession THEN state.scope_depth - 1 ELSE 0
      /\ running_root \in {Single} \cup 0 .. Len(checkpoints)
  <2>1. CASE state.transaction_active
    <3>1. PICK B : Working(B, state, checkpoints, copies, running_root, MaxClock)
      BY <2>1, ActiveFacts
    <3>2. Nesting(state, Len(checkpoints), running_root, MaxClock) /\ state.scope_depth \in Nat
      BY <2>1, <3>1, ActiveFacts DEF Working
    <3> QED BY <2>1, <3>2 DEF Nesting, InSession, Mutable, AttemptOpen, Single
  <2>2. CASE ~state.transaction_active
    <3>1. state.scope_depth = 0 /\ checkpoints = <<>> /\ running_root = -1
      BY <2>2, IdleFacts DEF Resting, Quiescent
    <3> QED BY <3>1 DEF InSession, Single
  <2> QED BY <2>1, <2>2
<1>8. execution_phase \in {"idle", "closed"}
  BY DEF WorldInv
<1> QED BY <1>5, <1>6, <1>7, <1>8 DEF TypeOK

\* Every snapshot held is one of a settled state that the world, once its
\* attempt is discarded, still extends.
LEMMA HeldFacts ==
  ASSUME WorldInv
  PROVE  \E Y : /\ Held(Y, Resolved(state), snapshots, branch_copies)
                /\ Resting(Resolved(state))
<1>1. CASE state.transaction_active
  <2>1. PICK B, Y : /\ Working(B, state, checkpoints, copies, running_root, MaxClock)
                    /\ Held(Y, B[1], snapshots, branch_copies)
    BY <1>1, ActiveFacts
  <2> DEFINE b == B[1]
             r == Discarded(state)
  <2>2. /\ Sound(state) /\ Base(b, state) /\ AcceptedIn(state.accepted_len, b) /\ Fresh(b)
    BY <2>1, WorkingBases
  <2> HIDE DEF b
  <2>3. Discards(state, b, r)
    BY <2>2, DiscardDiscards
  <2>4. Resolved(state) = r
    BY <1>1 DEF Resolved
  <2> HIDE DEF r
  <2>5. /\ Resting(r) /\ r.clock = state.clock
        /\ r.account_ids = state.account_ids /\ r.storage_ids = state.storage_ids
        /\ r.introduced = b.introduced /\ r.parent_code = state.parent_code
    BY <2>3 DEF Discards
  <2>6. Reaches(b, state) /\ Indexed(b) /\ Indexed(r)
    BY <2>2, <2>5, BaseReaches, IndexedIf
  <2>7. Reaches(b, r)
    <3>1. Reaches(b, b)
      BY <2>6, ReachesReflexive
    <3> QED BY <2>5, <2>6, <3>1 DEF Reaches
  <2>8. Held(Y, r, snapshots, branch_copies)
    BY <2>1, <2>6, <2>7, HeldKept DEF b
  <2> QED BY <2>4, <2>5, <2>8
<1>2. CASE ~state.transaction_active
  BY <1>2, IdleFacts DEF Resolved, WhenIdle
<1> QED BY <1>1, <1>2

LEMMA HeldSnapshot ==
  ASSUME WorldInv, NEW i \in DOMAIN snapshots
  PROVE  \E y : /\ snapshots[i] = BranchSnapshot(y)
                /\ Captured(y, Resolved(state)) /\ Resting(Resolved(state))
<1>1. PICK Y : Held(Y, Resolved(state), snapshots, branch_copies)
               /\ Resting(Resolved(state))
  BY HeldFacts
<1> DEFINE n == Len(snapshots)
           f == [j \in 1 .. n |-> BranchSnapshot(Y[j])]
<1>2. /\ n \in Nat /\ snapshots = f
      /\ \A j \in 1 .. n : Captured(Y[j], Resolved(state))
  BY <1>1 DEF Held
<1>3. DOMAIN f = 1 .. n /\ \A j \in 1 .. n : f[j] = BranchSnapshot(Y[j])
  OBVIOUS
<1> HIDE DEF f, n
<1> QED BY <1>1, <1>2, <1>3

(***************************************************************************)
(* restoreBranch never meets a snapshot with more rows or codes than the   *)
(* world has, once the attempt in flight is discarded.                     *)
(***************************************************************************)
THEOREM SnapshotsRestorable == Spec => []HeldSnapshotsRestorable
<1>1. ASSUME WorldInv, NEW i \in DOMAIN snapshots
      PROVE  Restorable(Resolved(state), snapshots[i])
  <2>1. PICK y : /\ snapshots[i] = BranchSnapshot(y)
                 /\ Captured(y, Resolved(state)) /\ Resting(Resolved(state))
    BY <1>1, HeldSnapshot
  <2> QED BY <2>1, RestoreRests
<1>2. WorldInv => HeldSnapshotsRestorable
  BY <1>1 DEF HeldSnapshotsRestorable
<1> QED BY <1>2, Invariance, PTL

(***************************************************************************)
(* No account leaves an attempt marked created or selfdestructed, neither  *)
(* in its row nor in a branch snapshot, however the attempt ended.         *)
(***************************************************************************)
THEOREM LifecycleEnds == Spec => []LifecycleEndsWithAttempt
<1>1. ASSUME WorldInv PROVE LifecycleEndsWithAttempt
  <2>1. ASSUME Idle, NEW a \in Accounts
        PROVE  state.accounts[a].flags \cap {"created", "selfdestructed"} = {}
    BY <1>1, <2>1, IdleFacts DEF Idle, Resting, Settled, NoLifecycle, LifecycleBits
  <2>2. ASSUME NEW i \in DOMAIN snapshots, NEW n \in DOMAIN snapshots[i].rows.accounts
        PROVE  snapshots[i].rows.accounts[n].flags \cap {"created", "selfdestructed"} = {}
    <3>1. PICK y : snapshots[i] = BranchSnapshot(y) /\ Captured(y, Resolved(state))
      BY <1>1, HeldSnapshot
    <3>2. /\ NoLifecycle(y) /\ y.account_ids \in Seq(Accounts)
      BY <3>1 DEF Captured, Resting, Settled, BlockListsTyped
    <3>3. snapshots[i].rows.accounts
             = [j \in DOMAIN y.account_ids |-> y.accounts[y.account_ids[j]]]
      BY <3>1 DEF BranchSnapshot, CaptureSnapshot
    <3>4. n \in DOMAIN y.account_ids /\ y.account_ids[n] \in Accounts
      BY <3>2, <3>3
    <3> QED BY <3>2, <3>3, <3>4 DEF NoLifecycle, LifecycleBits
  <2> QED BY <2>1, <2>2 DEF LifecycleEndsWithAttempt
<1> QED BY <1>1, Invariance, PTL

(***************************************************************************)
(* Transient storage ends with its root although runRoot clears it without *)
(* an undo entry: a revert to a checkpoint at or outside the root that     *)
(* runs gives empty transient storage.                                     *)
(***************************************************************************)
THEOREM TransientEnds == Spec => []TransientEndsWithRoot
<1>1. ASSUME WorldInv, NEW i \in 1 .. running_root
      PROVE  RevertTo(state, checkpoints[i]).transient = InitialState.transient
  <2>1. state.transaction_active
    <3>1. ~state.transaction_active => running_root = -1
      BY <1>1, IdleFacts
    <3> QED BY <1>1, <3>1
  <2>2. PICK B : Working(B, state, checkpoints, copies, running_root, MaxClock)
    BY <1>1, <2>1, ActiveFacts
  <2> DEFINE n == Len(checkpoints)
             b == B[i + 1]
             c == checkpoints[i]
             r == RevertTo(state, c)
  <2>3. /\ Sound(state) /\ n \in Nat /\ Backed(B, state, checkpoints)
        /\ TransientKnown(B, n, state, running_root)
        /\ Nesting(state, n, running_root, MaxClock)
        /\ \A j \in 1 .. n + 1 : Base(B[j], state)
    BY <2>2, WorkingBases DEF Working
  <2>4. i \in 1 .. n /\ i + 1 \in 1 .. n + 1 /\ i <= running_root
    BY <1>1, <2>3 DEF Nesting
  <2>5. state.scope_depth > 0
    <3>1. state.scope_depth \in Nat
      BY <2>3, ControlFacts
    <3> QED BY <2>3, <2>4, <3>1 DEF Nesting
  <2>6. Base(b, state) /\ TokenOf(c, b) /\ c.parent \in 0 .. state.clock
    BY <2>3, <2>4 DEF Backed
  <2>7. TransientTo(state, b, NoTransient)
    BY <2>3, <2>4 DEF TransientKnown
  <2> HIDE DEF b, c, n
  <2>8. Reverts(state, b, c, r)
    BY <2>3, <2>5, <2>6, RevertReverts
  <2>9. NoTransient \in [TransientKeys -> Nat]
    BY DEF NoTransient
  <2> HIDE DEF r
  <2>10. r.transient = NoTransient
    BY <2>7, <2>8, <2>9 DEF Reverts, TransientTo
  <2> QED BY <2>10, ZeroTransient DEF r, c
<1>2. WorldInv => TransientEndsWithRoot
  BY <1>1 DEF TransientEndsWithRoot
<1> QED BY <1>2, Invariance, PTL

(***************************************************************************)
(* The code reference of a row names the code of its account, after any    *)
(* introduction, revert, snapshot and restore.                             *)
(***************************************************************************)
THEOREM CodeFound == Spec => []CodeIsAvailable
<1>1. ASSUME WorldInv, NEW a \in Accounts
      PROVE  LET row == state.accounts[a]
             IN  CASE row.code_ref = EmptyRef -> row.current.code = EmptyCode
                   [] row.code_ref = MissingRef ->
                         \/ row.current.code \in state.parent_code
                         \/ Contains(state.introduced, row.current.code)
                         \/ \E b \in Accounts : ParentAccount[b].code = row.current.code
                   [] OTHER ->
                         /\ row.code_ref <= Len(state.introduced)
                         /\ state.introduced[row.code_ref] = row.current.code
  <2> DEFINE ref == state.accounts[a].code_ref
             code == state.accounts[a].current.code
  <2>1. CodeBound(state, ref, code) /\ Len(state.introduced) \in Nat
    BY <1>1, StateTyped DEF CodesBound, Typed, ListsTyped
  <2> HIDE DEF ref, code
  <2>2. /\ ref = EmptyRef => code = EmptyCode
        /\ ref = MissingRef => \/ code \in state.parent_code
                               \/ \E b \in Accounts : ParentAccount[b].code = code
        /\ ref \notin {EmptyRef, MissingRef} => /\ ref <= Len(state.introduced)
                                                /\ state.introduced[ref] = code
    BY <2>1 DEF CodeBound, EmptyRef, MissingRef
  <2>3. EmptyRef # MissingRef
    BY DEF EmptyRef, MissingRef
  <2> QED BY <2>2, <2>3 DEF ref, code
<1>2. WorldInv => CodeIsAvailable
  BY <1>1 DEF CodeIsAvailable
<1> QED BY <1>2, Invariance, PTL

=============================================================================
