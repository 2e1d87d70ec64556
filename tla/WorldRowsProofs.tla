-------------------------- MODULE WorldRowsProofs --------------------------
(***************************************************************************)
(* The methods of the world state, for any accounts, slots and depth of    *)
(* scopes: what undoing the journal gives back, and that every method      *)
(* journals enough for it.  `Follows' is what an operation of an attempt   *)
(* does to a state, `Carries' what it leaves of the boundaries of the open *)
(* scopes.                                                                 *)
(***************************************************************************)
EXTENDS WorldProperties, WellFoundedInduction, FiniteSetTheorems, TLAPS

-----------------------------------------------------------------------------
(* Induction                                                               *)

Below == {p \in Nat \X Nat : p[1] < p[2]}

LEMMA BelowWellFounded == IsWellFoundedOn(Below, Nat)
  BY NatLessThanWellFounded DEF OpToRel, Below

LEMMA Least ==
  ASSUME NEW T, T \subseteq Nat, T # {}
  PROVE  \E n \in T : \A m \in T : ~(m < n)
<1>1. PICK n \in T : \A m \in T : ~(<<m, n>> \in Below)
  BY WFMin, BelowWellFounded
<1>2. ASSUME NEW m \in T PROVE ~(m < n)
  <2>1. ~(<<m, n>> \in Below)
    BY <1>1
  <2> QED BY <2>1 DEF Below
<1> QED BY <1>2

\* A set of numbers that holds 0, and the successor of every member below n,
\* holds n.
LEMMA UpTo ==
  ASSUME NEW n \in Nat, NEW G, 0 \in G,
         \A i \in 0 .. n - 1 : i \in G => i + 1 \in G
  PROVE  n \in G
<1> DEFINE T == {m \in 0 .. n : m \notin G}
<1>1. ASSUME T # {} PROVE FALSE
  <2>1. T \subseteq Nat
    OBVIOUS
  <2>2. PICK m \in T : \A k \in T : ~(k < m)
    BY Least, <1>1, <2>1
  <2>3. m # 0 /\ m - 1 \in 0 .. n - 1 /\ m - 1 \notin T
    BY <2>2
  <2>4. m - 1 \in G
    BY <2>3
  <2>5. (m - 1) + 1 \in G
    BY <2>3, <2>4
  <2> QED BY <2>2, <2>5
<1> QED BY <1>1

-----------------------------------------------------------------------------
(* The loops as chains of states                                           *)

Undoing(f, s, n) ==
    f = [i \in 0 .. n |-> IF i = 0 THEN s ELSE UndoLast(f[i - 1])]

LEMMA UndoingExists ==
  ASSUME NEW s, NEW n \in Nat
  PROVE  \E f : Undoing(f, s, n)
<1> DEFINE G == {m \in Nat : \E f : Undoing(f, s, m)}
<1>1. 0 \in G
  <2> DEFINE g == [i \in 0 .. 0 |-> s]
  <2>1. Undoing(g, s, 0)
    BY DEF Undoing
  <2> QED BY <2>1
<1>2. ASSUME NEW m \in 0 .. n - 1, m \in G PROVE m + 1 \in G
  <2>1. PICK f : Undoing(f, s, m)
    BY <1>2
  <2> DEFINE g == [i \in 0 .. m + 1 |-> IF i = m + 1 THEN UndoLast(f[m]) ELSE f[i]]
  <2>2. \A i \in 0 .. m + 1 : g[i] = IF i = 0 THEN s ELSE UndoLast(g[i - 1])
    BY <2>1 DEF Undoing
  <2>3. Undoing(g, s, m + 1)
    BY <2>2 DEF Undoing
  <2> QED BY <2>3
<1>3. n \in G
  <2> HIDE DEF G
  <2> QED BY UpTo, <1>1, <1>2
<1> QED BY <1>3

\* What revertJournalTo returns is the last of the states it goes through.
LEMMA RevertIsUndoing ==
  ASSUME NEW s, NEW len, Len(s.journal) - len \in Nat
  PROVE  \E f : /\ Undoing(f, s, Len(s.journal) - len)
                /\ RevertJournalTo(s, len) = f[Len(s.journal) - len]
<1> DEFINE n == Len(s.journal) - len
           f == CHOOSE f : Undoing(f, s, n)
<1>1. Undoing(f, s, n)
  BY UndoingExists
<1>2. RevertJournalTo(s, len) = f[n]
  BY DEF RevertJournalTo, Undoing
<1> QED BY <1>1, <1>2

Finalizing(f, s, n) ==
    f = [i \in 0 .. n |-> IF i = 0 THEN Opened(s)
                          ELSE FinalizeRow(f[i - 1], s.lifecycle_accounts[i])]

LEMMA FinalizingExists ==
  ASSUME NEW s, NEW n \in Nat
  PROVE  \E f : Finalizing(f, s, n)
<1> DEFINE G == {m \in Nat : \E f : Finalizing(f, s, m)}
<1>1. 0 \in G
  <2> DEFINE g == [i \in 0 .. 0 |-> Opened(s)]
  <2>1. Finalizing(g, s, 0)
    BY DEF Finalizing
  <2> QED BY <2>1
<1>2. ASSUME NEW m \in 0 .. n - 1, m \in G PROVE m + 1 \in G
  <2>1. PICK f : Finalizing(f, s, m)
    BY <1>2
  <2> DEFINE g == [i \in 0 .. m + 1 |->
                      IF i = m + 1 THEN FinalizeRow(f[m], s.lifecycle_accounts[m + 1])
                                   ELSE f[i]]
  <2>2. \A i \in 0 .. m + 1 : g[i] = IF i = 0 THEN Opened(s)
                                     ELSE FinalizeRow(g[i - 1], s.lifecycle_accounts[i])
    BY <2>1 DEF Finalizing
  <2>3. Finalizing(g, s, m + 1)
    BY <2>2 DEF Finalizing
  <2> QED BY <2>3
<1>3. n \in G
  <2> HIDE DEF G
  <2> QED BY UpTo, <1>1, <1>2
<1> QED BY <1>3

LEMMA FinalizeIsFinalizing ==
  ASSUME NEW s, NEW n \in Nat
  PROVE  \E f : Finalizing(f, s, n) /\ FinalizeRows(s, n) = f[n]
<1> DEFINE f == CHOOSE f : Finalizing(f, s, n)
<1>1. Finalizing(f, s, n)
  BY FinalizingExists
<1>2. FinalizeRows(s, n) = f[n]
  BY DEF FinalizeRows, Finalizing
<1> QED BY <1>1, <1>2

Compacting(f, q, live, deduplicate, n) ==
    f = [i \in 0 .. n |->
            IF i = 0 THEN <<>>
            ELSE AppendIf(f[i - 1],
                          /\ q[i] \in live
                          /\ deduplicate => ~Contains(f[i - 1], q[i]),
                          q[i])]

LEMMA CompactingExists ==
  ASSUME NEW q, NEW live, NEW deduplicate, NEW n \in Nat
  PROVE  \E f : Compacting(f, q, live, deduplicate, n)
<1> DEFINE Step(kept, i) == AppendIf(kept, /\ q[i] \in live
                                           /\ deduplicate => ~Contains(kept, q[i]), q[i])
           G == {m \in Nat : \E f : Compacting(f, q, live, deduplicate, m)}
<1>1. 0 \in G
  <2> DEFINE g == [i \in 0 .. 0 |-> <<>>]
  <2>1. Compacting(g, q, live, deduplicate, 0)
    BY DEF Compacting
  <2> QED BY <2>1
<1>2. ASSUME NEW m \in 0 .. n - 1, m \in G PROVE m + 1 \in G
  <2>1. PICK f : Compacting(f, q, live, deduplicate, m)
    BY <1>2
  <2> DEFINE g == [i \in 0 .. m + 1 |-> IF i = m + 1 THEN Step(f[m], m + 1) ELSE f[i]]
  <2>2. f = [i \in 0 .. m |-> IF i = 0 THEN <<>> ELSE Step(f[i - 1], i)]
    BY <2>1 DEF Compacting
  <2>3. \A i \in 0 .. m + 1 : g[i] = IF i = 0 THEN <<>> ELSE Step(g[i - 1], i)
    <3> HIDE DEF Step
    <3> QED BY <2>2
  <2>4. Compacting(g, q, live, deduplicate, m + 1)
    BY <2>3 DEF Compacting
  <2> QED BY <2>4
<1>3. n \in G
  <2> HIDE DEF G
  <2> QED BY UpTo, <1>1, <1>2
<1> QED BY <1>3

LEMMA CompactedIsCompacting ==
  ASSUME NEW q, NEW live, NEW deduplicate, Len(q) \in Nat
  PROVE  \E f : /\ Compacting(f, q, live, deduplicate, Len(q))
                /\ Compacted(q, live, deduplicate) = f[Len(q)]
<1> DEFINE f == CHOOSE f : Compacting(f, q, live, deduplicate, Len(q))
<1>1. Compacting(f, q, live, deduplicate, Len(q))
  BY CompactingExists
<1>2. Compacted(q, live, deduplicate) = f[Len(q)]
  BY DEF Compacted, Compacting
<1> QED BY <1>1, <1>2

-----------------------------------------------------------------------------
(* The shape and the types of the State structure                          *)

StateFields ==
    {"accounts", "storage", "account_ids", "storage_ids", "introduced", "parent_code",
     "transient", "deferred_accounts", "deferred_storage", "logs", "retained_logs",
     "block_changed_accounts", "block_storage_wipes", "dirty_storage",
     "changed_accounts", "changed_storage", "transaction_storage_wipes",
     "lifecycle_accounts", "block_introduced_codes", "observed_accounts",
     "observed_storage", "journal", "clock", "transaction", "scope", "root",
     "scope_depth", "transaction_active", "sealed", "scope_reverted", "accepted_len"}

IsState(s) == DOMAIN s = StateFields

\* r is s but for the fields named.
SameBut(r, s, changed) ==
    /\ IsState(r)
    /\ \A f \in StateFields \ changed : r[f] = s[f]

Value == {v \in AccountValue : v.exists \/ v = Null}

AccountRowOf(clock) ==
    [current : Value, code_ref : Int, flags : SUBSET AccountFlags,
     lifecycle_transaction : 0 .. clock, journaled_scope : 0 .. clock,
     warm_transaction : 0 .. clock, observation : 0 .. clock,
     dirty_transaction : 0 .. clock, storage_incarnation : Nat,
     wiped_transaction : 0 .. clock]

StorageRowOf(clock) ==
    [current : Nat, execution_original : Nat, block_dirty : BOOLEAN,
     journaled_scope : 0 .. clock, warm_transaction : 0 .. clock,
     observation : 0 .. clock, execution_original_root : 0 .. clock,
     undo_transaction : 0 .. clock, undo_index : Nat, storage_incarnation : Nat]

AccountEntry(clock) ==
    [kind : {"account"}, id : Accounts, current : Value, code_ref : Int,
     flags : SUBSET AccountFlags, journaled_scope : 0 .. clock,
     storage_incarnation : Nat, wiped_transaction : 0 .. clock,
     dirty_transaction : 0 .. clock, effect : SUBSET Effects]

StorageEntry(clock) ==
    [kind : {"storage"}, id : Slots, current : Nat, block_dirty : BOOLEAN,
     journaled_scope : 0 .. clock, storage_incarnation : Nat,
     undo_transaction : 0 .. clock, undo_index : Nat, written : BOOLEAN]

TransientEntry == [kind : {"transient_storage"}, id : TransientKeys, previous : Nat]

AccountMark ==
    [kind : {"account_storage_dirty", "warm_account", "deferred_warm_account"},
     id : Accounts]

StorageMark == [kind : {"warm_storage", "deferred_warm_storage"}, id : Slots]

Introduction == [kind : {"introduced_code"}]

Entries(clock) ==
    AccountEntry(clock) \cup StorageEntry(clock) \cup TransientEntry
        \cup AccountMark \cup StorageMark \cup Introduction

AccountObservation ==
    [original : Value, original_storage_incarnation : Nat, effect : SUBSET Effects]

RowsTyped(s) ==
    /\ s.clock \in Nat
    /\ s.accounts \in [Accounts -> AccountRowOf(s.clock)]
    /\ s.storage \in [Slots -> StorageRowOf(s.clock)]

ObservationsTyped(s) ==
    /\ s.observed_accounts \in [Accounts -> AccountObservation]
    /\ DOMAIN s.observed_storage = Slots
    /\ \A k \in Slots : /\ DOMAIN s.observed_storage[k] = {"original", "written"}
                        /\ s.observed_storage[k].written \in BOOLEAN

ListsTyped(s) ==
    /\ s.account_ids \in Seq(Accounts)
    /\ s.storage_ids \in Seq(Slots)
    /\ s.introduced \in Seq(Nat)
    /\ s.block_introduced_codes \in Seq(Nat)
    /\ s.block_changed_accounts \in Seq(Accounts)
    /\ s.block_storage_wipes \in Seq(Accounts)
    /\ s.dirty_storage \in Seq(Slots)
    /\ s.changed_accounts \in Seq(Accounts)
    /\ s.changed_storage \in Seq(Slots)
    /\ s.transaction_storage_wipes \in Seq(Accounts)
    /\ s.lifecycle_accounts \in Seq(Accounts)
    /\ s.journal \in Seq(Entries(s.clock))

ControlTyped(s) ==
    /\ s.transient \in [TransientKeys -> Nat]
    /\ s.logs \in Nat
    /\ s.scope \in 0 .. s.clock
    /\ s.root \in 0 .. s.clock
    /\ s.transaction \in Nat
    /\ s.scope_depth \in Nat
    /\ s.transaction_active \in BOOLEAN
    /\ s.sealed \in BOOLEAN
    /\ s.scope_reverted \in BOOLEAN
    /\ s.transaction_active => s.transaction \in 1 .. s.clock

Typed(s) ==
    /\ IsState(s)
    /\ RowsTyped(s)
    /\ ObservationsTyped(s)
    /\ ListsTyped(s)
    /\ ControlTyped(s)

-----------------------------------------------------------------------------
(* What the journal can give back                                          *)

Bit(condition) == IF condition THEN 1 ELSE 0

\* What the entries of the journal record, transient storage apart.
Objects ==
    ({"account", "account_storage_dirty", "warm_account", "deferred_warm_account"}
        \X Accounts)
    \cup ({"storage", "warm_storage", "deferred_warm_storage"} \X Slots)

\* What a record of an account restores.  The flag storage_dirty is an object
\* of its own, with entries of its own.
AccountView(s, a) ==
    [current |-> s.accounts[a].current, code_ref |-> s.accounts[a].code_ref,
     flags |-> s.accounts[a].flags \ {"storage_dirty"},
     journaled_scope |-> s.accounts[a].journaled_scope,
     storage_incarnation |-> s.accounts[a].storage_incarnation,
     wiped_transaction |-> s.accounts[a].wiped_transaction,
     dirty_transaction |-> s.accounts[a].dirty_transaction,
     effect |-> s.observed_accounts[a].effect]

StorageView(s, k) ==
    [current |-> s.storage[k].current, block_dirty |-> s.storage[k].block_dirty,
     journaled_scope |-> s.storage[k].journaled_scope,
     storage_incarnation |-> s.storage[k].storage_incarnation,
     undo_transaction |-> s.storage[k].undo_transaction,
     undo_index |-> s.storage[k].undo_index,
     written |-> s.observed_storage[k].written]

View(s, o) ==
    IF o[1] = "account" THEN AccountView(s, o[2])
    ELSE IF o[1] = "storage" THEN StorageView(s, o[2])
    ELSE IF o[1] = "account_storage_dirty"
         THEN Bit("storage_dirty" \in s.accounts[o[2]].flags)
    ELSE IF o[1] = "warm_account"
         THEN Bit(s.accounts[o[2]].warm_transaction = s.transaction)
    ELSE IF o[1] = "warm_storage"
         THEN Bit(s.storage[o[2]].warm_transaction = s.transaction)
    ELSE IF o[1] = "deferred_warm_account" THEN Bit(o[2] \in s.deferred_accounts)
    ELSE Bit(o[2] \in s.deferred_storage)

\* The objects an entry records, and what it records of them.
Records(e) ==
    IF e.kind = "account" THEN {<<"account", e.id>>, <<"account_storage_dirty", e.id>>}
    ELSE IF e.kind \in {"transient_storage", "introduced_code"} THEN {}
    ELSE {<<e.kind, e.id>>}

RecordedAccount(e) ==
    [current |-> e.current, code_ref |-> e.code_ref,
     flags |-> e.flags \ {"storage_dirty"}, journaled_scope |-> e.journaled_scope,
     storage_incarnation |-> e.storage_incarnation,
     wiped_transaction |-> e.wiped_transaction,
     dirty_transaction |-> e.dirty_transaction, effect |-> e.effect]

RecordedStorage(e) ==
    [current |-> e.current, block_dirty |-> e.block_dirty,
     journaled_scope |-> e.journaled_scope,
     storage_incarnation |-> e.storage_incarnation,
     undo_transaction |-> e.undo_transaction, undo_index |-> e.undo_index,
     written |-> e.written]

Recorded(e, o) ==
    IF o[1] = "account" THEN RecordedAccount(e)
    ELSE IF o[1] = "storage" THEN RecordedStorage(e)
    ELSE IF e.kind = "account" THEN Bit("storage_dirty" \in e.flags)
    ELSE 0

\* An entry of q after position lo and up to hi records o.
Logged(q, o, lo, hi) == \E i \in lo + 1 .. hi : o \in Records(q[i])

Introductions(q, lo) == {i \in lo + 1 .. Len(q) : q[i].kind = "introduced_code"}

\* Undoing the journal of s down to that of b gives back b: an object that no
\* later entry records is as in b, and so is what every oldest record holds.
Extension(s, b) ==
    /\ Len(b.journal) <= Len(s.journal)
    /\ \A i \in 1 .. Len(b.journal) : s.journal[i] = b.journal[i]

EntriesReturn(s, b) ==
    \A j \in Len(b.journal) + 1 .. Len(s.journal) :
        \A o \in Records(s.journal[j]) :
            \/ Recorded(s.journal[j], o) = View(b, o)
            \/ Logged(s.journal, o, Len(b.journal), j - 1)

ViewsReturn(s, b) ==
    \A o \in Objects :
        \/ View(s, o) = View(b, o)
        \/ Logged(s.journal, o, Len(b.journal), Len(s.journal))

CodesReturn(s, b) ==
    /\ Len(s.introduced) =
          Len(b.introduced) + Cardinality(Introductions(s.journal, Len(b.journal)))
    /\ \A i \in 1 .. Len(b.introduced) : s.introduced[i] = b.introduced[i]

Returns(s, b) ==
    /\ Typed(b)
    /\ Extension(s, b)
    /\ EntriesReturn(s, b)
    /\ ViewsReturn(s, b)
    /\ CodesReturn(s, b)

\* A row stamped with a scope has an entry since b.
JournaledIn(s, o, scope) ==
    \/ /\ o[1] \in {"account", "account_storage_dirty"}
       /\ s.accounts[o[2]].journaled_scope = scope
    \/ o[1] = "storage" /\ s.storage[o[2]].journaled_scope = scope

StampsLogged(s, b, scope) ==
    \A o \in Objects : JournaledIn(s, o, scope)
        => Logged(s.journal, o, Len(b.journal), Len(s.journal))

\* A step of an attempt that journals before it changes: it appends at most
\* one entry, which records what the step finds, and an object it changes
\* has an entry, that one or an earlier one of the current scope.
Appends(s, r, o) ==
    /\ Len(r.journal) = Len(s.journal) + 1
    /\ o \in Records(r.journal[Len(r.journal)])

Extends(s, r) ==
    \/ /\ r.journal = s.journal
       /\ r.introduced = s.introduced
    \/ \E e \in Entries(s.clock) :
          /\ r.journal = Append(s.journal, e)
          /\ \A o \in Records(e) : Recorded(e, o) = View(s, o)
          /\ IF e.kind = "introduced_code"
             THEN \E code \in Nat : r.introduced = Append(s.introduced, code)
             ELSE r.introduced = s.introduced

JournalsFirst(s, r) ==
    /\ Extends(s, r)
    /\ \A o \in Objects :
          View(r, o) = View(s, o) \/ Appends(s, r, o) \/ JournaledIn(s, o, s.scope)

LEMMA EntryFacts ==
  ASSUME NEW clock, NEW e \in Entries(clock)
  PROVE  /\ e.kind = "account" => e \in AccountEntry(clock)
         /\ e.kind = "storage" => e \in StorageEntry(clock)
         /\ e.kind = "transient_storage" => e \in TransientEntry
         /\ e.kind \in {"account_storage_dirty", "warm_account", "deferred_warm_account"}
               => e \in AccountMark
         /\ e.kind \in {"warm_storage", "deferred_warm_storage"} => e \in StorageMark
         /\ e.kind \in {"account", "storage", "transient_storage", "account_storage_dirty",
                        "warm_account", "deferred_warm_account", "warm_storage",
                        "deferred_warm_storage", "introduced_code"}
  BY DEF Entries, AccountEntry, StorageEntry, TransientEntry, AccountMark, StorageMark,
         Introduction

LEMMA RecordsFacts ==
  ASSUME NEW clock, NEW e \in Entries(clock)
  PROVE  Records(e) \subseteq Objects
<1>1. CASE e.kind = "account"
  BY <1>1, EntryFacts DEF Records, Objects, AccountEntry
<1>2. CASE e.kind = "storage"
  BY <1>2, EntryFacts DEF Records, Objects, StorageEntry
<1>3. CASE e.kind \in {"account_storage_dirty", "warm_account", "deferred_warm_account"}
  BY <1>3, EntryFacts DEF Records, Objects, AccountMark
<1>4. CASE e.kind \in {"warm_storage", "deferred_warm_storage"}
  BY <1>4, EntryFacts DEF Records, Objects, StorageMark
<1>5. CASE e.kind \in {"transient_storage", "introduced_code"}
  BY <1>5 DEF Records
<1> QED BY <1>1, <1>2, <1>3, <1>4, <1>5, EntryFacts

LEMMA JournalFacts ==
  ASSUME NEW s, Typed(s)
  PROVE  /\ Len(s.journal) \in Nat
         /\ DOMAIN s.journal = 1 .. Len(s.journal)
         /\ \A j \in 1 .. Len(s.journal) : s.journal[j] \in Entries(s.clock)
  BY DEF Typed, ListsTyped

LEMMA ListFacts ==
  ASSUME NEW s, Typed(s)
  PROVE  /\ s.journal \in Seq(Entries(s.clock)) /\ Len(s.journal) \in Nat
         /\ s.introduced \in Seq(Nat) /\ Len(s.introduced) \in Nat
  BY DEF Typed, ListsTyped

LEMMA Shortened ==
  ASSUME NEW S, NEW q \in Seq(S), NEW n \in 0 .. Len(q)
  PROVE  /\ SubSeq(q, 1, n) \in Seq(S)
         /\ Len(SubSeq(q, 1, n)) = n
         /\ \A i \in 1 .. n : SubSeq(q, 1, n)[i] = q[i]
  OBVIOUS

LEMMA SameSequence ==
  ASSUME NEW S, NEW T, NEW p \in Seq(S), NEW q \in Seq(T), Len(p) = Len(q),
         \A i \in 1 .. Len(q) : p[i] = q[i]
  PROVE  p = q
  OBVIOUS

LEMMA LoggedWider ==
  ASSUME NEW q, NEW o, NEW lo \in Nat, NEW hi \in Nat, NEW top \in Nat, hi <= top,
         Logged(q, o, lo, hi)
  PROVE  Logged(q, o, lo, top)
  BY DEF Logged

LEMMA LoggedSame ==
  ASSUME NEW q, NEW p, NEW o, NEW lo \in Nat, NEW hi \in Nat,
         \A i \in 1 .. hi : p[i] = q[i],
         Logged(q, o, lo, hi)
  PROVE  Logged(p, o, lo, hi)
<1>1. PICK i \in lo + 1 .. hi : o \in Records(q[i])
  BY DEF Logged
<1>2. p[i] = q[i]
  BY <1>1
<1> QED BY <1>1, <1>2 DEF Logged

LEMMA ExtendsFacts ==
  ASSUME NEW s, Typed(s), NEW r, Extends(s, r)
  PROVE  /\ r.journal \in Seq(Entries(s.clock))
         /\ Len(r.journal) \in {Len(s.journal), Len(s.journal) + 1}
         /\ \A i \in 1 .. Len(s.journal) : r.journal[i] = s.journal[i]
         /\ Len(r.journal) = Len(s.journal) + 1 =>
               LET e == r.journal[Len(r.journal)]
               IN  e \in Entries(s.clock) /\ \A o \in Records(e) : Recorded(e, o) = View(s, o)
<1>1. s.journal \in Seq(Entries(s.clock))
  BY DEF Typed, ListsTyped
<1>2. CASE r.journal = s.journal
  BY <1>1, <1>2
<1>3. CASE \E e \in Entries(s.clock) :
            /\ r.journal = Append(s.journal, e)
            /\ \A o \in Records(e) : Recorded(e, o) = View(s, o)
  <2>1. PICK e \in Entries(s.clock) :
            /\ r.journal = Append(s.journal, e)
            /\ \A o \in Records(e) : Recorded(e, o) = View(s, o)
    BY <1>3
  <2>2. /\ r.journal \in Seq(Entries(s.clock))
        /\ Len(r.journal) = Len(s.journal) + 1
        /\ \A i \in 1 .. Len(s.journal) : r.journal[i] = s.journal[i]
        /\ r.journal[Len(r.journal)] = e
    BY <1>1, <2>1
  <2> QED BY <2>1, <2>2
<1> QED BY <1>2, <1>3 DEF Extends

-----------------------------------------------------------------------------
(* A step that journals first                                              *)

LEMMA IntroductionsFinite ==
  ASSUME NEW q, NEW lo \in Nat, Len(q) \in Nat
  PROVE  /\ IsFiniteSet(Introductions(q, lo))
         /\ Cardinality(Introductions(q, lo)) \in Nat
<1>1. IsFiniteSet(1 .. Len(q))
  BY FS_Interval
<1>2. Introductions(q, lo) \subseteq 1 .. Len(q)
  BY DEF Introductions
<1>3. IsFiniteSet(Introductions(q, lo))
  BY <1>1, <1>2, FS_Subset
<1> QED BY <1>3, FS_CardinalityType

\* The introductions of a longer journal.
LEMMA IntroductionsGrow ==
  ASSUME NEW q, NEW p, NEW lo \in Nat, Len(q) \in Nat, lo <= Len(q),
         Len(p) = Len(q) + 1, \A i \in 1 .. Len(q) : p[i] = q[i]
  PROVE  Cardinality(Introductions(p, lo)) =
            IF p[Len(p)].kind = "introduced_code"
            THEN Cardinality(Introductions(q, lo)) + 1
            ELSE Cardinality(Introductions(q, lo))
<1>1. IsFiniteSet(Introductions(q, lo))
  BY IntroductionsFinite
<1>2. Len(p) \notin Introductions(q, lo)
  BY DEF Introductions
<1>3. CASE p[Len(p)].kind = "introduced_code"
  <2>1. Introductions(p, lo) = Introductions(q, lo) \cup {Len(p)}
    BY <1>3 DEF Introductions
  <2> QED BY <1>1, <1>2, <1>3, <2>1, FS_AddElement
<1>4. CASE p[Len(p)].kind # "introduced_code"
  <2>1. Introductions(p, lo) = Introductions(q, lo)
    BY <1>4 DEF Introductions
  <2> QED BY <1>4, <2>1
<1> QED BY <1>3, <1>4

LEMMA CodesKept ==
  ASSUME NEW s, Typed(s), NEW r, Extends(s, r), NEW b, Typed(b), Extension(s, b),
         CodesReturn(s, b)
  PROVE  CodesReturn(r, b)
<1> DEFINE m == Len(b.journal)
<1>1. /\ Len(s.journal) \in Nat /\ m \in Nat /\ m <= Len(s.journal)
      /\ Len(b.introduced) \in Nat
      /\ s.journal \in Seq(Entries(s.clock)) /\ s.introduced \in Seq(Nat)
  BY ListFacts DEF Extension
<1>2. Cardinality(Introductions(s.journal, m)) \in Nat
  BY <1>1, IntroductionsFinite
<1>3. CASE r.journal = s.journal /\ r.introduced = s.introduced
  BY <1>3 DEF CodesReturn
<1>4. CASE \E e \in Entries(s.clock) :
              /\ r.journal = Append(s.journal, e)
              /\ IF e.kind = "introduced_code"
                 THEN \E code \in Nat : r.introduced = Append(s.introduced, code)
                 ELSE r.introduced = s.introduced
  <2>1. PICK e \in Entries(s.clock) :
              /\ r.journal = Append(s.journal, e)
              /\ IF e.kind = "introduced_code"
                 THEN \E code \in Nat : r.introduced = Append(s.introduced, code)
                 ELSE r.introduced = s.introduced
    BY <1>4
  <2>2. /\ Len(r.journal) = Len(s.journal) + 1
        /\ \A i \in 1 .. Len(s.journal) : r.journal[i] = s.journal[i]
        /\ r.journal[Len(r.journal)] = e
    BY <1>1, <2>1
  <2>3. Cardinality(Introductions(r.journal, m)) =
            IF e.kind = "introduced_code"
            THEN Cardinality(Introductions(s.journal, m)) + 1
            ELSE Cardinality(Introductions(s.journal, m))
    BY <1>1, <2>2, IntroductionsGrow
  <2>4. CASE e.kind = "introduced_code"
    <3>1. PICK code \in Nat : r.introduced = Append(s.introduced, code)
      BY <2>1, <2>4
    <3>2. /\ Len(r.introduced) = Len(s.introduced) + 1
          /\ \A i \in 1 .. Len(s.introduced) : r.introduced[i] = s.introduced[i]
          /\ Len(s.introduced) \in Nat
      BY <1>1, <3>1
    <3> HIDE DEF m
    <3>3. Len(s.introduced) = Len(b.introduced) + Cardinality(Introductions(s.journal, m))
      BY DEF CodesReturn, m
    <3>4. Len(r.introduced) = Len(b.introduced) + Cardinality(Introductions(r.journal, m))
      <4>1. Cardinality(Introductions(r.journal, m)) =
               Cardinality(Introductions(s.journal, m)) + 1
        BY <2>3, <2>4
      <4>2. Cardinality(Introductions(s.journal, m)) \in Nat /\ Len(b.introduced) \in Nat
        BY <1>1, <1>2 DEF m
      <4> QED BY <3>2, <3>3, <4>1, <4>2
    <3>5. \A i \in 1 .. Len(b.introduced) : i \in 1 .. Len(s.introduced)
      BY <1>1, <1>2, <3>3
    <3> QED BY <3>2, <3>4, <3>5 DEF CodesReturn, m
  <2>5. CASE e.kind # "introduced_code"
    BY <2>1, <2>3, <2>5 DEF CodesReturn
  <2> QED BY <2>4, <2>5
<1> QED BY <1>3, <1>4 DEF Extends

\* What was to be given back still is, when the rows stamped with the current
\* scope have entries.
LEMMA ReturnsKept ==
  ASSUME NEW s, Typed(s), NEW r, JournalsFirst(s, r), NEW b, Returns(s, b),
         StampsLogged(s, b, s.scope)
  PROVE  Returns(r, b)
<1> DEFINE m == Len(b.journal)
<1>1. /\ Extends(s, r) /\ Extension(s, b) /\ Typed(b)
      /\ EntriesReturn(s, b) /\ ViewsReturn(s, b) /\ CodesReturn(s, b)
  BY DEF JournalsFirst, Returns
<1>2. /\ Len(s.journal) \in Nat /\ m \in Nat /\ m <= Len(s.journal)
      /\ \A j \in 1 .. Len(s.journal) : s.journal[j] \in Entries(s.clock)
  BY <1>1, JournalFacts DEF Extension
<1>3. /\ Len(r.journal) \in {Len(s.journal), Len(s.journal) + 1}
      /\ Len(r.journal) \in Nat /\ Len(s.journal) <= Len(r.journal)
      /\ \A i \in 1 .. Len(s.journal) : r.journal[i] = s.journal[i]
      /\ Len(r.journal) = Len(s.journal) + 1 =>
            LET e == r.journal[Len(r.journal)]
            IN  e \in Entries(s.clock) /\ \A o \in Records(e) : Recorded(e, o) = View(s, o)
  BY <1>1, <1>2, ExtendsFacts
<1>4. Extension(r, b)
  BY <1>1, <1>2, <1>3 DEF Extension
<1>5. CodesReturn(r, b)
  BY <1>1, CodesKept
<1>6. ASSUME NEW o, Logged(s.journal, o, m, Len(s.journal))
      PROVE  Logged(r.journal, o, m, Len(s.journal)) /\ Logged(r.journal, o, m, Len(r.journal))
  <2>1. Logged(r.journal, o, m, Len(s.journal))
    BY <1>2, <1>3, <1>6, LoggedSame
  <2> QED BY <1>2, <1>3, <2>1, LoggedWider
<1>7. EntriesReturn(r, b)
  <2> SUFFICES ASSUME NEW j \in m + 1 .. Len(r.journal), NEW o \in Records(r.journal[j])
               PROVE  \/ Recorded(r.journal[j], o) = View(b, o)
                      \/ Logged(r.journal, o, m, j - 1)
    BY DEF EntriesReturn
  <2>1. CASE j <= Len(s.journal)
    <3>1. r.journal[j] = s.journal[j] /\ j \in m + 1 .. Len(s.journal) /\ j - 1 \in Nat
      BY <1>2, <1>3, <2>1
    <3>2. \/ Recorded(s.journal[j], o) = View(b, o)
          \/ Logged(s.journal, o, m, j - 1)
      BY <1>1, <3>1 DEF EntriesReturn
    <3>3. \A i \in 1 .. j - 1 : r.journal[i] = s.journal[i]
      BY <1>2, <1>3, <2>1
    <3> QED BY <1>2, <3>1, <3>2, <3>3, LoggedSame
  <2>2. CASE j = Len(s.journal) + 1
    <3>1. /\ Len(r.journal) = j /\ r.journal[j] \in Entries(s.clock)
          /\ Recorded(r.journal[j], o) = View(s, o)
      BY <1>2, <1>3, <2>2
    <3>2. o \in Objects
      BY <3>1, RecordsFacts
    <3>3. View(s, o) = View(b, o) \/ Logged(s.journal, o, m, Len(s.journal))
      BY <1>1, <3>2 DEF ViewsReturn
    <3>4. j - 1 = Len(s.journal)
      BY <1>2, <2>2
    <3> QED BY <1>6, <3>1, <3>3, <3>4
  <2> QED BY SMTT(30), <1>2, <1>3, <2>1, <2>2
<1>8. ViewsReturn(r, b)
  <2> SUFFICES ASSUME NEW o \in Objects
               PROVE  View(r, o) = View(b, o) \/ Logged(r.journal, o, m, Len(r.journal))
    BY DEF ViewsReturn
  <2>1. View(s, o) = View(b, o) \/ Logged(s.journal, o, m, Len(s.journal))
    BY <1>1 DEF ViewsReturn
  <2>2. CASE View(r, o) = View(s, o)
    BY <2>1, <2>2, <1>6
  <2>3. CASE Appends(s, r, o)
    <3>1. o \in Records(r.journal[Len(r.journal)]) /\ Len(r.journal) \in m + 1 .. Len(r.journal)
      BY <1>2, <2>3 DEF Appends
    <3> QED BY <3>1 DEF Logged
  <2>4. CASE JournaledIn(s, o, s.scope)
    BY <2>4, <1>6 DEF StampsLogged
  <2> QED BY <2>2, <2>3, <2>4 DEF JournalsFirst
<1> QED BY <1>1, <1>4, <1>5, <1>7, <1>8 DEF Returns

\* The stamp of a row is part of its view.
LEMMA StampOfView ==
  ASSUME NEW s, NEW r, NEW o, View(r, o) = View(s, o), o[1] \in {"account", "storage"},
         NEW scope
  PROVE  JournaledIn(r, o, scope) => JournaledIn(s, o, scope)
<1>1. CASE o[1] = "account"
  <2>1. AccountView(r, o[2]) = AccountView(s, o[2])
    BY <1>1 DEF View
  <2>2. AccountView(r, o[2]).journaled_scope = AccountView(s, o[2]).journaled_scope
    BY <2>1
  <2> QED BY <1>1, <2>2 DEF AccountView, JournaledIn
<1>2. CASE o[1] = "storage"
  <2>1. StorageView(r, o[2]) = StorageView(s, o[2])
    BY <1>2 DEF View
  <2>2. StorageView(r, o[2]).journaled_scope = StorageView(s, o[2]).journaled_scope
    BY <2>1
  <2> QED BY <1>2, <2>2 DEF StorageView, JournaledIn
<1> QED BY <1>1, <1>2

\* Whatever records an account records its storage_dirty flag.
LEMMA LoggedBoth ==
  ASSUME NEW q, NEW a, NEW lo, NEW hi, Logged(q, <<"account", a>>, lo, hi)
  PROVE  Logged(q, <<"account_storage_dirty", a>>, lo, hi)
<1>1. PICK i \in lo + 1 .. hi : <<"account", a>> \in Records(q[i])
  BY DEF Logged
<1>2. q[i].kind = "account" /\ q[i].id = a
  BY <1>1 DEF Records
<1>3. <<"account_storage_dirty", a>> \in Records(q[i])
  BY <1>2 DEF Records
<1> QED BY <1>1, <1>3 DEF Logged

\* If b has no row with the stamp, those of s have entries.
LEMMA StampsAreLogged ==
  ASSUME NEW s, NEW b, Returns(s, b), NEW scope,
         \A o \in Objects : ~JournaledIn(b, o, scope)
  PROVE  StampsLogged(s, b, scope)
<1> SUFFICES ASSUME NEW o \in Objects, JournaledIn(s, o, scope)
             PROVE  Logged(s.journal, o, Len(b.journal), Len(s.journal))
  BY DEF StampsLogged
<1>1. ASSUME NEW x \in Objects, x[1] \in {"account", "storage"}, JournaledIn(s, x, scope)
      PROVE  Logged(s.journal, x, Len(b.journal), Len(s.journal))
  <2>1. View(s, x) = View(b, x) \/ Logged(s.journal, x, Len(b.journal), Len(s.journal))
    BY DEF Returns, ViewsReturn
  <2>2. View(s, x) = View(b, x) => JournaledIn(b, x, scope)
    BY <1>1, StampOfView
  <2> QED BY <2>1, <2>2
<1>2. CASE o[1] \in {"account", "storage"}
  BY <1>1, <1>2
<1>3. CASE o[1] = "account_storage_dirty"
  <2>1. PICK a \in Accounts : o = <<"account_storage_dirty", a>>
    BY <1>3 DEF Objects
  <2>2. <<"account", a>> \in Objects /\ JournaledIn(s, <<"account", a>>, scope)
    BY <2>1 DEF Objects, JournaledIn
  <2>3. Logged(s.journal, <<"account", a>>, Len(b.journal), Len(s.journal))
    BY <1>1, <2>2
  <2> QED BY <2>1, <2>3, LoggedBoth
<1> QED BY <1>2, <1>3 DEF JournaledIn

-----------------------------------------------------------------------------
(* Undoing an entry                                                        *)

\* The entry popped gives the objects it records what it recorded and leaves
\* every other object alone.
UndoneJournal(s, r) ==
    /\ r.journal = SubSeq(s.journal, 1, Len(s.journal) - 1)
    /\ LET e == s.journal[Len(s.journal)]
       IN  /\ \A o \in Objects :
                 View(r, o) = IF o \in Records(e) THEN Recorded(e, o) ELSE View(s, o)
           /\ r.introduced = IF e.kind = "introduced_code"
                             THEN SubSeq(s.introduced, 1, Len(s.introduced) - 1)
                             ELSE s.introduced

LEMMA UndoneReturns ==
  ASSUME NEW s, Typed(s), NEW r, UndoneJournal(s, r), NEW b, Returns(s, b),
         Len(b.journal) < Len(s.journal)
  PROVE  Returns(r, b)
<1> DEFINE n == Len(s.journal)
           m == Len(b.journal)
           e == s.journal[n]
<1>1. /\ n \in Nat /\ m \in Nat /\ n - 1 \in Nat /\ m <= n - 1
      /\ \A j \in 1 .. n : s.journal[j] \in Entries(s.clock)
      /\ Typed(b) /\ Extension(s, b)
      /\ EntriesReturn(s, b) /\ ViewsReturn(s, b) /\ CodesReturn(s, b)
  BY JournalFacts DEF Returns
<1>2. Len(r.journal) = n - 1 /\ \A i \in 1 .. n - 1 : r.journal[i] = s.journal[i]
  <2>1. s.journal \in Seq(Entries(s.clock)) /\ n - 1 \in 0 .. Len(s.journal)
    BY <1>1, ListFacts
  <2>2. r.journal = SubSeq(s.journal, 1, n - 1)
    BY DEF UndoneJournal
  <2> QED BY <2>1, <2>2, Shortened
<1>3. Extension(r, b)
  BY <1>1, <1>2 DEF Extension
<1>4. EntriesReturn(r, b)
  <2> SUFFICES ASSUME NEW j \in m + 1 .. Len(r.journal), NEW o \in Records(r.journal[j])
               PROVE  \/ Recorded(r.journal[j], o) = View(b, o)
                      \/ Logged(r.journal, o, m, j - 1)
    BY DEF EntriesReturn
  <2>1. r.journal[j] = s.journal[j] /\ j \in m + 1 .. n /\ j - 1 \in Nat
    BY <1>1, <1>2
  <2>2. \/ Recorded(s.journal[j], o) = View(b, o)
        \/ Logged(s.journal, o, m, j - 1)
    BY <1>1, <2>1 DEF EntriesReturn
  <2>3. \A i \in 1 .. j - 1 : r.journal[i] = s.journal[i]
    BY <1>1, <1>2
  <2> QED BY <2>1, <2>2, <2>3, <1>1, LoggedSame
<1>5. ViewsReturn(r, b)
  <2> SUFFICES ASSUME NEW o \in Objects
               PROVE  View(r, o) = View(b, o) \/ Logged(r.journal, o, m, Len(r.journal))
    BY DEF ViewsReturn
  <2>1. Logged(s.journal, o, m, n - 1) => Logged(r.journal, o, m, Len(r.journal))
    BY <1>1, <1>2, LoggedSame
  <2>2. CASE o \in Records(e)
    <3>1. Recorded(e, o) = View(b, o) \/ Logged(s.journal, o, m, n - 1)
      BY <2>2, <1>1 DEF EntriesReturn
    <3>2. View(r, o) = Recorded(e, o)
      BY <2>2 DEF UndoneJournal
    <3> QED BY <3>1, <3>2, <2>1
  <2>3. CASE o \notin Records(e)
    <3>1. View(r, o) = View(s, o)
      BY <2>3 DEF UndoneJournal
    <3>2. Logged(s.journal, o, m, n) => Logged(s.journal, o, m, n - 1)
      <4>1. \A i \in m + 1 .. n : i \in m + 1 .. n - 1 \/ i = n
        BY <1>1
      <4> QED BY <4>1, <2>3 DEF Logged
    <3>3. View(s, o) = View(b, o) \/ Logged(s.journal, o, m, n)
      BY <1>1 DEF ViewsReturn
    <3> QED BY <3>1, <3>2, <3>3, <2>1
  <2> QED BY <2>2, <2>3
<1>6. CodesReturn(r, b)
  <2>1. Cardinality(Introductions(s.journal, m)) =
            IF e.kind = "introduced_code"
            THEN Cardinality(Introductions(r.journal, m)) + 1
            ELSE Cardinality(Introductions(r.journal, m))
    <3>1. Len(s.journal) = Len(r.journal) + 1
      BY <1>1, <1>2
    <3>2. \A i \in 1 .. Len(r.journal) : s.journal[i] = r.journal[i]
      BY <1>2
    <3>3. Len(r.journal) \in Nat /\ m <= Len(r.journal)
      BY <1>1, <1>2
    <3> QED BY <1>1, <3>1, <3>2, <3>3, IntroductionsGrow
  <2>2. Cardinality(Introductions(r.journal, m)) \in Nat
    BY <1>1, <1>2, IntroductionsFinite
  <2>3. /\ Len(b.introduced) \in Nat /\ s.introduced \in Seq(Nat) /\ Len(s.introduced) \in Nat
    BY <1>1, ListFacts
  <2>4. Len(s.introduced) = Len(b.introduced) + Cardinality(Introductions(s.journal, m))
    BY <1>1 DEF CodesReturn
  <2>5. CASE e.kind = "introduced_code"
    <3>1. r.introduced = SubSeq(s.introduced, 1, Len(s.introduced) - 1)
      BY <2>5 DEF UndoneJournal
    <3> HIDE DEF m, e, n
    <3>2. /\ Len(b.introduced) <= Len(s.introduced) - 1
          /\ Len(s.introduced) - 1 =
                Len(b.introduced) + Cardinality(Introductions(r.journal, m))
          /\ Len(s.introduced) - 1 \in 0 .. Len(s.introduced)
      <4>1. Cardinality(Introductions(s.journal, m)) =
               Cardinality(Introductions(r.journal, m)) + 1
        BY <2>1, <2>5
      <4>2. ASSUME NEW x \in Nat, NEW y \in Nat, NEW c \in Nat, NEW d, y = x + d, d = c + 1
            PROVE  x <= y - 1 /\ y - 1 = x + c /\ y - 1 \in 0 .. y
        BY <4>2
      <4> QED BY <2>2, <2>3, <2>4, <4>1, <4>2
    <3>3. /\ Len(r.introduced) = Len(s.introduced) - 1
          /\ \A i \in 1 .. Len(s.introduced) - 1 : r.introduced[i] = s.introduced[i]
      BY SMTT(30), <2>3, <3>1, <3>2, Shortened
    <3>4. \A i \in 1 .. Len(b.introduced) : s.introduced[i] = b.introduced[i]
      BY <1>1 DEF CodesReturn
    <3>5. \A i \in 1 .. Len(b.introduced) : i \in 1 .. Len(s.introduced) - 1
      BY <2>3, <3>2
    <3> QED BY <3>2, <3>3, <3>4, <3>5 DEF CodesReturn, m
  <2>6. CASE e.kind # "introduced_code"
    <3>1. r.introduced = s.introduced
      BY <2>6 DEF UndoneJournal
    <3> QED BY <1>1, <2>1, <2>6, <3>1 DEF CodesReturn
  <2> QED BY <2>5, <2>6
<1> QED BY <1>1, <1>3, <1>4, <1>5, <1>6 DEF Returns

\* Every introduced code is listed, in the order of introduction.
CodesListed(s) ==
    /\ Len(s.block_introduced_codes) = Len(s.introduced)
    /\ \A i \in 1 .. Len(s.introduced) : s.block_introduced_codes[i] = i

Undoable(s) ==
    /\ Typed(s)
    /\ s.transaction_active
    /\ CodesListed(s)
    /\ Len(s.journal) > 0
    /\ s.journal[Len(s.journal)].kind = "introduced_code" => Len(s.introduced) > 0

LEMMA UndoLastIs ==
  ASSUME NEW s, Undoable(s)
  PROVE  /\ SameBut(UndoLast(s), UndoEntry(s, s.journal[Len(s.journal)]), {"journal"})
         /\ IsState(UndoEntry(s, s.journal[Len(s.journal)]))
         /\ UndoLast(s).journal = SubSeq(s.journal, 1, Len(s.journal) - 1)
<1> DEFINE e == s.journal[Len(s.journal)]
<1>1. e.kind \in {"account", "storage", "transient_storage", "account_storage_dirty",
                  "warm_account", "deferred_warm_account", "warm_storage",
                  "deferred_warm_storage", "introduced_code"}
  BY JournalFacts, EntryFacts DEF Undoable
<1>2. IsState(s)
  BY DEF Undoable, Typed
<1>3. IsState(UndoEntry(s, e)) /\ UndoEntry(s, e).journal = s.journal
  <2> HIDE DEF e
  <2> QED BY <1>1, <1>2 DEF UndoEntry, IsState, StateFields
<1> QED BY <1>3 DEF UndoLast, Last, Front, SameBut, IsState, StateFields

LEMMA UndoneAccount ==
  ASSUME NEW s, Undoable(s), s.journal[Len(s.journal)].kind = "account"
  PROVE  LET e == s.journal[Len(s.journal)]
             r == UndoLast(s)
         IN  /\ SameBut(r, s, {"journal", "accounts", "observed_accounts"})
             /\ r.accounts = [s.accounts EXCEPT ![e.id] =
                    [s.accounts[e.id] EXCEPT
                        !.current = e.current, !.code_ref = e.code_ref, !.flags = e.flags,
                        !.journaled_scope = e.journaled_scope,
                        !.storage_incarnation = e.storage_incarnation,
                        !.wiped_transaction = e.wiped_transaction,
                        !.dirty_transaction = e.dirty_transaction]]
             /\ r.observed_accounts = [s.observed_accounts EXCEPT ![e.id] =
                    [s.observed_accounts[e.id] EXCEPT !.effect = e.effect]]
<1> DEFINE e == s.journal[Len(s.journal)]
<1>1. IsState(s) /\ SameBut(UndoLast(s), UndoEntry(s, e), {"journal"})
  BY UndoLastIs DEF Undoable, Typed
<1> HIDE DEF e
<1>2. e.kind = "account"
  BY DEF e
<1> QED BY ZenonT(40), <1>1, <1>2 DEF UndoEntry, SameBut, IsState, StateFields, e

LEMMA UndoneStorage ==
  ASSUME NEW s, Undoable(s), s.journal[Len(s.journal)].kind = "storage"
  PROVE  LET e == s.journal[Len(s.journal)]
             r == UndoLast(s)
         IN  /\ SameBut(r, s, {"journal", "storage", "observed_storage"})
             /\ r.storage = [s.storage EXCEPT ![e.id] =
                    [s.storage[e.id] EXCEPT
                        !.current = e.current, !.block_dirty = e.block_dirty,
                        !.journaled_scope = e.journaled_scope,
                        !.storage_incarnation = e.storage_incarnation,
                        !.undo_transaction = e.undo_transaction,
                        !.undo_index = e.undo_index]]
             /\ r.observed_storage = [s.observed_storage EXCEPT ![e.id] =
                    [s.observed_storage[e.id] EXCEPT !.written = e.written]]
<1> DEFINE e == s.journal[Len(s.journal)]
<1>1. IsState(s) /\ SameBut(UndoLast(s), UndoEntry(s, e), {"journal"})
  BY UndoLastIs DEF Undoable, Typed
<1>2. e.kind = "storage"
  OBVIOUS
<1> QED BY ZenonT(40), <1>1, <1>2 DEF UndoEntry, SameBut, IsState, StateFields

LEMMA UndoneMark ==
  ASSUME NEW s, Undoable(s),
         s.journal[Len(s.journal)].kind \in
            {"account_storage_dirty", "warm_account", "deferred_warm_account",
             "warm_storage", "deferred_warm_storage"}
  PROVE  LET e == s.journal[Len(s.journal)]
             r == UndoLast(s)
         IN  /\ SameBut(r, s, {"journal", "accounts", "storage", "deferred_accounts",
                               "deferred_storage"})
             /\ r.accounts =
                   IF e.kind = "account_storage_dirty"
                   THEN [s.accounts EXCEPT ![e.id] =
                            [s.accounts[e.id] EXCEPT !.flags = @ \ {"storage_dirty"}]]
                   ELSE IF e.kind = "warm_account"
                   THEN [s.accounts EXCEPT ![e.id] =
                            [s.accounts[e.id] EXCEPT !.warm_transaction = None]]
                   ELSE s.accounts
             /\ r.storage =
                   IF e.kind = "warm_storage"
                   THEN [s.storage EXCEPT ![e.id] =
                            [s.storage[e.id] EXCEPT !.warm_transaction = None]]
                   ELSE s.storage
             /\ r.deferred_accounts =
                   IF e.kind = "deferred_warm_account"
                   THEN s.deferred_accounts \ {e.id} ELSE s.deferred_accounts
             /\ r.deferred_storage =
                   IF e.kind = "deferred_warm_storage"
                   THEN s.deferred_storage \ {e.id} ELSE s.deferred_storage
<1> DEFINE e == s.journal[Len(s.journal)]
<1>1. IsState(s) /\ SameBut(UndoLast(s), UndoEntry(s, e), {"journal"})
  BY UndoLastIs DEF Undoable, Typed
<1>2. CASE e.kind = "account_storage_dirty"
  BY ZenonT(40), <1>1, <1>2 DEF UndoEntry, SameBut, IsState, StateFields
<1>3. CASE e.kind = "warm_account"
  BY <1>1, <1>3 DEF UndoEntry, SameBut, IsState, StateFields
<1>4. CASE e.kind = "warm_storage"
  BY <1>1, <1>4 DEF UndoEntry, SameBut, IsState, StateFields
<1>5. CASE e.kind = "deferred_warm_account"
  BY <1>1, <1>5 DEF UndoEntry, SameBut, IsState, StateFields
<1>6. CASE e.kind = "deferred_warm_storage"
  BY <1>1, <1>6 DEF UndoEntry, SameBut, IsState, StateFields
<1> QED BY <1>2, <1>3, <1>4, <1>5, <1>6

LEMMA UndoneTransient ==
  ASSUME NEW s, Undoable(s), s.journal[Len(s.journal)].kind = "transient_storage"
  PROVE  LET e == s.journal[Len(s.journal)]
             r == UndoLast(s)
         IN  /\ SameBut(r, s, {"journal", "transient"})
             /\ r.transient = [s.transient EXCEPT ![e.id] = e.previous]
<1> DEFINE e == s.journal[Len(s.journal)]
<1>1. IsState(s) /\ SameBut(UndoLast(s), UndoEntry(s, e), {"journal"})
  BY UndoLastIs DEF Undoable, Typed
<1>2. e.kind = "transient_storage"
  OBVIOUS
<1> QED BY <1>1, <1>2 DEF UndoEntry, SameBut, IsState, StateFields

LEMMA UndoneIntroduction ==
  ASSUME NEW s, Undoable(s), s.journal[Len(s.journal)].kind = "introduced_code"
  PROVE  LET n == Len(s.introduced)
             r == UndoLast(s)
         IN  /\ SameBut(r, s, {"journal", "introduced", "block_introduced_codes"})
             /\ n - 1 \in Nat
             /\ r.introduced = SubSeq(s.introduced, 1, n - 1)
             /\ r.block_introduced_codes = SubSeq(s.block_introduced_codes, 1, n - 1)
<1> DEFINE e == s.journal[Len(s.journal)]
           n == Len(s.introduced)
<1>1. IsState(s) /\ SameBut(UndoLast(s), UndoEntry(s, e), {"journal"})
  BY UndoLastIs DEF Undoable, Typed
<1>2. e.kind = "introduced_code"
  OBVIOUS
<1>3. n \in Nat /\ n > 0
  BY DEF Undoable, Typed, ListsTyped
<1>4. Len(s.block_introduced_codes) = n /\ s.block_introduced_codes[n] = n
  BY <1>3 DEF Undoable, CodesListed
<1>5. Last(s.block_introduced_codes) = n
  BY <1>4 DEF Last
<1>6. UndoEntry(s, e) =
         [s EXCEPT !.introduced = Truncate(@, n - 1), !.block_introduced_codes = Front(@)]
  <2> HIDE DEF e
  <2> QED BY <1>2, <1>5 DEF UndoEntry
<1>7. /\ UndoEntry(s, e).introduced = SubSeq(s.introduced, 1, n - 1)
      /\ UndoEntry(s, e).block_introduced_codes = SubSeq(s.block_introduced_codes, 1, n - 1)
      /\ SameBut(UndoEntry(s, e), s, {"introduced", "block_introduced_codes"})
  <2> DEFINE u == [s EXCEPT !.introduced = Truncate(@, n - 1),
                            !.block_introduced_codes = Front(@)]
  <2>1. /\ u.introduced = Truncate(s.introduced, n - 1)
        /\ u.block_introduced_codes = Front(s.block_introduced_codes)
        /\ SameBut(u, s, {"introduced", "block_introduced_codes"})
    <3> HIDE DEF n
    <3> QED BY <1>1 DEF SameBut, IsState, StateFields
  <2>2. UndoEntry(s, e) = u
    BY <1>6
  <2>3. /\ Truncate(s.introduced, n - 1) = SubSeq(s.introduced, 1, n - 1)
        /\ Front(s.block_introduced_codes) = SubSeq(s.block_introduced_codes, 1, n - 1)
    BY <1>4 DEF Truncate, Front
  <2> HIDE DEF u, e, n
  <2> QED BY <2>1, <2>2, <2>3
<1> QED BY <1>1, <1>3, <1>7 DEF SameBut, StateFields

LEMMA FunctionUpdate ==
  ASSUME NEW S, NEW T, NEW f \in [S -> T], NEW x \in S, NEW v \in T
  PROVE  [f EXCEPT ![x] = v] \in [S -> T]
  OBVIOUS

\* Types survive the undoing of an entry.
LEMMA UndoneTyped ==
  ASSUME NEW s, Undoable(s)
  PROVE  Typed(UndoLast(s)) /\ UndoLast(s).clock = s.clock
<1> DEFINE e == s.journal[Len(s.journal)]
           r == UndoLast(s)
           n == Len(s.journal)
<1>1. Typed(s) /\ n \in Nat /\ e \in Entries(s.clock)
  BY JournalFacts DEF Undoable
<1>2. r.journal = SubSeq(s.journal, 1, n - 1) /\ r.journal \in Seq(Entries(s.clock))
  <2>1. r.journal = SubSeq(s.journal, 1, n - 1)
    BY UndoLastIs
  <2>2. s.journal \in Seq(Entries(s.clock)) /\ n - 1 \in 0 .. Len(s.journal)
    BY <1>1 DEF Typed, ListsTyped, Undoable
  <2> QED BY <2>1, <2>2
<1>3. CASE e.kind = "account"
  <2>1. e \in AccountEntry(s.clock)
    BY SMTT(30), <1>1, <1>3, EntryFacts
  <2>2. /\ SameBut(r, s, {"journal", "accounts", "observed_accounts"})
        /\ r.accounts = [s.accounts EXCEPT ![e.id] =
                    [s.accounts[e.id] EXCEPT
                        !.current = e.current, !.code_ref = e.code_ref, !.flags = e.flags,
                        !.journaled_scope = e.journaled_scope,
                        !.storage_incarnation = e.storage_incarnation,
                        !.wiped_transaction = e.wiped_transaction,
                        !.dirty_transaction = e.dirty_transaction]]
        /\ r.observed_accounts = [s.observed_accounts EXCEPT ![e.id] =
                    [s.observed_accounts[e.id] EXCEPT !.effect = e.effect]]
    BY <1>3, UndoneAccount
  <2>3. r.clock = s.clock
    BY <2>2 DEF SameBut, StateFields
  <2> HIDE DEF e, r
  <2>4. r.accounts \in [Accounts -> AccountRowOf(s.clock)]
    <3>1. s.accounts \in [Accounts -> AccountRowOf(s.clock)] /\ e.id \in Accounts
      BY <1>1, <2>1 DEF Typed, RowsTyped, AccountEntry
    <3>2. s.accounts[e.id] \in AccountRowOf(s.clock)
      BY <3>1
    <3>3. [s.accounts[e.id] EXCEPT
                        !.current = e.current, !.code_ref = e.code_ref, !.flags = e.flags,
                        !.journaled_scope = e.journaled_scope,
                        !.storage_incarnation = e.storage_incarnation,
                        !.wiped_transaction = e.wiped_transaction,
                        !.dirty_transaction = e.dirty_transaction] \in AccountRowOf(s.clock)
      BY <3>2, <2>1 DEF AccountRowOf, AccountEntry
    <3> QED BY <2>2, <3>1, <3>3, FunctionUpdate
  <2>5. r.observed_accounts \in [Accounts -> AccountObservation]
    BY SMTT(30), <1>1, <2>1, <2>2 DEF Typed, ObservationsTyped, AccountObservation, AccountEntry
  <2> QED BY ZenonT(40), <1>1, <1>2, <2>2, <2>3, <2>4, <2>5
          DEF SameBut, StateFields, Typed, RowsTyped, ObservationsTyped, ListsTyped,
              ControlTyped, r
<1>4. CASE e.kind = "storage"
  <2>1. e \in StorageEntry(s.clock)
    BY <1>1, <1>4, EntryFacts
  <2>2. /\ SameBut(r, s, {"journal", "storage", "observed_storage"})
        /\ r.storage = [s.storage EXCEPT ![e.id] =
                    [s.storage[e.id] EXCEPT
                        !.current = e.current, !.block_dirty = e.block_dirty,
                        !.journaled_scope = e.journaled_scope,
                        !.storage_incarnation = e.storage_incarnation,
                        !.undo_transaction = e.undo_transaction,
                        !.undo_index = e.undo_index]]
        /\ r.observed_storage = [s.observed_storage EXCEPT ![e.id] =
                    [s.observed_storage[e.id] EXCEPT !.written = e.written]]
    BY <1>4, UndoneStorage
  <2>3. r.clock = s.clock
    BY <2>2 DEF SameBut, StateFields
  <2> HIDE DEF e, r
  <2>4. r.storage \in [Slots -> StorageRowOf(s.clock)]
    <3>1. s.storage \in [Slots -> StorageRowOf(s.clock)] /\ e.id \in Slots
      BY <1>1, <2>1 DEF Typed, RowsTyped, StorageEntry
    <3>2. s.storage[e.id] \in StorageRowOf(s.clock)
      BY <3>1
    <3>3. [s.storage[e.id] EXCEPT
                        !.current = e.current, !.block_dirty = e.block_dirty,
                        !.journaled_scope = e.journaled_scope,
                        !.storage_incarnation = e.storage_incarnation,
                        !.undo_transaction = e.undo_transaction,
                        !.undo_index = e.undo_index] \in StorageRowOf(s.clock)
      BY <3>2, <2>1 DEF StorageRowOf, StorageEntry
    <3> QED BY <2>2, <3>1, <3>3, FunctionUpdate
  <2>5. /\ DOMAIN r.observed_storage = Slots
        /\ \A k \in Slots : /\ DOMAIN r.observed_storage[k] = {"original", "written"}
                            /\ r.observed_storage[k].written \in BOOLEAN
    BY <1>1, <2>1, <2>2 DEF Typed, ObservationsTyped, StorageEntry
  <2> QED BY <1>1, <1>2, <2>2, <2>3, <2>4, <2>5
          DEF SameBut, StateFields, Typed, RowsTyped, ObservationsTyped, ListsTyped,
              ControlTyped, r
<1>5. CASE e.kind \in {"account_storage_dirty", "warm_account", "deferred_warm_account",
                       "warm_storage", "deferred_warm_storage"}
  <2>1. SameBut(r, s, {"journal", "accounts", "storage", "deferred_accounts",
                       "deferred_storage"})
    BY <1>5, UndoneMark
  <2>2. r.accounts \in [Accounts -> AccountRowOf(s.clock)]
    <3>1. r.accounts =
                   IF e.kind = "account_storage_dirty"
                   THEN [s.accounts EXCEPT ![e.id] =
                            [s.accounts[e.id] EXCEPT !.flags = @ \ {"storage_dirty"}]]
                   ELSE IF e.kind = "warm_account"
                   THEN [s.accounts EXCEPT ![e.id] =
                            [s.accounts[e.id] EXCEPT !.warm_transaction = None]]
                   ELSE s.accounts
      BY <1>5, UndoneMark
    <3>2. s.accounts \in [Accounts -> AccountRowOf(s.clock)] /\ s.clock \in Nat
      BY <1>1 DEF Typed, RowsTyped
    <3>3. e.kind \in {"account_storage_dirty", "warm_account"} => e.id \in Accounts
      BY <1>1, EntryFacts DEF AccountMark
    <3> HIDE DEF e, r
    <3>4. ASSUME NEW row \in AccountRowOf(s.clock)
          PROVE  /\ [row EXCEPT !.flags = @ \ {"storage_dirty"}] \in AccountRowOf(s.clock)
                 /\ [row EXCEPT !.warm_transaction = None] \in AccountRowOf(s.clock)
      BY <3>2 DEF AccountRowOf, None
    <3>5. CASE e.kind = "account_storage_dirty"
      <4> DEFINE row == [s.accounts[e.id] EXCEPT !.flags = @ \ {"storage_dirty"}]
      <4>1. r.accounts = [s.accounts EXCEPT ![e.id] = row] /\ e.id \in Accounts
        BY <3>1, <3>3, <3>5
      <4>2. row \in AccountRowOf(s.clock)
        BY <3>2, <3>4, <4>1
      <4> HIDE DEF row
      <4> QED BY <3>2, <4>1, <4>2, FunctionUpdate
    <3>6. CASE e.kind = "warm_account"
      <4> DEFINE row == [s.accounts[e.id] EXCEPT !.warm_transaction = None]
      <4>1. r.accounts = [s.accounts EXCEPT ![e.id] = row] /\ e.id \in Accounts
        BY <3>1, <3>3, <3>6
      <4>2. row \in AccountRowOf(s.clock)
        BY <3>2, <3>4, <4>1
      <4> HIDE DEF row
      <4> QED BY <3>2, <4>1, <4>2, FunctionUpdate
    <3> QED BY SMTT(30), <3>1, <3>2, <3>5, <3>6
  <2>3. r.storage \in [Slots -> StorageRowOf(s.clock)]
    <3>1. r.storage = IF e.kind = "warm_storage"
                      THEN [s.storage EXCEPT ![e.id] =
                               [s.storage[e.id] EXCEPT !.warm_transaction = None]]
                      ELSE s.storage
      BY <1>5, UndoneMark
    <3>2. s.storage \in [Slots -> StorageRowOf(s.clock)] /\ s.clock \in Nat
      BY <1>1 DEF Typed, RowsTyped
    <3>3. e.kind = "warm_storage" => e.id \in Slots
      BY <1>1, EntryFacts DEF StorageMark
    <3> HIDE DEF e, r
    <3>4. ASSUME NEW row \in StorageRowOf(s.clock)
          PROVE  [row EXCEPT !.warm_transaction = None] \in StorageRowOf(s.clock)
      BY <3>2 DEF StorageRowOf, None
    <3> QED BY <3>1, <3>2, <3>3, <3>4, FunctionUpdate
  <2> HIDE DEF e, r
  <2> QED BY <1>1, <1>2, <2>1, <2>2, <2>3
          DEF SameBut, StateFields, Typed, RowsTyped, ObservationsTyped, ListsTyped,
              ControlTyped, r
<1>6. CASE e.kind = "transient_storage"
  <2>1. e \in TransientEntry
    BY <1>1, <1>6, EntryFacts
  <2>2. /\ SameBut(r, s, {"journal", "transient"})
        /\ r.transient = [s.transient EXCEPT ![e.id] = e.previous]
    BY <1>6, UndoneTransient
  <2> HIDE DEF e, r
  <2>3. r.transient \in [TransientKeys -> Nat]
    BY <1>1, <2>1, <2>2 DEF Typed, ControlTyped, TransientEntry
  <2> QED BY <1>1, <1>2, <2>2, <2>3
          DEF SameBut, StateFields, Typed, RowsTyped, ObservationsTyped, ListsTyped,
              ControlTyped, r
<1>7. CASE e.kind = "introduced_code"
  <2> DEFINE m == Len(s.introduced)
  <2>1. /\ SameBut(r, s, {"journal", "introduced", "block_introduced_codes"})
        /\ m - 1 \in Nat
        /\ r.introduced = SubSeq(s.introduced, 1, m - 1)
        /\ r.block_introduced_codes = SubSeq(s.block_introduced_codes, 1, m - 1)
    BY <1>7, UndoneIntroduction
  <2>2. s.introduced \in Seq(Nat) /\ s.block_introduced_codes \in Seq(Nat)
           /\ Len(s.block_introduced_codes) = m /\ m \in Nat
    BY <1>1 DEF Typed, ListsTyped, Undoable, CodesListed
  <2>3. r.introduced \in Seq(Nat) /\ r.block_introduced_codes \in Seq(Nat)
    <3>1. ASSUME NEW q \in Seq(Nat), Len(q) = m PROVE SubSeq(q, 1, m - 1) \in Seq(Nat)
      BY <3>1, <2>1
    <3> QED BY <2>1, <2>2, <3>1
  <2> HIDE DEF e, r
  <2> QED BY <1>1, <1>2, <2>1, <2>3
          DEF SameBut, StateFields, Typed, RowsTyped, ObservationsTyped, ListsTyped,
              ControlTyped, r
<1>8. e.kind \in {"account", "storage", "transient_storage", "account_storage_dirty",
                  "warm_account", "deferred_warm_account", "warm_storage",
                  "deferred_warm_storage", "introduced_code"}
  BY <1>1, EntryFacts
<1> QED BY <1>3, <1>4, <1>5, <1>6, <1>7, <1>8

LEMMA ViewOf ==
  ASSUME NEW s
  PROVE  /\ \A a : View(s, <<"account", a>>) = AccountView(s, a)
         /\ \A k : View(s, <<"storage", k>>) = StorageView(s, k)
         /\ \A a : View(s, <<"account_storage_dirty", a>>)
                      = Bit("storage_dirty" \in s.accounts[a].flags)
         /\ \A a : View(s, <<"warm_account", a>>)
                      = Bit(s.accounts[a].warm_transaction = s.transaction)
         /\ \A k : View(s, <<"warm_storage", k>>)
                      = Bit(s.storage[k].warm_transaction = s.transaction)
         /\ \A a : View(s, <<"deferred_warm_account", a>>) = Bit(a \in s.deferred_accounts)
         /\ \A k : View(s, <<"deferred_warm_storage", k>>) = Bit(k \in s.deferred_storage)
  BY DEF View

\* The families of objects.
LEMMA ObjectCases ==
  ASSUME NEW o \in Objects
  PROVE  \/ \E a \in Accounts : o = <<"account", a>>
         \/ \E a \in Accounts : o = <<"account_storage_dirty", a>>
         \/ \E a \in Accounts : o = <<"warm_account", a>>
         \/ \E a \in Accounts : o = <<"deferred_warm_account", a>>
         \/ \E k \in Slots : o = <<"storage", k>>
         \/ \E k \in Slots : o = <<"warm_storage", k>>
         \/ \E k \in Slots : o = <<"deferred_warm_storage", k>>
  BY DEF Objects

\* The view of an account is made of these parts.
LEMMA AccountViewSame ==
  ASSUME NEW s, NEW r, NEW a,
         \A f \in {"current", "code_ref", "journaled_scope", "storage_incarnation",
                   "wiped_transaction", "dirty_transaction"} :
            r.accounts[a][f] = s.accounts[a][f],
         r.accounts[a].flags \ {"storage_dirty"} = s.accounts[a].flags \ {"storage_dirty"},
         r.observed_accounts[a].effect = s.observed_accounts[a].effect
  PROVE  AccountView(r, a) = AccountView(s, a)
  BY DEF AccountView

LEMMA StorageViewSame ==
  ASSUME NEW s, NEW r, NEW k,
         \A f \in {"current", "block_dirty", "journaled_scope", "storage_incarnation",
                   "undo_transaction", "undo_index"} :
            r.storage[k][f] = s.storage[k][f],
         r.observed_storage[k].written = s.observed_storage[k].written
  PROVE  StorageView(r, k) = StorageView(s, k)
  BY DEF StorageView

\* Rows that keep their warm stamps and flags keep those objects.
SameWarmth(s, r) ==
    /\ r.transaction = s.transaction
    /\ \A a \in Accounts : r.accounts[a].warm_transaction = s.accounts[a].warm_transaction
    /\ \A k \in Slots : r.storage[k].warm_transaction = s.storage[k].warm_transaction
    /\ r.deferred_accounts = s.deferred_accounts
    /\ r.deferred_storage = s.deferred_storage

WarmKinds == {"warm_account", "warm_storage", "deferred_warm_account",
              "deferred_warm_storage"}

LEMMA WarmthKept ==
  ASSUME NEW s, NEW r, SameWarmth(s, r), NEW o \in Objects, o[1] \in WarmKinds
  PROVE  View(r, o) = View(s, o)
  BY ObjectCases, ViewOf DEF SameWarmth, WarmKinds

LEMMA UndoneViews ==
  ASSUME NEW s, Undoable(s)
  PROVE  UndoneJournal(s, UndoLast(s))
<1> DEFINE e == s.journal[Len(s.journal)]
           r == UndoLast(s)
<1>1. Typed(s) /\ Len(s.journal) \in Nat /\ e \in Entries(s.clock)
  BY JournalFacts DEF Undoable
<1>2. /\ s.accounts \in [Accounts -> AccountRowOf(s.clock)]
      /\ s.storage \in [Slots -> StorageRowOf(s.clock)]
      /\ s.observed_accounts \in [Accounts -> AccountObservation]
      /\ DOMAIN s.observed_storage = Slots
      /\ \A k \in Slots : DOMAIN s.observed_storage[k] = {"original", "written"}
      /\ s.transaction \in Nat /\ s.transaction # None
  BY <1>1 DEF Typed, RowsTyped, ObservationsTyped, ControlTyped, Undoable, None
<1> SUFFICES
      /\ \A o \in Objects :
            View(r, o) = IF o \in Records(e) THEN Recorded(e, o) ELSE View(s, o)
      /\ r.introduced = IF e.kind = "introduced_code"
                        THEN SubSeq(s.introduced, 1, Len(s.introduced) - 1)
                        ELSE s.introduced
  BY UndoLastIs DEF UndoneJournal
<1>4. CASE e.kind = "account"
  <2>1. e.id \in Accounts
    BY <1>1, <1>4, EntryFacts DEF AccountEntry
  <2>2. /\ SameBut(r, s, {"journal", "accounts", "observed_accounts"})
        /\ r.accounts = [s.accounts EXCEPT ![e.id] =
                    [s.accounts[e.id] EXCEPT
                        !.current = e.current, !.code_ref = e.code_ref, !.flags = e.flags,
                        !.journaled_scope = e.journaled_scope,
                        !.storage_incarnation = e.storage_incarnation,
                        !.wiped_transaction = e.wiped_transaction,
                        !.dirty_transaction = e.dirty_transaction]]
        /\ r.observed_accounts = [s.observed_accounts EXCEPT ![e.id] =
                    [s.observed_accounts[e.id] EXCEPT !.effect = e.effect]]
    BY <1>4, UndoneAccount
  <2> HIDE DEF e, r
  <2>3. /\ AccountView(r, e.id) = RecordedAccount(e)
        /\ r.accounts[e.id].flags = e.flags
        /\ r.accounts[e.id].warm_transaction = s.accounts[e.id].warm_transaction
    <3>1. s.accounts[e.id] \in AccountRowOf(s.clock)
            /\ s.observed_accounts[e.id] \in AccountObservation
      BY <1>2, <2>1
    <3>2. /\ r.accounts[e.id] = [s.accounts[e.id] EXCEPT
                        !.current = e.current, !.code_ref = e.code_ref, !.flags = e.flags,
                        !.journaled_scope = e.journaled_scope,
                        !.storage_incarnation = e.storage_incarnation,
                        !.wiped_transaction = e.wiped_transaction,
                        !.dirty_transaction = e.dirty_transaction]
          /\ r.observed_accounts[e.id] = [s.observed_accounts[e.id] EXCEPT !.effect = e.effect]
      BY <1>2, <2>1, <2>2
    <3> QED BY <3>1, <3>2 DEF AccountRowOf, AccountObservation, AccountView, RecordedAccount
  <2>4. ASSUME NEW a \in Accounts, a # e.id
        PROVE  AccountView(r, a) = AccountView(s, a) /\ r.accounts[a] = s.accounts[a]
    BY <1>2, <2>1, <2>2, <2>4 DEF AccountView
  <2>5. /\ \A k \in Slots : StorageView(r, k) = StorageView(s, k)
        /\ SameWarmth(s, r)
        /\ r.introduced = s.introduced
    BY <2>2, <2>3, <2>4 DEF SameBut, StateFields, StorageView, SameWarmth
  <2>6. Records(e) = {<<"account", e.id>>, <<"account_storage_dirty", e.id>>}
    BY <1>4 DEF Records
  <2>7. ASSUME NEW o \in Objects
        PROVE  View(r, o) = IF o \in Records(e) THEN Recorded(e, o) ELSE View(s, o)
    <3>1. CASE o[1] \in WarmKinds
      BY <2>5, <2>6, <3>1, WarmthKept DEF WarmKinds
    <3>2. CASE \E a \in Accounts : o = <<"account", a>>
      BY <2>3, <2>4, <2>6, <3>2, ViewOf DEF Recorded
    <3>3. CASE \E a \in Accounts : o = <<"account_storage_dirty", a>>
      BY <1>4, <2>3, <2>4, <2>6, <3>3, ViewOf DEF Recorded
    <3>4. CASE \E k \in Slots : o = <<"storage", k>>
      BY <2>5, <2>6, <3>4, ViewOf
    <3> QED BY <3>1, <3>2, <3>3, <3>4, ObjectCases DEF WarmKinds
  <2> QED BY <1>4, <2>5, <2>7
<1>5. CASE e.kind = "storage"
  <2>1. e.id \in Slots
    BY <1>1, <1>5, EntryFacts DEF StorageEntry
  <2>2. /\ SameBut(r, s, {"journal", "storage", "observed_storage"})
        /\ r.storage = [s.storage EXCEPT ![e.id] =
                    [s.storage[e.id] EXCEPT
                        !.current = e.current, !.block_dirty = e.block_dirty,
                        !.journaled_scope = e.journaled_scope,
                        !.storage_incarnation = e.storage_incarnation,
                        !.undo_transaction = e.undo_transaction,
                        !.undo_index = e.undo_index]]
        /\ r.observed_storage = [s.observed_storage EXCEPT ![e.id] =
                    [s.observed_storage[e.id] EXCEPT !.written = e.written]]
    BY <1>5, UndoneStorage
  <2> HIDE DEF e, r
  <2>3. /\ StorageView(r, e.id) = RecordedStorage(e)
        /\ r.storage[e.id].warm_transaction = s.storage[e.id].warm_transaction
    <3>1. s.storage[e.id] \in StorageRowOf(s.clock)
            /\ DOMAIN s.observed_storage[e.id] = {"original", "written"}
      BY <1>2, <2>1
    <3>2. /\ r.storage[e.id] = [s.storage[e.id] EXCEPT
                        !.current = e.current, !.block_dirty = e.block_dirty,
                        !.journaled_scope = e.journaled_scope,
                        !.storage_incarnation = e.storage_incarnation,
                        !.undo_transaction = e.undo_transaction,
                        !.undo_index = e.undo_index]
          /\ r.observed_storage[e.id] = [s.observed_storage[e.id] EXCEPT !.written = e.written]
      BY <1>2, <2>1, <2>2
    <3> QED BY <3>1, <3>2 DEF StorageRowOf, StorageView, RecordedStorage
  <2>4. ASSUME NEW k \in Slots, k # e.id
        PROVE  StorageView(r, k) = StorageView(s, k) /\ r.storage[k] = s.storage[k]
    BY <1>2, <2>1, <2>2, <2>4 DEF StorageView
  <2>5. /\ \A a \in Accounts : AccountView(r, a) = AccountView(s, a)
        /\ SameWarmth(s, r)
        /\ r.introduced = s.introduced /\ r.accounts = s.accounts
    BY <2>2, <2>3, <2>4 DEF SameBut, StateFields, AccountView, SameWarmth
  <2>6. Records(e) = {<<"storage", e.id>>}
    BY <1>5 DEF Records
  <2>7. ASSUME NEW o \in Objects
        PROVE  View(r, o) = IF o \in Records(e) THEN Recorded(e, o) ELSE View(s, o)
    <3>1. CASE o[1] \in WarmKinds
      BY <2>5, <2>6, <3>1, WarmthKept DEF WarmKinds
    <3>2. CASE \E a \in Accounts : o = <<"account", a>>
      BY <2>5, <2>6, <3>2, ViewOf
    <3>3. CASE \E a \in Accounts : o = <<"account_storage_dirty", a>>
      BY <2>5, <2>6, <3>3, ViewOf
    <3>4. CASE \E k \in Slots : o = <<"storage", k>>
      BY <2>3, <2>4, <2>6, <3>4, ViewOf DEF Recorded
    <3> QED BY <3>1, <3>2, <3>3, <3>4, ObjectCases DEF WarmKinds
  <2> QED BY <1>5, <2>5, <2>7
<1>6. CASE e.kind \in {"account_storage_dirty", "warm_account", "deferred_warm_account",
                       "warm_storage", "deferred_warm_storage"}
  <2>1. /\ SameBut(r, s, {"journal", "accounts", "storage", "deferred_accounts",
                       "deferred_storage"})
        /\ r.accounts =
                   IF e.kind = "account_storage_dirty"
                   THEN [s.accounts EXCEPT ![e.id] =
                            [s.accounts[e.id] EXCEPT !.flags = @ \ {"storage_dirty"}]]
                   ELSE IF e.kind = "warm_account"
                   THEN [s.accounts EXCEPT ![e.id] =
                            [s.accounts[e.id] EXCEPT !.warm_transaction = None]]
                   ELSE s.accounts
        /\ r.storage = IF e.kind = "warm_storage"
                       THEN [s.storage EXCEPT ![e.id] =
                                [s.storage[e.id] EXCEPT !.warm_transaction = None]]
                       ELSE s.storage
        /\ r.deferred_accounts =
                   IF e.kind = "deferred_warm_account"
                   THEN s.deferred_accounts \ {e.id} ELSE s.deferred_accounts
        /\ r.deferred_storage =
                   IF e.kind = "deferred_warm_storage"
                   THEN s.deferred_storage \ {e.id} ELSE s.deferred_storage
    BY ZenonT(40), <1>6, UndoneMark
  <2>2. r.observed_accounts = s.observed_accounts /\ r.observed_storage = s.observed_storage
           /\ r.introduced = s.introduced /\ r.transaction = s.transaction
    BY <2>1 DEF SameBut, StateFields
  <2> HIDE DEF e, r
  <2>3. ASSUME NEW a \in Accounts
        PROVE  /\ AccountView(r, a) = AccountView(s, a)
               /\ "storage_dirty" \in r.accounts[a].flags
                     <=> /\ "storage_dirty" \in s.accounts[a].flags
                         /\ ~(e.kind = "account_storage_dirty" /\ a = e.id)
               /\ r.accounts[a].warm_transaction =
                     IF e.kind = "warm_account" /\ a = e.id THEN None
                     ELSE s.accounts[a].warm_transaction
    <3>1. s.accounts[a] \in AccountRowOf(s.clock)
      BY <1>2
    <3>2. r.accounts[a] =
              IF e.kind = "account_storage_dirty" /\ a = e.id
              THEN [s.accounts[a] EXCEPT !.flags = @ \ {"storage_dirty"}]
              ELSE IF e.kind = "warm_account" /\ a = e.id
              THEN [s.accounts[a] EXCEPT !.warm_transaction = None]
              ELSE s.accounts[a]
      BY ZenonT(40), <1>2, <2>1
    <3>3. /\ \A f \in {"current", "code_ref", "journaled_scope", "storage_incarnation",
                   "wiped_transaction", "dirty_transaction"} :
            r.accounts[a][f] = s.accounts[a][f]
          /\ r.accounts[a].flags \ {"storage_dirty"} = s.accounts[a].flags \ {"storage_dirty"}
      BY <3>1, <3>2 DEF AccountRowOf
    <3>4. AccountView(r, a) = AccountView(s, a)
      BY <2>2, <3>3, AccountViewSame
    <3> QED BY <3>1, <3>2, <3>4 DEF AccountRowOf
  <2>4. ASSUME NEW k \in Slots
        PROVE  /\ StorageView(r, k) = StorageView(s, k)
               /\ r.storage[k].warm_transaction =
                     IF e.kind = "warm_storage" /\ k = e.id THEN None
                     ELSE s.storage[k].warm_transaction
    <3>1. s.storage[k] \in StorageRowOf(s.clock)
      BY <1>2
    <3>2. r.storage[k] = IF e.kind = "warm_storage" /\ k = e.id
                         THEN [s.storage[k] EXCEPT !.warm_transaction = None]
                         ELSE s.storage[k]
      BY <1>2, <2>1
    <3>3. \A f \in {"current", "block_dirty", "journaled_scope", "storage_incarnation",
                   "undo_transaction", "undo_index"} :
            r.storage[k][f] = s.storage[k][f]
      BY <3>1, <3>2 DEF StorageRowOf
    <3>4. StorageView(r, k) = StorageView(s, k)
      BY <2>2, <3>3, StorageViewSame
    <3> QED BY <3>1, <3>2, <3>4 DEF StorageRowOf
  <2>5. Records(e) = {<<e.kind, e.id>>}
    BY <1>6 DEF Records
  <2>6. e.kind # "account"
    BY <1>6
  <2>7. ASSUME NEW o \in Objects
        PROVE  View(r, o) = IF o \in Records(e) THEN Recorded(e, o) ELSE View(s, o)
    <3>1. CASE \E a \in Accounts : o = <<"account", a>>
      BY <1>6, <2>3, <2>5, <3>1, ViewOf
    <3>2. CASE \E k \in Slots : o = <<"storage", k>>
      BY <1>6, <2>4, <2>5, <3>2, ViewOf
    <3>3. CASE \E a \in Accounts : o = <<"account_storage_dirty", a>>
      BY <2>3, <2>5, <2>6, <3>3, ViewOf DEF Recorded, Bit
    <3>4. CASE \E a \in Accounts : o = <<"warm_account", a>>
      BY <1>2, <2>2, <2>3, <2>5, <2>6, <3>4, ViewOf DEF Recorded, Bit
    <3>5. CASE \E k \in Slots : o = <<"warm_storage", k>>
      BY <1>2, <2>2, <2>4, <2>5, <2>6, <3>5, ViewOf DEF Recorded, Bit
    <3>6. CASE \E a \in Accounts : o = <<"deferred_warm_account", a>>
      BY <2>1, <2>5, <2>6, <3>6, ViewOf DEF Recorded, Bit
    <3>7. CASE \E k \in Slots : o = <<"deferred_warm_storage", k>>
      BY <2>1, <2>5, <2>6, <3>7, ViewOf DEF Recorded, Bit
    <3> QED BY <3>1, <3>2, <3>3, <3>4, <3>5, <3>6, <3>7, ObjectCases
  <2> QED BY SMTT(30), <1>6, <2>2, <2>7
<1>7. CASE e.kind \in {"transient_storage", "introduced_code"}
  <2>1. SameBut(r, s, {"journal", "transient", "introduced", "block_introduced_codes"})
    BY <1>7, UndoneTransient, UndoneIntroduction DEF SameBut
  <2>2. r.introduced = IF e.kind = "introduced_code"
                       THEN SubSeq(s.introduced, 1, Len(s.introduced) - 1)
                       ELSE s.introduced
    BY ZenonT(40), <1>7, UndoneTransient, UndoneIntroduction DEF SameBut, StateFields
  <2> HIDE DEF e, r
  <2>3. /\ \A a \in Accounts : AccountView(r, a) = AccountView(s, a)
        /\ \A k \in Slots : StorageView(r, k) = StorageView(s, k)
        /\ SameWarmth(s, r)
        /\ r.accounts = s.accounts
    BY <2>1 DEF SameBut, StateFields, AccountView, StorageView, SameWarmth
  <2>4. Records(e) = {}
    BY <1>7 DEF Records
  <2>5. ASSUME NEW o \in Objects PROVE View(r, o) = View(s, o)
    BY <2>3, WarmthKept, ViewOf, ObjectCases DEF WarmKinds
  <2> QED BY <2>2, <2>4, <2>5
<1>9. e.kind \in {"account", "storage", "transient_storage", "account_storage_dirty",
                  "warm_account", "deferred_warm_account", "warm_storage",
                  "deferred_warm_storage", "introduced_code"}
  BY <1>1, EntryFacts
<1> QED BY <1>4, <1>5, <1>6, <1>7, <1>9

-----------------------------------------------------------------------------
(* Undoing to an earlier state                                             *)

UndoFields ==
    {"journal", "accounts", "observed_accounts", "storage", "observed_storage",
     "deferred_accounts", "deferred_storage", "transient", "introduced",
     "block_introduced_codes"}

\* What no entry restores.
UndoKeeps(s, r) ==
    /\ SameBut(r, s, UndoFields)
    /\ \A a \in Accounts :
          /\ r.accounts[a].lifecycle_transaction = s.accounts[a].lifecycle_transaction
          /\ r.accounts[a].observation = s.accounts[a].observation
          /\ r.observed_accounts[a].original = s.observed_accounts[a].original
          /\ r.observed_accounts[a].original_storage_incarnation
                = s.observed_accounts[a].original_storage_incarnation
    /\ \A k \in Slots :
          /\ r.storage[k].observation = s.storage[k].observation
          /\ r.storage[k].execution_original = s.storage[k].execution_original
          /\ r.storage[k].execution_original_root = s.storage[k].execution_original_root
          /\ r.observed_storage[k].original = s.observed_storage[k].original

LEMMA UndoKeepsTransitive ==
  ASSUME NEW s, NEW r, NEW t, UndoKeeps(s, r), UndoKeeps(r, t)
  PROVE  UndoKeeps(s, t)
  BY DEF UndoKeeps, SameBut

LEMMA UndoKeepsReflexive ==
  ASSUME NEW s, IsState(s)
  PROVE  UndoKeeps(s, s)
  BY DEF UndoKeeps, SameBut

LEMMA UndoLastKeeps ==
  ASSUME NEW s, Undoable(s)
  PROVE  UndoKeeps(s, UndoLast(s))
<1> DEFINE e == s.journal[Len(s.journal)]
           r == UndoLast(s)
<1>1. Typed(s) /\ e \in Entries(s.clock)
  BY JournalFacts DEF Undoable
<1>2. /\ s.accounts \in [Accounts -> AccountRowOf(s.clock)]
      /\ s.storage \in [Slots -> StorageRowOf(s.clock)]
      /\ s.observed_accounts \in [Accounts -> AccountObservation]
      /\ DOMAIN s.observed_storage = Slots
      /\ \A k \in Slots : DOMAIN s.observed_storage[k] = {"original", "written"}
  BY <1>1 DEF Typed, RowsTyped, ObservationsTyped
<1>3. CASE e.kind = "account"
  <2>1. e.id \in Accounts
    BY <1>1, <1>3, EntryFacts DEF AccountEntry
  <2>2. /\ SameBut(r, s, {"journal", "accounts", "observed_accounts"})
        /\ r.accounts = [s.accounts EXCEPT ![e.id] =
                    [s.accounts[e.id] EXCEPT
                        !.current = e.current, !.code_ref = e.code_ref, !.flags = e.flags,
                        !.journaled_scope = e.journaled_scope,
                        !.storage_incarnation = e.storage_incarnation,
                        !.wiped_transaction = e.wiped_transaction,
                        !.dirty_transaction = e.dirty_transaction]]
        /\ r.observed_accounts = [s.observed_accounts EXCEPT ![e.id] =
                    [s.observed_accounts[e.id] EXCEPT !.effect = e.effect]]
    BY <1>3, UndoneAccount
  <2> HIDE DEF e, r
  <2>3. ASSUME NEW a \in Accounts
        PROVE  /\ r.accounts[a].lifecycle_transaction = s.accounts[a].lifecycle_transaction
               /\ r.accounts[a].observation = s.accounts[a].observation
               /\ r.observed_accounts[a].original = s.observed_accounts[a].original
               /\ r.observed_accounts[a].original_storage_incarnation
                     = s.observed_accounts[a].original_storage_incarnation
    <3>1. s.accounts[a] \in AccountRowOf(s.clock) /\ s.observed_accounts[a] \in AccountObservation
      BY <1>2
    <3>2. CASE a = e.id
      <4>1. /\ r.accounts[a] = [s.accounts[a] EXCEPT
                        !.current = e.current, !.code_ref = e.code_ref, !.flags = e.flags,
                        !.journaled_scope = e.journaled_scope,
                        !.storage_incarnation = e.storage_incarnation,
                        !.wiped_transaction = e.wiped_transaction,
                        !.dirty_transaction = e.dirty_transaction]
            /\ r.observed_accounts[a] = [s.observed_accounts[a] EXCEPT !.effect = e.effect]
        BY <1>2, <2>2, <3>2
      <4> QED BY <3>1, <4>1 DEF AccountRowOf, AccountObservation
    <3>3. CASE a # e.id
      BY <1>2, <2>1, <2>2, <3>3
    <3> QED BY <3>2, <3>3
  <2> QED BY <2>2, <2>3 DEF UndoKeeps, SameBut, StateFields, UndoFields, r
<1>4. CASE e.kind = "storage"
  <2>1. e.id \in Slots
    BY <1>1, <1>4, EntryFacts DEF StorageEntry
  <2>2. /\ SameBut(r, s, {"journal", "storage", "observed_storage"})
        /\ r.storage = [s.storage EXCEPT ![e.id] =
                    [s.storage[e.id] EXCEPT
                        !.current = e.current, !.block_dirty = e.block_dirty,
                        !.journaled_scope = e.journaled_scope,
                        !.storage_incarnation = e.storage_incarnation,
                        !.undo_transaction = e.undo_transaction,
                        !.undo_index = e.undo_index]]
        /\ r.observed_storage = [s.observed_storage EXCEPT ![e.id] =
                    [s.observed_storage[e.id] EXCEPT !.written = e.written]]
    BY <1>4, UndoneStorage
  <2> HIDE DEF e, r
  <2>3. ASSUME NEW k \in Slots
        PROVE  /\ r.storage[k].observation = s.storage[k].observation
               /\ r.storage[k].execution_original = s.storage[k].execution_original
               /\ r.storage[k].execution_original_root = s.storage[k].execution_original_root
               /\ r.observed_storage[k].original = s.observed_storage[k].original
    <3>1. /\ s.storage[k] \in StorageRowOf(s.clock)
          /\ DOMAIN s.observed_storage[k] = {"original", "written"}
      BY <1>2
    <3>2. CASE k = e.id
      <4>1. /\ r.storage[k] = [s.storage[k] EXCEPT
                        !.current = e.current, !.block_dirty = e.block_dirty,
                        !.journaled_scope = e.journaled_scope,
                        !.storage_incarnation = e.storage_incarnation,
                        !.undo_transaction = e.undo_transaction,
                        !.undo_index = e.undo_index]
            /\ r.observed_storage[k] = [s.observed_storage[k] EXCEPT !.written = e.written]
        BY <1>2, <2>2, <3>2
      <4> QED BY <3>1, <4>1 DEF StorageRowOf
    <3>3. CASE k # e.id
      BY <1>2, <2>1, <2>2, <3>3
    <3> QED BY <3>2, <3>3
  <2> QED BY <2>2, <2>3 DEF UndoKeeps, SameBut, StateFields, UndoFields, r
<1>5. CASE e.kind \in {"account_storage_dirty", "warm_account", "deferred_warm_account",
                       "warm_storage", "deferred_warm_storage"}
  <2>1. /\ SameBut(r, s, {"journal", "accounts", "storage", "deferred_accounts",
                       "deferred_storage"})
        /\ r.accounts =
                   IF e.kind = "account_storage_dirty"
                   THEN [s.accounts EXCEPT ![e.id] =
                            [s.accounts[e.id] EXCEPT !.flags = @ \ {"storage_dirty"}]]
                   ELSE IF e.kind = "warm_account"
                   THEN [s.accounts EXCEPT ![e.id] =
                            [s.accounts[e.id] EXCEPT !.warm_transaction = None]]
                   ELSE s.accounts
        /\ r.storage = IF e.kind = "warm_storage"
                       THEN [s.storage EXCEPT ![e.id] =
                                [s.storage[e.id] EXCEPT !.warm_transaction = None]]
                       ELSE s.storage
    BY <1>5, UndoneMark
  <2> HIDE DEF e, r
  <2>3. ASSUME NEW a \in Accounts
        PROVE  /\ r.accounts[a].lifecycle_transaction = s.accounts[a].lifecycle_transaction
               /\ r.accounts[a].observation = s.accounts[a].observation
    <3>1. s.accounts[a] \in AccountRowOf(s.clock)
      BY <1>2
    <3>2. r.accounts[a] \in {s.accounts[a],
                [s.accounts[a] EXCEPT !.flags = @ \ {"storage_dirty"}],
                [s.accounts[a] EXCEPT !.warm_transaction = None]}
      BY ZenonT(40), <1>2, <2>1
    <3> QED BY <3>1, <3>2 DEF AccountRowOf
  <2>4. ASSUME NEW k \in Slots
        PROVE  /\ r.storage[k].observation = s.storage[k].observation
               /\ r.storage[k].execution_original = s.storage[k].execution_original
               /\ r.storage[k].execution_original_root = s.storage[k].execution_original_root
    <3>1. s.storage[k] \in StorageRowOf(s.clock)
      BY <1>2
    <3>2. r.storage[k] \in {s.storage[k], [s.storage[k] EXCEPT !.warm_transaction = None]}
      BY <1>2, <2>1
    <3> QED BY <3>1, <3>2 DEF StorageRowOf
  <2> QED BY SMTT(30), <2>1, <2>3, <2>4 DEF UndoKeeps, SameBut, StateFields, UndoFields, r
<1>6. CASE e.kind \in {"transient_storage", "introduced_code"}
  <2>1. SameBut(r, s, {"journal", "transient", "introduced", "block_introduced_codes"})
    BY <1>6, UndoneTransient, UndoneIntroduction DEF SameBut
  <2> QED BY <2>1 DEF UndoKeeps, SameBut, StateFields, UndoFields
<1>7. e.kind \in {"account", "storage", "transient_storage", "account_storage_dirty",
                  "warm_account", "deferred_warm_account", "warm_storage",
                  "deferred_warm_storage", "introduced_code"}
  BY <1>1, EntryFacts
<1> QED BY <1>3, <1>4, <1>5, <1>6, <1>7

LEMMA UndoLastListed ==
  ASSUME NEW s, Undoable(s)
  PROVE  CodesListed(UndoLast(s))
<1> DEFINE e == s.journal[Len(s.journal)]
           r == UndoLast(s)
           n == Len(s.introduced)
<1>1. Typed(s) /\ CodesListed(s) /\ s.introduced \in Seq(Nat) /\ n \in Nat
         /\ s.block_introduced_codes \in Seq(Nat)
  BY ListFacts DEF Undoable, Typed, ListsTyped
<1>2. CASE e.kind = "introduced_code"
  <2>1. /\ n - 1 \in Nat
        /\ r.introduced = SubSeq(s.introduced, 1, n - 1)
        /\ r.block_introduced_codes = SubSeq(s.block_introduced_codes, 1, n - 1)
    BY <1>2, UndoneIntroduction
  <2>2. n - 1 \in 0 .. n /\ Len(s.block_introduced_codes) = n
    BY <1>1, <2>1 DEF CodesListed
  <2>3. /\ Len(r.introduced) = n - 1 /\ Len(r.block_introduced_codes) = n - 1
        /\ \A i \in 1 .. n - 1 : r.block_introduced_codes[i] = s.block_introduced_codes[i]
    BY <1>1, <2>1, <2>2, Shortened
  <2>4. \A i \in 1 .. n - 1 : s.block_introduced_codes[i] = i
    BY <1>1 DEF CodesListed
  <2> HIDE DEF r, n
  <2> QED BY <2>3, <2>4 DEF CodesListed, r
<1>3. CASE e.kind # "introduced_code"
  <2>1. e \in Entries(s.clock)
    BY <1>1, JournalFacts DEF Undoable
  <2>2. e.kind \in {"account", "storage", "transient_storage", "account_storage_dirty",
                  "warm_account", "deferred_warm_account", "warm_storage",
                  "deferred_warm_storage"}
    BY <1>3, <2>1, EntryFacts
  <2>3. SameBut(r, s, UndoFields \ {"introduced", "block_introduced_codes"})
    <3>1. CASE e.kind = "account"
      <4>1. SameBut(r, s, {"journal", "accounts", "observed_accounts"})
        BY <3>1, UndoneAccount
      <4> QED BY SMTT(30), <4>1 DEF SameBut, StateFields, UndoFields
    <3>2. CASE e.kind = "storage"
      <4>1. SameBut(r, s, {"journal", "storage", "observed_storage"})
        BY <3>2, UndoneStorage
      <4> QED BY SMTT(30), <4>1 DEF SameBut, StateFields, UndoFields
    <3>3. CASE e.kind = "transient_storage"
      <4>1. SameBut(r, s, {"journal", "transient"})
        BY <3>3, UndoneTransient
      <4> QED BY <4>1 DEF SameBut, StateFields, UndoFields
    <3>4. CASE e.kind \in {"account_storage_dirty", "warm_account", "deferred_warm_account",
                           "warm_storage", "deferred_warm_storage"}
      <4>1. SameBut(r, s, {"journal", "accounts", "storage", "deferred_accounts",
                           "deferred_storage"})
        BY <3>4, UndoneMark
      <4> QED BY <4>1 DEF SameBut, StateFields, UndoFields
    <3> QED BY <2>2, <3>1, <3>2, <3>3, <3>4
  <2>4. r.introduced = s.introduced /\ r.block_introduced_codes = s.block_introduced_codes
    BY <2>3 DEF SameBut, StateFields, UndoFields
  <2> QED BY <1>1, <2>4 DEF CodesListed
<1> QED BY <1>2, <1>3

\* Transient storage: reverting to length len gives it the values w.
TransientLogged(q, t, lo, hi) ==
    \E i \in lo + 1 .. hi : q[i].kind = "transient_storage" /\ q[i].id = t

TransientEntries(s, len, w) ==
    \A j \in len + 1 .. Len(s.journal) :
        s.journal[j].kind = "transient_storage" =>
            \/ s.journal[j].previous = w[s.journal[j].id]
            \/ TransientLogged(s.journal, s.journal[j].id, len, j - 1)

TransientNow(s, len, w) ==
    \A t \in TransientKeys :
        s.transient[t] = w[t] \/ TransientLogged(s.journal, t, len, Len(s.journal))

LEMMA TransientLoggedSame ==
  ASSUME NEW q, NEW p, NEW t, NEW lo \in Nat, NEW hi \in Nat,
         \A i \in 1 .. hi : p[i] = q[i],
         TransientLogged(q, t, lo, hi)
  PROVE  TransientLogged(p, t, lo, hi)
<1>1. PICK i \in lo + 1 .. hi : q[i].kind = "transient_storage" /\ q[i].id = t
  BY DEF TransientLogged
<1>2. p[i] = q[i]
  BY <1>1
<1> QED BY <1>1, <1>2 DEF TransientLogged

LEMMA UndoneTransients ==
  ASSUME NEW s, Undoable(s), NEW len \in 0 .. Len(s.journal) - 1, NEW w,
         TransientEntries(s, len, w)
  PROVE  /\ TransientEntries(UndoLast(s), len, w)
         /\ TransientNow(s, len, w) => TransientNow(UndoLast(s), len, w)
<1> DEFINE r == UndoLast(s)
           n == Len(s.journal)
           e == s.journal[n]
<1>1. /\ n \in Nat /\ len \in Nat /\ n - 1 \in Nat /\ n \in len + 1 .. n
      /\ Typed(s) /\ s.journal \in Seq(Entries(s.clock)) /\ e \in Entries(s.clock)
  BY JournalFacts, ListFacts DEF Undoable
<1>2. Len(r.journal) = n - 1 /\ \A i \in 1 .. n - 1 : r.journal[i] = s.journal[i]
  <2>1. r.journal = SubSeq(s.journal, 1, n - 1) /\ n - 1 \in 0 .. Len(s.journal)
    BY <1>1, UndoLastIs
  <2> QED BY <1>1, <2>1, Shortened
<1>3. r.transient = IF e.kind = "transient_storage"
                    THEN [s.transient EXCEPT ![e.id] = e.previous] ELSE s.transient
  <2>1. CASE e.kind = "transient_storage"
    BY <2>1, UndoneTransient
  <2>2. CASE e.kind # "transient_storage"
    <3>1. e.kind \in {"account", "storage", "account_storage_dirty",
                  "warm_account", "deferred_warm_account", "warm_storage",
                  "deferred_warm_storage", "introduced_code"}
      BY <1>1, <2>2, EntryFacts
    <3>2. CASE e.kind = "account"
      <4>1. SameBut(r, s, {"journal", "accounts", "observed_accounts"})
        BY <3>2, UndoneAccount
      <4> QED BY SMTT(30), <2>2, <4>1 DEF SameBut, StateFields
    <3>3. CASE e.kind = "storage"
      <4>1. SameBut(r, s, {"journal", "storage", "observed_storage"})
        BY <3>3, UndoneStorage
      <4> QED BY SMTT(30), <2>2, <4>1 DEF SameBut, StateFields
    <3>4. CASE e.kind \in {"account_storage_dirty", "warm_account", "deferred_warm_account",
                           "warm_storage", "deferred_warm_storage"}
      <4>1. SameBut(r, s, {"journal", "accounts", "storage", "deferred_accounts",
                           "deferred_storage"})
        BY <3>4, UndoneMark
      <4> QED BY SMTT(30), <2>2, <4>1 DEF SameBut, StateFields
    <3>5. CASE e.kind = "introduced_code"
      <4>1. SameBut(r, s, {"journal", "introduced", "block_introduced_codes"})
        BY <3>5, UndoneIntroduction
      <4> QED BY <2>2, <4>1 DEF SameBut, StateFields
    <3> QED BY <3>1, <3>2, <3>3, <3>4, <3>5
  <2> QED BY <2>1, <2>2
<1> HIDE DEF r
<1>4. TransientEntries(r, len, w)
  <2> SUFFICES ASSUME NEW j \in len + 1 .. Len(r.journal),
                      r.journal[j].kind = "transient_storage"
               PROVE  \/ r.journal[j].previous = w[r.journal[j].id]
                      \/ TransientLogged(r.journal, r.journal[j].id, len, j - 1)
    BY DEF TransientEntries
  <2>1. r.journal[j] = s.journal[j] /\ j \in len + 1 .. n /\ j - 1 \in Nat
    BY <1>1, <1>2
  <2>2. \/ s.journal[j].previous = w[s.journal[j].id]
        \/ TransientLogged(s.journal, s.journal[j].id, len, j - 1)
    BY <2>1 DEF TransientEntries
  <2>3. \A i \in 1 .. j - 1 : r.journal[i] = s.journal[i]
    BY <1>1, <1>2
  <2> QED BY <1>1, <2>1, <2>2, <2>3, TransientLoggedSame
<1>5. ASSUME TransientNow(s, len, w), NEW t \in TransientKeys
      PROVE  r.transient[t] = w[t] \/ TransientLogged(r.journal, t, len, Len(r.journal))
  <2>1. TransientLogged(s.journal, t, len, n - 1)
           => TransientLogged(r.journal, t, len, Len(r.journal))
    BY SMTT(30), <1>1, <1>2, TransientLoggedSame
  <2>2. s.transient \in [TransientKeys -> Nat]
    BY <1>1 DEF Typed, ControlTyped
  <2>3. CASE e.kind = "transient_storage" /\ e.id = t
    <3>1. e.previous = w[t] \/ TransientLogged(s.journal, t, len, n - 1)
      BY <1>1, <2>3 DEF TransientEntries
    <3>2. r.transient[t] = e.previous
      BY <1>3, <2>2, <2>3
    <3> QED BY <2>1, <3>1, <3>2
  <2>4. CASE ~(e.kind = "transient_storage" /\ e.id = t)
    <3>1. r.transient[t] = s.transient[t]
      BY <1>3, <2>2, <2>4
    <3>2. TransientLogged(s.journal, t, len, n) => TransientLogged(s.journal, t, len, n - 1)
      <4>1. \A i \in len + 1 .. n : i \in len + 1 .. n - 1 \/ i = n
        BY <1>1
      <4> QED BY <4>1, <2>4 DEF TransientLogged
    <3> QED BY <1>5, <2>1, <3>1, <3>2 DEF TransientNow
  <2> QED BY <2>3, <2>4
<1> QED BY <1>4, <1>5 DEF TransientNow, r

\* The state reached when n entries have been popped.
Undone(s, r, n) ==
    /\ Typed(r)
    /\ CodesListed(r)
    /\ UndoKeeps(s, r)
    /\ Len(r.journal) = Len(s.journal) - n
    /\ \A i \in 1 .. Len(s.journal) - n : r.journal[i] = s.journal[i]
    /\ \A b : Returns(s, b) /\ Len(b.journal) <= Len(s.journal) - n => Returns(r, b)
    /\ \A len \in 0 .. Len(s.journal) - n : \A w :
          TransientEntries(s, len, w) =>
             /\ TransientEntries(r, len, w)
             /\ TransientNow(s, len, w) => TransientNow(r, len, w)

LEMMA CanUndo ==
  ASSUME NEW s, Typed(s), CodesListed(s), s.transaction_active, NEW b, Returns(s, b),
         Len(b.journal) < Len(s.journal)
  PROVE  Undoable(s)
<1>1. /\ Len(s.journal) \in Nat /\ Len(b.journal) \in Nat /\ Len(s.journal) > 0
      /\ Len(b.introduced) \in Nat /\ Len(s.introduced) \in Nat
  BY ListFacts DEF Returns
<1> SUFFICES ASSUME s.journal[Len(s.journal)].kind = "introduced_code"
             PROVE  Len(s.introduced) > 0
  BY <1>1 DEF Undoable
<1> DEFINE I == Introductions(s.journal, Len(b.journal))
<1>2. IsFiniteSet(I) /\ Cardinality(I) \in Nat
  BY <1>1, IntroductionsFinite
<1>3. Len(s.journal) \in I
  BY <1>1 DEF Introductions
<1>4. Cardinality(I) # 0
  <2> HIDE DEF I
  <2> QED BY <1>2, <1>3, FS_EmptySet
<1>5. Len(s.introduced) = Len(b.introduced) + Cardinality(I)
  BY DEF Returns, CodesReturn
<1> HIDE DEF I
<1> QED BY <1>1, <1>2, <1>4, <1>5

LEMMA UndoneStep ==
  ASSUME NEW s, Typed(s), s.transaction_active, NEW b, Returns(s, b),
         NEW n \in 0 .. Len(s.journal) - Len(b.journal) - 1, NEW r, Undone(s, r, n)
  PROVE  Undone(s, UndoLast(r), n + 1)
<1> DEFINE t == UndoLast(r)
<1>0. /\ Typed(b) /\ Typed(r) /\ Len(r.journal) = Len(s.journal) - n
      /\ Len(s.journal) \in Nat /\ Len(b.journal) \in Nat /\ Len(r.journal) \in Nat
      /\ s.journal \in Seq(Entries(s.clock)) /\ r.journal \in Seq(Entries(r.clock))
  BY ListFacts DEF Returns, Undone
<1>1. /\ Len(s.journal) \in Nat /\ Len(b.journal) \in Nat /\ n \in Nat
      /\ Len(b.journal) <= Len(s.journal) - (n + 1)
      /\ Len(r.journal) = Len(s.journal) - n
      /\ Len(b.journal) < Len(r.journal)
      /\ s.journal \in Seq(Entries(s.clock)) /\ Typed(r) /\ Len(r.journal) \in Nat
      /\ r.journal \in Seq(Entries(r.clock))
  <2>1. ASSUME NEW x \in Nat, NEW y \in Nat, NEW z \in Nat, z = x - n, n \in 0 .. x - y - 1
        PROVE  n \in Nat /\ y <= x - (n + 1) /\ y < z
    BY <2>1
  <2> QED BY <1>0, <2>1
<1>2. r.transaction_active
  BY DEF Undone, UndoKeeps, SameBut, UndoFields, StateFields
<1>3. Returns(r, b)
  BY <1>1 DEF Undone
<1>4. Undoable(r)
  BY <1>1, <1>2, <1>3, CanUndo DEF Undone
<1>5. Typed(t) /\ CodesListed(t) /\ UndoneJournal(r, t)
  BY <1>4, UndoneTyped, UndoLastListed, UndoneViews
<1>6. UndoKeeps(s, t)
  BY <1>4, UndoLastKeeps, UndoKeepsTransitive DEF Undone
<1>7. /\ Len(t.journal) = Len(s.journal) - (n + 1)
      /\ \A i \in 1 .. Len(s.journal) - (n + 1) : t.journal[i] = s.journal[i]
  <2>1. t.journal = SubSeq(r.journal, 1, Len(r.journal) - 1)
           /\ Len(r.journal) - 1 \in 0 .. Len(r.journal)
    BY <1>1, <1>5 DEF UndoneJournal
  <2>2. /\ Len(t.journal) = Len(r.journal) - 1
        /\ \A i \in 1 .. Len(r.journal) - 1 : t.journal[i] = r.journal[i]
    BY <1>1, <2>1, Shortened
  <2>3. Len(r.journal) - 1 = Len(s.journal) - (n + 1)
    BY <1>1
  <2>4. \A i \in 1 .. Len(s.journal) - (n + 1) : r.journal[i] = s.journal[i]
    BY <1>1 DEF Undone
  <2> QED BY <2>2, <2>3, <2>4
<1>8. ASSUME NEW c, Returns(s, c), Len(c.journal) <= Len(s.journal) - (n + 1)
      PROVE  Returns(t, c)
  <2>1. Len(c.journal) \in Nat
    BY <1>8, ListFacts DEF Returns
  <2>2. Len(c.journal) <= Len(s.journal) - n /\ Len(c.journal) < Len(r.journal)
    BY <1>1, <1>8, <2>1
  <2>3. Returns(r, c)
    BY <1>8, <2>2 DEF Undone
  <2> QED BY <1>1, <1>5, <2>2, <2>3, UndoneReturns
<1>9. ASSUME NEW len \in 0 .. Len(s.journal) - (n + 1), NEW w, TransientEntries(s, len, w)
      PROVE  /\ TransientEntries(t, len, w)
             /\ TransientNow(s, len, w) => TransientNow(t, len, w)
  <2>1. len \in 0 .. Len(s.journal) - n /\ len \in 0 .. Len(r.journal) - 1
    BY <1>1
  <2>2. /\ TransientEntries(r, len, w)
        /\ TransientNow(s, len, w) => TransientNow(r, len, w)
    BY <1>9, <2>1 DEF Undone
  <2> QED BY <1>4, <2>1, <2>2, UndoneTransients
<1> HIDE DEF t
<1> QED BY <1>5, <1>6, <1>7, <1>8, <1>9 DEF Undone, t

LEMMA RevertUndoes ==
  ASSUME NEW s, Typed(s), CodesListed(s), s.transaction_active, NEW b, Returns(s, b)
  PROVE  Undone(s, RevertJournalTo(s, Len(b.journal)), Len(s.journal) - Len(b.journal))
<1> DEFINE n == Len(s.journal) - Len(b.journal)
<1>1. /\ Len(s.journal) \in Nat /\ Len(b.journal) \in Nat /\ n \in Nat
  BY ListFacts DEF Returns, Extension
<1>2. PICK f : Undoing(f, s, n) /\ RevertJournalTo(s, Len(b.journal)) = f[n]
  BY <1>1, RevertIsUndoing
<1> DEFINE G == {i \in 0 .. n : Undone(s, f[i], i)}
<1> HIDE DEF n
<1>3. f[0] = s /\ \A i \in 0 .. n - 1 : f[i + 1] = UndoLast(f[i])
  BY <1>1, <1>2 DEF Undoing
<1>4. 0 \in G
  <2>1. Undone(s, s, 0)
    BY <1>1, UndoKeepsReflexive DEF Undone, Typed
  <2> QED BY <1>1, <1>3, <2>1 DEF n
<1>5. ASSUME NEW i \in 0 .. n - 1, i \in G PROVE i + 1 \in G
  <2>1. Undone(s, f[i], i) /\ i \in 0 .. Len(s.journal) - Len(b.journal) - 1
    BY <1>5 DEF n
  <2>2. Undone(s, UndoLast(f[i]), i + 1)
    BY <2>1, UndoneStep
  <2> QED BY <1>1, <1>3, <2>2
<1>6. n \in G
  <2> HIDE DEF G
  <2> QED BY <1>1, <1>4, <1>5, UpTo
<1> QED BY <1>2, <1>6 DEF n

\* Reverting to the journal of b gives back b.
LEMMA RevertGivesBack ==
  ASSUME NEW s, Typed(s), CodesListed(s), s.transaction_active, NEW b, Returns(s, b)
  PROVE  LET r == RevertJournalTo(s, Len(b.journal))
         IN  /\ Typed(r) /\ CodesListed(r) /\ UndoKeeps(s, r)
             /\ r.journal = b.journal
             /\ r.introduced = b.introduced
             /\ \A o \in Objects : View(r, o) = View(b, o)
             /\ \A c : Returns(s, c) /\ Len(c.journal) <= Len(b.journal) => Returns(r, c)
             /\ \A len \in 0 .. Len(b.journal) : \A w :
                   TransientEntries(s, len, w) =>
                      /\ TransientEntries(r, len, w)
                      /\ TransientNow(s, len, w) => TransientNow(r, len, w)
<1> DEFINE r == RevertJournalTo(s, Len(b.journal))
           n == Len(s.journal) - Len(b.journal)
<1>1. Undone(s, r, n)
  BY RevertUndoes
<1> HIDE DEF r
<1>2. /\ Len(s.journal) \in Nat /\ Len(b.journal) \in Nat /\ Len(s.journal) - n = Len(b.journal)
      /\ b.journal \in Seq(Entries(b.clock)) /\ r.journal \in Seq(Entries(r.clock))
      /\ r.introduced \in Seq(Nat) /\ b.introduced \in Seq(Nat)
  BY <1>1, ListFacts DEF Returns, Undone
<1>3. Returns(r, b)
  BY <1>1, <1>2 DEF Undone
<1>4. Len(r.journal) = Len(b.journal)
  BY <1>1, <1>2 DEF Undone
<1>5. r.journal = b.journal
  BY SMTT(30), <1>2, <1>3, <1>4 DEF Returns, Extension
<1>6. \A o \in Objects : View(r, o) = View(b, o)
  <2>1. \A o : ~Logged(r.journal, o, Len(b.journal), Len(r.journal))
    BY <1>2, <1>4 DEF Logged
  <2> QED BY <1>3, <2>1 DEF Returns, ViewsReturn
<1>7. r.introduced = b.introduced
  <2>1. Introductions(r.journal, Len(b.journal)) = {}
    BY <1>2, <1>4 DEF Introductions
  <2>2. Cardinality(Introductions(r.journal, Len(b.journal))) = 0
    BY <2>1, FS_EmptySet
  <2>3. Len(r.introduced) = Len(b.introduced)
    BY <1>2, <1>3, <2>2 DEF Returns, CodesReturn
  <2>4. \A i \in 1 .. Len(b.introduced) : r.introduced[i] = b.introduced[i]
    BY <1>3 DEF Returns, CodesReturn
  <2>5. r.introduced \in Seq(Nat) /\ b.introduced \in Seq(Nat)
    BY <1>2
  <2> QED BY <2>3, <2>4, <2>5, SameSequence
<1>8. \A len \in 0 .. Len(b.journal) : len \in 0 .. Len(s.journal) - n
  BY <1>2
<1> HIDE DEF n
<1>9. /\ \A c : Returns(s, c) /\ Len(c.journal) <= Len(b.journal) => Returns(r, c)
      /\ \A len \in 0 .. Len(b.journal) : \A w :
                   TransientEntries(s, len, w) =>
                      /\ TransientEntries(r, len, w)
                      /\ TransientNow(s, len, w) => TransientNow(r, len, w)
  BY <1>1, <1>2, <1>8 DEF Undone
<1>10. Typed(r) /\ CodesListed(r) /\ UndoKeeps(s, r)
  BY <1>1 DEF Undone
<1> QED BY <1>5, <1>6, <1>7, <1>9, <1>10 DEF r

-----------------------------------------------------------------------------
(* The steps of an attempt's operations                                    *)

LifecycleBits == {"created", "selfdestructed"}

InLifecycle(s, a) ==
    \E i \in 1 .. Len(s.lifecycle_accounts) : s.lifecycle_accounts[i] = a

\* What was not observed in this transaction has no effects, and an entry that
\* records some is of something observed.
Unobserved(s) ==
    /\ \A a \in Accounts : s.accounts[a].observation # s.transaction
                              => s.observed_accounts[a].effect = {}
    /\ \A k \in Slots : s.storage[k].observation # s.transaction
                           => ~s.observed_storage[k].written

\* A row that is created or selfdestructed is listed.
LifecycleListed(s) ==
    /\ \A a \in Accounts : s.accounts[a].lifecycle_transaction = s.transaction
                              => InLifecycle(s, a)
    /\ \A a \in Accounts : s.accounts[a].flags \cap LifecycleBits # {} => InLifecycle(s, a)

\* The reference produces the code.
CodeBound(s, ref, code) ==
    \/ ref = EmptyRef /\ code = EmptyCode
    \/ /\ ref = MissingRef
       /\ code \in s.parent_code \/ \E b \in Accounts : ParentAccount[b].code = code
    \/ ref \in 1 .. Len(s.introduced) /\ s.introduced[ref] = code

CodesBound(s) ==
    \A a \in Accounts : CodeBound(s, s.accounts[a].code_ref, s.accounts[a].current.code)

\* A row that was not admitted is the reader's.
ParentRow(s, a) ==
    /\ s.accounts[a].current = ParentAccount[a]
    /\ s.accounts[a].flags = {}
    /\ s.accounts[a].storage_incarnation = 0

ParentSlot(s, k) ==
    /\ s.storage[k].current = ParentStorage[k]
    /\ s.storage[k].block_dirty = FALSE
    /\ s.storage[k].storage_incarnation = 0

Pristine(s) ==
    /\ \A a \in Accounts : ~IsAdmitted(s, a) => ParentRow(s, a)
    /\ \A k \in Slots : ~IsStorageAdmitted(s, k) => ParentSlot(s, k)

Sound(s) ==
    /\ Typed(s)
    /\ s.transaction_active
    /\ CodesListed(s)
    /\ Unobserved(s)
    /\ LifecycleListed(s)
    /\ CodesBound(s)
    /\ Pristine(s)

PrefixOf(q, p) == Len(q) <= Len(p) /\ \A i \in 1 .. Len(q) : p[i] = q[i]

ListFields ==
    {"account_ids", "storage_ids", "block_changed_accounts", "block_storage_wipes",
     "dirty_storage", "changed_accounts", "changed_storage",
     "transaction_storage_wipes", "lifecycle_accounts"}

\* What only grows, but for the reverts that cut it.
Grows(s, r) ==
    /\ \A f \in ListFields : PrefixOf(s[f], r[f])
    /\ s.parent_code \subseteq r.parent_code
    /\ \A a \in Accounts : s.accounts[a].observation = s.transaction
                              => r.accounts[a].observation = s.transaction
    /\ \A k \in Slots : s.storage[k].observation = s.transaction
                           => r.storage[k].observation = s.transaction

StepFields ==
    ListFields \cup
    {"accounts", "storage", "observed_accounts", "observed_storage", "parent_code",
     "introduced", "block_introduced_codes", "journal", "deferred_accounts",
     "deferred_storage"}

\* No entry for transient storage.
Quiet(s, r) ==
    Len(r.journal) = Len(s.journal) + 1
        => r.journal[Len(r.journal)].kind # "transient_storage"

Keeps(s, r) ==
    /\ SameBut(r, s, StepFields)
    /\ Sound(r)
    /\ JournalsFirst(s, r)
    /\ Quiet(s, r)
    /\ Grows(s, r)

LEMMA PrefixReflexive ==
  ASSUME NEW q, Len(q) \in Nat
  PROVE  PrefixOf(q, q)
  BY DEF PrefixOf

LEMMA PrefixTransitive ==
  ASSUME NEW q, NEW p, NEW x, Len(q) \in Nat, Len(p) \in Nat, Len(x) \in Nat,
         PrefixOf(q, p), PrefixOf(p, x)
  PROVE  PrefixOf(q, x)
  BY DEF PrefixOf

LEMMA AppendIfFacts ==
  ASSUME NEW S, NEW q \in Seq(S), NEW c, NEW x \in S
  PROVE  /\ AppendIf(q, c, x) \in Seq(S)
         /\ PrefixOf(q, AppendIf(q, c, x))
         /\ Len(AppendIf(q, c, x)) \in {Len(q), Len(q) + 1}
<1>1. CASE c
  BY <1>1 DEF AppendIf, PrefixOf
<1>2. CASE ~c
  BY <1>2 DEF AppendIf, PrefixOf
<1> QED BY <1>1, <1>2

LEMMA TypedLists ==
  ASSUME NEW s, ListsTyped(s), NEW f \in ListFields
  PROVE  Len(s[f]) \in Nat
  BY DEF ListsTyped, ListFields

\* Lists that a step leaves alone.
LEMMA SameGrows ==
  ASSUME NEW s, Typed(s), NEW r, r.transaction = s.transaction,
         \A f \in ListFields : r[f] = s[f] \/ PrefixOf(s[f], r[f]),
         s.parent_code \subseteq r.parent_code,
         \A a \in Accounts : \/ r.accounts[a].observation = s.accounts[a].observation
                             \/ r.accounts[a].observation = s.transaction,
         \A k \in Slots : \/ r.storage[k].observation = s.storage[k].observation
                          \/ r.storage[k].observation = s.transaction
  PROVE  Grows(s, r)
<1>1. ASSUME NEW f \in ListFields PROVE PrefixOf(s[f], r[f])
  BY TypedLists, PrefixReflexive DEF Typed
<1> QED BY <1>1 DEF Grows

\* A step on one account changes the views of its two objects only.
LEMMA OneAccount ==
  ASSUME NEW s, NEW r, NEW a,
         r.transaction = s.transaction, r.storage = s.storage,
         r.observed_storage = s.observed_storage,
         r.deferred_accounts = s.deferred_accounts, r.deferred_storage = s.deferred_storage,
         \A b \in Accounts : b # a => /\ r.accounts[b] = s.accounts[b]
                                     /\ r.observed_accounts[b] = s.observed_accounts[b],
         r.accounts[a].warm_transaction = s.accounts[a].warm_transaction
  PROVE  \A o \in Objects : \/ o \in {<<"account", a>>, <<"account_storage_dirty", a>>}
                            \/ View(r, o) = View(s, o)
<1> SUFFICES ASSUME NEW o \in Objects, o # <<"account", a>>,
                    o # <<"account_storage_dirty", a>>
             PROVE  View(r, o) = View(s, o)
  OBVIOUS
<1>1. \A b \in Accounts : r.accounts[b].warm_transaction = s.accounts[b].warm_transaction
  <2>1. ASSUME NEW b \in Accounts
        PROVE  r.accounts[b].warm_transaction = s.accounts[b].warm_transaction
    <3>1. CASE b = a
      BY <3>1
    <3>2. CASE b # a
      BY <3>2
    <3> QED BY <3>1, <3>2
  <2> QED BY <2>1
<1>2. SameWarmth(s, r)
  BY <1>1 DEF SameWarmth
<1>3. CASE o[1] \in WarmKinds
  BY <1>2, <1>3, WarmthKept
<1>4. CASE \E b \in Accounts : o = <<"account", b>>
  <2>1. PICK b \in Accounts : o = <<"account", b>>
    BY <1>4
  <2>2. b # a
    BY <2>1
  <2>3. r.accounts[b] = s.accounts[b] /\ r.observed_accounts[b] = s.observed_accounts[b]
    BY <2>2
  <2>4. AccountView(r, b) = AccountView(s, b)
    BY <2>3 DEF AccountView
  <2> QED BY <2>1, <2>4, ViewOf
<1>5. CASE \E b \in Accounts : o = <<"account_storage_dirty", b>>
  <2>1. PICK b \in Accounts : o = <<"account_storage_dirty", b>>
    BY <1>5
  <2>2. b # a
    BY <2>1
  <2> QED BY <2>1, <2>2, ViewOf
<1>6. CASE \E k \in Slots : o = <<"storage", k>>
  <2>1. \A k \in Slots : StorageView(r, k) = StorageView(s, k)
    BY DEF StorageView
  <2> QED BY <1>6, <2>1, ViewOf
<1> QED BY <1>3, <1>4, <1>5, <1>6, ObjectCases DEF WarmKinds

SlotOnly(s, r, k) ==
    /\ r.transaction = s.transaction /\ r.accounts = s.accounts
    /\ r.observed_accounts = s.observed_accounts
    /\ r.deferred_accounts = s.deferred_accounts
    /\ r.deferred_storage = s.deferred_storage
    /\ \A x \in Slots : x # k => /\ r.storage[x] = s.storage[x]
                                /\ r.observed_storage[x] = s.observed_storage[x]
    /\ r.storage[k].warm_transaction = s.storage[k].warm_transaction

LEMMA OneSlot ==
  ASSUME NEW s, NEW r, NEW k, SlotOnly(s, r, k)
  PROVE  \A o \in Objects : o = <<"storage", k>> \/ View(r, o) = View(s, o)
<1> SUFFICES ASSUME NEW o \in Objects, o # <<"storage", k>>
             PROVE  View(r, o) = View(s, o)
  OBVIOUS
<1> USE DEF SlotOnly
<1>1. \A x \in Slots : r.storage[x].warm_transaction = s.storage[x].warm_transaction
  <2>1. ASSUME NEW x \in Slots
        PROVE  r.storage[x].warm_transaction = s.storage[x].warm_transaction
    <3>1. CASE x = k
      BY <3>1
    <3>2. CASE x # k
      BY <3>2
    <3> QED BY <3>1, <3>2
  <2> QED BY <2>1
<1>2. SameWarmth(s, r)
  BY <1>1 DEF SameWarmth
<1>3. CASE o[1] \in WarmKinds
  BY <1>2, <1>3, WarmthKept
<1>4. CASE \E b \in Accounts : o = <<"account", b>>
  <2>1. \A b \in Accounts : AccountView(r, b) = AccountView(s, b)
    BY DEF AccountView
  <2> QED BY <1>4, <2>1, ViewOf
<1>5. CASE \E b \in Accounts : o = <<"account_storage_dirty", b>>
  BY <1>5, ViewOf
<1>6. CASE \E x \in Slots : o = <<"storage", x>>
  <2>1. PICK x \in Slots : o = <<"storage", x>>
    BY <1>6
  <2>2. x # k
    BY <2>1
  <2>3. r.storage[x] = s.storage[x] /\ r.observed_storage[x] = s.observed_storage[x]
    BY <2>2
  <2>4. StorageView(r, x) = StorageView(s, x)
    BY <2>3 DEF StorageView
  <2> QED BY <2>1, <2>4, ViewOf
<1> QED BY <1>3, <1>4, <1>5, <1>6, ObjectCases DEF WarmKinds

LEMMA SameViews ==
  ASSUME NEW s, NEW r, r.transaction = s.transaction,
         r.accounts = s.accounts, r.storage = s.storage,
         r.observed_accounts = s.observed_accounts, r.observed_storage = s.observed_storage,
         r.deferred_accounts = s.deferred_accounts, r.deferred_storage = s.deferred_storage,
         NEW o \in Objects
  PROVE  View(r, o) = View(s, o)
  BY DEF View, AccountView, StorageView

\* A list that grows still names an account.
LEMMA StillListed ==
  ASSUME NEW s, NEW r, Len(s.lifecycle_accounts) \in Nat, Len(r.lifecycle_accounts) \in Nat,
         PrefixOf(s.lifecycle_accounts, r.lifecycle_accounts), NEW a, InLifecycle(s, a)
  PROVE  InLifecycle(r, a)
  BY DEF PrefixOf, InLifecycle

LEMMA StillBound ==
  ASSUME NEW s, NEW r, Len(s.introduced) \in Nat, Len(r.introduced) \in Nat,
         PrefixOf(s.introduced, r.introduced), s.parent_code \subseteq r.parent_code,
         NEW ref, NEW code, CodeBound(s, ref, code)
  PROVE  CodeBound(r, ref, code)
<1>1. CASE ref \in 1 .. Len(s.introduced) /\ s.introduced[ref] = code
  BY <1>1 DEF PrefixOf, CodeBound
<1>2. CASE ~(ref \in 1 .. Len(s.introduced) /\ s.introduced[ref] = code)
  BY <1>2 DEF CodeBound
<1> QED BY <1>1, <1>2

LEMMA StillAdmitted ==
  ASSUME NEW s, NEW r, ListsTyped(s), ListsTyped(r),
         PrefixOf(s.account_ids, r.account_ids), PrefixOf(s.storage_ids, r.storage_ids)
  PROVE  /\ \A a : IsAdmitted(s, a) => IsAdmitted(r, a)
         /\ \A k : IsStorageAdmitted(s, k) => IsStorageAdmitted(r, k)
<1>1. ASSUME NEW S, NEW q \in Seq(S), NEW p \in Seq(S), PrefixOf(q, p), NEW x, Contains(q, x)
      PROVE  Contains(p, x)
  <2>1. PICK i \in 1 .. Len(q) : q[i] = x
    BY <1>1 DEF Contains
  <2>2. p[i] = x /\ i \in 1 .. Len(p)
    BY <1>1, <2>1 DEF PrefixOf
  <2> QED BY <2>2 DEF Contains
<1> QED BY <1>1 DEF ListsTyped, IsAdmitted, IsStorageAdmitted

LEMMA LifecycleLength ==
  ASSUME NEW s, Typed(s)
  PROVE  Len(s.lifecycle_accounts) \in Nat
  BY DEF Typed, ListsTyped

AccountFields ==
    {"accounts", "observed_accounts", "journal"}
        \cup (ListFields \ {"account_ids", "storage_ids"})

\* A step that changes the row and the observation of one account.
AccountStep(s, r, a, row, obs) ==
    /\ IsAdmitted(s, a)
    /\ row \in AccountRowOf(s.clock) /\ obs \in AccountObservation
    /\ SameBut(r, s, AccountFields)
    /\ r.accounts = [s.accounts EXCEPT ![a] = row]
    /\ r.observed_accounts = [s.observed_accounts EXCEPT ![a] = obs]
    /\ ListsTyped(r)
    /\ \A f \in ListFields : PrefixOf(s[f], r[f])
    /\ row.observation \in {s.accounts[a].observation, s.transaction}
    /\ row.warm_transaction = s.accounts[a].warm_transaction
    /\ row.observation # s.transaction => obs.effect = {}
    /\ row.lifecycle_transaction = s.transaction => InLifecycle(r, a)
    /\ row.flags \cap LifecycleBits # {} => InLifecycle(r, a)
    /\ CodeBound(s, row.code_ref, row.current.code)
    /\ Extends(s, r) /\ Quiet(s, r)
    /\ \/ View(r, <<"account", a>>) = View(s, <<"account", a>>)
       \/ Appends(s, r, <<"account", a>>)
       \/ s.accounts[a].journaled_scope = s.scope
    /\ \/ View(r, <<"account_storage_dirty", a>>) = View(s, <<"account_storage_dirty", a>>)
       \/ Appends(s, r, <<"account_storage_dirty", a>>)
       \/ s.accounts[a].journaled_scope = s.scope

LEMMA AccountStepKeeps ==
  ASSUME NEW s, Sound(s), NEW r, NEW a \in Accounts, NEW row, NEW obs,
         AccountStep(s, r, a, row, obs)
  PROVE  Keeps(s, r)
<1> USE DEF AccountStep
<1>1. /\ r.clock = s.clock /\ r.transaction = s.transaction /\ r.storage = s.storage
      /\ r.observed_storage = s.observed_storage /\ r.introduced = s.introduced
      /\ r.block_introduced_codes = s.block_introduced_codes
      /\ r.parent_code = s.parent_code /\ r.transaction_active = s.transaction_active
      /\ r.deferred_accounts = s.deferred_accounts /\ r.deferred_storage = s.deferred_storage
      /\ r.account_ids = s.account_ids /\ r.storage_ids = s.storage_ids
  BY DEF SameBut, StateFields, AccountFields, ListFields
<1>2. SameBut(r, s, StepFields)
  BY DEF SameBut, StepFields, AccountFields
<1>3. /\ Typed(s) /\ s.transaction_active /\ CodesListed(s) /\ Unobserved(s)
      /\ LifecycleListed(s) /\ CodesBound(s) /\ Pristine(s)
  BY DEF Sound
<1>4. /\ s.accounts \in [Accounts -> AccountRowOf(s.clock)]
      /\ s.observed_accounts \in [Accounts -> AccountObservation]
  BY <1>3 DEF Typed, RowsTyped, ObservationsTyped
<1>5. /\ r.accounts[a] = row /\ r.observed_accounts[a] = obs
      /\ \A b \in Accounts : b # a => /\ r.accounts[b] = s.accounts[b]
                                     /\ r.observed_accounts[b] = s.observed_accounts[b]
  BY <1>4
<1>6. Typed(r)
  <2>1. r.accounts \in [Accounts -> AccountRowOf(s.clock)]
    BY <1>4, FunctionUpdate
  <2>2. r.observed_accounts \in [Accounts -> AccountObservation]
    BY <1>4, FunctionUpdate
  <2>3. RowsTyped(r)
    BY <1>1, <1>3, <2>1 DEF Typed, RowsTyped
  <2>4. ObservationsTyped(r)
    BY <1>1, <1>3, <2>2 DEF Typed, ObservationsTyped
  <2>5. ControlTyped(r)
    BY <1>2, <1>3 DEF Typed, ControlTyped, SameBut, StateFields, StepFields, ListFields
  <2> QED BY <2>3, <2>4, <2>5 DEF Typed, SameBut
<1>7. CodesListed(r)
  BY <1>1, <1>3 DEF CodesListed
<1>8. Unobserved(r)
  BY <1>1, <1>3, <1>5 DEF Unobserved
<1>9. LifecycleListed(r)
  <2>1. Len(s.lifecycle_accounts) \in Nat /\ Len(r.lifecycle_accounts) \in Nat
    BY <1>3, <1>6, LifecycleLength
  <2>2. PrefixOf(s.lifecycle_accounts, r.lifecycle_accounts)
    BY DEF ListFields
  <2>3. \A b : InLifecycle(s, b) => InLifecycle(r, b)
    BY <2>1, <2>2, StillListed
  <2> QED BY <1>1, <1>3, <1>5, <2>3 DEF LifecycleListed
<1>10. CodesBound(r)
  <2>1. \A ref, code : CodeBound(s, ref, code) => CodeBound(r, ref, code)
    BY <1>1 DEF CodeBound
  <2> QED BY <1>3, <1>5, <2>1 DEF CodesBound
<1>11. Pristine(r)
  <2>1. ASSUME NEW b \in Accounts, ~IsAdmitted(r, b) PROVE ParentRow(r, b)
    <3>1. ~IsAdmitted(s, b) /\ b # a
      BY <1>1, <2>1 DEF IsAdmitted
    <3>2. ParentRow(s, b) /\ r.accounts[b] = s.accounts[b]
      BY <1>3, <1>5, <3>1 DEF Pristine
    <3> QED BY <3>2 DEF ParentRow
  <2>2. ASSUME NEW k \in Slots, ~IsStorageAdmitted(r, k) PROVE ParentSlot(r, k)
    BY <1>1, <1>3, <2>2 DEF Pristine, ParentSlot, IsStorageAdmitted
  <2> QED BY <2>1, <2>2 DEF Pristine
<1>12. JournalsFirst(s, r)
  <2>1. r.accounts[a].warm_transaction = s.accounts[a].warm_transaction
    BY <1>5
  <2>2. \A o \in Objects : \/ o \in {<<"account", a>>, <<"account_storage_dirty", a>>}
                           \/ View(r, o) = View(s, o)
    BY ZenonT(40), <1>1, <1>5, <2>1, OneAccount
  <2>3. /\ JournaledIn(s, <<"account", a>>, s.scope) <=> s.accounts[a].journaled_scope = s.scope
        /\ JournaledIn(s, <<"account_storage_dirty", a>>, s.scope)
              <=> s.accounts[a].journaled_scope = s.scope
    BY DEF JournaledIn
  <2> QED BY <2>2, <2>3 DEF JournalsFirst
<1>13. Grows(s, r)
  <2>1. \A b \in Accounts : \/ r.accounts[b].observation = s.accounts[b].observation
                            \/ r.accounts[b].observation = s.transaction
    BY <1>5
  <2> QED BY <1>1, <1>3, <2>1, SameGrows
<1> QED BY <1>1, <1>2, <1>3, <1>6, <1>7, <1>8, <1>9, <1>10, <1>11, <1>12, <1>13
        DEF Keeps, Sound

SlotFields ==
    {"storage", "observed_storage", "journal"}
        \cup (ListFields \ {"account_ids", "storage_ids"})

\* The observations of r are those of s but for that of k.
Noted(r, s, k, obs) ==
    /\ DOMAIN r.observed_storage = Slots
    /\ r.observed_storage[k] = obs
    /\ \A x \in Slots : x # k => r.observed_storage[x] = s.observed_storage[x]

SlotStep(s, r, k, row, obs) ==
    /\ IsStorageAdmitted(s, k)
    /\ row \in StorageRowOf(s.clock)
    /\ DOMAIN obs = {"original", "written"} /\ obs.written \in BOOLEAN
    /\ SameBut(r, s, SlotFields)
    /\ r.storage = [s.storage EXCEPT ![k] = row]
    /\ Noted(r, s, k, obs)
    /\ ListsTyped(r)
    /\ \A f \in ListFields : PrefixOf(s[f], r[f])
    /\ row.observation \in {s.storage[k].observation, s.transaction}
    /\ row.warm_transaction = s.storage[k].warm_transaction
    /\ row.observation # s.transaction => ~obs.written
    /\ Extends(s, r) /\ Quiet(s, r)
    /\ \/ View(r, <<"storage", k>>) = View(s, <<"storage", k>>)
       \/ Appends(s, r, <<"storage", k>>)
       \/ s.storage[k].journaled_scope = s.scope

LEMMA SlotStepKeeps ==
  ASSUME NEW s, Sound(s), NEW r, NEW k \in Slots, NEW row, NEW obs,
         SlotStep(s, r, k, row, obs)
  PROVE  Keeps(s, r)
<1> USE DEF SlotStep
<1>1. /\ r.clock = s.clock /\ r.transaction = s.transaction /\ r.accounts = s.accounts
      /\ r.observed_accounts = s.observed_accounts /\ r.introduced = s.introduced
      /\ r.block_introduced_codes = s.block_introduced_codes
      /\ r.parent_code = s.parent_code /\ r.transaction_active = s.transaction_active
      /\ r.deferred_accounts = s.deferred_accounts /\ r.deferred_storage = s.deferred_storage
      /\ r.account_ids = s.account_ids /\ r.storage_ids = s.storage_ids
  BY DEF SameBut, StateFields, SlotFields, ListFields
<1>2. SameBut(r, s, StepFields)
  BY DEF SameBut, StepFields, SlotFields
<1>3. /\ Typed(s) /\ s.transaction_active /\ CodesListed(s) /\ Unobserved(s)
      /\ LifecycleListed(s) /\ CodesBound(s) /\ Pristine(s)
  BY DEF Sound
<1>4. /\ s.storage \in [Slots -> StorageRowOf(s.clock)]
      /\ DOMAIN s.observed_storage = Slots
      /\ \A x \in Slots : /\ DOMAIN s.observed_storage[x] = {"original", "written"}
                          /\ s.observed_storage[x].written \in BOOLEAN
  BY <1>3 DEF Typed, RowsTyped, ObservationsTyped
<1>5. /\ r.storage[k] = row /\ r.observed_storage[k] = obs
      /\ \A x \in Slots : x # k => /\ r.storage[x] = s.storage[x]
                                  /\ r.observed_storage[x] = s.observed_storage[x]
  BY <1>4 DEF Noted
<1>6. Typed(r)
  <2>1. r.storage \in [Slots -> StorageRowOf(s.clock)]
    BY <1>4, FunctionUpdate
  <2>2. /\ DOMAIN r.observed_storage = Slots
        /\ \A x \in Slots : /\ DOMAIN r.observed_storage[x] = {"original", "written"}
                            /\ r.observed_storage[x].written \in BOOLEAN
    BY <1>4, <1>5 DEF Noted
  <2>3. RowsTyped(r)
    BY <1>1, <1>3, <2>1 DEF Typed, RowsTyped
  <2>4. ObservationsTyped(r)
    BY <1>1, <1>3, <2>2 DEF Typed, ObservationsTyped
  <2>5. ControlTyped(r)
    BY <1>2, <1>3 DEF Typed, ControlTyped, SameBut, StateFields, StepFields, ListFields
  <2> QED BY <2>3, <2>4, <2>5 DEF Typed, SameBut
<1>7. CodesListed(r)
  BY <1>1, <1>3 DEF CodesListed
<1>8. Unobserved(r)
  BY <1>1, <1>3, <1>5 DEF Unobserved
<1>9. LifecycleListed(r)
  <2>1. Len(s.lifecycle_accounts) \in Nat /\ Len(r.lifecycle_accounts) \in Nat
    BY <1>3, <1>6, LifecycleLength
  <2>2. PrefixOf(s.lifecycle_accounts, r.lifecycle_accounts)
    BY DEF ListFields
  <2>3. \A b : InLifecycle(s, b) => InLifecycle(r, b)
    BY <2>1, <2>2, StillListed
  <2> QED BY <1>1, <1>3, <2>3 DEF LifecycleListed
<1>10. CodesBound(r)
  BY <1>1, <1>3 DEF CodesBound, CodeBound
<1>11. Pristine(r)
  <2>1. ASSUME NEW b \in Slots, ~IsStorageAdmitted(r, b) PROVE ParentSlot(r, b)
    <3>1. ~IsStorageAdmitted(s, b) /\ b # k
      BY <1>1, <2>1 DEF IsStorageAdmitted
    <3>2. ParentSlot(s, b) /\ r.storage[b] = s.storage[b]
      BY <1>3, <1>5, <3>1 DEF Pristine
    <3> QED BY <3>2 DEF ParentSlot
  <2>2. ASSUME NEW b \in Accounts, ~IsAdmitted(r, b) PROVE ParentRow(r, b)
    BY <1>1, <1>3, <2>2 DEF Pristine, ParentRow, IsAdmitted
  <2> QED BY <2>1, <2>2 DEF Pristine
<1>12. JournalsFirst(s, r)
  <2>1. r.storage[k].warm_transaction = s.storage[k].warm_transaction
    BY <1>5
  <2>2. \A o \in Objects : o = <<"storage", k>> \/ View(r, o) = View(s, o)
    <3>1. SlotOnly(s, r, k)
      BY <1>1, <1>5, <2>1 DEF SlotOnly
    <3> QED BY <3>1, OneSlot
  <2>3. JournaledIn(s, <<"storage", k>>, s.scope) <=> s.storage[k].journaled_scope = s.scope
    BY DEF JournaledIn
  <2> QED BY <2>2, <2>3 DEF JournalsFirst
<1>13. Grows(s, r)
  <2>1. \A x \in Slots : \/ r.storage[x].observation = s.storage[x].observation
                         \/ r.storage[x].observation = s.transaction
    BY <1>5
  <2> QED BY <1>1, <1>3, <2>1, SameGrows
<1> QED BY <1>1, <1>2, <1>3, <1>6, <1>7, <1>8, <1>9, <1>10, <1>11, <1>12, <1>13
        DEF Keeps, Sound

-----------------------------------------------------------------------------
(* Sequences of steps                                                      *)

Unstamped(b, scope) == \A o \in Objects : ~JournaledIn(b, o, scope)

Follows(s, r) ==
    /\ SameBut(r, s, StepFields)
    /\ Sound(r)
    /\ Grows(s, r)
    /\ Len(s.journal) <= Len(r.journal)
    /\ \A b : Returns(s, b) /\ Unstamped(b, s.scope) => Returns(r, b)
    /\ \A len \in 0 .. Len(s.journal) : \A w :
          /\ TransientEntries(s, len, w) => TransientEntries(r, len, w)
          /\ TransientNow(s, len, w) => TransientNow(r, len, w)

LEMMA StepFacts ==
  ASSUME NEW s, NEW r, SameBut(r, s, StepFields)
  PROVE  /\ r.clock = s.clock /\ r.transaction = s.transaction /\ r.scope = s.scope
         /\ r.transient = s.transient /\ r.root = s.root /\ r.logs = s.logs
         /\ r.scope_depth = s.scope_depth /\ r.transaction_active = s.transaction_active
         /\ r.sealed = s.sealed /\ r.accepted_len = s.accepted_len
         /\ r.scope_reverted = s.scope_reverted /\ r.retained_logs = s.retained_logs
  BY DEF SameBut, StepFields, ListFields, StateFields

LEMMA GrowsReflexive ==
  ASSUME NEW s, Typed(s)
  PROVE  Grows(s, s)
  BY SameGrows

LEMMA GrowsTransitive ==
  ASSUME NEW s, Typed(s), NEW r, Typed(r), NEW t, Typed(t),
         r.transaction = s.transaction, Grows(s, r), Grows(r, t)
  PROVE  Grows(s, t)
<1>1. ASSUME NEW f \in ListFields PROVE PrefixOf(s[f], t[f])
  <2>1. Len(s[f]) \in Nat /\ Len(r[f]) \in Nat /\ Len(t[f]) \in Nat
    BY TypedLists DEF Typed
  <2>2. PrefixOf(s[f], r[f]) /\ PrefixOf(r[f], t[f])
    BY DEF Grows
  <2> QED BY <2>1, <2>2, PrefixTransitive
<1> QED BY <1>1 DEF Grows

LEMMA FollowsReflexive ==
  ASSUME NEW s, Sound(s)
  PROVE  Follows(s, s)
<1>1. Typed(s) /\ Len(s.journal) \in Nat /\ IsState(s)
  BY ListFacts DEF Sound, Typed
<1>2. Grows(s, s)
  BY <1>1, GrowsReflexive
<1> QED BY <1>1, <1>2 DEF Follows, SameBut

LEMMA FollowsTransitive ==
  ASSUME NEW s, Sound(s), NEW r, Follows(s, r), NEW t, Follows(r, t)
  PROVE  Follows(s, t)
<1>1. Typed(s) /\ Typed(r) /\ Typed(t) /\ Sound(t)
  BY DEF Follows, Sound
<1>2. /\ Len(s.journal) \in Nat /\ Len(r.journal) \in Nat /\ Len(t.journal) \in Nat
      /\ Len(s.journal) <= Len(r.journal) /\ Len(r.journal) <= Len(t.journal)
  BY <1>1, ListFacts DEF Follows
<1>3. r.transaction = s.transaction /\ r.scope = s.scope
  BY StepFacts DEF Follows
<1>4. Grows(s, t)
  BY <1>1, <1>3, GrowsTransitive DEF Follows
<1>5. SameBut(t, s, StepFields)
  BY DEF Follows, SameBut
<1>6. \A b : Returns(s, b) /\ Unstamped(b, s.scope) => Returns(t, b)
  BY <1>3 DEF Follows
<1>7. ASSUME NEW len \in 0 .. Len(s.journal), NEW w
      PROVE  /\ TransientEntries(s, len, w) => TransientEntries(t, len, w)
             /\ TransientNow(s, len, w) => TransientNow(t, len, w)
  <2>1. len \in 0 .. Len(r.journal)
    BY <1>2
  <2> QED BY <2>1 DEF Follows
<1>8. Len(s.journal) <= Len(t.journal)
  BY <1>2
<1> QED BY <1>1, <1>4, <1>5, <1>6, <1>7, <1>8 DEF Follows

LEMMA KeepsFollows ==
  ASSUME NEW s, Sound(s), NEW r, Keeps(s, r)
  PROVE  Follows(s, r)
<1>1. /\ Typed(s) /\ Extends(s, r) /\ SameBut(r, s, StepFields) /\ JournalsFirst(s, r)
      /\ Sound(r) /\ Grows(s, r) /\ Quiet(s, r)
  BY DEF Keeps, Sound, JournalsFirst
<1>2. /\ Len(s.journal) \in Nat
      /\ Len(r.journal) \in {Len(s.journal), Len(s.journal) + 1}
      /\ \A i \in 1 .. Len(s.journal) : r.journal[i] = s.journal[i]
  BY <1>1, ListFacts, ExtendsFacts
<1>3. ASSUME NEW b, Returns(s, b), Unstamped(b, s.scope)
      PROVE  Returns(r, b)
  <2>1. StampsLogged(s, b, s.scope)
    BY <1>3, StampsAreLogged DEF Unstamped
  <2> QED BY <1>1, <1>3, <2>1, ReturnsKept
<1>4. \A t : \A len \in Nat, hi \in 0 .. Len(s.journal) :
         TransientLogged(s.journal, t, len, hi) => TransientLogged(r.journal, t, len, hi)
  <2>1. ASSUME NEW t, NEW len \in Nat, NEW hi \in 0 .. Len(s.journal),
               TransientLogged(s.journal, t, len, hi)
        PROVE  TransientLogged(r.journal, t, len, hi)
    <3>1. hi \in Nat /\ \A i \in 1 .. hi : r.journal[i] = s.journal[i]
      BY <1>2
    <3> QED BY <2>1, <3>1, TransientLoggedSame
  <2> QED BY <2>1
<1>5. ASSUME NEW len \in 0 .. Len(s.journal), NEW w, TransientEntries(s, len, w)
      PROVE  TransientEntries(r, len, w)
  <2>1. ASSUME NEW j \in len + 1 .. Len(r.journal), r.journal[j].kind = "transient_storage"
        PROVE  \/ r.journal[j].previous = w[r.journal[j].id]
               \/ TransientLogged(r.journal, r.journal[j].id, len, j - 1)
    <3>1. j \in len + 1 .. Len(s.journal)
      BY <1>1, <1>2, <2>1 DEF Quiet
    <3>2. r.journal[j] = s.journal[j] /\ j - 1 \in 0 .. Len(s.journal) /\ len \in Nat
      BY <1>2, <3>1
    <3>3. \/ s.journal[j].previous = w[s.journal[j].id]
          \/ TransientLogged(s.journal, s.journal[j].id, len, j - 1)
      BY <1>5, <2>1, <3>1, <3>2 DEF TransientEntries
    <3> QED BY <1>4, <3>2, <3>3
  <2> QED BY <2>1 DEF TransientEntries
<1>6. ASSUME NEW len \in 0 .. Len(s.journal), NEW w, TransientNow(s, len, w)
      PROVE  TransientNow(r, len, w)
  <2>1. r.transient = s.transient
    BY <1>1, StepFacts
  <2>2. ASSUME NEW t, TransientLogged(s.journal, t, len, Len(s.journal))
        PROVE  TransientLogged(r.journal, t, len, Len(r.journal))
    <3>1. TransientLogged(r.journal, t, len, Len(s.journal))
      BY <1>2, <1>4, <2>2
    <3>2. \A i \in len + 1 .. Len(s.journal) : i \in len + 1 .. Len(r.journal)
      BY <1>2
    <3> QED BY <3>1, <3>2 DEF TransientLogged
  <2> QED BY <1>6, <2>1, <2>2 DEF TransientNow
<1>7. Len(s.journal) <= Len(r.journal)
  BY <1>2
<1> QED BY <1>1, <1>3, <1>5, <1>6, <1>7 DEF Follows
-----------------------------------------------------------------------------
(* Admission                                                               *)

LEMMA AppendedFacts ==
  ASSUME NEW S, NEW q \in Seq(S), NEW x \in S
  PROVE  /\ AppendIf(q, ~Contains(q, x), x) \in Seq(S)
         /\ PrefixOf(q, AppendIf(q, ~Contains(q, x), x))
         /\ Contains(AppendIf(q, ~Contains(q, x), x), x)
<1>1. CASE Contains(q, x)
  BY <1>1 DEF AppendIf, PrefixOf
<1>2. CASE ~Contains(q, x)
  <2>1. AppendIf(q, ~Contains(q, x), x) = Append(q, x)
    BY <1>2 DEF AppendIf
  <2>2. Append(q, x)[Len(q) + 1] = x /\ Len(q) + 1 \in 1 .. Len(Append(q, x))
    OBVIOUS
  <2>3. Append(q, x) \in Seq(S) /\ PrefixOf(q, Append(q, x))
    BY DEF PrefixOf
  <2> QED BY <2>1, <2>2, <2>3 DEF Contains
<1> QED BY <1>1, <1>2

AdmitFields == {"account_ids", "storage_ids", "parent_code"}

LEMMA AdmitKeeps ==
  ASSUME NEW s, Sound(s), NEW r, SameBut(r, s, AdmitFields),
         r.account_ids \in Seq(Accounts), PrefixOf(s.account_ids, r.account_ids),
         r.storage_ids \in Seq(Slots), PrefixOf(s.storage_ids, r.storage_ids),
         s.parent_code \subseteq r.parent_code
  PROVE  Keeps(s, r)
<1>1. /\ r.clock = s.clock /\ r.transaction = s.transaction /\ r.storage = s.storage
      /\ r.accounts = s.accounts /\ r.observed_accounts = s.observed_accounts
      /\ r.observed_storage = s.observed_storage /\ r.introduced = s.introduced
      /\ r.block_introduced_codes = s.block_introduced_codes
      /\ r.transaction_active = s.transaction_active /\ r.journal = s.journal
      /\ r.deferred_accounts = s.deferred_accounts /\ r.deferred_storage = s.deferred_storage
      /\ r.lifecycle_accounts = s.lifecycle_accounts
  BY DEF SameBut, StateFields, AdmitFields
<1>2. SameBut(r, s, StepFields)
  BY DEF SameBut, StepFields, AdmitFields, ListFields
<1>3. /\ Typed(s) /\ s.transaction_active /\ CodesListed(s) /\ Unobserved(s)
      /\ LifecycleListed(s) /\ CodesBound(s) /\ Pristine(s)
  BY DEF Sound
<1>4. ListsTyped(s) /\ ListsTyped(r)
  <2>1. ListsTyped(s)
    BY <1>3 DEF Typed
  <2>2. /\ r.block_changed_accounts = s.block_changed_accounts
        /\ r.block_storage_wipes = s.block_storage_wipes
        /\ r.dirty_storage = s.dirty_storage
        /\ r.changed_accounts = s.changed_accounts
        /\ r.changed_storage = s.changed_storage
        /\ r.transaction_storage_wipes = s.transaction_storage_wipes
    BY DEF SameBut, StateFields, AdmitFields
  <2> QED BY <1>1, <2>1, <2>2 DEF ListsTyped
<1>5. Typed(r)
  <2>1. RowsTyped(r) /\ ObservationsTyped(r)
    BY <1>1, <1>3 DEF Typed, RowsTyped, ObservationsTyped
  <2>2. ControlTyped(r)
    BY <1>2, <1>3 DEF Typed, ControlTyped, SameBut, StateFields, StepFields, ListFields
  <2> QED BY <1>4, <2>1, <2>2 DEF Typed, SameBut
<1>6. CodesListed(r) /\ Unobserved(r) /\ LifecycleListed(r)
  BY <1>1, <1>3 DEF CodesListed, Unobserved, LifecycleListed, InLifecycle
<1>7. CodesBound(r)
  BY <1>1, <1>3 DEF CodesBound, CodeBound
<1>8. Pristine(r)
  <2>1. /\ \A a : IsAdmitted(s, a) => IsAdmitted(r, a)
        /\ \A k : IsStorageAdmitted(s, k) => IsStorageAdmitted(r, k)
    BY <1>4, StillAdmitted
  <2> QED BY <1>1, <1>3, <2>1 DEF Pristine, ParentRow, ParentSlot
<1>9. \A o \in Objects : View(r, o) = View(s, o)
  BY <1>1, SameViews
<1>10. JournalsFirst(s, r) /\ Quiet(s, r)
  BY <1>1, <1>3, <1>9, ListFacts DEF JournalsFirst, Extends, Quiet
<1>11. Grows(s, r)
  <2>1. ASSUME NEW f \in ListFields PROVE r[f] = s[f] \/ PrefixOf(s[f], r[f])
    BY DEF ListFields, SameBut, StateFields, AdmitFields
  <2> QED BY <1>1, <1>3, <2>1, SameGrows
<1> QED BY <1>1, <1>2, <1>3, <1>5, <1>6, <1>7, <1>8, <1>10, <1>11 DEF Keeps, Sound

LEMMA ResolveFollows ==
  ASSUME NEW s, Sound(s), NEW a \in Accounts
  PROVE  LET r == ResolveAccount(s, a)
         IN  /\ Follows(s, r) /\ Sound(r) /\ IsAdmitted(r, a)
             /\ SameBut(r, s, {"account_ids"})
<1> DEFINE r == ResolveAccount(s, a)
<1>1. Typed(s) /\ s.account_ids \in Seq(Accounts) /\ s.storage_ids \in Seq(Slots)
  BY DEF Sound, Typed, ListsTyped
<1>2. SameBut(r, s, {"account_ids"})
  BY <1>1 DEF ResolveAccount, SameBut, Typed, IsState, StateFields
<1>3. r.account_ids = AppendIf(s.account_ids, ~Contains(s.account_ids, a), a)
  BY <1>1 DEF ResolveAccount, IsAdmitted, Typed, IsState, StateFields
<1> HIDE DEF r
<1>4. /\ r.account_ids \in Seq(Accounts) /\ PrefixOf(s.account_ids, r.account_ids)
      /\ Contains(r.account_ids, a)
  BY <1>1, <1>3, AppendedFacts
<1>5. r.storage_ids = s.storage_ids /\ r.parent_code = s.parent_code
  BY <1>2 DEF SameBut, StateFields
<1>6. PrefixOf(s.storage_ids, r.storage_ids)
  BY <1>1, <1>5, PrefixReflexive
<1>7. SameBut(r, s, AdmitFields)
  BY <1>2 DEF SameBut, AdmitFields
<1>8. Keeps(s, r)
  BY <1>1, <1>4, <1>5, <1>6, <1>7, AdmitKeeps
<1>9. Follows(s, r) /\ Sound(r)
  BY <1>8, KeepsFollows DEF Keeps
<1> QED BY <1>2, <1>4, <1>9 DEF IsAdmitted, r

LEMMA ResolveKeyFollows ==
  ASSUME NEW s, Sound(s), NEW k \in Slots
  PROVE  LET r == ResolveStorageKey(s, k)
         IN  /\ Follows(s, r) /\ Sound(r)
             /\ IsAdmitted(r, Owner[k]) /\ IsStorageAdmitted(r, k)
             /\ SameBut(r, s, {"account_ids", "storage_ids"})
<1> DEFINE t == ResolveAccount(s, Owner[k])
           r == ResolveStorageKey(s, k)
<1>0. Owner[k] \in Accounts
  BY WorldConstants
<1>1. Follows(s, t) /\ Sound(t) /\ IsAdmitted(t, Owner[k]) /\ SameBut(t, s, {"account_ids"})
  BY <1>0, ResolveFollows
<1>2. Typed(t) /\ t.account_ids \in Seq(Accounts) /\ t.storage_ids \in Seq(Slots)
  BY <1>1 DEF Sound, Typed, ListsTyped
<1>3. t.storage_ids = s.storage_ids
  BY <1>1 DEF SameBut, StateFields
<1>4. SameBut(r, t, {"storage_ids"})
  <2> HIDE DEF t
  <2> QED BY <1>2 DEF ResolveStorageKey, SameBut, Typed, IsState, StateFields, t
<1>5. r.storage_ids = AppendIf(t.storage_ids, ~Contains(t.storage_ids, k), k)
  <2>1. IsStorageAdmitted(s, k) <=> Contains(t.storage_ids, k)
    BY <1>3 DEF IsStorageAdmitted
  <2> HIDE DEF t
  <2> QED BY <1>2, <2>1 DEF ResolveStorageKey, Typed, IsState, StateFields, t
<1> HIDE DEF r, t
<1>6. /\ r.storage_ids \in Seq(Slots) /\ PrefixOf(t.storage_ids, r.storage_ids)
      /\ Contains(r.storage_ids, k)
  BY <1>2, <1>5, AppendedFacts
<1>7. r.account_ids = t.account_ids /\ r.parent_code = t.parent_code
  BY <1>4 DEF SameBut, StateFields
<1>8. PrefixOf(t.account_ids, r.account_ids)
  BY <1>2, <1>7, PrefixReflexive
<1>9. SameBut(r, t, AdmitFields)
  BY <1>4 DEF SameBut, AdmitFields
<1>10. Keeps(t, r)
  BY <1>1, <1>2, <1>6, <1>7, <1>8, <1>9, AdmitKeeps
<1>11. Follows(t, r) /\ Sound(r)
  BY <1>1, <1>10, KeepsFollows DEF Keeps
<1>12. Follows(s, r)
  BY <1>1, <1>11, FollowsTransitive
<1>13. IsAdmitted(r, Owner[k]) /\ IsStorageAdmitted(r, k)
  BY <1>1, <1>6, <1>7 DEF IsAdmitted, IsStorageAdmitted
<1>14. SameBut(r, s, {"account_ids", "storage_ids"})
  BY <1>1, <1>4 DEF SameBut
<1> QED BY <1>11, <1>12, <1>13, <1>14 DEF r

LEMMA LoadCodeFollows ==
  ASSUME NEW s, Sound(s), NEW a
  PROVE  Follows(s, LoadCode(s, a))
<1> DEFINE r == LoadCode(s, a)
<1>1. Typed(s) /\ s.account_ids \in Seq(Accounts) /\ s.storage_ids \in Seq(Slots)
  BY DEF Sound, Typed, ListsTyped
<1>2. SameBut(r, s, {"parent_code"}) /\ s.parent_code \subseteq r.parent_code
  BY <1>1 DEF LoadCode, SameBut, Typed, IsState, StateFields
<1> HIDE DEF r
<1>3. r.account_ids = s.account_ids /\ r.storage_ids = s.storage_ids
  BY <1>2 DEF SameBut, StateFields
<1>4. PrefixOf(s.account_ids, r.account_ids) /\ PrefixOf(s.storage_ids, r.storage_ids)
  BY <1>1, <1>3, PrefixReflexive
<1>5. SameBut(r, s, AdmitFields)
  BY <1>2 DEF SameBut, AdmitFields
<1>6. Keeps(s, r)
  BY <1>1, <1>2, <1>3, <1>4, <1>5, AdmitKeeps
<1>7. Follows(s, r)
  BY <1>6, KeepsFollows
<1> QED BY <1>7 DEF r
-----------------------------------------------------------------------------
(* Steps on an account                                                     *)

AccountRowFields ==
    {"current", "code_ref", "flags", "lifecycle_transaction", "journaled_scope",
     "warm_transaction", "observation", "dirty_transaction", "storage_incarnation",
     "wiped_transaction"}

\* The row of a is that of s but for the fields named; the other rows are.
SameRowBut(r, s, a, changed) ==
    /\ \A f \in AccountRowFields \ changed : r.accounts[a][f] = s.accounts[a][f]
    /\ \A b \in Accounts : b # a => r.accounts[b] = s.accounts[b]

LEMMA RowFacts ==
  ASSUME NEW s, Sound(s), NEW a \in Accounts
  PROVE  /\ Typed(s) /\ s.transaction_active
         /\ s.clock \in Nat /\ s.transaction \in 1 .. s.clock /\ s.scope \in 0 .. s.clock
         /\ s.accounts \in [Accounts -> AccountRowOf(s.clock)]
         /\ s.observed_accounts \in [Accounts -> AccountObservation]
         /\ s.accounts[a] \in AccountRowOf(s.clock)
         /\ s.observed_accounts[a] \in AccountObservation
         /\ CodeBound(s, s.accounts[a].code_ref, s.accounts[a].current.code)
         /\ s.accounts[a].observation # s.transaction => s.observed_accounts[a].effect = {}
         /\ s.accounts[a].lifecycle_transaction = s.transaction => InLifecycle(s, a)
         /\ s.accounts[a].flags \cap LifecycleBits # {} => InLifecycle(s, a)
<1>1. /\ Typed(s) /\ s.transaction_active /\ Unobserved(s) /\ LifecycleListed(s)
      /\ CodesBound(s)
  BY DEF Sound
<1>2. /\ s.clock \in Nat /\ s.transaction \in 1 .. s.clock /\ s.scope \in 0 .. s.clock
      /\ s.accounts \in [Accounts -> AccountRowOf(s.clock)]
      /\ s.observed_accounts \in [Accounts -> AccountObservation]
  BY <1>1 DEF Typed, RowsTyped, ObservationsTyped, ControlTyped
<1> QED BY <1>1, <1>2 DEF Unobserved, LifecycleListed, CodesBound

LEMMA SameLists ==
  ASSUME NEW s, Typed(s), NEW r, IsState(r), r.clock = s.clock,
         NEW changed, SameBut(r, s, changed),
         changed \cap (ListFields \cup {"introduced", "block_introduced_codes", "journal"}) = {}
  PROVE  ListsTyped(r) /\ \A f \in ListFields : PrefixOf(s[f], r[f])
<1>1. \A f \in ListFields \cup {"introduced", "block_introduced_codes", "journal"} :
          f \in StateFields \ changed
  BY DEF ListFields, StateFields
<1>2. \A f \in ListFields \cup {"introduced", "block_introduced_codes", "journal"} : r[f] = s[f]
  BY <1>1 DEF SameBut
<1>3. /\ r.account_ids = s.account_ids /\ r.storage_ids = s.storage_ids
      /\ r.introduced = s.introduced /\ r.block_introduced_codes = s.block_introduced_codes
      /\ r.block_changed_accounts = s.block_changed_accounts
      /\ r.block_storage_wipes = s.block_storage_wipes
      /\ r.dirty_storage = s.dirty_storage
      /\ r.changed_accounts = s.changed_accounts /\ r.changed_storage = s.changed_storage
      /\ r.transaction_storage_wipes = s.transaction_storage_wipes
      /\ r.lifecycle_accounts = s.lifecycle_accounts /\ r.journal = s.journal
  BY <1>2 DEF ListFields
<1>4. ListsTyped(r)
  BY <1>3 DEF Typed, ListsTyped
<1>5. ASSUME NEW f \in ListFields PROVE PrefixOf(s[f], r[f])
  BY <1>2, TypedLists, PrefixReflexive DEF Typed
<1> QED BY <1>4, <1>5

LEMMA SilentStep ==
  ASSUME NEW s, Typed(s), NEW r, r.journal = s.journal, r.introduced = s.introduced
  PROVE  Extends(s, r) /\ Quiet(s, r)
  BY ListFacts DEF Extends, Quiet

LEMMA ObserveFollows ==
  ASSUME NEW s, Sound(s), NEW a \in Accounts, IsAdmitted(s, a)
  PROVE  LET r == ObserveAccount(s, a)
         IN  /\ Follows(s, r) /\ Sound(r) /\ IsAdmitted(r, a)
             /\ r.accounts[a].observation = s.transaction
             /\ SameBut(r, s, {"accounts", "observed_accounts"})
             /\ SameRowBut(r, s, a, {"observation"})
<1> DEFINE r == ObserveAccount(s, a)
           row == [s.accounts[a] EXCEPT !.observation = s.transaction]
           obs == [original |-> s.accounts[a].current,
                   original_storage_incarnation |-> s.accounts[a].storage_incarnation,
                   effect |-> {}]
<1>1. CASE s.accounts[a].observation = s.transaction
  <2>1. r = s /\ IsState(s)
    BY <1>1 DEF ObserveAccount, Sound, Typed
  <2>2. Follows(s, s)
    BY FollowsReflexive
  <2> QED BY <1>1, <2>1, <2>2 DEF SameBut, SameRowBut
<1>2. CASE s.accounts[a].observation # s.transaction
  <2>1. /\ Typed(s) /\ s.clock \in Nat /\ s.transaction \in 1 .. s.clock
        /\ s.accounts \in [Accounts -> AccountRowOf(s.clock)]
        /\ s.observed_accounts \in [Accounts -> AccountObservation]
        /\ s.accounts[a] \in AccountRowOf(s.clock)
        /\ CodeBound(s, s.accounts[a].code_ref, s.accounts[a].current.code)
        /\ s.accounts[a].lifecycle_transaction = s.transaction => InLifecycle(s, a)
        /\ s.accounts[a].flags \cap LifecycleBits # {} => InLifecycle(s, a)
        /\ s.observed_accounts[a].effect = {}
    BY <1>2, RowFacts
  <2>2. /\ SameBut(r, s, {"accounts", "observed_accounts"})
        /\ r.accounts = [s.accounts EXCEPT ![a] = row]
        /\ r.observed_accounts = [s.observed_accounts EXCEPT ![a] = obs]
    BY <1>2, <2>1 DEF ObserveAccount, SameBut, Typed, IsState, StateFields
  <2>3. /\ row \in AccountRowOf(s.clock)
        /\ \A f \in AccountRowFields \ {"observation"} : row[f] = s.accounts[a][f]
        /\ row.observation = s.transaction
    BY <2>1 DEF AccountRowOf, AccountRowFields
  <2>4. obs \in AccountObservation /\ obs.effect = {}
    BY <2>1 DEF AccountObservation, AccountRowOf
  <2> HIDE DEF r, row, obs
  <2>5. r.accounts[a] = row /\ \A b \in Accounts : b # a => r.accounts[b] = s.accounts[b]
    BY <2>1, <2>2
  <2>6. SameRowBut(r, s, a, {"observation"}) /\ r.accounts[a].observation = s.transaction
    BY <2>3, <2>5 DEF SameRowBut
  <2>7. /\ r.clock = s.clock /\ r.journal = s.journal /\ r.introduced = s.introduced
        /\ r.account_ids = s.account_ids /\ r.lifecycle_accounts = s.lifecycle_accounts
        /\ IsState(r)
    BY <2>2 DEF SameBut, StateFields
  <2>8. ListsTyped(r) /\ \A f \in ListFields : PrefixOf(s[f], r[f])
    <3>1. {"accounts", "observed_accounts"} \cap
             (ListFields \cup {"introduced", "block_introduced_codes", "journal"}) = {}
      BY DEF ListFields
    <3> QED BY <2>1, <2>2, <2>7, <3>1, SameLists
  <2>9. Extends(s, r) /\ Quiet(s, r)
    BY <2>1, <2>7, SilentStep
  <2>10. SameBut(r, s, AccountFields)
    BY <2>2 DEF SameBut, AccountFields
  <2>11. /\ row.warm_transaction = s.accounts[a].warm_transaction
         /\ row.lifecycle_transaction = s.accounts[a].lifecycle_transaction
         /\ row.flags = s.accounts[a].flags /\ row.code_ref = s.accounts[a].code_ref
         /\ row.current = s.accounts[a].current
         /\ row.journaled_scope = s.accounts[a].journaled_scope
         /\ row.storage_incarnation = s.accounts[a].storage_incarnation
         /\ row.wiped_transaction = s.accounts[a].wiped_transaction
         /\ row.dirty_transaction = s.accounts[a].dirty_transaction
    BY <2>3 DEF AccountRowFields
  <2>12. /\ View(r, <<"account", a>>) = View(s, <<"account", a>>)
         /\ View(r, <<"account_storage_dirty", a>>) = View(s, <<"account_storage_dirty", a>>)
    <3>1. r.observed_accounts[a].effect = s.observed_accounts[a].effect
      BY <2>1, <2>2, <2>4
    <3>2. AccountView(r, a) = AccountView(s, a)
      BY <2>5, <2>11, <3>1 DEF AccountView
    <3> QED BY <2>5, <2>11, <3>2, ViewOf
  <2>13. /\ row.lifecycle_transaction = s.transaction => InLifecycle(r, a)
         /\ row.flags \cap LifecycleBits # {} => InLifecycle(r, a)
    BY <2>1, <2>7, <2>11 DEF InLifecycle
  <2>14. AccountStep(s, r, a, row, obs)
    BY <2>1, <2>2, <2>3, <2>4, <2>8, <2>9, <2>10, <2>11, <2>12, <2>13 DEF AccountStep
  <2>15. Follows(s, r) /\ Sound(r)
    BY <2>14, AccountStepKeeps, KeepsFollows DEF Keeps
  <2>16. IsAdmitted(r, a)
    BY <2>7 DEF IsAdmitted
  <2> QED BY <2>2, <2>6, <2>15, <2>16 DEF r
<1> QED BY <1>1, <1>2
\* Ready for any change to the row of a: its entry of this scope is there.
Prepared(s, a) ==
    /\ Sound(s)
    /\ IsAdmitted(s, a)
    /\ s.accounts[a].journaled_scope = s.scope

LEMMA AccountUndoRecords ==
  ASSUME NEW s, Sound(s), NEW a \in Accounts
  PROVE  LET e == AccountUndo(s, a)
         IN  /\ e \in Entries(s.clock) /\ e.kind = "account"
             /\ Records(e) = {<<"account", a>>, <<"account_storage_dirty", a>>}
             /\ \A o \in Records(e) : Recorded(e, o) = View(s, o)
<1> DEFINE e == AccountUndo(s, a)
<1>1. /\ s.accounts[a] \in AccountRowOf(s.clock)
      /\ s.observed_accounts[a] \in AccountObservation
  BY RowFacts
<1>2. e \in AccountEntry(s.clock)
  BY <1>1 DEF AccountUndo, AccountEntry, AccountRowOf, AccountObservation
<1>3. e \in Entries(s.clock)
  BY <1>2 DEF Entries
<1>4. e.kind = "account" /\ e.id = a /\ e.flags = s.accounts[a].flags
  BY DEF AccountUndo
<1>5. RecordedAccount(e) = AccountView(s, a)
  BY DEF RecordedAccount, AccountView, AccountUndo
<1> HIDE DEF e
<1>6. Records(e) = {<<"account", a>>, <<"account_storage_dirty", a>>}
  BY <1>4 DEF Records
<1>7. Recorded(e, <<"account", a>>) = View(s, <<"account", a>>)
  BY <1>5, ViewOf DEF Recorded
<1>8. Recorded(e, <<"account_storage_dirty", a>>) = View(s, <<"account_storage_dirty", a>>)
  BY <1>4, ViewOf DEF Recorded
<1> QED BY <1>3, <1>4, <1>6, <1>7, <1>8 DEF e

LEMMA PrepareFollows ==
  ASSUME NEW s, Sound(s), NEW a \in Accounts, IsAdmitted(s, a)
  PROVE  LET r == PrepareAccountMutation(s, a)
         IN  /\ Follows(s, r) /\ Prepared(r, a)
             /\ SameBut(r, s, {"accounts", "journal", "block_changed_accounts",
                               "changed_accounts"})
             /\ SameRowBut(r, s, a, {"journaled_scope", "flags", "dirty_transaction"})
             /\ r.accounts[a].flags = s.accounts[a].flags \cup {"block_changed"}
             /\ r.accounts[a].dirty_transaction = s.transaction
<1> DEFINE r == PrepareAccountMutation(s, a)
           row == [s.accounts[a] EXCEPT !.journaled_scope = s.scope,
                                        !.flags = @ \cup {"block_changed"},
                                        !.dirty_transaction = s.transaction]
           obs == s.observed_accounts[a]
           e == AccountUndo(s, a)
<1>1. /\ Typed(s) /\ s.clock \in Nat /\ s.transaction \in 1 .. s.clock
      /\ s.scope \in 0 .. s.clock
      /\ s.accounts \in [Accounts -> AccountRowOf(s.clock)]
      /\ s.observed_accounts \in [Accounts -> AccountObservation]
      /\ s.accounts[a] \in AccountRowOf(s.clock)
      /\ s.observed_accounts[a] \in AccountObservation
      /\ CodeBound(s, s.accounts[a].code_ref, s.accounts[a].current.code)
      /\ s.accounts[a].lifecycle_transaction = s.transaction => InLifecycle(s, a)
      /\ s.accounts[a].flags \cap LifecycleBits # {} => InLifecycle(s, a)
      /\ s.accounts[a].observation # s.transaction => s.observed_accounts[a].effect = {}
  BY RowFacts
<1>2. /\ SameBut(r, s, {"accounts", "journal", "block_changed_accounts", "changed_accounts"})
      /\ r.accounts = [s.accounts EXCEPT ![a] = row]
      /\ r.journal = AppendIf(s.journal, s.accounts[a].journaled_scope # s.scope, e)
      /\ r.block_changed_accounts =
            AppendIf(s.block_changed_accounts, "block_changed" \notin s.accounts[a].flags, a)
      /\ r.changed_accounts =
            AppendIf(s.changed_accounts, s.accounts[a].dirty_transaction # s.transaction, a)
  <2>1. SameBut(r, s, {"accounts", "journal", "block_changed_accounts", "changed_accounts"})
    BY <1>1 DEF PrepareAccountMutation, SameBut, Typed, IsState, StateFields
  <2>2. /\ r.accounts = [s.accounts EXCEPT ![a] = row]
        /\ r.journal = AppendIf(s.journal, s.accounts[a].journaled_scope # s.scope, e)
    BY <1>1 DEF PrepareAccountMutation, Typed, IsState, StateFields
  <2>3. /\ r.block_changed_accounts =
            AppendIf(s.block_changed_accounts, "block_changed" \notin s.accounts[a].flags, a)
        /\ r.changed_accounts =
            AppendIf(s.changed_accounts, s.accounts[a].dirty_transaction # s.transaction, a)
    BY <1>1 DEF PrepareAccountMutation, Typed, IsState, StateFields
  <2> HIDE DEF r, row, e
  <2> QED BY <2>1, <2>2, <2>3
<1>3. /\ row \in AccountRowOf(s.clock)
      /\ \A f \in AccountRowFields \ {"journaled_scope", "flags", "dirty_transaction"} :
            row[f] = s.accounts[a][f]
      /\ row.journaled_scope = s.scope /\ row.dirty_transaction = s.transaction
      /\ row.flags = s.accounts[a].flags \cup {"block_changed"}
  <2>1. /\ s.scope \in 0 .. s.clock /\ s.transaction \in 0 .. s.clock
        /\ s.accounts[a].flags \cup {"block_changed"} \in SUBSET AccountFlags
    BY <1>1 DEF AccountRowOf, AccountFlags
  <2>2. row \in AccountRowOf(s.clock)
    BY <1>1, <2>1 DEF AccountRowOf
  <2>3. /\ \A f \in AccountRowFields \ {"journaled_scope", "flags", "dirty_transaction"} :
            row[f] = s.accounts[a][f]
        /\ row.journaled_scope = s.scope /\ row.dirty_transaction = s.transaction
        /\ row.flags = s.accounts[a].flags \cup {"block_changed"}
    BY <1>1 DEF AccountRowOf, AccountRowFields
  <2> QED BY <2>2, <2>3
<1>4. /\ e \in Entries(s.clock) /\ e.kind = "account"
      /\ Records(e) = {<<"account", a>>, <<"account_storage_dirty", a>>}
      /\ \A o \in Records(e) : Recorded(e, o) = View(s, o)
  BY AccountUndoRecords
<1> HIDE DEF r, row, obs, e
<1>5. /\ r.accounts[a] = row /\ \A b \in Accounts : b # a => r.accounts[b] = s.accounts[b]
  BY <1>1, <1>2
<1>6. /\ r.clock = s.clock /\ r.introduced = s.introduced /\ r.scope = s.scope
      /\ r.account_ids = s.account_ids /\ r.lifecycle_accounts = s.lifecycle_accounts
      /\ IsState(r) /\ r.observed_accounts = s.observed_accounts
  BY <1>2 DEF SameBut, StateFields
<1>7. r.observed_accounts = [s.observed_accounts EXCEPT ![a] = obs]
  BY <1>1, <1>6 DEF obs
<1>8. ListsTyped(s) /\ s.journal \in Seq(Entries(s.clock)) /\ Len(s.journal) \in Nat
      /\ s.block_changed_accounts \in Seq(Accounts) /\ s.changed_accounts \in Seq(Accounts)
  BY <1>1 DEF Typed, ListsTyped
<1>9. /\ r.block_changed_accounts \in Seq(Accounts)
      /\ PrefixOf(s.block_changed_accounts, r.block_changed_accounts)
  BY <1>2, <1>8, AppendIfFacts
<1>10. r.changed_accounts \in Seq(Accounts) /\ PrefixOf(s.changed_accounts, r.changed_accounts)
  BY <1>2, <1>8, AppendIfFacts
<1>11. r.journal \in Seq(Entries(s.clock))
  BY <1>2, <1>4, <1>8, AppendIfFacts
<1>12. ListsTyped(r)
  BY <1>2, <1>6, <1>8, <1>9, <1>10, <1>11 DEF ListsTyped, SameBut, StateFields
<1>13. \A f \in ListFields : PrefixOf(s[f], r[f])
  <2>1. ASSUME NEW f \in ListFields \ {"block_changed_accounts", "changed_accounts"}
        PROVE  PrefixOf(s[f], r[f])
    <3>1. r[f] = s[f]
      BY <1>2 DEF SameBut, StateFields, ListFields
    <3> QED BY <1>8, <3>1, TypedLists, PrefixReflexive
  <2> QED BY <1>9, <1>10, <2>1
<1>14. /\ Extends(s, r) /\ Quiet(s, r)
       /\ \/ /\ Appends(s, r, <<"account", a>>)
             /\ Appends(s, r, <<"account_storage_dirty", a>>)
          \/ s.accounts[a].journaled_scope = s.scope
  <2>1. CASE s.accounts[a].journaled_scope = s.scope
    <3>1. r.journal = s.journal
      BY <1>2, <2>1 DEF AppendIf
    <3> QED BY <1>1, <1>6, <2>1, <3>1, SilentStep
  <2>2. CASE s.accounts[a].journaled_scope # s.scope
    <3>1. r.journal = Append(s.journal, e)
      BY <1>2, <2>2 DEF AppendIf
    <3>2. Len(r.journal) = Len(s.journal) + 1 /\ r.journal[Len(r.journal)] = e
      BY <1>4, <1>8, <3>1
    <3>3. Extends(s, r)
      BY <1>4, <1>6, <3>1 DEF Extends
    <3> QED BY <1>4, <3>2, <3>3 DEF Quiet, Appends
  <2> QED BY <2>1, <2>2
<1>15. SameBut(r, s, AccountFields)
  BY <1>2 DEF SameBut, AccountFields, ListFields
<1>16. /\ row.warm_transaction = s.accounts[a].warm_transaction
       /\ row.observation = s.accounts[a].observation
       /\ row.lifecycle_transaction = s.accounts[a].lifecycle_transaction
       /\ row.code_ref = s.accounts[a].code_ref /\ row.current = s.accounts[a].current
  BY <1>3 DEF AccountRowFields
<1>17. /\ row.lifecycle_transaction = s.transaction => InLifecycle(r, a)
       /\ row.flags \cap LifecycleBits # {} => InLifecycle(r, a)
  <2>1. row.flags \cap LifecycleBits = s.accounts[a].flags \cap LifecycleBits
    BY <1>3 DEF LifecycleBits
  <2> QED BY <1>1, <1>6, <1>16, <2>1 DEF InLifecycle
<1>18. /\ obs \in AccountObservation
       /\ row.observation # s.transaction => obs.effect = {}
       /\ row.observation \in {s.accounts[a].observation, s.transaction}
       /\ CodeBound(s, row.code_ref, row.current.code)
  BY <1>1, <1>16 DEF obs
<1>19. AccountStep(s, r, a, row, obs)
  BY <1>2, <1>3, <1>7, <1>12, <1>13, <1>14, <1>15, <1>16, <1>17, <1>18 DEF AccountStep
<1>20. Follows(s, r) /\ Sound(r)
  BY <1>19, AccountStepKeeps, KeepsFollows DEF Keeps
<1>21. Prepared(r, a)
  BY <1>3, <1>5, <1>6, <1>20 DEF Prepared, IsAdmitted
<1>22. SameRowBut(r, s, a, {"journaled_scope", "flags", "dirty_transaction"})
  BY <1>3, <1>5 DEF SameRowBut
<1> QED BY <1>2, <1>3, <1>5, <1>20, <1>21, <1>22 DEF r

WriteFields ==
    {"accounts", "observed_accounts", "block_storage_wipes", "transaction_storage_wipes",
     "lifecycle_accounts"}

\* What may follow in the same scope.
WriteRow(s, r, a, row, obs) ==
    /\ Prepared(s, a)
    /\ row \in AccountRowOf(s.clock) /\ obs \in AccountObservation
    /\ SameBut(r, s, WriteFields)
    /\ r.accounts = [s.accounts EXCEPT ![a] = row]
    /\ r.observed_accounts = [s.observed_accounts EXCEPT ![a] = obs]
    /\ \A f \in {"block_storage_wipes", "transaction_storage_wipes", "lifecycle_accounts"} :
           r[f] \in Seq(Accounts) /\ PrefixOf(s[f], r[f])
    /\ row.observation = s.accounts[a].observation
    /\ row.warm_transaction = s.accounts[a].warm_transaction
    /\ row.journaled_scope = s.scope
    /\ row.observation # s.transaction => obs.effect = {}
    /\ row.lifecycle_transaction = s.transaction => InLifecycle(r, a)
    /\ row.flags \cap LifecycleBits # {} => InLifecycle(r, a)
    /\ CodeBound(s, row.code_ref, row.current.code)

LEMMA WriteRowFollows ==
  ASSUME NEW s, NEW r, NEW a \in Accounts, NEW row, NEW obs, WriteRow(s, r, a, row, obs)
  PROVE  Follows(s, r) /\ Prepared(r, a) /\ r.accounts[a] = row
<1> USE DEF WriteRow
<1>1. Sound(s) /\ IsAdmitted(s, a) /\ s.accounts[a].journaled_scope = s.scope
  BY DEF Prepared
<1>2. /\ Typed(s) /\ ListsTyped(s) /\ s.accounts \in [Accounts -> AccountRowOf(s.clock)]
  BY <1>1, RowFacts DEF Typed
<1>3. /\ r.clock = s.clock /\ r.introduced = s.introduced /\ r.scope = s.scope
      /\ r.account_ids = s.account_ids /\ r.journal = s.journal
  BY DEF SameBut, StateFields, WriteFields
<1>4. ListsTyped(r)
  BY <1>2, <1>3 DEF ListsTyped, SameBut, StateFields, WriteFields
<1>5. \A f \in ListFields : PrefixOf(s[f], r[f])
  <2>1. ASSUME NEW f \in ListFields \ WriteFields
        PROVE  PrefixOf(s[f], r[f])
    <3>1. r[f] = s[f]
      BY DEF SameBut, StateFields, ListFields
    <3> QED BY <1>2, <3>1, TypedLists, PrefixReflexive
  <2> QED BY <2>1 DEF WriteFields, ListFields
<1>6. Extends(s, r) /\ Quiet(s, r)
  BY <1>2, <1>3, SilentStep
<1>7. SameBut(r, s, AccountFields)
  BY DEF SameBut, AccountFields, ListFields, WriteFields
<1>8. AccountStep(s, r, a, row, obs)
  BY <1>1, <1>4, <1>5, <1>6, <1>7 DEF AccountStep
<1>9. Follows(s, r) /\ Sound(r)
  BY <1>1, <1>8, AccountStepKeeps, KeepsFollows DEF Keeps
<1>10. r.accounts[a] = row
  BY <1>2
<1> QED BY <1>1, <1>3, <1>9, <1>10 DEF Prepared, IsAdmitted
-----------------------------------------------------------------------------
(* The operations on accounts                                              *)

LEMMA PreparedFacts ==
  ASSUME NEW s, NEW a \in Accounts, Prepared(s, a)
  PROVE  /\ Sound(s) /\ IsAdmitted(s, a) /\ Typed(s) /\ IsState(s)
         /\ s.accounts[a].journaled_scope = s.scope
         /\ s.clock \in Nat /\ s.transaction \in 1 .. s.clock /\ s.scope \in 0 .. s.clock
         /\ s.accounts \in [Accounts -> AccountRowOf(s.clock)]
         /\ s.observed_accounts \in [Accounts -> AccountObservation]
         /\ s.accounts[a] \in AccountRowOf(s.clock)
         /\ s.observed_accounts[a] \in AccountObservation
         /\ CodeBound(s, s.accounts[a].code_ref, s.accounts[a].current.code)
         /\ s.accounts[a].observation # s.transaction => s.observed_accounts[a].effect = {}
         /\ s.accounts[a].lifecycle_transaction = s.transaction => InLifecycle(s, a)
         /\ s.accounts[a].flags \cap LifecycleBits # {} => InLifecycle(s, a)
         /\ s.block_storage_wipes \in Seq(Accounts) /\ s.lifecycle_accounts \in Seq(Accounts)
         /\ s.transaction_storage_wipes \in Seq(Accounts)
<1>1. Sound(s) /\ IsAdmitted(s, a) /\ s.accounts[a].journaled_scope = s.scope
  BY DEF Prepared
<1>2. /\ s.block_storage_wipes \in Seq(Accounts) /\ s.lifecycle_accounts \in Seq(Accounts)
      /\ s.transaction_storage_wipes \in Seq(Accounts) /\ IsState(s)
  BY <1>1 DEF Sound, Typed, ListsTyped
<1> QED BY <1>1, <1>2, RowFacts

\* A change to the row and the observation alone.
ChangeRow(s, r, a, row, obs) ==
    /\ Prepared(s, a)
    /\ row \in AccountRowOf(s.clock) /\ obs \in AccountObservation
    /\ SameBut(r, s, {"accounts", "observed_accounts"})
    /\ r.accounts = [s.accounts EXCEPT ![a] = row]
    /\ r.observed_accounts = [s.observed_accounts EXCEPT ![a] = obs]
    /\ row.observation = s.accounts[a].observation
    /\ row.warm_transaction = s.accounts[a].warm_transaction
    /\ row.journaled_scope = s.scope
    /\ row.observation # s.transaction => obs.effect = {}
    /\ row.lifecycle_transaction = s.accounts[a].lifecycle_transaction
    /\ row.flags \cap LifecycleBits # {} => InLifecycle(s, a)
    /\ CodeBound(s, row.code_ref, row.current.code)

LEMMA ChangeRowFollows ==
  ASSUME NEW s, NEW r, NEW a \in Accounts, NEW row, NEW obs, ChangeRow(s, r, a, row, obs)
  PROVE  Follows(s, r) /\ Prepared(r, a) /\ r.accounts[a] = row
<1> USE DEF ChangeRow
<1>1. /\ s.block_storage_wipes \in Seq(Accounts) /\ s.lifecycle_accounts \in Seq(Accounts)
      /\ s.transaction_storage_wipes \in Seq(Accounts)
      /\ s.accounts[a].lifecycle_transaction = s.transaction => InLifecycle(s, a)
  BY PreparedFacts
<1>2. /\ r.block_storage_wipes = s.block_storage_wipes
      /\ r.transaction_storage_wipes = s.transaction_storage_wipes
      /\ r.lifecycle_accounts = s.lifecycle_accounts
  BY DEF SameBut, StateFields
<1>3. \A f \in {"block_storage_wipes", "transaction_storage_wipes", "lifecycle_accounts"} :
             r[f] \in Seq(Accounts) /\ PrefixOf(s[f], r[f])
  BY <1>1, <1>2, PrefixReflexive
<1>4. SameBut(r, s, WriteFields)
  BY DEF SameBut, WriteFields
<1>5. /\ row.lifecycle_transaction = s.transaction => InLifecycle(r, a)
      /\ row.flags \cap LifecycleBits # {} => InLifecycle(r, a)
  BY <1>1, <1>2 DEF InLifecycle
<1>6. WriteRow(s, r, a, row, obs)
  BY <1>3, <1>4, <1>5 DEF WriteRow
<1> QED BY ZenonT(40), <1>6, WriteRowFollows

LEMMA PrepareLifecycleFollows ==
  ASSUME NEW s, Sound(s), NEW a \in Accounts, IsAdmitted(s, a)
  PROVE  LET r == PrepareLifecycleMutation(s, a)
         IN  /\ Follows(s, r) /\ Prepared(r, a) /\ InLifecycle(r, a)
             /\ SameRowBut(r, s, a, {"journaled_scope", "flags", "dirty_transaction",
                                     "lifecycle_transaction"})
             /\ r.accounts[a].flags = s.accounts[a].flags \cup {"block_changed"}
<1> DEFINE p == PrepareAccountMutation(s, a)
           r == PrepareLifecycleMutation(s, a)
           first == s.accounts[a].lifecycle_transaction # s.transaction
           row == [p.accounts[a] EXCEPT !.lifecycle_transaction = s.transaction]
           obs == p.observed_accounts[a]
<1>1. /\ Follows(s, p) /\ Prepared(p, a)
      /\ SameBut(p, s, {"accounts", "journal", "block_changed_accounts", "changed_accounts"})
      /\ SameRowBut(p, s, a, {"journaled_scope", "flags", "dirty_transaction"})
      /\ p.accounts[a].flags = s.accounts[a].flags \cup {"block_changed"}
  BY PrepareFollows
<1>2. r = [p EXCEPT !.accounts[a].lifecycle_transaction = s.transaction,
                    !.lifecycle_accounts = AppendIf(@, first, a)]
  BY DEF PrepareLifecycleMutation
<1> HIDE DEF p, r
<1>3. /\ Typed(p) /\ p.clock \in Nat /\ p.transaction \in 1 .. p.clock /\ IsState(p)
      /\ p.accounts \in [Accounts -> AccountRowOf(p.clock)]
      /\ p.observed_accounts \in [Accounts -> AccountObservation]
      /\ p.accounts[a] \in AccountRowOf(p.clock)
      /\ p.observed_accounts[a] \in AccountObservation
      /\ CodeBound(p, p.accounts[a].code_ref, p.accounts[a].current.code)
      /\ p.accounts[a].observation # p.transaction => p.observed_accounts[a].effect = {}
      /\ p.accounts[a].lifecycle_transaction = p.transaction => InLifecycle(p, a)
      /\ p.accounts[a].journaled_scope = p.scope
      /\ p.lifecycle_accounts \in Seq(Accounts)
      /\ p.block_storage_wipes \in Seq(Accounts)
      /\ p.transaction_storage_wipes \in Seq(Accounts)
  BY <1>1, PreparedFacts
<1>4. /\ SameBut(r, p, {"accounts", "lifecycle_accounts"})
      /\ r.accounts = [p.accounts EXCEPT ![a] = row]
      /\ r.lifecycle_accounts = AppendIf(p.lifecycle_accounts, first, a)
  <2> HIDE DEF first
  <2> QED BY <1>2, <1>3 DEF SameBut, IsState, StateFields
<1>5. /\ row \in AccountRowOf(p.clock)
      /\ \A f \in AccountRowFields \ {"lifecycle_transaction"} : row[f] = p.accounts[a][f]
  <2>0. s.transaction = p.transaction
    BY <1>1 DEF SameBut, StateFields
  <2>1. s.transaction \in 0 .. p.clock
    BY <1>3, <2>0
  <2>2. row \in AccountRowOf(p.clock)
    BY <1>3, <2>1 DEF AccountRowOf
  <2>3. \A f \in AccountRowFields \ {"lifecycle_transaction"} : row[f] = p.accounts[a][f]
    BY <1>3 DEF AccountRowOf, AccountRowFields
  <2> QED BY <2>2, <2>3
<1> HIDE DEF row
<1>6. /\ row.observation = p.accounts[a].observation
      /\ row.warm_transaction = p.accounts[a].warm_transaction
      /\ row.journaled_scope = p.scope /\ row.flags = p.accounts[a].flags
      /\ row.code_ref = p.accounts[a].code_ref /\ row.current = p.accounts[a].current
  BY <1>3, <1>5 DEF AccountRowFields
<1>7. InLifecycle(r, a)
  <2>1. CASE first
    <3>1. r.lifecycle_accounts = Append(p.lifecycle_accounts, a)
      BY <1>4, <2>1 DEF AppendIf
    <3>2. /\ Len(r.lifecycle_accounts) = Len(p.lifecycle_accounts) + 1
          /\ r.lifecycle_accounts[Len(p.lifecycle_accounts) + 1] = a
          /\ Len(p.lifecycle_accounts) + 1 \in 1 .. Len(p.lifecycle_accounts) + 1
      BY <1>3, <3>1
    <3> QED BY <3>2 DEF InLifecycle
  <2>2. CASE ~first
    <3>1. r.lifecycle_accounts = p.lifecycle_accounts
      BY <1>4, <2>2 DEF AppendIf
    <3>2. p.accounts[a].lifecycle_transaction = p.transaction
      BY <1>1, <2>2 DEF SameRowBut, AccountRowFields, SameBut, StateFields
    <3> QED BY <1>3, <3>1, <3>2 DEF InLifecycle
  <2> QED BY <2>1, <2>2
<1>8. SameBut(r, p, WriteFields) /\ r.observed_accounts = p.observed_accounts
  BY <1>4 DEF SameBut, WriteFields, StateFields
<1>9. r.observed_accounts = [p.observed_accounts EXCEPT ![a] = obs]
  BY <1>3, <1>8
<1>10. \A f \in {"block_storage_wipes", "transaction_storage_wipes", "lifecycle_accounts"} :
             r[f] \in Seq(Accounts) /\ PrefixOf(p[f], r[f])
  <2>1. /\ r.block_storage_wipes = p.block_storage_wipes
        /\ r.transaction_storage_wipes = p.transaction_storage_wipes
    BY <1>4 DEF SameBut, StateFields
  <2>2. /\ r.lifecycle_accounts \in Seq(Accounts)
        /\ PrefixOf(p.lifecycle_accounts, r.lifecycle_accounts)
    BY <1>3, <1>4, AppendIfFacts
  <2> QED BY <1>3, <2>1, <2>2, PrefixReflexive
<1>11. obs \in AccountObservation /\ (row.observation # p.transaction => obs.effect = {})
  BY <1>3, <1>6
<1> HIDE DEF obs
<1>12. Follows(p, r) /\ Prepared(r, a) /\ r.accounts[a] = row
  <2>1. CodeBound(p, row.code_ref, row.current.code)
    BY <1>3, <1>6
  <2>2. WriteRow(p, r, a, row, obs)
    BY <1>1, <1>4, <1>5, <1>6, <1>7, <1>8, <1>9, <1>10, <1>11, <2>1 DEF WriteRow
  <2> QED BY <2>2, WriteRowFollows
<1>13. Follows(s, r)
  BY <1>1, <1>12, FollowsTransitive
<1>14. SameRowBut(r, s, a, {"journaled_scope", "flags", "dirty_transaction",
                            "lifecycle_transaction"})
  <2>1. \A b \in Accounts : b # a => r.accounts[b] = p.accounts[b]
    BY <1>3, <1>4
  <2> QED BY <1>1, <1>5, <1>12, <2>1 DEF SameRowBut
<1> QED BY <1>1, <1>6, <1>7, <1>12, <1>13, <1>14 DEF r

LEMMA EffectTyped ==
  ASSUME NEW effect \in SUBSET Effects, NEW previous, NEW value
  PROVE  RecordAccountEffect(effect, previous, value) \in SUBSET Effects
<1>1. ValueFields \subseteq Effects /\ "account_deleted" \in Effects
  BY DEF Effects
<1> QED BY <1>1 DEF RecordAccountEffect

LEMMA WriteAccountFollows ==
  ASSUME NEW s, Sound(s), NEW a \in Accounts, IsAdmitted(s, a), NEW value \in Value,
         value.code \in {EmptyCode, s.accounts[a].current.code}
  PROVE  LET r == WriteAccount(s, a, value)
         IN  Follows(s, r) /\ Prepared(r, a)
<1> DEFINE o == ObserveAccount(s, a)
           p == PrepareAccountMutation(o, a)
           r == WriteAccount(s, a, value)
           previous == p.accounts[a].current
           ref == IF previous.code = value.code THEN p.accounts[a].code_ref
                  ELSE Bind(s, value.code)
           effect == RecordAccountEffect(p.observed_accounts[a].effect, previous, value)
           row == [p.accounts[a] EXCEPT !.current = value, !.code_ref = ref]
           obs == [p.observed_accounts[a] EXCEPT !.effect = effect]
<1>1. /\ Follows(s, o) /\ Sound(o) /\ IsAdmitted(o, a)
      /\ o.accounts[a].observation = s.transaction
      /\ SameBut(o, s, {"accounts", "observed_accounts"})
      /\ SameRowBut(o, s, a, {"observation"})
  BY ObserveFollows
<1>2. /\ Follows(o, p) /\ Prepared(p, a)
      /\ SameBut(p, o, {"accounts", "journal", "block_changed_accounts", "changed_accounts"})
      /\ SameRowBut(p, o, a, {"journaled_scope", "flags", "dirty_transaction"})
  BY <1>1, PrepareFollows
<1>3. r = [p EXCEPT !.accounts[a].current = value, !.accounts[a].code_ref = ref,
                    !.observed_accounts[a].effect = effect]
  BY DEF WriteAccount
<1> HIDE DEF o, p, r
<1>4. /\ Typed(p) /\ p.clock \in Nat /\ p.transaction \in 1 .. p.clock /\ IsState(p)
      /\ p.accounts \in [Accounts -> AccountRowOf(p.clock)]
      /\ p.observed_accounts \in [Accounts -> AccountObservation]
      /\ p.accounts[a] \in AccountRowOf(p.clock)
      /\ p.observed_accounts[a] \in AccountObservation
      /\ CodeBound(p, p.accounts[a].code_ref, p.accounts[a].current.code)
      /\ p.accounts[a].flags \cap LifecycleBits # {} => InLifecycle(p, a)
      /\ p.accounts[a].journaled_scope = p.scope
  BY <1>2, PreparedFacts
<1>5. p.accounts[a].observation = p.transaction /\ previous = s.accounts[a].current
  <2>1. p.transaction = s.transaction
    BY <1>1, <1>2 DEF SameBut, StateFields
  <2> QED BY <1>1, <1>2, <2>1 DEF SameRowBut, AccountRowFields
<1>6. ref \in Int /\ CodeBound(p, ref, value.code)
  <2>1. CASE previous.code = value.code
    BY <1>4, <2>1 DEF AccountRowOf
  <2>2. CASE previous.code # value.code
    <3>1. ref = EmptyRef /\ value.code = EmptyCode
      BY <1>5, <2>2 DEF Bind
    <3> QED BY <3>1 DEF CodeBound, EmptyRef
  <2> QED BY <2>1, <2>2
<1>7. effect \in SUBSET Effects
  BY <1>4, EffectTyped DEF AccountObservation
<1> HIDE DEF ref, effect, previous
<1>8. /\ SameBut(r, p, {"accounts", "observed_accounts"})
      /\ r.accounts = [p.accounts EXCEPT ![a] = row]
      /\ r.observed_accounts = [p.observed_accounts EXCEPT ![a] = obs]
  BY <1>3, <1>4 DEF SameBut, IsState, StateFields
<1>9. obs \in AccountObservation
  BY <1>4, <1>7 DEF AccountObservation
<1>10. /\ row \in AccountRowOf(p.clock)
       /\ \A f \in AccountRowFields \ {"current", "code_ref"} : row[f] = p.accounts[a][f]
       /\ row.code_ref = ref /\ row.current = value
  BY <1>4, <1>6 DEF AccountRowOf, AccountRowFields
<1> HIDE DEF row, obs
<1>11. /\ row.observation = p.accounts[a].observation
       /\ row.warm_transaction = p.accounts[a].warm_transaction
       /\ row.journaled_scope = p.scope /\ row.flags = p.accounts[a].flags
       /\ row.lifecycle_transaction = p.accounts[a].lifecycle_transaction
  BY <1>4, <1>10 DEF AccountRowFields
<1>12. Follows(p, r) /\ Prepared(r, a)
  <2>1. /\ CodeBound(p, row.code_ref, row.current.code)
        /\ row.flags \cap LifecycleBits # {} => InLifecycle(p, a)
        /\ row.observation # p.transaction => obs.effect = {}
    BY <1>4, <1>5, <1>6, <1>10, <1>11
  <2>2. ChangeRow(p, r, a, row, obs)
    BY <1>2, <1>8, <1>9, <1>10, <1>11, <2>1 DEF ChangeRow
  <2> QED BY <2>2, ChangeRowFollows
<1>13. Follows(s, p)
  BY <1>1, <1>2, FollowsTransitive
<1>14. Follows(s, r)
  BY <1>12, <1>13, FollowsTransitive
<1> QED BY <1>12, <1>14 DEF r
\* A change of value, code reference, flags and effects.
ValueChange(s, r, a, value, ref, flags, effect) ==
    /\ Prepared(s, a)
    /\ SameBut(r, s, {"accounts", "observed_accounts"})
    /\ r.accounts = [s.accounts EXCEPT ![a] =
          [s.accounts[a] EXCEPT !.current = value, !.code_ref = ref, !.flags = flags]]
    /\ r.observed_accounts = [s.observed_accounts EXCEPT ![a] =
          [s.observed_accounts[a] EXCEPT !.effect = effect]]
    /\ value \in Value /\ ref \in Int
    /\ flags \in SUBSET AccountFlags /\ effect \in SUBSET Effects
    /\ s.accounts[a].observation = s.transaction \/ effect = {}
    /\ flags \cap LifecycleBits # {} => InLifecycle(s, a)
    /\ CodeBound(s, ref, value.code)

LEMMA ValueChangeFollows ==
  ASSUME NEW s, NEW r, NEW a \in Accounts, NEW value, NEW ref, NEW flags, NEW effect,
         ValueChange(s, r, a, value, ref, flags, effect)
  PROVE  /\ Follows(s, r) /\ Prepared(r, a)
         /\ SameRowBut(r, s, a, {"current", "code_ref", "flags"})
         /\ r.accounts[a].flags = flags /\ r.accounts[a].current = value
<1> DEFINE row == [s.accounts[a] EXCEPT !.current = value, !.code_ref = ref, !.flags = flags]
           obs == [s.observed_accounts[a] EXCEPT !.effect = effect]
<1>1. /\ Prepared(s, a) /\ SameBut(r, s, {"accounts", "observed_accounts"})
      /\ r.accounts = [s.accounts EXCEPT ![a] = row]
      /\ r.observed_accounts = [s.observed_accounts EXCEPT ![a] = obs]
  BY DEF ValueChange
<1>2. /\ value \in Value /\ ref \in Int
      /\ flags \in SUBSET AccountFlags /\ effect \in SUBSET Effects
      /\ s.accounts[a].observation = s.transaction \/ effect = {}
      /\ flags \cap LifecycleBits # {} => InLifecycle(s, a)
      /\ CodeBound(s, ref, value.code)
  BY DEF ValueChange
<1>3. /\ s.accounts[a] \in AccountRowOf(s.clock)
      /\ s.observed_accounts[a] \in AccountObservation
      /\ s.accounts[a].journaled_scope = s.scope
      /\ s.accounts \in [Accounts -> AccountRowOf(s.clock)]
  BY <1>1, PreparedFacts
<1>4. row \in AccountRowOf(s.clock)
  BY <1>2, <1>3 DEF AccountRowOf
<1>5. /\ \A f \in AccountRowFields \ {"current", "code_ref", "flags"} :
            row[f] = s.accounts[a][f]
      /\ row.code_ref = ref /\ row.current = value /\ row.flags = flags
  BY <1>3 DEF AccountRowOf, AccountRowFields
<1>6. obs \in AccountObservation /\ obs.effect = effect
  BY <1>2, <1>3 DEF AccountObservation
<1> HIDE DEF row, obs
<1>7. /\ row.observation = s.accounts[a].observation
      /\ row.warm_transaction = s.accounts[a].warm_transaction
      /\ row.journaled_scope = s.scope
      /\ row.lifecycle_transaction = s.accounts[a].lifecycle_transaction
  BY <1>3, <1>5 DEF AccountRowFields
<1>8. ChangeRow(s, r, a, row, obs)
  BY <1>1, <1>2, <1>4, <1>5, <1>6, <1>7 DEF ChangeRow
<1>9. Follows(s, r) /\ Prepared(r, a) /\ r.accounts[a] = row
  BY <1>8, ChangeRowFollows
<1>10. \A b \in Accounts : b # a => r.accounts[b] = s.accounts[b]
  BY <1>1, <1>3
<1> QED BY <1>5, <1>9, <1>10 DEF SameRowBut

LEMMA ReadFollows ==
  ASSUME NEW s, Sound(s), NEW a \in Accounts
  PROVE  LET r == ReadAccount(s, a)
         IN  Follows(s, r) /\ Sound(r) /\ IsAdmitted(r, a)
<1> DEFINE t == ResolveAccount(s, a)
<1>1. Follows(s, t) /\ Sound(t) /\ IsAdmitted(t, a)
  BY ResolveFollows
<1>2. /\ Follows(t, ObserveAccount(t, a)) /\ Sound(ObserveAccount(t, a))
      /\ IsAdmitted(ObserveAccount(t, a), a)
  <2> HIDE DEF t
  <2> QED BY <1>1, ObserveFollows
<1>3. Follows(s, ObserveAccount(t, a))
  <2> HIDE DEF t
  <2> QED BY <1>1, <1>2, FollowsTransitive
<1> QED BY <1>1, <1>2, <1>3 DEF ReadAccount

LEMMA ValueFacts ==
  ASSUME NEW value \in Value
  PROVE  /\ value.exists \in BOOLEAN /\ value.balance \in Nat /\ value.nonce \in Nat
         /\ value.code \in Nat
         /\ OrEmpty(value) \in Value /\ OrEmpty(value).code = value.code
         /\ OrEmpty(value).exists
<1>1. value \in AccountValue
  BY DEF Value
<1> QED BY <1>1 DEF Value, AccountValue, OrEmpty

LEMMA FieldFacts ==
  ASSUME NEW value \in Value, NEW v \in Nat, NEW field \in {"balance", "nonce"}
  PROVE  /\ [OrEmpty(value) EXCEPT ![field] = v] \in Value
         /\ [OrEmpty(value) EXCEPT ![field] = v].code = value.code
<1>1. value \in AccountValue
  BY DEF Value
<1> QED BY <1>1 DEF Value, AccountValue, OrEmpty

LEMMA CodeFacts ==
  ASSUME NEW value \in Value, NEW v \in Nat
  PROVE  /\ [OrEmpty(value) EXCEPT !.code = v] \in Value
         /\ [OrEmpty(value) EXCEPT !.code = v].code = v
         /\ [OrEmpty(value) EXCEPT !.nonce = v, !.code = EmptyCode] \in Value
         /\ [OrEmpty(value) EXCEPT !.nonce = v, !.code = EmptyCode].code = EmptyCode
<1>1. value \in AccountValue
  BY DEF Value
<1> QED BY <1>1 DEF Value, AccountValue, OrEmpty, EmptyCode

LEMMA SetFieldFollows ==
  ASSUME NEW s, Sound(s), NEW a \in Accounts, NEW field \in {"balance", "nonce"},
         NEW v \in Nat
  PROVE  LET r == SetField(s, a, field, v)
         IN  Follows(s, r) /\ Sound(r)
<1> DEFINE t == ResolveAccount(s, a)
           current == t.accounts[a].current
           value == [OrEmpty(current) EXCEPT ![field] = v]
<1>1. Follows(s, t) /\ Sound(t) /\ IsAdmitted(t, a)
  BY ResolveFollows
<1> HIDE DEF t
<1>2. current \in Value
  BY <1>1, RowFacts DEF AccountRowOf
<1>3. value \in Value /\ value.code = current.code
  <2> HIDE DEF current
  <2> QED BY <1>2, FieldFacts
<1> HIDE DEF value
<1>4. Follows(t, WriteAccount(t, a, value)) /\ Sound(WriteAccount(t, a, value))
  BY <1>1, <1>3, WriteAccountFollows DEF Prepared
<1>5. Follows(s, WriteAccount(t, a, value))
  BY <1>1, <1>4, FollowsTransitive
<1> QED BY <1>1, <1>4, <1>5 DEF SetField, t, value

LEMMA AddBalanceFollows ==
  ASSUME NEW s, Sound(s), NEW a \in Accounts, NEW v \in Nat
  PROVE  Follows(s, AddBalance(s, a, v)) /\ Sound(AddBalance(s, a, v))
<1> DEFINE t == ReadAccount(s, a)
           balance == t.accounts[a].current.balance + v
<1>1. Follows(s, t) /\ Sound(t)
  BY ReadFollows
<1> HIDE DEF t
<1>2. balance \in Nat
  <2>1. t.accounts[a].current \in Value
    BY <1>1, RowFacts DEF AccountRowOf
  <2>2. t.accounts[a].current.balance \in Nat
    BY <2>1, ValueFacts
  <2> QED BY <2>2
<1> HIDE DEF balance
<1>3. Follows(t, SetField(t, a, "balance", balance)) /\ Sound(SetField(t, a, "balance", balance))
  BY <1>1, <1>2, SetFieldFollows
<1>4. Follows(s, SetField(t, a, "balance", balance))
  BY <1>1, <1>3, FollowsTransitive
<1>5. Follows(s, s)
  BY FollowsReflexive
<1> QED BY <1>3, <1>4, <1>5 DEF AddBalance, t, balance

LEMMA TouchFollows ==
  ASSUME NEW s, Sound(s), NEW a \in Accounts
  PROVE  Follows(s, TouchAccount(s, a)) /\ Sound(TouchAccount(s, a))
<1> DEFINE t == ResolveAccount(s, a)
           o == ObserveAccount(t, a)
           p == PrepareAccountMutation(o, a)
           r == [p EXCEPT !.accounts[a].current = OrEmpty(@),
                          !.accounts[a].flags = @ \cup {"touched"}]
           flags == p.accounts[a].flags \cup {"touched"}
           value == OrEmpty(p.accounts[a].current)
           ref == p.accounts[a].code_ref
           effect == p.observed_accounts[a].effect
<1>1. Follows(s, t) /\ Sound(t) /\ IsAdmitted(t, a)
  BY ResolveFollows
<1>2. Follows(t, o) /\ Sound(o) /\ IsAdmitted(o, a)
  <2> HIDE DEF t
  <2> QED BY <1>1, ObserveFollows
<1>3. Follows(s, o)
  <2> HIDE DEF t, o
  <2> QED BY <1>1, <1>2, FollowsTransitive
<1>4. Follows(o, p) /\ Prepared(p, a)
  <2> HIDE DEF o
  <2> QED BY <1>2, PrepareFollows
<1>5. Follows(s, p)
  <2> HIDE DEF o, p
  <2> QED BY <1>3, <1>4, FollowsTransitive
<1> HIDE DEF t, o, p
<1>6. /\ IsState(p) /\ p.accounts \in [Accounts -> AccountRowOf(p.clock)]
      /\ p.observed_accounts \in [Accounts -> AccountObservation]
      /\ p.accounts[a] \in AccountRowOf(p.clock)
      /\ p.observed_accounts[a] \in AccountObservation
      /\ CodeBound(p, p.accounts[a].code_ref, p.accounts[a].current.code)
      /\ p.accounts[a].flags \cap LifecycleBits # {} => InLifecycle(p, a)
      /\ p.accounts[a].observation # p.transaction => p.observed_accounts[a].effect = {}
  BY <1>4, PreparedFacts
<1>7. /\ value \in Value /\ value.code = p.accounts[a].current.code
  <2>1. p.accounts[a].current \in Value
    BY <1>6 DEF AccountRowOf
  <2> QED BY <2>1, ValueFacts
<1>8. /\ flags \in SUBSET AccountFlags
      /\ flags \cap LifecycleBits = p.accounts[a].flags \cap LifecycleBits
  <2>1. p.accounts[a].flags \in SUBSET AccountFlags
    BY <1>6 DEF AccountRowOf
  <2> QED BY <2>1 DEF AccountFlags, LifecycleBits
<1>9. /\ SameBut(r, p, {"accounts", "observed_accounts"})
      /\ r.observed_accounts = p.observed_accounts
  BY <1>6 DEF SameBut, IsState, StateFields
<1>10. r.accounts = [p.accounts EXCEPT ![a] =
            [p.accounts[a] EXCEPT !.current = value, !.code_ref = p.accounts[a].code_ref,
                                  !.flags = flags]]
  BY ZenonT(40), <1>6 DEF IsState, StateFields, AccountRowOf
<1>11. r.observed_accounts = [p.observed_accounts EXCEPT ![a] =
          [p.observed_accounts[a] EXCEPT !.effect = p.observed_accounts[a].effect]]
  BY <1>6, <1>9 DEF AccountObservation
<1> HIDE DEF r, flags, value
<1>12. ValueChange(p, r, a, value, ref, flags, effect)
  <2>1. ref \in Int /\ effect \in SUBSET Effects
    BY <1>6 DEF AccountRowOf, AccountObservation
  <2> QED BY <1>4, <1>6, <1>7, <1>8, <1>9, <1>10, <1>11, <2>1 DEF ValueChange
<1> HIDE DEF ref, effect
<1>13. Follows(p, r) /\ Sound(r)
  <2>1. Follows(p, r) /\ Prepared(r, a)
    BY <1>12, ValueChangeFollows
  <2> QED BY <2>1 DEF Prepared
<1>14. Follows(s, r)
  BY <1>5, <1>13, FollowsTransitive
<1> QED BY <1>2, <1>3, <1>13, <1>14 DEF TouchAccount, t, o, p, r
LEMMA WipeFollows ==
  ASSUME NEW s, Sound(s), NEW a \in Accounts, IsAdmitted(s, a)
  PROVE  LET r == WipeStorage(s, a)
         IN  /\ Follows(s, r) /\ Prepared(r, a)
             /\ r.accounts[a].observation = r.transaction
             /\ r.accounts[a].current = s.accounts[a].current
<1> DEFINE o == ObserveAccount(s, a)
           p == PrepareAccountMutation(o, a)
           r == WipeStorage(s, a)
           listed == "storage_wiped" \notin o.accounts[a].flags
           pending == o.accounts[a].wiped_transaction # s.transaction
           row == [p.accounts[a] EXCEPT
                      !.flags = p.accounts[a].flags \cup {"storage_dirty", "storage_wiped"},
                      !.storage_incarnation = p.accounts[a].storage_incarnation + 1,
                      !.wiped_transaction = s.transaction]
           obs == p.observed_accounts[a]
<1>1. /\ Follows(s, o) /\ Sound(o) /\ IsAdmitted(o, a)
      /\ o.accounts[a].observation = s.transaction
      /\ SameBut(o, s, {"accounts", "observed_accounts"})
      /\ SameRowBut(o, s, a, {"observation"})
  BY ObserveFollows
<1>2. /\ Follows(o, p) /\ Prepared(p, a)
      /\ SameBut(p, o, {"accounts", "journal", "block_changed_accounts", "changed_accounts"})
      /\ SameRowBut(p, o, a, {"journaled_scope", "flags", "dirty_transaction"})
  <2> HIDE DEF o
  <2> QED BY <1>1, PrepareFollows
<1>3. r = [p EXCEPT
              !.block_storage_wipes = AppendIf(@, listed, a),
              !.transaction_storage_wipes = AppendIf(@, pending, a),
              !.accounts[a].flags = @ \cup {"storage_dirty", "storage_wiped"},
              !.accounts[a].storage_incarnation = @ + 1,
              !.accounts[a].wiped_transaction = s.transaction]
  BY DEF WipeStorage
<1> HIDE DEF o, p, r, listed, pending
<1>4. /\ Typed(p) /\ p.clock \in Nat /\ p.transaction \in 1 .. p.clock /\ IsState(p)
      /\ p.accounts \in [Accounts -> AccountRowOf(p.clock)]
      /\ p.observed_accounts \in [Accounts -> AccountObservation]
      /\ p.accounts[a] \in AccountRowOf(p.clock)
      /\ p.observed_accounts[a] \in AccountObservation
      /\ CodeBound(p, p.accounts[a].code_ref, p.accounts[a].current.code)
      /\ p.accounts[a].lifecycle_transaction = p.transaction => InLifecycle(p, a)
      /\ p.accounts[a].flags \cap LifecycleBits # {} => InLifecycle(p, a)
      /\ p.accounts[a].journaled_scope = p.scope
      /\ p.lifecycle_accounts \in Seq(Accounts)
      /\ p.block_storage_wipes \in Seq(Accounts)
      /\ p.transaction_storage_wipes \in Seq(Accounts)
  BY <1>2, PreparedFacts
<1>5. /\ SameBut(r, p, {"accounts", "block_storage_wipes", "transaction_storage_wipes"})
      /\ r.block_storage_wipes = AppendIf(p.block_storage_wipes, listed, a)
      /\ r.transaction_storage_wipes = AppendIf(p.transaction_storage_wipes, pending, a)
  BY <1>3, <1>4 DEF SameBut, IsState, StateFields
<1>6. r.accounts = [p.accounts EXCEPT ![a] = row]
  BY <1>3, <1>4 DEF IsState, StateFields, AccountRowOf
<1>7. /\ p.transaction = s.transaction
      /\ p.accounts[a].observation = s.transaction
      /\ p.accounts[a].current = s.accounts[a].current
  <2>1. p.transaction = s.transaction
    BY <1>1, <1>2 DEF SameBut, StateFields
  <2> QED BY <1>1, <1>2, <2>1 DEF SameRowBut, AccountRowFields
<1>8. row \in AccountRowOf(p.clock)
  <2>1. /\ s.transaction \in 0 .. p.clock /\ p.accounts[a].storage_incarnation + 1 \in Nat
        /\ p.accounts[a].flags \cup {"storage_dirty", "storage_wiped"} \in SUBSET AccountFlags
    BY SMTT(30), <1>4, <1>7 DEF AccountRowOf, AccountFlags
  <2> QED BY <1>4, <2>1 DEF AccountRowOf
<1>9. /\ \A f \in AccountRowFields \ {"flags", "storage_incarnation", "wiped_transaction"} :
            row[f] = p.accounts[a][f]
      /\ row.flags = p.accounts[a].flags \cup {"storage_dirty", "storage_wiped"}
  BY <1>4 DEF AccountRowOf, AccountRowFields
<1> HIDE DEF row
<1>10. /\ row.observation = p.accounts[a].observation
       /\ row.warm_transaction = p.accounts[a].warm_transaction
       /\ row.journaled_scope = p.scope
       /\ row.code_ref = p.accounts[a].code_ref /\ row.current = p.accounts[a].current
       /\ row.lifecycle_transaction = p.accounts[a].lifecycle_transaction
  BY <1>4, <1>9 DEF AccountRowFields
<1>11. SameBut(r, p, WriteFields) /\ r.observed_accounts = p.observed_accounts
       /\ r.lifecycle_accounts = p.lifecycle_accounts /\ r.transaction = p.transaction
  BY <1>5 DEF SameBut, WriteFields, StateFields
<1>12. r.observed_accounts = [p.observed_accounts EXCEPT ![a] = obs]
  BY <1>4, <1>11
<1>13. \A f \in {"block_storage_wipes", "transaction_storage_wipes", "lifecycle_accounts"} :
             r[f] \in Seq(Accounts) /\ PrefixOf(p[f], r[f])
  <2>1. /\ r.block_storage_wipes \in Seq(Accounts)
        /\ PrefixOf(p.block_storage_wipes, r.block_storage_wipes)
    BY <1>4, <1>5, AppendIfFacts
  <2>2. /\ r.transaction_storage_wipes \in Seq(Accounts)
        /\ PrefixOf(p.transaction_storage_wipes, r.transaction_storage_wipes)
    BY <1>4, <1>5, AppendIfFacts
  <2> QED BY <1>4, <1>11, <2>1, <2>2, PrefixReflexive
<1>14. /\ row.lifecycle_transaction = p.transaction => InLifecycle(r, a)
       /\ row.flags \cap LifecycleBits # {} => InLifecycle(r, a)
  <2>1. row.flags \cap LifecycleBits = p.accounts[a].flags \cap LifecycleBits
    BY <1>9 DEF LifecycleBits
  <2> QED BY <1>4, <1>10, <1>11, <2>1 DEF InLifecycle
<1>15. WriteRow(p, r, a, row, obs)
  <2>1. CodeBound(p, row.code_ref, row.current.code)
    BY <1>4, <1>10
  <2>2. row.observation # p.transaction => obs.effect = {}
    BY <1>7, <1>10
  <2> QED BY <1>2, <1>4, <1>6, <1>8, <1>10, <1>11, <1>12, <1>13, <1>14, <2>1, <2>2
          DEF WriteRow
<1> HIDE DEF obs
<1>16. Follows(p, r) /\ Prepared(r, a) /\ r.accounts[a] = row
  BY <1>15, WriteRowFollows
<1>17. Follows(s, p)
  BY <1>1, <1>2, FollowsTransitive
<1>18. Follows(s, r)
  BY <1>16, <1>17, FollowsTransitive
<1> QED BY <1>7, <1>10, <1>11, <1>16, <1>18 DEF r

\* A mark on a listed row: its flags and its effects.
LEMMA MarkFollows ==
  ASSUME NEW s, NEW a \in Accounts, Prepared(s, a), NEW flags \in SUBSET AccountFlags,
         NEW added \in SUBSET Effects,
         s.accounts[a].observation = s.transaction \/ added = {},
         flags \cap LifecycleBits # {} => InLifecycle(s, a),
         NEW r, r = [s EXCEPT !.accounts[a].flags = flags,
                              !.observed_accounts[a].effect = @ \cup added]
  PROVE  Follows(s, r) /\ Prepared(r, a) /\ r.accounts[a].flags = flags
<1> DEFINE value == s.accounts[a].current
           ref == s.accounts[a].code_ref
           effect == s.observed_accounts[a].effect \cup added
<1>1. /\ IsState(s) /\ s.accounts \in [Accounts -> AccountRowOf(s.clock)]
      /\ s.observed_accounts \in [Accounts -> AccountObservation]
      /\ s.accounts[a] \in AccountRowOf(s.clock)
      /\ s.observed_accounts[a] \in AccountObservation
      /\ CodeBound(s, s.accounts[a].code_ref, s.accounts[a].current.code)
      /\ s.accounts[a].observation # s.transaction => s.observed_accounts[a].effect = {}
  BY PreparedFacts
<1>2. SameBut(r, s, {"accounts", "observed_accounts"})
  BY <1>1 DEF SameBut, IsState, StateFields
<1>3. r.accounts = [s.accounts EXCEPT ![a] =
         [s.accounts[a] EXCEPT !.current = value, !.code_ref = ref, !.flags = flags]]
  BY <1>1 DEF IsState, StateFields, AccountRowOf
<1>4. r.observed_accounts = [s.observed_accounts EXCEPT ![a] =
         [s.observed_accounts[a] EXCEPT !.effect = effect]]
  BY <1>1 DEF IsState, StateFields, AccountObservation
<1>5. value \in Value /\ ref \in Int /\ effect \in SUBSET Effects
  BY <1>1 DEF AccountRowOf, AccountObservation
<1>6. ValueChange(s, r, a, value, ref, flags, effect)
  BY <1>1, <1>2, <1>3, <1>4, <1>5 DEF ValueChange
<1> HIDE DEF value, ref, effect
<1> QED BY <1>6, ValueChangeFollows

LEMMA MarkSelfdestructedFollows ==
  ASSUME NEW s, Sound(s), NEW a \in Accounts
  PROVE  Follows(s, MarkSelfdestructed(s, a)) /\ Sound(MarkSelfdestructed(s, a))
<1> DEFINE t == ResolveAccount(s, a)
           o == ObserveAccount(t, a)
           p == PrepareLifecycleMutation(o, a)
           flags == p.accounts[a].flags \cup {"selfdestructed"}
           r == [p EXCEPT !.accounts[a].flags = @ \cup {"selfdestructed"},
                          !.observed_accounts[a].effect = @ \cup {"selfdestruct"}]
<1>1. Follows(s, t) /\ Sound(t) /\ IsAdmitted(t, a)
  BY ResolveFollows
<1>2. /\ Follows(t, o) /\ Sound(o) /\ IsAdmitted(o, a)
      /\ o.accounts[a].observation = t.transaction
      /\ SameBut(o, t, {"accounts", "observed_accounts"})
  <2> HIDE DEF t
  <2> QED BY <1>1, ObserveFollows
<1>3. /\ Follows(o, p) /\ Prepared(p, a) /\ InLifecycle(p, a)
      /\ SameRowBut(p, o, a, {"journaled_scope", "flags", "dirty_transaction",
                              "lifecycle_transaction"})
  <2> HIDE DEF o
  <2> QED BY <1>2, PrepareLifecycleFollows
<1>4. Follows(s, o)
  <2> HIDE DEF t, o
  <2> QED BY <1>1, <1>2, FollowsTransitive
<1>5. Follows(s, p)
  <2> HIDE DEF o, p
  <2> QED BY <1>3, <1>4, FollowsTransitive
<1> HIDE DEF t, o, p
<1>6. p.accounts[a].observation = p.transaction
  <2>1. o.transaction = t.transaction
    BY <1>2 DEF SameBut, StateFields
  <2>2. p.transaction = o.transaction
    BY <1>3, StepFacts DEF Follows
  <2> QED BY <1>2, <1>3, <2>1, <2>2 DEF SameRowBut, AccountRowFields
<1>7. flags \in SUBSET AccountFlags /\ {"selfdestruct"} \in SUBSET Effects
  <2>1. p.accounts[a].flags \in SUBSET AccountFlags
    BY <1>3, PreparedFacts DEF AccountRowOf
  <2> QED BY <2>1 DEF AccountFlags, Effects
<1>8. Follows(p, r) /\ Prepared(r, a)
  <2>1. r = [p EXCEPT !.accounts[a].flags = flags,
                      !.observed_accounts[a].effect = @ \cup {"selfdestruct"}]
    OBVIOUS
  <2> HIDE DEF r, flags
  <2> QED BY ZenonT(40), <1>3, <1>6, <1>7, <2>1, MarkFollows
<1>9. Follows(s, r)
  <2> HIDE DEF r
  <2> QED BY <1>5, <1>8, FollowsTransitive
<1>10. Sound(r)
  BY <1>8 DEF Prepared
<1> QED BY <1>1, <1>9, <1>10 DEF MarkSelfdestructed, t, o, p, r

LEMMA InitializeFollows ==
  ASSUME NEW s, Sound(s), NEW a \in Accounts
  PROVE  Follows(s, InitializeContract(s, a))
<1> DEFINE t == ResolveAccount(s, a)
           value == [OrEmpty(t.accounts[a].current) EXCEPT
                        !.nonce = InitialNonce, !.code = EmptyCode]
           w == WriteAccount(t, a, value)
           v == WipeStorage(w, a)
           p == PrepareLifecycleMutation(v, a)
           flags == p.accounts[a].flags \cup {"created"}
           r == [p EXCEPT !.accounts[a].flags = @ \cup {"created"},
                          !.observed_accounts[a].effect = @ \cup {"created_contract"}]
<1>1. Follows(s, t) /\ Sound(t) /\ IsAdmitted(t, a)
  BY ResolveFollows
<1>2. value \in Value /\ value.code = EmptyCode
  <2>1. t.accounts[a].current \in Value
    BY <1>1, RowFacts DEF AccountRowOf
  <2>2. InitialNonce \in Nat
    BY DEF InitialNonce
  <2> HIDE DEF t
  <2> QED BY <2>1, <2>2, CodeFacts
<1> HIDE DEF t, value
<1>3. Follows(t, w) /\ Prepared(w, a)
  BY <1>1, <1>2, WriteAccountFollows
<1>4. Follows(s, w) /\ Sound(w) /\ IsAdmitted(w, a)
  <2> HIDE DEF w
  <2> QED BY <1>1, <1>3, FollowsTransitive DEF Prepared
<1>5. Follows(w, v) /\ Prepared(v, a) /\ v.accounts[a].observation = v.transaction
  <2> HIDE DEF w
  <2> QED BY <1>4, WipeFollows
<1>6. Follows(s, v) /\ Sound(v) /\ IsAdmitted(v, a)
  <2> HIDE DEF w, v
  <2> QED BY <1>4, <1>5, FollowsTransitive DEF Prepared
<1>7. /\ Follows(v, p) /\ Prepared(p, a) /\ InLifecycle(p, a)
      /\ SameRowBut(p, v, a, {"journaled_scope", "flags", "dirty_transaction",
                              "lifecycle_transaction"})
  <2> HIDE DEF v
  <2> QED BY <1>6, PrepareLifecycleFollows
<1> HIDE DEF w, v, p
<1>8. Follows(s, p)
  BY <1>6, <1>7, FollowsTransitive
<1>9. p.accounts[a].observation = p.transaction
  <2>1. p.transaction = v.transaction
    BY <1>7, StepFacts DEF Follows
  <2> QED BY <1>5, <1>7, <2>1 DEF SameRowBut, AccountRowFields
<1>10. flags \in SUBSET AccountFlags /\ {"created_contract"} \in SUBSET Effects
  <2>1. p.accounts[a].flags \in SUBSET AccountFlags
    BY <1>7, PreparedFacts DEF AccountRowOf
  <2> QED BY <2>1 DEF AccountFlags, Effects
<1>11. Follows(p, r) /\ Prepared(r, a)
  <2>1. r = [p EXCEPT !.accounts[a].flags = flags,
                      !.observed_accounts[a].effect = @ \cup {"created_contract"}]
    OBVIOUS
  <2> HIDE DEF r, flags
  <2> QED BY ZenonT(40), <1>7, <1>9, <1>10, <2>1, MarkFollows
<1>12. Follows(s, r)
  <2> HIDE DEF r
  <2> QED BY <1>8, <1>11, FollowsTransitive
<1> QED BY <1>12 DEF InitializeContract, t, value, w, v, p, r
\* Code enters the store, its list and the journal at once.
LEMMA IntroduceFollows ==
  ASSUME NEW s, Sound(s), NEW code \in Nat, NEW r,
         SameBut(r, s, {"introduced", "block_introduced_codes", "journal"}),
         r.introduced = Append(s.introduced, code),
         r.block_introduced_codes = Append(s.block_introduced_codes, Len(s.introduced) + 1),
         r.journal = Append(s.journal, [kind |-> "introduced_code"])
  PROVE  Follows(s, r) /\ Sound(r)
<1> DEFINE e == [kind |-> "introduced_code"]
<1>1. /\ r.clock = s.clock /\ r.transaction = s.transaction /\ r.storage = s.storage
      /\ r.accounts = s.accounts /\ r.observed_accounts = s.observed_accounts
      /\ r.observed_storage = s.observed_storage /\ r.parent_code = s.parent_code
      /\ r.transaction_active = s.transaction_active
      /\ r.deferred_accounts = s.deferred_accounts /\ r.deferred_storage = s.deferred_storage
      /\ r.lifecycle_accounts = s.lifecycle_accounts
      /\ r.account_ids = s.account_ids /\ r.storage_ids = s.storage_ids
  BY DEF SameBut, StateFields
<1>2. SameBut(r, s, StepFields)
  BY DEF SameBut, StepFields
<1>3. /\ Typed(s) /\ s.transaction_active /\ CodesListed(s) /\ Unobserved(s)
      /\ LifecycleListed(s) /\ CodesBound(s) /\ Pristine(s)
  BY DEF Sound
<1>4. ListsTyped(s) /\ s.introduced \in Seq(Nat) /\ s.block_introduced_codes \in Seq(Nat)
      /\ s.journal \in Seq(Entries(s.clock)) /\ Len(s.introduced) \in Nat
      /\ Len(s.journal) \in Nat
  BY SMTT(30), <1>3 DEF Typed, ListsTyped
<1>5. e \in Entries(s.clock) /\ e.kind = "introduced_code" /\ Records(e) = {}
  BY DEF Entries, Introduction, Records
<1> HIDE DEF e
<1>6. r.journal = Append(s.journal, e)
  BY DEF e
<1>7. /\ r.introduced \in Seq(Nat) /\ r.block_introduced_codes \in Seq(Nat)
      /\ r.journal \in Seq(Entries(s.clock))
  BY <1>4, <1>5, <1>6
<1>8. ListsTyped(r)
  BY <1>1, <1>4, <1>7 DEF ListsTyped, SameBut, StateFields
<1>9. Typed(r)
  <2>1. RowsTyped(r) /\ ObservationsTyped(r)
    BY <1>1, <1>3 DEF Typed, RowsTyped, ObservationsTyped
  <2>2. ControlTyped(r)
    BY <1>2, <1>3 DEF Typed, ControlTyped, SameBut, StateFields, StepFields, ListFields
  <2> QED BY <1>8, <2>1, <2>2 DEF Typed, SameBut
<1>10. CodesListed(r)
  <2>1. /\ Len(s.block_introduced_codes) = Len(s.introduced)
        /\ \A i \in 1 .. Len(s.introduced) : s.block_introduced_codes[i] = i
    BY <1>3 DEF CodesListed
  <2>2. /\ Len(r.introduced) = Len(s.introduced) + 1
        /\ Len(r.block_introduced_codes) = Len(s.introduced) + 1
        /\ r.block_introduced_codes[Len(s.introduced) + 1] = Len(s.introduced) + 1
        /\ \A i \in 1 .. Len(s.introduced) :
              r.block_introduced_codes[i] = s.block_introduced_codes[i]
    BY SMTT(30), <1>4, <2>1
  <2> QED BY <1>4, <2>1, <2>2 DEF CodesListed
<1>11. Unobserved(r) /\ LifecycleListed(r) /\ Pristine(r)
  BY <1>1, <1>3 DEF Unobserved, LifecycleListed, InLifecycle, Pristine, ParentRow,
                    ParentSlot, IsAdmitted, IsStorageAdmitted
<1>12. CodesBound(r)
  <2>1. Len(r.introduced) \in Nat /\ PrefixOf(s.introduced, r.introduced)
    BY <1>4 DEF PrefixOf
  <2>2. \A ref, c : CodeBound(s, ref, c) => CodeBound(r, ref, c)
    BY <1>1, <1>4, <2>1, StillBound
  <2> QED BY <1>1, <1>3, <2>2 DEF CodesBound
<1>13. \A o \in Objects : View(r, o) = View(s, o)
  BY <1>1, SameViews
<1>14. JournalsFirst(s, r)
  BY <1>5, <1>6, <1>13 DEF JournalsFirst, Extends
<1>15. Quiet(s, r)
  <2>1. r.journal[Len(r.journal)] = e
    BY <1>4, <1>5, <1>6
  <2> QED BY <1>5, <2>1 DEF Quiet
<1>16. Grows(s, r)
  <2>1. ASSUME NEW f \in ListFields PROVE r[f] = s[f] \/ PrefixOf(s[f], r[f])
    BY DEF ListFields, SameBut, StateFields
  <2> QED BY <1>1, <1>3, <2>1, SameGrows
<1>17. Keeps(s, r)
  BY <1>1, <1>2, <1>3, <1>9, <1>10, <1>11, <1>12, <1>14, <1>15, <1>16 DEF Keeps, Sound
<1> QED BY <1>17, KeepsFollows DEF Keeps

LEMMA BindFacts ==
  ASSUME NEW s, NEW code
  PROVE  /\ Bind(s, code) # MissingRef => code = EmptyCode \/ Contains(s.introduced, code)
         /\ \A r : r.introduced = s.introduced => Bind(r, code) = Bind(s, code)
         /\ s.introduced \in Seq(Nat) /\ (code = EmptyCode \/ Contains(s.introduced, code))
               => Bind(s, code) \in Int /\ CodeBound(s, Bind(s, code), code)
<1>1. \A r : r.introduced = s.introduced => Bind(r, code) = Bind(s, code)
  BY DEF Bind
<1>2. ASSUME s.introduced \in Seq(Nat), code = EmptyCode
      PROVE  Bind(s, code) \in Int /\ CodeBound(s, Bind(s, code), code)
  BY <1>2 DEF Bind, CodeBound, EmptyRef
<1>3. ASSUME s.introduced \in Seq(Nat), Contains(s.introduced, code)
      PROVE  \E i \in 1 .. Len(s.introduced) : s.introduced[i] = code
  BY <1>3 DEF Contains
<1>4. ASSUME s.introduced \in Seq(Nat), Contains(s.introduced, code), code # EmptyCode
      PROVE  /\ Bind(s, code) \in 1 .. Len(s.introduced)
             /\ s.introduced[Bind(s, code)] = code
  <2>1. DOMAIN s.introduced = 1 .. Len(s.introduced)
    BY <1>4
  <2>2. Bind(s, code) = CHOOSE i \in 1 .. Len(s.introduced) : s.introduced[i] = code
    BY <1>4, <2>1 DEF Bind
  <2> QED BY <1>3, <1>4, <2>2
<1>5. ASSUME s.introduced \in Seq(Nat), Contains(s.introduced, code), code # EmptyCode
      PROVE  Bind(s, code) \in Int /\ CodeBound(s, Bind(s, code), code)
  BY <1>4, <1>5 DEF CodeBound
<1>6. Bind(s, code) # MissingRef => code = EmptyCode \/ Contains(s.introduced, code)
  BY DEF Bind
<1> QED BY <1>1, <1>2, <1>5, <1>6

LEMMA SetCodeFollows ==
  ASSUME NEW s, Sound(s), NEW a \in Accounts, NEW code \in Nat
  PROVE  Follows(s, SetCode(s, a, code))
<1> DEFINE o == ObserveAccount(ResolveAccount(s, a), a)
           parent == code \in s.parent_code
           fresh == ~parent /\ Bind(s, code) = MissingRef
           cached == [o EXCEPT !.introduced = AppendIf(@, fresh, code)]
           prepared == PrepareAccountMutation(cached, a)
           p == PrepareAccountMutation(o, a)
           previous == prepared.accounts[a].current
           value == [OrEmpty(previous) EXCEPT !.code = code]
           ref == IF parent THEN MissingRef ELSE Bind(cached, code)
           effect == RecordAccountEffect(prepared.observed_accounts[a].effect, previous, value)
           r == SetCode(s, a, code)
<1>1. /\ Follows(s, o) /\ Sound(o) /\ IsAdmitted(o, a)
      /\ o.accounts[a].observation = o.transaction
      /\ o.introduced = s.introduced /\ o.parent_code = s.parent_code
  <2> DEFINE t == ResolveAccount(s, a)
  <2>1. /\ Follows(s, t) /\ Sound(t) /\ IsAdmitted(t, a) /\ SameBut(t, s, {"account_ids"})
    BY ResolveFollows
  <2> HIDE DEF t
  <2>2. /\ Follows(t, o) /\ Sound(o) /\ IsAdmitted(o, a)
        /\ o.accounts[a].observation = t.transaction
        /\ SameBut(o, t, {"accounts", "observed_accounts"})
    BY <2>1, ObserveFollows DEF t
  <2> HIDE DEF o
  <2>3. Follows(s, o)
    BY <2>1, <2>2, FollowsTransitive
  <2> QED BY <2>1, <2>2, <2>3 DEF SameBut, StateFields
<1>2. r = [prepared EXCEPT
            !.block_introduced_codes = AppendIf(@, fresh, Len(cached.introduced)),
            !.journal = AppendIf(@, fresh, [kind |-> "introduced_code"]),
            !.accounts[a].current = value,
            !.accounts[a].code_ref = ref,
            !.observed_accounts[a].effect = effect]
  BY DEF SetCode
<1> HIDE DEF o, fresh, parent, r
<1>3. /\ Typed(o) /\ IsState(o) /\ s.introduced \in Seq(Nat)
  BY <1>1, ListFacts DEF Sound, Typed
<1>4. /\ SameBut(cached, o, {"introduced"})
      /\ cached.introduced = AppendIf(s.introduced, fresh, code)
  BY <1>1, <1>3 DEF SameBut, IsState, StateFields
<1> HIDE DEF cached
<1>5. /\ SameBut(prepared, p, {"introduced"})
      /\ prepared.introduced = AppendIf(s.introduced, fresh, code)
  <2>1. /\ cached.accounts = o.accounts /\ cached.observed_accounts = o.observed_accounts
        /\ cached.scope = o.scope /\ cached.transaction = o.transaction
        /\ cached.journal = o.journal /\ IsState(cached)
        /\ cached.block_changed_accounts = o.block_changed_accounts
        /\ cached.changed_accounts = o.changed_accounts
    BY <1>4 DEF SameBut, StateFields
  <2>2. AccountUndo(cached, a) = AccountUndo(o, a)
    BY <2>1 DEF AccountUndo
  <2>3. /\ IsState(prepared) /\ IsState(p) /\ prepared.introduced = cached.introduced
        /\ prepared.journal = p.journal /\ prepared.accounts = p.accounts
        /\ prepared.block_changed_accounts = p.block_changed_accounts
        /\ prepared.changed_accounts = p.changed_accounts
    BY <1>3, <2>1, <2>2 DEF PrepareAccountMutation, IsState, StateFields
  <2>4. \A f \in StateFields \ {"introduced", "journal", "accounts",
                                 "block_changed_accounts", "changed_accounts"} :
           prepared[f] = cached[f] /\ p[f] = o[f] /\ cached[f] = o[f]
    <3>1. \A f \in StateFields \ {"introduced", "journal", "accounts",
                                   "block_changed_accounts", "changed_accounts"} :
             prepared[f] = cached[f]
      BY <2>1 DEF PrepareAccountMutation, IsState, StateFields
    <3>2. \A f \in StateFields \ {"introduced", "journal", "accounts",
                                   "block_changed_accounts", "changed_accounts"} :
             p[f] = o[f]
      BY <1>3 DEF PrepareAccountMutation, IsState, StateFields
    <3> QED BY <1>4, <3>1, <3>2 DEF SameBut
  <2> HIDE DEF prepared, p
  <2> QED BY <1>4, <2>3, <2>4 DEF SameBut
<1>6. /\ Follows(o, p) /\ Prepared(p, a)
      /\ SameBut(p, o, {"accounts", "journal", "block_changed_accounts", "changed_accounts"})
      /\ SameRowBut(p, o, a, {"journaled_scope", "flags", "dirty_transaction"})
  BY <1>1, PrepareFollows
<1> HIDE DEF prepared, p
<1>7. /\ p.introduced = s.introduced /\ p.parent_code = s.parent_code
      /\ p.accounts[a].observation = p.transaction
      /\ prepared.accounts = p.accounts /\ prepared.observed_accounts = p.observed_accounts
      /\ prepared.journal = p.journal /\ IsState(prepared)
      /\ prepared.block_introduced_codes = p.block_introduced_codes
  BY <1>1, <1>5, <1>6 DEF SameBut, StateFields, SameRowBut, AccountRowFields
<1> DEFINE q == [prepared EXCEPT
                    !.block_introduced_codes = AppendIf(@, fresh, Len(cached.introduced)),
                    !.journal = AppendIf(@, fresh, [kind |-> "introduced_code"])]
<1>8. /\ SameBut(q, p, {"introduced", "block_introduced_codes", "journal"})
      /\ q.introduced = AppendIf(p.introduced, fresh, code)
      /\ q.block_introduced_codes =
            AppendIf(p.block_introduced_codes, fresh, Len(cached.introduced))
      /\ q.journal = AppendIf(p.journal, fresh, [kind |-> "introduced_code"])
  BY <1>5, <1>7 DEF SameBut, IsState, StateFields
<1>9. r = [q EXCEPT !.accounts[a].current = value, !.accounts[a].code_ref = ref,
                    !.observed_accounts[a].effect = effect]
  BY <1>2, <1>7 DEF IsState, StateFields
<1> HIDE DEF q
<1>10. Follows(p, q) /\ Prepared(q, a)
  <2>1. CASE fresh
    <3>1. Len(cached.introduced) = Len(p.introduced) + 1
      BY <1>3, <1>4, <1>7, <2>1 DEF AppendIf
    <3>2. /\ q.introduced = Append(p.introduced, code)
          /\ q.block_introduced_codes = Append(p.block_introduced_codes, Len(p.introduced) + 1)
          /\ q.journal = Append(p.journal, [kind |-> "introduced_code"])
      BY <1>8, <2>1, <3>1 DEF AppendIf
    <3>3. Follows(p, q) /\ Sound(q)
      BY <1>6, <1>8, <3>2, IntroduceFollows DEF Prepared
    <3>4. q.account_ids = p.account_ids /\ q.accounts = p.accounts /\ q.scope = p.scope
      BY <1>8 DEF SameBut, StateFields
    <3> QED BY <1>6, <3>3, <3>4 DEF Prepared, IsAdmitted
  <2>2. CASE ~fresh
    <3>1. \A f \in StateFields : q[f] = p[f]
      BY <1>8, <2>2 DEF AppendIf, SameBut
    <3>2. IsState(q) /\ IsState(p)
      BY <1>6, <1>8, PreparedFacts DEF SameBut
    <3>3. SameBut(q, p, AdmitFields) /\ q.account_ids = p.account_ids
             /\ q.storage_ids = p.storage_ids /\ p.parent_code \subseteq q.parent_code
      BY <3>1, <3>2 DEF SameBut, StateFields
    <3>4. /\ Sound(p) /\ p.account_ids \in Seq(Accounts) /\ p.storage_ids \in Seq(Slots)
          /\ PrefixOf(p.account_ids, q.account_ids) /\ PrefixOf(p.storage_ids, q.storage_ids)
      BY <1>6, <3>3, PreparedFacts DEF Typed, ListsTyped, PrefixOf
    <3>5. Follows(p, q) /\ Sound(q)
      BY <3>3, <3>4, AdmitKeeps, KeepsFollows DEF Keeps
    <3>6. q.account_ids = p.account_ids /\ q.accounts = p.accounts /\ q.scope = p.scope
      BY <3>1 DEF StateFields
    <3> QED BY <1>6, <3>5, <3>6 DEF Prepared, IsAdmitted
  <2> QED BY <2>1, <2>2
<1>11. /\ IsState(q) /\ q.accounts \in [Accounts -> AccountRowOf(q.clock)]
       /\ q.observed_accounts \in [Accounts -> AccountObservation]
       /\ q.accounts[a] \in AccountRowOf(q.clock)
       /\ q.observed_accounts[a] \in AccountObservation
       /\ q.accounts[a].flags \cap LifecycleBits # {} => InLifecycle(q, a)
  BY <1>10, PreparedFacts
<1>12. /\ q.accounts = p.accounts /\ q.observed_accounts = p.observed_accounts
       /\ q.transaction = p.transaction /\ q.parent_code = s.parent_code
       /\ q.introduced = cached.introduced /\ q.introduced \in Seq(Nat)
  <2>1. q.introduced \in Seq(Nat)
    BY <1>10, ListFacts DEF Prepared, Sound
  <2> QED BY <1>4, <1>7, <1>8, <2>1 DEF SameBut, StateFields
<1>13. value \in Value /\ value.code = code
  <2>1. previous \in Value
    BY <1>7, <1>11, <1>12 DEF AccountRowOf
  <2> HIDE DEF previous
  <2> QED BY <2>1, CodeFacts
<1>14. ref \in Int /\ CodeBound(q, ref, code)
  <2>1. CASE parent
    BY <1>12, <2>1 DEF parent, CodeBound, MissingRef
  <2>2. CASE ~parent
    <3>1. ref = Bind(q, code)
      BY <1>12, <2>2, BindFacts
    <3>2. code = EmptyCode \/ Contains(q.introduced, code)
      <4>1. CASE fresh
        <5>1. q.introduced = Append(s.introduced, code)
          BY <1>4, <1>12, <4>1 DEF AppendIf
        <5>2. Append(s.introduced, code)[Len(s.introduced) + 1] = code
                /\ Len(s.introduced) + 1 \in 1 .. Len(Append(s.introduced, code))
          BY <1>3
        <5> QED BY <5>1, <5>2 DEF Contains
      <4>2. CASE ~fresh
        <5>1. q.introduced = s.introduced
          BY <1>4, <1>12, <4>2 DEF AppendIf
        <5> QED BY <2>2, <4>2, <5>1, BindFacts DEF fresh
      <4> QED BY <4>1, <4>2
    <3> QED BY <1>12, <3>1, <3>2, BindFacts
  <2> QED BY <2>1, <2>2
<1>15. effect \in SUBSET Effects
  <2>1. prepared.observed_accounts[a].effect \in SUBSET Effects
    BY <1>7, <1>11, <1>12 DEF AccountObservation
  <2> HIDE DEF previous, value
  <2> QED BY <2>1, EffectTyped
<1> DEFINE flags == q.accounts[a].flags
<1> HIDE DEF previous, value, ref, effect
<1>16. SameBut(r, q, {"accounts", "observed_accounts"})
  BY <1>9, <1>11 DEF SameBut, IsState, StateFields
<1>17. r.accounts = [q.accounts EXCEPT ![a] =
          [q.accounts[a] EXCEPT !.current = value, !.code_ref = ref, !.flags = flags]]
  BY <1>9, <1>11 DEF IsState, StateFields, AccountRowOf
<1>18. r.observed_accounts = [q.observed_accounts EXCEPT ![a] =
          [q.observed_accounts[a] EXCEPT !.effect = effect]]
  BY <1>9, <1>11 DEF IsState, StateFields, AccountObservation
<1>19. ValueChange(q, r, a, value, ref, flags, effect)
  <2>1. flags \in SUBSET AccountFlags /\ q.accounts[a].observation = q.transaction
    BY <1>7, <1>11, <1>12 DEF AccountRowOf
  <2> QED BY <1>10, <1>11, <1>13, <1>14, <1>15, <1>16, <1>17, <1>18, <2>1 DEF ValueChange
<1> HIDE DEF flags
<1>20. Follows(q, r)
  BY <1>19, ValueChangeFollows
<1>21. Follows(s, p)
  BY <1>1, <1>6, FollowsTransitive
<1>22. Follows(s, q)
  BY <1>10, <1>21, FollowsTransitive
<1>23. Follows(s, r)
  BY <1>20, <1>22, FollowsTransitive
<1> QED BY <1>23 DEF r
LEMMA ApplySelfDestructFollows ==
  ASSUME NEW s, Sound(s), NEW source \in Accounts, NEW beneficiary \in Accounts
  PROVE  Follows(s, ApplySelfDestruct(s, source, beneficiary))
<1> DEFINE read == ReadAccount(s, source)
           balance == read.accounts[source].current.balance
           same == source = beneficiary
           policy == SelfDestructPolicy(same, "created" \in read.accounts[source].flags)
           paid == IF same THEN read ELSE AddBalance(read, beneficiary, balance)
           moved == IF balance > 0
                    THEN IF policy.clear_balance THEN SetField(paid, source, "balance", 0)
                                                 ELSE paid
                    ELSE IF ~same /\ Fork = "legacy" THEN TouchAccount(read, beneficiary)
                                                     ELSE read
           r == ApplySelfDestruct(s, source, beneficiary)
<1>1. r = IF policy.mark THEN MarkSelfdestructed(moved, source) ELSE moved
  BY DEF ApplySelfDestruct
<1>2. Follows(s, read) /\ Sound(read)
  BY ReadFollows
<1>3. balance \in Nat
  <2>1. read.accounts[source].current \in Value
    BY <1>2, RowFacts DEF AccountRowOf
  <2> HIDE DEF read
  <2> QED BY <2>1, ValueFacts
<1> HIDE DEF read, balance, policy, r, same
<1>4. Follows(read, paid) /\ Sound(paid)
  <2>1. CASE same
    BY <1>2, <2>1, FollowsReflexive
  <2>2. CASE ~same
    <3>1. Follows(read, AddBalance(read, beneficiary, balance))
             /\ Sound(AddBalance(read, beneficiary, balance))
      BY <1>2, <1>3, AddBalanceFollows
    <3> QED BY <2>2, <3>1
  <2> QED BY <2>1, <2>2
<1>5. Follows(s, paid)
  BY <1>2, <1>4, FollowsTransitive
<1>6. Follows(s, moved) /\ Sound(moved)
  <2>1. CASE balance > 0 /\ policy.clear_balance
    <3> DEFINE t == SetField(paid, source, "balance", 0)
    <3> HIDE DEF paid
    <3>1. Follows(paid, t) /\ Sound(t)
      BY <1>4, SetFieldFollows
    <3>2. moved = t
      BY <2>1
    <3> HIDE DEF t, moved
    <3> QED BY <1>5, <3>1, <3>2, FollowsTransitive
  <2>2. CASE balance > 0 /\ ~policy.clear_balance
    <3>1. moved = paid
      BY <2>2
    <3> HIDE DEF paid, moved
    <3> QED BY <1>4, <1>5, <3>1
  <2>3. CASE ~(balance > 0) /\ ~same /\ Fork = "legacy"
    <3> DEFINE t == TouchAccount(read, beneficiary)
    <3>1. Follows(read, t) /\ Sound(t)
      BY <1>2, TouchFollows
    <3>2. moved = t
      BY <2>3
    <3> HIDE DEF t, moved
    <3> QED BY <1>2, <3>1, <3>2, FollowsTransitive
  <2>4. CASE ~(balance > 0) /\ ~(~same /\ Fork = "legacy")
    <3>1. moved = read
      BY <2>4
    <3> HIDE DEF moved
    <3> QED BY <1>2, <3>1
  <2> QED BY <2>1, <2>2, <2>3, <2>4
<1> HIDE DEF paid, moved
<1>7. CASE policy.mark
  <2> DEFINE t == MarkSelfdestructed(moved, source)
  <2>1. Follows(moved, t)
    BY <1>6, MarkSelfdestructedFollows
  <2>2. r = t
    BY <1>1, <1>7
  <2> HIDE DEF t
  <2>3. Follows(s, r)
    BY <1>6, <2>1, <2>2, FollowsTransitive
  <2> QED BY <2>3 DEF r
<1>8. CASE ~policy.mark
  <2>1. r = moved
    BY <1>1, <1>8
  <2> QED BY <1>6, <2>1 DEF r
<1> QED BY <1>7, <1>8

LEMMA MarkEffectFollows ==
  ASSUME NEW s, NEW a \in Accounts, Prepared(s, a),
         NEW added \in SUBSET Effects,
         s.accounts[a].observation = s.transaction \/ added = {},
         NEW r, r = [s EXCEPT !.observed_accounts[a].effect = @ \cup added]
  PROVE  Follows(s, r) /\ Prepared(r, a)
<1> DEFINE value == s.accounts[a].current
           ref == s.accounts[a].code_ref
           flags == s.accounts[a].flags
           effect == s.observed_accounts[a].effect \cup added
<1>1. /\ IsState(s) /\ s.accounts \in [Accounts -> AccountRowOf(s.clock)]
      /\ s.observed_accounts \in [Accounts -> AccountObservation]
      /\ s.accounts[a] \in AccountRowOf(s.clock)
      /\ s.observed_accounts[a] \in AccountObservation
      /\ CodeBound(s, s.accounts[a].code_ref, s.accounts[a].current.code)
      /\ s.accounts[a].observation # s.transaction => s.observed_accounts[a].effect = {}
      /\ s.accounts[a].flags \cap LifecycleBits # {} => InLifecycle(s, a)
  BY PreparedFacts
<1>2. SameBut(r, s, {"accounts", "observed_accounts"})
  BY <1>1 DEF SameBut, IsState, StateFields
<1>3. r.accounts = [s.accounts EXCEPT ![a] =
         [s.accounts[a] EXCEPT !.current = value, !.code_ref = ref, !.flags = flags]]
  <2>1. [s.accounts[a] EXCEPT !.current = value, !.code_ref = ref, !.flags = flags]
           = s.accounts[a]
    BY <1>1 DEF AccountRowOf
  <2>2. r.accounts = s.accounts
    BY <1>1 DEF IsState, StateFields
  <2> QED BY <1>1, <2>1, <2>2
<1>4. r.observed_accounts = [s.observed_accounts EXCEPT ![a] =
         [s.observed_accounts[a] EXCEPT !.effect = effect]]
  BY <1>1 DEF IsState, StateFields, AccountObservation
<1>5. flags \in SUBSET AccountFlags /\ value \in Value /\ ref \in Int /\ effect \in SUBSET Effects
  BY <1>1 DEF AccountRowOf, AccountObservation
<1>6. ValueChange(s, r, a, value, ref, flags, effect)
  BY <1>1, <1>2, <1>3, <1>4, <1>5 DEF ValueChange
<1> HIDE DEF value, ref, effect, flags
<1> QED BY <1>6, ValueChangeFollows

LEMMA MarkFlagsFollows ==
  ASSUME NEW s, NEW a \in Accounts, Prepared(s, a), NEW flags \in SUBSET AccountFlags,
         flags \cap LifecycleBits # {} => InLifecycle(s, a),
         NEW r, r = [s EXCEPT !.accounts[a].flags = flags]
  PROVE  Follows(s, r) /\ Prepared(r, a) /\ r.accounts[a].flags = flags
<1> DEFINE value == s.accounts[a].current
           ref == s.accounts[a].code_ref
           effect == s.observed_accounts[a].effect
<1>1. /\ IsState(s) /\ s.accounts \in [Accounts -> AccountRowOf(s.clock)]
      /\ s.observed_accounts \in [Accounts -> AccountObservation]
      /\ s.accounts[a] \in AccountRowOf(s.clock)
      /\ s.observed_accounts[a] \in AccountObservation
      /\ CodeBound(s, s.accounts[a].code_ref, s.accounts[a].current.code)
      /\ s.accounts[a].observation # s.transaction => s.observed_accounts[a].effect = {}
  BY PreparedFacts
<1>2. SameBut(r, s, {"accounts", "observed_accounts"})
  BY <1>1 DEF SameBut, IsState, StateFields
<1>3. r.accounts = [s.accounts EXCEPT ![a] =
         [s.accounts[a] EXCEPT !.current = value, !.code_ref = ref, !.flags = flags]]
  BY <1>1 DEF IsState, StateFields, AccountRowOf
<1>4. r.observed_accounts = [s.observed_accounts EXCEPT ![a] =
         [s.observed_accounts[a] EXCEPT !.effect = effect]]
  <2>1. [s.observed_accounts[a] EXCEPT !.effect = effect] = s.observed_accounts[a]
    BY <1>1 DEF AccountObservation
  <2>2. r.observed_accounts = s.observed_accounts
    BY <1>1 DEF IsState, StateFields
  <2> QED BY <1>1, <2>1, <2>2
<1>5. value \in Value /\ ref \in Int /\ effect \in SUBSET Effects
  BY <1>1 DEF AccountRowOf, AccountObservation
<1>6. ValueChange(s, r, a, value, ref, flags, effect)
  BY <1>1, <1>2, <1>3, <1>4, <1>5 DEF ValueChange
<1> HIDE DEF value, ref, effect
<1> QED BY <1>6, ValueChangeFollows

LEMMA FinalizeRowFollows ==
  ASSUME NEW s, Sound(s), NEW a \in Accounts
  PROVE  Follows(s, FinalizeRow(s, a)) /\ Sound(FinalizeRow(s, a))
<1> DEFINE flags == s.accounts[a].flags
           policy == Finalization("created" \in flags)
           wiped == WipeStorage(s, a)
           cleared == IF policy.clear_storage
                      THEN [wiped EXCEPT
                              !.observed_accounts[a].effect = @ \cup {"storage_wiped"}]
                      ELSE s
           reset == [OrEmpty(cleared.accounts[a].current) EXCEPT
                       !.nonce = 0, !.code = EmptyCode]
           settled == IF policy.reset_account
                      THEN WriteAccount(cleared, a, IF reset.balance = 0 THEN Null ELSE reset)
                      ELSE IF policy.delete_account THEN WriteAccount(cleared, a, Null)
                      ELSE cleared
           done == IF "selfdestructed" \in flags THEN settled ELSE s
           p == PrepareAccountMutation(done, a)
           r == FinalizeRow(s, a)
<1>1. CASE flags \cap {"created", "selfdestructed"} = {}
  BY <1>1, FollowsReflexive DEF FinalizeRow
<1>2. CASE flags \cap {"created", "selfdestructed"} # {}
  <2>1. IsAdmitted(s, a)
    BY SMTT(30), <1>2 DEF Sound, Pristine, ParentRow
  <2>2. r = [p EXCEPT !.accounts[a].flags = @ \ {"created", "selfdestructed"}]
    BY <1>2 DEF FinalizeRow
  <2>3. Follows(s, cleared) /\ Sound(cleared) /\ IsAdmitted(cleared, a)
    <3>1. CASE policy.clear_storage
      <4>1. /\ Follows(s, wiped) /\ Prepared(wiped, a)
            /\ wiped.accounts[a].observation = wiped.transaction
        BY <2>1, WipeFollows
      <4>2. cleared = [wiped EXCEPT
                 !.observed_accounts[a].effect = @ \cup {"storage_wiped"}]
        BY <3>1
      <4> HIDE DEF wiped, cleared, policy
      <4>3. {"storage_wiped"} \in SUBSET Effects
        BY DEF Effects
      <4>4. Follows(wiped, cleared) /\ Prepared(cleared, a)
        BY <4>1, <4>2, <4>3, MarkEffectFollows
      <4>5. Follows(s, cleared)
        BY <4>1, <4>4, FollowsTransitive
      <4> QED BY <4>4, <4>5 DEF Prepared
    <3>2. CASE ~policy.clear_storage
      <4>1. cleared = s
        BY <3>2
      <4> HIDE DEF cleared
      <4> QED BY <2>1, <4>1, FollowsReflexive
    <3> QED BY <3>1, <3>2
  <2> HIDE DEF policy, cleared, flags
  <2>4. \A v \in Value : v.code = EmptyCode =>
           /\ Follows(s, WriteAccount(cleared, a, v))
           /\ Sound(WriteAccount(cleared, a, v)) /\ IsAdmitted(WriteAccount(cleared, a, v), a)
    <3> SUFFICES ASSUME NEW v \in Value, v.code = EmptyCode
                 PROVE  /\ Follows(s, WriteAccount(cleared, a, v))
                        /\ Sound(WriteAccount(cleared, a, v))
                        /\ IsAdmitted(WriteAccount(cleared, a, v), a)
      OBVIOUS
    <3> DEFINE t == WriteAccount(cleared, a, v)
    <3>1. Follows(cleared, t) /\ Prepared(t, a)
      BY <2>3, WriteAccountFollows
    <3> HIDE DEF t
    <3>2. Follows(s, t)
      BY <2>3, <3>1, FollowsTransitive
    <3> QED BY <3>1, <3>2 DEF Prepared, t
  <2>5. Null \in Value /\ Null.code = EmptyCode
    BY DEF Null, Value, AccountValue, EmptyCode
  <2>6. reset \in Value /\ reset.code = EmptyCode
    <3>1. cleared.accounts[a].current \in Value
      BY <2>3, RowFacts DEF AccountRowOf
    <3> QED BY <3>1, CodeFacts
  <2> HIDE DEF reset
  <2>7. Follows(s, settled) /\ Sound(settled) /\ IsAdmitted(settled, a)
    BY <2>3, <2>4, <2>5, <2>6
  <2> HIDE DEF settled
  <2>8. Follows(s, done) /\ Sound(done) /\ IsAdmitted(done, a)
    BY <2>1, <2>7, FollowsReflexive
  <2> HIDE DEF done
  <2>9. Follows(done, p) /\ Prepared(p, a)
    BY <2>8, PrepareFollows
  <2> DEFINE f == p.accounts[a].flags \ {"created", "selfdestructed"}
  <2>10. /\ f \in SUBSET AccountFlags
         /\ f \cap LifecycleBits # {} => InLifecycle(p, a)
         /\ r = [p EXCEPT !.accounts[a].flags = f]
    BY <2>2, <2>9, PreparedFacts DEF AccountRowOf, LifecycleBits
  <2> HIDE DEF p, f, r
  <2>11. Follows(p, r) /\ Prepared(r, a)
    BY <2>9, <2>10, MarkFlagsFollows
  <2>12. Follows(s, r) /\ Sound(r)
    BY <2>8, <2>9, <2>11, FollowsTransitive DEF Prepared
  <2> QED BY <2>12 DEF r
<1> QED BY SMTT(30), <1>1, <1>2

\* The opened scope changes no value.
LEMMA OpenedFacts ==
  ASSUME NEW s, IsState(s)
  PROVE  /\ SameBut(Opened(s), s, {"clock", "scope", "scope_depth"})
         /\ Opened(s).clock = s.clock + 1 /\ Opened(s).scope = s.clock + 1
         /\ Opened(s).scope_depth = s.scope_depth + 1
  BY DEF Opened, IsState, SameBut, StateFields

LEMMA FinalizeRowsFollows ==
  ASSUME NEW s, Sound(Opened(s)), Typed(s), NEW n \in 0 .. Len(s.lifecycle_accounts)
  PROVE  Follows(Opened(s), FinalizeRows(s, n))
<1>1. /\ Len(s.lifecycle_accounts) \in Nat /\ n \in Nat
      /\ \A i \in 1 .. Len(s.lifecycle_accounts) : s.lifecycle_accounts[i] \in Accounts
  BY DEF Typed, ListsTyped
<1>2. PICK f : Finalizing(f, s, n) /\ FinalizeRows(s, n) = f[n]
  BY <1>1, FinalizeIsFinalizing
<1>3. f[0] = Opened(s) /\ \A i \in 1 .. n : f[i] = FinalizeRow(f[i - 1], s.lifecycle_accounts[i])
  <2> DEFINE g == [i \in 0 .. n |-> IF i = 0 THEN Opened(s)
                          ELSE FinalizeRow(f[i - 1], s.lifecycle_accounts[i])]
  <2>1. f = g
    BY <1>2 DEF Finalizing
  <2>2. g[0] = Opened(s) /\ \A i \in 1 .. n : g[i] = FinalizeRow(f[i - 1], s.lifecycle_accounts[i])
    BY <1>1
  <2> HIDE DEF g
  <2> QED BY <2>1, <2>2
<1> DEFINE o == Opened(s)
           G == {i \in 0 .. n : Follows(o, f[i])}
<1> HIDE DEF o
<1>4. Sound(o)
  BY DEF o
<1>5. 0 \in G
  BY <1>1, <1>3, <1>4, FollowsReflexive DEF o
<1>6. ASSUME NEW i \in 0 .. n - 1, i \in G PROVE i + 1 \in G
  <2>1. /\ i + 1 \in 1 .. n /\ i + 1 \in 0 .. n /\ (i + 1) - 1 = i
        /\ i + 1 \in 1 .. Len(s.lifecycle_accounts)
    BY <1>1
  <2> DEFINE a == s.lifecycle_accounts[i + 1]
  <2>2. f[i + 1] = FinalizeRow(f[i], a) /\ a \in Accounts
    BY <1>1, <1>3, <2>1
  <2>3. Follows(o, f[i]) /\ Sound(f[i])
    BY <1>6 DEF Follows
  <2> HIDE DEF a
  <2>4. Follows(f[i], FinalizeRow(f[i], a))
    BY <2>2, <2>3, FinalizeRowFollows
  <2>5. Follows(o, f[i + 1])
    BY <1>4, <2>2, <2>3, <2>4, FollowsTransitive
  <2> QED BY <2>1, <2>5
<1>7. n \in G
  <2> HIDE DEF G
  <2> QED BY <1>1, <1>5, <1>6, UpTo
<1> QED BY <1>2, <1>7 DEF o
-----------------------------------------------------------------------------
(* Steps on a slot                                                         *)

LEMMA SlotFacts ==
  ASSUME NEW s, Sound(s), NEW k \in Slots
  PROVE  /\ Typed(s) /\ IsState(s) /\ ListsTyped(s)
         /\ s.clock \in Nat /\ s.transaction \in 1 .. s.clock /\ s.transaction \in 0 .. s.clock
         /\ s.scope \in 0 .. s.clock /\ s.root \in 0 .. s.clock
         /\ s.storage \in [Slots -> StorageRowOf(s.clock)]
         /\ s.storage[k] \in StorageRowOf(s.clock)
         /\ DOMAIN s.observed_storage = Slots
         /\ DOMAIN s.observed_storage[k] = {"original", "written"}
         /\ s.observed_storage[k].written \in BOOLEAN
         /\ s.storage[k].observation # s.transaction => ~s.observed_storage[k].written
         /\ s.journal \in Seq(Entries(s.clock)) /\ Len(s.journal) \in Nat
<1>1. /\ Typed(s) /\ s.transaction_active /\ Unobserved(s)
  BY DEF Sound
<1>2. /\ s.clock \in Nat /\ s.transaction \in 1 .. s.clock
      /\ s.scope \in 0 .. s.clock /\ s.root \in 0 .. s.clock
  BY <1>1 DEF Typed, RowsTyped, ControlTyped
<1>3. s.storage \in [Slots -> StorageRowOf(s.clock)] /\ ObservationsTyped(s)
  BY <1>1 DEF Typed, RowsTyped
<1>4. s.storage[k].observation # s.transaction => ~s.observed_storage[k].written
  BY <1>1 DEF Unobserved
<1>5. /\ DOMAIN s.observed_storage = Slots
      /\ DOMAIN s.observed_storage[k] = {"original", "written"}
      /\ s.observed_storage[k].written \in BOOLEAN
  BY <1>3 DEF ObservationsTyped
<1>6. s.transaction \in 0 .. s.clock
  BY <1>2
<1>7. IsState(s) /\ ListsTyped(s)
  BY <1>1 DEF Typed
<1> QED BY <1>1, <1>2, <1>3, <1>4, <1>5, <1>6, <1>7, ListFacts

\* A change that no record is about.
SlotNote(s, r, k, row, obs) ==
    /\ IsStorageAdmitted(s, k)
    /\ row \in StorageRowOf(s.clock)
    /\ DOMAIN obs = {"original", "written"}
    /\ SameBut(r, s, {"storage", "observed_storage"})
    /\ r.storage = [s.storage EXCEPT ![k] = row]
    /\ Noted(r, s, k, obs)
    /\ row.observation \in {s.storage[k].observation, s.transaction}
    /\ row.warm_transaction = s.storage[k].warm_transaction
    /\ row.current = s.storage[k].current /\ row.block_dirty = s.storage[k].block_dirty
    /\ row.journaled_scope = s.storage[k].journaled_scope
    /\ row.storage_incarnation = s.storage[k].storage_incarnation
    /\ row.undo_transaction = s.storage[k].undo_transaction
    /\ row.undo_index = s.storage[k].undo_index
    /\ obs.written = s.observed_storage[k].written

LEMMA SlotNoteFollows ==
  ASSUME NEW s, Sound(s), NEW r, NEW k \in Slots, NEW row, NEW obs,
         SlotNote(s, r, k, row, obs)
  PROVE  Follows(s, r) /\ Sound(r)
<1>1. /\ Typed(s) /\ DOMAIN s.observed_storage = Slots
      /\ s.storage \in [Slots -> StorageRowOf(s.clock)]
      /\ s.observed_storage[k].written \in BOOLEAN
      /\ s.storage[k].observation # s.transaction => ~s.observed_storage[k].written
  BY SlotFacts
<1>2. /\ r.clock = s.clock /\ r.journal = s.journal /\ r.introduced = s.introduced
      /\ r.transaction = s.transaction /\ IsState(r)
  BY DEF SlotNote, SameBut, StateFields
<1>3. ListsTyped(r) /\ \A f \in ListFields : PrefixOf(s[f], r[f])
  <2>1. {"storage", "observed_storage"} \cap
           (ListFields \cup {"introduced", "block_introduced_codes", "journal"}) = {}
    BY DEF ListFields
  <2>2. SameBut(r, s, {"storage", "observed_storage"})
    BY DEF SlotNote
  <2> QED BY <1>1, <1>2, <2>1, <2>2, SameLists
<1>4. Extends(s, r) /\ Quiet(s, r)
  BY <1>1, <1>2, SilentStep
<1>5. SameBut(r, s, SlotFields)
  BY DEF SlotNote, SameBut, SlotFields
<1>6. r.storage[k] = row /\ r.observed_storage[k] = obs
  BY <1>1 DEF SlotNote, Noted
<1>7. StorageView(r, k) = StorageView(s, k)
  BY <1>6 DEF StorageView, SlotNote
<1>8. View(r, <<"storage", k>>) = View(s, <<"storage", k>>)
  BY <1>7, ViewOf
<1>9. row.observation # s.transaction => ~obs.written
  BY <1>1 DEF SlotNote
<1>10. SlotStep(s, r, k, row, obs)
  BY <1>1, <1>3, <1>4, <1>5, <1>8, <1>9 DEF SlotStep, SlotNote
<1> QED BY <1>10, SlotStepKeeps, KeepsFollows DEF Keeps

LEMMA ObserveStorageFollows ==
  ASSUME NEW s, Sound(s), NEW k \in Slots, IsStorageAdmitted(s, k)
  PROVE  LET r == ObserveStorage(s, k)
         IN  /\ Follows(s, r) /\ Sound(r)
             /\ r.storage[k].observation = s.transaction
             /\ SameBut(r, s, {"storage", "observed_storage"})
<1> DEFINE r == ObserveStorage(s, k)
           row == [s.storage[k] EXCEPT !.observation = s.transaction]
           obs == [original |-> AcceptedStorageValue(s, k), written |-> FALSE]
<1>1. CASE s.storage[k].observation = s.transaction
  <2>1. r = s /\ IsState(s)
    BY <1>1, SlotFacts DEF ObserveStorage
  <2> QED BY <1>1, <2>1, FollowsReflexive DEF SameBut
<1>2. CASE s.storage[k].observation # s.transaction
  <2>1. /\ IsState(s) /\ s.storage[k] \in StorageRowOf(s.clock)
        /\ s.transaction \in 0 .. s.clock /\ s.storage \in [Slots -> StorageRowOf(s.clock)]
        /\ s.observed_storage[k].written \in BOOLEAN /\ ~s.observed_storage[k].written
        /\ DOMAIN s.observed_storage = Slots
    BY <1>2, SlotFacts
  <2>2. /\ SameBut(r, s, {"storage", "observed_storage"})
        /\ r.storage = [s.storage EXCEPT ![k] = row]
        /\ r.observed_storage = [s.observed_storage EXCEPT ![k] = obs]
    BY <1>2, <2>1 DEF ObserveStorage, SameBut, IsState, StateFields
  <2>3. row \in StorageRowOf(s.clock)
    BY <2>1 DEF StorageRowOf
  <2>4. /\ row.warm_transaction = s.storage[k].warm_transaction
        /\ row.current = s.storage[k].current /\ row.block_dirty = s.storage[k].block_dirty
        /\ row.journaled_scope = s.storage[k].journaled_scope
        /\ row.storage_incarnation = s.storage[k].storage_incarnation
        /\ row.undo_transaction = s.storage[k].undo_transaction
        /\ row.undo_index = s.storage[k].undo_index
        /\ row.observation = s.transaction
    BY <2>1 DEF StorageRowOf
  <2>5. DOMAIN obs = {"original", "written"} /\ obs.written = s.observed_storage[k].written
    BY <2>1
  <2> HIDE DEF r, row, obs
  <2>6. SlotNote(s, r, k, row, obs)
    BY <2>1, <2>2, <2>3, <2>4, <2>5 DEF SlotNote, Noted
  <2>7. Follows(s, r) /\ Sound(r)
    BY <2>6, SlotNoteFollows
  <2>8. r.storage[k] = row
    BY <2>1, <2>2
  <2> QED BY <2>2, <2>4, <2>7, <2>8 DEF r
<1> QED BY <1>1, <1>2

LEMMA EffectiveTyped ==
  ASSUME NEW s, Sound(s), NEW k \in Slots
  PROVE  EffectiveStorage(s, k) \in Nat
<1>1. s.storage[k] \in StorageRowOf(s.clock)
  BY SlotFacts
<1> QED BY <1>1 DEF EffectiveStorage, StorageRowOf

LEMMA CaptureFollows ==
  ASSUME NEW s, Sound(s), NEW k \in Slots, IsStorageAdmitted(s, k)
  PROVE  LET r == CaptureExecutionOriginal(s, k)
         IN  /\ Follows(s, r) /\ Sound(r)
             /\ r.storage[k].observation = s.storage[k].observation
             /\ SameBut(r, s, {"storage"})
<1> DEFINE r == CaptureExecutionOriginal(s, k)
           v == EffectiveStorage(s, k)
           row == [s.storage[k] EXCEPT !.execution_original = v,
                                       !.execution_original_root = s.root]
           obs == s.observed_storage[k]
<1>1. CASE \/ "created" \in s.accounts[Owner[k]].flags
           \/ s.storage[k].execution_original_root = s.root
  <2>1. r = s /\ IsState(s)
    BY <1>1, SlotFacts DEF CaptureExecutionOriginal
  <2> QED BY <1>1, <2>1, FollowsReflexive DEF SameBut
<1>2. CASE ~ \/ "created" \in s.accounts[Owner[k]].flags
             \/ s.storage[k].execution_original_root = s.root
  <2>1. /\ IsState(s) /\ s.storage[k] \in StorageRowOf(s.clock) /\ v \in Nat
        /\ s.root \in 0 .. s.clock /\ s.storage \in [Slots -> StorageRowOf(s.clock)]
        /\ DOMAIN s.observed_storage = Slots
        /\ DOMAIN obs = {"original", "written"}
    BY SlotFacts, EffectiveTyped
  <2>2. /\ SameBut(r, s, {"storage"})
        /\ r.storage = [s.storage EXCEPT ![k] = row]
    BY <1>2, <2>1 DEF CaptureExecutionOriginal, SameBut, IsState, StateFields
  <2> HIDE DEF v
  <2>3. row \in StorageRowOf(s.clock)
    BY <2>1 DEF StorageRowOf
  <2>4. /\ row.warm_transaction = s.storage[k].warm_transaction
        /\ row.current = s.storage[k].current /\ row.block_dirty = s.storage[k].block_dirty
        /\ row.journaled_scope = s.storage[k].journaled_scope
        /\ row.storage_incarnation = s.storage[k].storage_incarnation
        /\ row.undo_transaction = s.storage[k].undo_transaction
        /\ row.undo_index = s.storage[k].undo_index
        /\ row.observation = s.storage[k].observation
    BY <2>1 DEF StorageRowOf
  <2> HIDE DEF r, row
  <2>5. SameBut(r, s, {"storage", "observed_storage"})
           /\ r.observed_storage = s.observed_storage
    BY <2>2 DEF SameBut, StateFields
  <2>6. Noted(r, s, k, obs)
    BY <2>1, <2>5 DEF Noted
  <2>7. SlotNote(s, r, k, row, obs)
    BY <2>1, <2>2, <2>3, <2>4, <2>5, <2>6 DEF SlotNote
  <2> HIDE DEF obs
  <2>8. Follows(s, r) /\ Sound(r)
    BY <2>7, SlotNoteFollows
  <2>9. r.storage[k] = row
    BY <2>1, <2>2
  <2> QED BY <2>2, <2>4, <2>8, <2>9 DEF r
<1> QED BY <1>1, <1>2
\* A list that a step may extend, and the others.
LEMMA ListsGrow ==
  ASSUME NEW s, Typed(s), NEW r, NEW changed, SameBut(r, s, changed),
         r.clock = s.clock, r.introduced = s.introduced,
         r.block_introduced_codes = s.block_introduced_codes,
         r.journal \in Seq(Entries(s.clock)),
         changed \cap ListFields \subseteq {"dirty_storage", "changed_storage"},
         r.dirty_storage \in Seq(Slots), PrefixOf(s.dirty_storage, r.dirty_storage),
         r.changed_storage \in Seq(Slots), PrefixOf(s.changed_storage, r.changed_storage)
  PROVE  ListsTyped(r) /\ \A f \in ListFields : PrefixOf(s[f], r[f])
<1>1. ListsTyped(s)
  BY DEF Typed
<1>2. \A f \in ListFields \ {"dirty_storage", "changed_storage"} : r[f] = s[f]
  BY DEF SameBut, ListFields, StateFields
<1>3. ListsTyped(r)
  BY <1>1, <1>2 DEF ListsTyped, ListFields
<1>4. ASSUME NEW f \in ListFields PROVE PrefixOf(s[f], r[f])
  <2>1. CASE f \in {"dirty_storage", "changed_storage"}
    BY <2>1
  <2>2. CASE f \notin {"dirty_storage", "changed_storage"}
    BY <1>1, <1>2, <2>2, TypedLists, PrefixReflexive
  <2> QED BY <2>1, <2>2
<1> QED BY <1>3, <1>4

\* An entry that records one object.
LEMMA EntryStep ==
  ASSUME NEW s, Typed(s), NEW r, NEW e \in Entries(s.clock),
         e.kind \notin {"introduced_code", "transient_storage"},
         r.journal = Append(s.journal, e), r.introduced = s.introduced,
         \A o \in Records(e) : Recorded(e, o) = View(s, o)
  PROVE  /\ Extends(s, r) /\ Quiet(s, r) /\ r.journal \in Seq(Entries(s.clock))
         /\ \A o \in Records(e) : Appends(s, r, o)
<1>1. s.journal \in Seq(Entries(s.clock)) /\ Len(s.journal) \in Nat
  BY ListFacts
<1>2. /\ Len(r.journal) = Len(s.journal) + 1 /\ r.journal[Len(r.journal)] = e
      /\ r.journal \in Seq(Entries(s.clock))
  BY <1>1
<1>3. Extends(s, r)
  BY DEF Extends
<1> QED BY <1>2, <1>3 DEF Quiet, Appends

LEMMA StorageUndoRecords ==
  ASSUME NEW s, Sound(s), NEW k \in Slots
  PROVE  LET e == StorageUndo(s, k)
         IN  /\ e \in Entries(s.clock) /\ e.kind = "storage"
             /\ Records(e) = {<<"storage", k>>}
             /\ \A o \in Records(e) : Recorded(e, o) = View(s, o)
<1> DEFINE e == StorageUndo(s, k)
<1>1. /\ s.storage[k] \in StorageRowOf(s.clock) /\ s.observed_storage[k].written \in BOOLEAN
  BY SlotFacts
<1>2. e \in StorageEntry(s.clock)
  BY <1>1 DEF StorageUndo, StorageEntry, StorageRowOf
<1>3. e \in Entries(s.clock)
  BY <1>2 DEF Entries
<1>4. e.kind = "storage" /\ e.id = k
  BY DEF StorageUndo
<1>5. RecordedStorage(e) = StorageView(s, k)
  BY DEF RecordedStorage, StorageView, StorageUndo
<1> HIDE DEF e
<1>6. Records(e) = {<<"storage", k>>}
  BY <1>4 DEF Records
<1>7. Recorded(e, <<"storage", k>>) = View(s, <<"storage", k>>)
  BY <1>5, ViewOf DEF Recorded
<1> QED BY <1>3, <1>4, <1>6, <1>7 DEF e

LEMMA AppendUndoFollows ==
  ASSUME NEW s, Sound(s), NEW k \in Slots, IsStorageAdmitted(s, k)
  PROVE  LET r == AppendStorageUndo(s, k)
         IN  /\ Follows(s, r) /\ Sound(r)
             /\ r.storage[k].journaled_scope = s.scope
             /\ r.storage[k].observation = s.storage[k].observation
             /\ SameBut(r, s, {"storage", "journal"})
<1> DEFINE r == AppendStorageUndo(s, k)
           index == IF s.storage[k].undo_transaction # s.transaction
                    THEN Len(s.journal) + 1 ELSE s.storage[k].undo_index
           row == [s.storage[k] EXCEPT !.journaled_scope = s.scope,
                                       !.undo_transaction = s.transaction,
                                       !.undo_index = index]
           obs == s.observed_storage[k]
           e == StorageUndo(s, k)
<1>1. CASE s.storage[k].journaled_scope = s.scope
  <2>1. r = s /\ IsState(s)
    BY <1>1, SlotFacts DEF AppendStorageUndo
  <2> QED BY <1>1, <2>1, FollowsReflexive DEF SameBut
<1>2. CASE s.storage[k].journaled_scope # s.scope
  <2>1. /\ IsState(s) /\ s.storage[k] \in StorageRowOf(s.clock) /\ Typed(s)
        /\ s.scope \in 0 .. s.clock /\ s.transaction \in 0 .. s.clock
        /\ s.storage \in [Slots -> StorageRowOf(s.clock)]
        /\ DOMAIN s.observed_storage = Slots
        /\ DOMAIN obs = {"original", "written"} /\ obs.written \in BOOLEAN
        /\ s.storage[k].observation # s.transaction => ~obs.written
        /\ Len(s.journal) \in Nat
    BY SlotFacts
  <2>2. /\ SameBut(r, s, {"storage", "journal"})
        /\ r.storage = [s.storage EXCEPT ![k] = row]
        /\ r.journal = Append(s.journal, e)
    <3>1. row = [s.storage[k] EXCEPT !.journaled_scope = s.scope,
                                     !.undo_transaction = s.transaction,
                                     !.undo_index = IF s.storage[k].undo_transaction # s.transaction
                                                    THEN Len(s.journal) + 1 ELSE @]
      BY <2>1 DEF StorageRowOf
    <3> HIDE DEF row, e
    <3> QED BY <1>2, <2>1, <3>1 DEF AppendStorageUndo, SameBut, IsState, StateFields, e
  <2>3. index \in Nat
    BY <2>1 DEF StorageRowOf
  <2> HIDE DEF index
  <2>4. row \in StorageRowOf(s.clock)
    BY <2>1, <2>3 DEF StorageRowOf
  <2>5. /\ row.warm_transaction = s.storage[k].warm_transaction
        /\ row.journaled_scope = s.scope
        /\ row.observation = s.storage[k].observation
    BY <2>1 DEF StorageRowOf
  <2>6. /\ e \in Entries(s.clock) /\ e.kind = "storage" /\ Records(e) = {<<"storage", k>>}
        /\ \A o \in Records(e) : Recorded(e, o) = View(s, o)
    BY StorageUndoRecords
  <2> HIDE DEF r, row, e
  <2>7. /\ r.clock = s.clock /\ r.introduced = s.introduced
        /\ r.block_introduced_codes = s.block_introduced_codes
        /\ r.dirty_storage = s.dirty_storage /\ r.changed_storage = s.changed_storage
        /\ r.observed_storage = s.observed_storage
    BY <2>2 DEF SameBut, StateFields
  <2>8. /\ Extends(s, r) /\ Quiet(s, r) /\ r.journal \in Seq(Entries(s.clock))
        /\ Appends(s, r, <<"storage", k>>)
    BY <2>1, <2>2, <2>6, <2>7, EntryStep
  <2>9. ListsTyped(r) /\ \A f \in ListFields : PrefixOf(s[f], r[f])
    <3>1. /\ s.dirty_storage \in Seq(Slots) /\ s.changed_storage \in Seq(Slots)
      BY <2>1 DEF Typed, ListsTyped
    <3>2. /\ PrefixOf(s.dirty_storage, r.dirty_storage)
          /\ PrefixOf(s.changed_storage, r.changed_storage)
      BY <2>7, <3>1 DEF PrefixOf
    <3>3. {"storage", "journal"} \cap ListFields \subseteq {"dirty_storage", "changed_storage"}
      BY DEF ListFields
    <3> QED BY <2>1, <2>2, <2>7, <2>8, <3>1, <3>2, <3>3, ListsGrow
  <2>10. SameBut(r, s, SlotFields)
    BY <2>2 DEF SameBut, SlotFields
  <2>11. Noted(r, s, k, obs)
    BY <2>1, <2>7 DEF Noted
  <2>12. SlotStep(s, r, k, row, obs)
    BY <2>1, <2>2, <2>4, <2>5, <2>8, <2>9, <2>10, <2>11 DEF SlotStep
  <2> HIDE DEF obs
  <2>13. Follows(s, r) /\ Sound(r)
    BY <2>12, SlotStepKeeps, KeepsFollows DEF Keeps
  <2>14. r.storage[k] = row
    BY <2>1, <2>2
  <2> QED BY <2>2, <2>5, <2>13, <2>14 DEF r
<1> QED BY <1>1, <1>2

\* The storage_dirty flag of the owner, with an entry of its own unless the
\* account's record of this scope has it.
LEMMA FlagDirtyFollows ==
  ASSUME NEW s, Sound(s), NEW a \in Accounts, IsAdmitted(s, a), NEW r,
         SameBut(r, s, {"accounts", "journal"}),
         r.journal = AppendIf(s.journal,
                        /\ "storage_dirty" \notin s.accounts[a].flags
                        /\ s.accounts[a].journaled_scope # s.scope,
                        [kind |-> "account_storage_dirty", id |-> a]),
         r.accounts = [s.accounts EXCEPT ![a] =
                          [s.accounts[a] EXCEPT !.flags = @ \cup {"storage_dirty"}]]
  PROVE  Follows(s, r) /\ Sound(r)
<1> DEFINE row == [s.accounts[a] EXCEPT !.flags = @ \cup {"storage_dirty"}]
           obs == s.observed_accounts[a]
           e == [kind |-> "account_storage_dirty", id |-> a]
           new == /\ "storage_dirty" \notin s.accounts[a].flags
                  /\ s.accounts[a].journaled_scope # s.scope
<1>1. /\ Typed(s) /\ s.clock \in Nat
      /\ s.accounts \in [Accounts -> AccountRowOf(s.clock)]
      /\ s.observed_accounts \in [Accounts -> AccountObservation]
      /\ s.accounts[a] \in AccountRowOf(s.clock)
      /\ obs \in AccountObservation
      /\ CodeBound(s, s.accounts[a].code_ref, s.accounts[a].current.code)
      /\ s.accounts[a].lifecycle_transaction = s.transaction => InLifecycle(s, a)
      /\ s.accounts[a].flags \cap LifecycleBits # {} => InLifecycle(s, a)
      /\ s.accounts[a].observation # s.transaction => obs.effect = {}
  BY RowFacts
<1>2. /\ row \in AccountRowOf(s.clock)
      /\ row.flags = s.accounts[a].flags \cup {"storage_dirty"}
  <2>1. s.accounts[a].flags \cup {"storage_dirty"} \in SUBSET AccountFlags
    BY <1>1 DEF AccountRowOf, AccountFlags
  <2> QED BY <1>1, <2>1 DEF AccountRowOf
<1>3. /\ row.warm_transaction = s.accounts[a].warm_transaction
      /\ row.observation = s.accounts[a].observation
      /\ row.lifecycle_transaction = s.accounts[a].lifecycle_transaction
      /\ row.code_ref = s.accounts[a].code_ref /\ row.current = s.accounts[a].current
      /\ row.journaled_scope = s.accounts[a].journaled_scope
      /\ row.storage_incarnation = s.accounts[a].storage_incarnation
      /\ row.wiped_transaction = s.accounts[a].wiped_transaction
      /\ row.dirty_transaction = s.accounts[a].dirty_transaction
  BY <1>1 DEF AccountRowOf
<1>4. /\ e \in Entries(s.clock) /\ e.kind = "account_storage_dirty"
      /\ Records(e) = {<<"account_storage_dirty", a>>}
      /\ "storage_dirty" \notin s.accounts[a].flags =>
             \A o \in Records(e) : Recorded(e, o) = View(s, o)
  <2>1. e \in Entries(s.clock)
    BY DEF Entries, AccountMark
  <2>2. Records(e) = {<<"account_storage_dirty", a>>}
    BY DEF Records
  <2>3. Recorded(e, <<"account_storage_dirty", a>>) = 0
    BY DEF Recorded
  <2>4. "storage_dirty" \notin s.accounts[a].flags => View(s, <<"account_storage_dirty", a>>) = 0
    BY ViewOf DEF Bit
  <2> HIDE DEF e
  <2> QED BY <2>1, <2>2, <2>3, <2>4 DEF e
<1>5. r.accounts = [s.accounts EXCEPT ![a] = row] /\ r.journal = AppendIf(s.journal, new, e)
  OBVIOUS
<1> HIDE DEF row, e
<1>6. r.accounts[a] = row
  BY <1>1, <1>5
<1>7. /\ r.clock = s.clock /\ r.introduced = s.introduced
      /\ r.block_introduced_codes = s.block_introduced_codes
      /\ r.dirty_storage = s.dirty_storage /\ r.changed_storage = s.changed_storage
      /\ r.observed_accounts = s.observed_accounts
      /\ r.lifecycle_accounts = s.lifecycle_accounts
  BY DEF SameBut, StateFields
<1>8. /\ Extends(s, r) /\ Quiet(s, r) /\ r.journal \in Seq(Entries(s.clock))
      /\ \/ Appends(s, r, <<"account_storage_dirty", a>>)
         \/ s.accounts[a].journaled_scope = s.scope
         \/ "storage_dirty" \in s.accounts[a].flags
  <2>1. CASE new
    <3>1. r.journal = Append(s.journal, e)
      BY <1>5, <2>1 DEF AppendIf
    <3> QED BY <1>1, <1>4, <1>7, <2>1, <3>1, EntryStep
  <2>2. CASE ~new
    <3>1. r.journal = s.journal
      BY <1>5, <2>2 DEF AppendIf
    <3> QED BY <1>1, <1>7, <2>2, <3>1, SilentStep, ListFacts
  <2> QED BY <2>1, <2>2
<1>9. ListsTyped(r) /\ \A f \in ListFields : PrefixOf(s[f], r[f])
  <2>1. /\ s.dirty_storage \in Seq(Slots) /\ s.changed_storage \in Seq(Slots)
    BY <1>1 DEF Typed, ListsTyped
  <2>2. /\ PrefixOf(s.dirty_storage, r.dirty_storage)
        /\ PrefixOf(s.changed_storage, r.changed_storage)
    BY <1>7, <2>1 DEF PrefixOf
  <2>3. {"accounts", "journal"} \cap ListFields \subseteq {"dirty_storage", "changed_storage"}
    BY DEF ListFields
  <2> QED BY <1>1, <1>7, <1>8, <2>1, <2>2, <2>3, ListsGrow
<1>10. SameBut(r, s, AccountFields)
  BY DEF SameBut, AccountFields
<1>11. r.observed_accounts = [s.observed_accounts EXCEPT ![a] = obs]
  BY <1>1, <1>7
<1>12. AccountView(r, a) = AccountView(s, a)
  <2>1. row.flags \ {"storage_dirty"} = s.accounts[a].flags \ {"storage_dirty"}
    BY <1>2
  <2> QED BY <1>3, <1>6, <1>7, <2>1 DEF AccountView
<1>13. View(r, <<"account", a>>) = View(s, <<"account", a>>)
  BY <1>12, ViewOf
<1>14. "storage_dirty" \in s.accounts[a].flags =>
          View(r, <<"account_storage_dirty", a>>) = View(s, <<"account_storage_dirty", a>>)
  <2>1. "storage_dirty" \in r.accounts[a].flags
    BY <1>2, <1>6
  <2>2. View(r, <<"account_storage_dirty", a>>) = 1
    BY <2>1, ViewOf DEF Bit
  <2>3. "storage_dirty" \in s.accounts[a].flags => View(s, <<"account_storage_dirty", a>>) = 1
    BY ViewOf DEF Bit
  <2> QED BY <2>2, <2>3
<1>15. /\ row.lifecycle_transaction = s.transaction => InLifecycle(r, a)
       /\ row.flags \cap LifecycleBits # {} => InLifecycle(r, a)
  <2>1. row.flags \cap LifecycleBits = s.accounts[a].flags \cap LifecycleBits
    BY <1>2 DEF LifecycleBits
  <2> QED BY <1>1, <1>3, <1>7, <2>1 DEF InLifecycle
<1>16. AccountStep(s, r, a, row, obs)
  BY <1>1, <1>2, <1>3, <1>5, <1>8, <1>9, <1>10, <1>11, <1>13, <1>14, <1>15 DEF AccountStep
<1> HIDE DEF obs
<1> QED BY <1>16, AccountStepKeeps, KeepsFollows DEF Keeps
LEMMA WriteStorageFollows ==
  ASSUME NEW s, Sound(s), NEW k \in Slots, NEW v \in Nat,
         IsStorageAdmitted(s, k), IsAdmitted(s, Owner[k]),
         s.storage[k].observation = s.transaction
  PROVE  LET r == WriteResolvedStorage(s, k, v)
         IN  Follows(s, r) /\ Sound(r)
<1> DEFINE a == Owner[k]
           t == AppendStorageUndo(s, k)
           flagUndo == /\ "storage_dirty" \notin s.accounts[a].flags
                       /\ s.accounts[a].journaled_scope # s.scope
           e == [kind |-> "account_storage_dirty", id |-> a]
           dirty == AppendIf(s.dirty_storage, ~s.storage[k].block_dirty, k)
           changed == AppendIf(s.changed_storage,
                               s.storage[k].undo_transaction # s.transaction, k)
           incarnation == s.accounts[a].storage_incarnation
           u == [t EXCEPT !.journal = AppendIf(@, flagUndo, e),
                          !.accounts[a].flags = @ \cup {"storage_dirty"}]
           r == WriteResolvedStorage(s, k, v)
           row == [t.storage[k] EXCEPT !.block_dirty = TRUE, !.current = v,
                                       !.storage_incarnation = incarnation]
           obs == [t.observed_storage[k] EXCEPT !.written = TRUE]
<1>1. a \in Accounts
  BY WorldConstants
<1>2. /\ Follows(s, t) /\ Sound(t)
      /\ t.storage[k].journaled_scope = s.scope
      /\ t.storage[k].observation = s.storage[k].observation
      /\ SameBut(t, s, {"storage", "journal"})
  BY SMTT(30), AppendUndoFollows
<1>3. r = [t EXCEPT
            !.journal = AppendIf(@, flagUndo, e),
            !.accounts[a].flags = @ \cup {"storage_dirty"},
            !.dirty_storage = AppendIf(@, ~s.storage[k].block_dirty, k),
            !.changed_storage = AppendIf(@, s.storage[k].undo_transaction # s.transaction, k),
            !.storage[k].block_dirty = TRUE,
            !.storage[k].current = v,
            !.storage[k].storage_incarnation = incarnation,
            !.observed_storage[k].written = TRUE]
  BY DEF WriteResolvedStorage
<1> HIDE DEF r, t, a, e
<1>4. /\ t.accounts = s.accounts /\ t.scope = s.scope /\ t.transaction = s.transaction
      /\ t.dirty_storage = s.dirty_storage /\ t.changed_storage = s.changed_storage
      /\ t.account_ids = s.account_ids /\ t.storage_ids = s.storage_ids
      /\ t.clock = s.clock /\ IsState(t)
  BY <1>2 DEF SameBut, StateFields
<1>5. /\ t.accounts \in [Accounts -> AccountRowOf(t.clock)]
      /\ t.accounts[a] \in AccountRowOf(t.clock)
  BY <1>1, <1>2, RowFacts
<1>6. /\ t.storage \in [Slots -> StorageRowOf(t.clock)]
      /\ t.storage[k] \in StorageRowOf(t.clock)
      /\ DOMAIN t.observed_storage = Slots
      /\ DOMAIN t.observed_storage[k] = {"original", "written"}
  BY <1>2, SlotFacts
<1>7. Follows(t, u) /\ Sound(u)
  <2>1. SameBut(u, t, {"accounts", "journal"})
    BY <1>4 DEF SameBut, IsState, StateFields
  <2>2. u.journal = AppendIf(t.journal,
                        /\ "storage_dirty" \notin t.accounts[a].flags
                        /\ t.accounts[a].journaled_scope # t.scope,
                        [kind |-> "account_storage_dirty", id |-> a])
    BY <1>4 DEF IsState, StateFields, e
  <2>3. u.accounts = [t.accounts EXCEPT ![a] =
                          [t.accounts[a] EXCEPT !.flags = @ \cup {"storage_dirty"}]]
    BY <1>4 DEF IsState, StateFields
  <2>4. IsAdmitted(t, a)
    BY <1>4 DEF IsAdmitted, a
  <2> HIDE DEF u
  <2> QED BY <1>1, <1>2, <2>1, <2>2, <2>3, <2>4, FlagDirtyFollows
<1>8. /\ SameBut(u, t, {"accounts", "journal"})
      /\ u.accounts = [t.accounts EXCEPT ![a].flags = @ \cup {"storage_dirty"}]
      /\ u.journal = AppendIf(t.journal, flagUndo, e)
  BY <1>4 DEF SameBut, IsState, StateFields
<1>9. /\ r.journal = AppendIf(t.journal, flagUndo, e)
      /\ r.accounts = [t.accounts EXCEPT ![a].flags = @ \cup {"storage_dirty"}]
      /\ r.dirty_storage = dirty /\ r.changed_storage = changed
  BY <1>3, <1>4 DEF IsState, StateFields
<1>10. /\ SameBut(r, t, {"journal", "accounts", "dirty_storage", "changed_storage",
                         "storage", "observed_storage"})
  BY <1>3, <1>4 DEF SameBut, IsState, StateFields
<1>11. r.storage = [t.storage EXCEPT ![k] = row]
  BY ZenonT(40), <1>3, <1>4, <1>6 DEF IsState, StateFields, StorageRowOf
<1>12. r.observed_storage = [t.observed_storage EXCEPT ![k] = obs]
  BY <1>3, <1>4 DEF IsState, StateFields
<1>13. incarnation \in Nat
  BY <1>4, <1>5 DEF AccountRowOf
<1> HIDE DEF incarnation, u, dirty, changed
<1>14. row \in StorageRowOf(t.clock)
  BY <1>6, <1>13 DEF StorageRowOf
<1>15. /\ row.journaled_scope = t.storage[k].journaled_scope
       /\ row.warm_transaction = t.storage[k].warm_transaction
       /\ row.observation = t.storage[k].observation
  BY <1>6 DEF StorageRowOf
<1>16. DOMAIN obs = {"original", "written"} /\ obs.written = TRUE
  BY <1>6
<1> HIDE DEF row, obs
<1>17. Noted(r, u, k, obs)
  <2>1. u.observed_storage = t.observed_storage
    BY <1>8 DEF SameBut, StateFields
  <2> QED BY <1>6, <1>12, <2>1 DEF Noted
<1>18. /\ u.storage = t.storage /\ u.clock = t.clock /\ u.transaction = t.transaction
       /\ u.dirty_storage = t.dirty_storage /\ u.changed_storage = t.changed_storage
       /\ u.storage_ids = t.storage_ids /\ u.scope = t.scope
       /\ u.introduced = t.introduced /\ u.block_introduced_codes = t.block_introduced_codes
  BY <1>8 DEF SameBut, StateFields
<1>19. /\ SameBut(r, u, {"dirty_storage", "changed_storage", "storage", "observed_storage"})
       /\ r.clock = u.clock /\ r.introduced = u.introduced /\ r.journal = u.journal
       /\ r.block_introduced_codes = u.block_introduced_codes
  BY ZenonT(40), <1>8, <1>9, <1>10 DEF SameBut, StateFields
<1>20. Typed(u) /\ ListsTyped(u)
  BY <1>7 DEF Sound, Typed
<1>21. ListsTyped(r) /\ \A f \in ListFields : PrefixOf(u[f], r[f])
  <2>1. /\ u.dirty_storage \in Seq(Slots) /\ u.changed_storage \in Seq(Slots)
        /\ u.journal \in Seq(Entries(u.clock))
    BY <1>20 DEF ListsTyped
  <2>2. /\ r.dirty_storage \in Seq(Slots) /\ PrefixOf(u.dirty_storage, r.dirty_storage)
    BY <1>4, <1>9, <1>18, <2>1, AppendIfFacts DEF dirty
  <2>3. /\ r.changed_storage \in Seq(Slots) /\ PrefixOf(u.changed_storage, r.changed_storage)
    BY <1>4, <1>9, <1>18, <2>1, AppendIfFacts DEF changed
  <2>4. {"dirty_storage", "changed_storage", "storage", "observed_storage"} \cap ListFields
           \subseteq {"dirty_storage", "changed_storage"}
    BY DEF ListFields
  <2> QED BY <1>19, <1>20, <2>1, <2>2, <2>3, <2>4, ListsGrow
<1>22. Extends(u, r) /\ Quiet(u, r)
  BY <1>19, <1>20, SilentStep
<1>23. SameBut(r, u, SlotFields)
  BY <1>19 DEF SameBut, SlotFields, ListFields
<1>24. IsStorageAdmitted(u, k)
  BY <1>4, <1>18 DEF IsStorageAdmitted
<1>25. SlotStep(u, r, k, row, obs)
  <2>1. /\ row \in StorageRowOf(u.clock) /\ r.storage = [u.storage EXCEPT ![k] = row]
        /\ row.observation = u.storage[k].observation /\ row.observation = u.transaction
        /\ row.warm_transaction = u.storage[k].warm_transaction
        /\ u.storage[k].journaled_scope = u.scope
    BY <1>2, <1>4, <1>11, <1>14, <1>15, <1>18
  <2> QED BY <1>16, <1>17, <1>21, <1>22, <1>23, <1>24, <2>1 DEF SlotStep
<1>26. Follows(u, r) /\ Sound(r)
  BY <1>7, <1>25, SlotStepKeeps, KeepsFollows DEF Keeps
<1>27. Follows(s, u)
  BY <1>2, <1>7, FollowsTransitive
<1>28. Follows(s, r)
  BY <1>26, <1>27, FollowsTransitive
<1> QED BY <1>26, <1>28 DEF r

LEMMA SetResolvedFollows ==
  ASSUME NEW s, Sound(s), NEW k \in Slots, NEW v \in Nat,
         IsStorageAdmitted(s, k), IsAdmitted(s, Owner[k])
  PROVE  Follows(s, SetResolvedStorage(s, k, v))
<1> DEFINE o == ObserveStorage(s, k)
           c == CaptureExecutionOriginal(o, k)
           w == WriteResolvedStorage(c, k, v)
           r == SetResolvedStorage(s, k, v)
<1>1. r = IF EffectiveStorage(s, k) = v THEN c ELSE w
  BY DEF SetResolvedStorage
<1>2. /\ Follows(s, o) /\ Sound(o) /\ o.storage[k].observation = s.transaction
      /\ SameBut(o, s, {"storage", "observed_storage"})
  BY ObserveStorageFollows
<1> HIDE DEF o, r
<1>3. /\ IsStorageAdmitted(o, k) /\ IsAdmitted(o, Owner[k]) /\ o.transaction = s.transaction
  BY <1>2 DEF SameBut, StateFields, IsStorageAdmitted, IsAdmitted
<1>4. /\ Follows(o, c) /\ Sound(c) /\ c.storage[k].observation = o.storage[k].observation
      /\ SameBut(c, o, {"storage"})
  BY <1>2, <1>3, CaptureFollows
<1> HIDE DEF c
<1>5. /\ IsStorageAdmitted(c, k) /\ IsAdmitted(c, Owner[k]) /\ c.transaction = o.transaction
  BY <1>3, <1>4 DEF SameBut, StateFields, IsStorageAdmitted, IsAdmitted
<1>6. Follows(s, c)
  BY <1>2, <1>4, FollowsTransitive
<1>7. c.storage[k].observation = c.transaction
  BY <1>2, <1>3, <1>4, <1>5
<1>8. Follows(c, w)
  BY <1>4, <1>5, <1>7, WriteStorageFollows
<1> HIDE DEF w
<1>9. Follows(s, w)
  BY <1>6, <1>8, FollowsTransitive
<1> QED BY <1>1, <1>6, <1>9 DEF r
-----------------------------------------------------------------------------
(* Warmth                                                                  *)

StorageRowFields ==
    {"current", "execution_original", "block_dirty", "journaled_scope",
     "warm_transaction", "observation", "execution_original_root", "undo_transaction",
     "undo_index", "storage_incarnation"}

WarmFields == {"accounts", "storage", "deferred_accounts", "deferred_storage", "journal"}

\* A step that changes the warmth of at most one object, with an entry of its
\* own if it does.
WarmStep(s, r, e) ==
    /\ SameBut(r, s, WarmFields)
    /\ r.accounts \in [Accounts -> AccountRowOf(s.clock)]
    /\ r.storage \in [Slots -> StorageRowOf(s.clock)]
    /\ \A a \in Accounts : \A f \in AccountRowFields \ {"warm_transaction"} :
           r.accounts[a][f] = s.accounts[a][f]
    /\ \A k \in Slots : \A f \in StorageRowFields \ {"warm_transaction"} :
           r.storage[k][f] = s.storage[k][f]
    /\ e \in Entries(s.clock) /\ e.kind \in WarmKinds
    /\ \A o \in Objects : o[1] \in WarmKinds /\ o # <<e.kind, e.id>>
                             => View(r, o) = View(s, o)
    /\ \/ r.journal = s.journal /\ View(r, <<e.kind, e.id>>) = View(s, <<e.kind, e.id>>)
       \/ r.journal = Append(s.journal, e) /\ View(s, <<e.kind, e.id>>) = 0

LEMMA WarmStepFollows ==
  ASSUME NEW s, Sound(s), NEW r, NEW e, WarmStep(s, r, e)
  PROVE  Follows(s, r) /\ Sound(r) /\ SameBut(r, s, WarmFields)
<1> USE DEF WarmStep
<1>1. /\ r.clock = s.clock /\ r.transaction = s.transaction /\ IsState(r)
      /\ r.observed_accounts = s.observed_accounts
      /\ r.observed_storage = s.observed_storage /\ r.introduced = s.introduced
      /\ r.block_introduced_codes = s.block_introduced_codes
      /\ r.transaction_active = s.transaction_active /\ r.parent_code = s.parent_code
      /\ r.lifecycle_accounts = s.lifecycle_accounts
      /\ r.account_ids = s.account_ids /\ r.storage_ids = s.storage_ids
      /\ r.dirty_storage = s.dirty_storage /\ r.changed_storage = s.changed_storage
  BY DEF SameBut, StateFields, WarmFields
<1>2. SameBut(r, s, StepFields)
  BY DEF SameBut, StepFields, WarmFields
<1>3. /\ Typed(s) /\ s.transaction_active /\ CodesListed(s) /\ Unobserved(s)
      /\ LifecycleListed(s) /\ CodesBound(s) /\ Pristine(s)
  BY DEF Sound
<1>4. \A a \in Accounts :
         /\ r.accounts[a].current = s.accounts[a].current
         /\ r.accounts[a].code_ref = s.accounts[a].code_ref
         /\ r.accounts[a].flags = s.accounts[a].flags
         /\ r.accounts[a].lifecycle_transaction = s.accounts[a].lifecycle_transaction
         /\ r.accounts[a].observation = s.accounts[a].observation
         /\ r.accounts[a].storage_incarnation = s.accounts[a].storage_incarnation
  BY DEF AccountRowFields
<1>5. \A k \in Slots :
         /\ r.storage[k].current = s.storage[k].current
         /\ r.storage[k].block_dirty = s.storage[k].block_dirty
         /\ r.storage[k].observation = s.storage[k].observation
         /\ r.storage[k].storage_incarnation = s.storage[k].storage_incarnation
  BY DEF StorageRowFields
<1>6. /\ e \in Entries(s.clock) /\ Records(e) = {<<e.kind, e.id>>}
      /\ e.kind \notin {"introduced_code", "transient_storage"}
      /\ \A o \in Records(e) : Recorded(e, o) = 0
  <2>1. e.kind \in WarmKinds /\ e \in Entries(s.clock)
    OBVIOUS
  <2>2. Records(e) = {<<e.kind, e.id>>}
    BY <2>1 DEF Records, WarmKinds
  <2>3. Recorded(e, <<e.kind, e.id>>) = 0
    BY <2>1 DEF Recorded, WarmKinds
  <2> QED BY <2>1, <2>2, <2>3 DEF WarmKinds
<1>7. \A o \in Objects : o[1] \notin WarmKinds => View(r, o) = View(s, o)
  <2>1. ASSUME NEW a \in Accounts
        PROVE  /\ AccountView(r, a) = AccountView(s, a)
               /\ View(r, <<"account_storage_dirty", a>>) = View(s, <<"account_storage_dirty", a>>)
    <3>1. AccountView(r, a) = AccountView(s, a)
      <4>1. \A f \in {"current", "code_ref", "journaled_scope", "storage_incarnation",
                      "wiped_transaction", "dirty_transaction"} :
               r.accounts[a][f] = s.accounts[a][f]
        BY DEF AccountRowFields
      <4> QED BY <1>1, <1>4, <4>1, AccountViewSame
    <3> QED BY <1>4, <3>1, ViewOf
  <2>2. ASSUME NEW k \in Slots
        PROVE  StorageView(r, k) = StorageView(s, k)
    <3>1. \A f \in {"current", "block_dirty", "journaled_scope", "storage_incarnation",
                    "undo_transaction", "undo_index"} :
             r.storage[k][f] = s.storage[k][f]
      BY DEF StorageRowFields
    <3> QED BY <1>1, <3>1, StorageViewSame
  <2>3. ASSUME NEW o \in Objects, o[1] \notin WarmKinds PROVE View(r, o) = View(s, o)
    <3> HIDE DEF WarmStep
    <3>1. CASE \E a \in Accounts : o = <<"account", a>>
      <4>1. PICK a \in Accounts : o = <<"account", a>>
        BY <3>1
      <4>2. View(r, o) = AccountView(r, a) /\ View(s, o) = AccountView(s, a)
        BY <4>1, ViewOf
      <4> QED BY <2>1, <4>2
    <3>2. CASE \E a \in Accounts : o = <<"account_storage_dirty", a>>
      BY <2>1, <3>2
    <3>3. CASE \E k \in Slots : o = <<"storage", k>>
      BY <2>2, <3>3, ViewOf
    <3> QED BY <2>3, <3>1, <3>2, <3>3, ObjectCases DEF WarmKinds
  <2> QED BY <2>3
<1>8. /\ Extends(s, r) /\ Quiet(s, r) /\ r.journal \in Seq(Entries(s.clock))
      /\ \/ Appends(s, r, <<e.kind, e.id>>)
         \/ View(r, <<e.kind, e.id>>) = View(s, <<e.kind, e.id>>)
  <2>1. CASE r.journal = s.journal /\ View(r, <<e.kind, e.id>>) = View(s, <<e.kind, e.id>>)
    BY <1>1, <1>3, <2>1, SilentStep, ListFacts
  <2>2. CASE r.journal = Append(s.journal, e) /\ View(s, <<e.kind, e.id>>) = 0
    <3>1. \A o \in Records(e) : Recorded(e, o) = View(s, o)
      BY <1>6, <2>2
    <3> QED BY <1>1, <1>3, <1>6, <2>2, <3>1, EntryStep
  <2> QED BY <2>1, <2>2
<1>9. JournalsFirst(s, r)
  BY <1>7, <1>8 DEF JournalsFirst
<1>10. ListsTyped(r) /\ \A f \in ListFields : PrefixOf(s[f], r[f])
  <2>1. /\ s.dirty_storage \in Seq(Slots) /\ s.changed_storage \in Seq(Slots)
    BY <1>3 DEF Typed, ListsTyped
  <2>2. /\ PrefixOf(s.dirty_storage, r.dirty_storage)
        /\ PrefixOf(s.changed_storage, r.changed_storage)
    BY <1>1, <2>1 DEF PrefixOf
  <2>3. WarmFields \cap ListFields \subseteq {"dirty_storage", "changed_storage"}
    BY DEF ListFields, WarmFields
  <2> QED BY <1>1, <1>3, <1>8, <2>1, <2>2, <2>3, ListsGrow
<1>11. Typed(r)
  <2>1. RowsTyped(r)
    BY <1>1, <1>3 DEF Typed, RowsTyped
  <2>2. ObservationsTyped(r)
    BY <1>1, <1>3 DEF Typed, ObservationsTyped
  <2>3. ControlTyped(r)
    BY <1>2, <1>3 DEF Typed, ControlTyped, SameBut, StateFields, StepFields, ListFields
  <2> QED BY <1>1, <1>10, <2>1, <2>2, <2>3 DEF Typed
<1>12. CodesListed(r)
  BY <1>1, <1>3 DEF CodesListed
<1>13. Unobserved(r)
  BY <1>1, <1>3, <1>4, <1>5 DEF Unobserved
<1>14. LifecycleListed(r)
  BY <1>1, <1>3, <1>4 DEF LifecycleListed, InLifecycle
<1>15. CodesBound(r)
  BY <1>1, <1>3, <1>4 DEF CodesBound, CodeBound
<1>16. Pristine(r)
  BY <1>1, <1>3, <1>4, <1>5 DEF Pristine, ParentRow, ParentSlot, IsAdmitted, IsStorageAdmitted
<1>17. Grows(s, r)
  BY <1>1, <1>3, <1>4, <1>5, <1>10, SameGrows
<1>18. Sound(r)
  BY <1>1, <1>3, <1>11, <1>12, <1>13, <1>14, <1>15, <1>16 DEF Sound
<1>19. Keeps(s, r)
  BY <1>2, <1>8, <1>9, <1>17, <1>18 DEF Keeps
<1> QED BY <1>18, <1>19, KeepsFollows

LEMMA WarmAccountIdFollows ==
  ASSUME NEW s, Sound(s), NEW a \in Accounts
  PROVE  LET r == WarmAccountId(s, a)
         IN  Follows(s, r) /\ Sound(r) /\ SameBut(r, s, WarmFields)
<1> DEFINE r == WarmAccountId(s, a)
           e == [kind |-> "warm_account", id |-> a]
           row == [s.accounts[a] EXCEPT !.warm_transaction = s.transaction]
<1>1. /\ Typed(s) /\ IsState(s) /\ s.transaction \in 0 .. s.clock
      /\ s.accounts \in [Accounts -> AccountRowOf(s.clock)]
      /\ s.storage \in [Slots -> StorageRowOf(s.clock)]
      /\ s.accounts[a] \in AccountRowOf(s.clock)
  BY RowFacts DEF Typed, RowsTyped
<1>2. /\ SameBut(r, s, {"accounts", "journal"})
      /\ r.accounts = [s.accounts EXCEPT ![a] = row]
      /\ r.journal = AppendIf(s.journal, s.accounts[a].warm_transaction # s.transaction, e)
  BY <1>1 DEF WarmAccountId, SameBut, IsState, StateFields
<1>3. row \in AccountRowOf(s.clock) /\ row.warm_transaction = s.transaction
  BY <1>1 DEF AccountRowOf
<1>4. \A f \in AccountRowFields \ {"warm_transaction"} : row[f] = s.accounts[a][f]
  BY <1>1 DEF AccountRowOf, AccountRowFields
<1>5. e \in Entries(s.clock) /\ e.kind = "warm_account" /\ e.id = a
  BY DEF Entries, AccountMark
<1> HIDE DEF r, row, e
<1>6. /\ r.accounts[a] = row /\ \A b \in Accounts : b # a => r.accounts[b] = s.accounts[b]
      /\ r.accounts \in [Accounts -> AccountRowOf(s.clock)]
  BY <1>1, <1>2, <1>3, FunctionUpdate
<1>7. /\ r.storage = s.storage /\ r.transaction = s.transaction
      /\ r.deferred_accounts = s.deferred_accounts /\ r.deferred_storage = s.deferred_storage
  BY <1>2 DEF SameBut, StateFields
<1>8. \A o \in Objects : o[1] \in WarmKinds /\ o # <<"warm_account", a>>
                             => View(r, o) = View(s, o)
  <2>1. ASSUME NEW b \in Accounts, b # a
        PROVE  View(r, <<"warm_account", b>>) = View(s, <<"warm_account", b>>)
    BY <1>6, <1>7, <2>1, ViewOf
  <2>2. ASSUME NEW o \in Objects, o[1] \in WarmKinds, o # <<"warm_account", a>>
        PROVE  View(r, o) = View(s, o)
    BY <1>7, <2>1, <2>2, ObjectCases, ViewOf DEF WarmKinds
  <2> QED BY <2>2
<1>9. View(r, <<"warm_account", a>>) = 1
  BY <1>3, <1>6, <1>7, ViewOf DEF Bit
<1>10. \/ r.journal = s.journal /\ View(r, <<"warm_account", a>>) = View(s, <<"warm_account", a>>)
       \/ r.journal = Append(s.journal, e) /\ View(s, <<"warm_account", a>>) = 0
  <2>1. CASE s.accounts[a].warm_transaction = s.transaction
    <3>1. View(s, <<"warm_account", a>>) = 1
      BY <2>1, ViewOf DEF Bit
    <3> QED BY <1>2, <1>9, <2>1, <3>1 DEF AppendIf
  <2>2. CASE s.accounts[a].warm_transaction # s.transaction
    <3>1. View(s, <<"warm_account", a>>) = 0
      BY <2>2, ViewOf DEF Bit
    <3> QED BY <1>2, <2>2, <3>1 DEF AppendIf
  <2> QED BY <2>1, <2>2
<1>11. /\ SameBut(r, s, WarmFields) /\ r.storage \in [Slots -> StorageRowOf(s.clock)]
       /\ \A k \in Slots : \A f \in StorageRowFields \ {"warm_transaction"} :
              r.storage[k][f] = s.storage[k][f]
  BY <1>1, <1>2, <1>7 DEF SameBut, WarmFields
<1>12. \A b \in Accounts : \A f \in AccountRowFields \ {"warm_transaction"} :
              r.accounts[b][f] = s.accounts[b][f]
  BY <1>4, <1>6
<1>13. WarmStep(s, r, e)
  BY <1>5, <1>6, <1>8, <1>10, <1>11, <1>12 DEF WarmStep, WarmKinds
<1> QED BY <1>13, WarmStepFollows DEF r

LEMMA WarmStorageIdFollows ==
  ASSUME NEW s, Sound(s), NEW k \in Slots
  PROVE  LET r == WarmStorageId(s, k)
         IN  Follows(s, r) /\ Sound(r) /\ SameBut(r, s, WarmFields)
<1> DEFINE r == WarmStorageId(s, k)
           e == [kind |-> "warm_storage", id |-> k]
           row == [s.storage[k] EXCEPT !.warm_transaction = s.transaction]
<1>1. /\ Typed(s) /\ IsState(s) /\ s.transaction \in 0 .. s.clock
      /\ s.accounts \in [Accounts -> AccountRowOf(s.clock)]
      /\ s.storage \in [Slots -> StorageRowOf(s.clock)]
      /\ s.storage[k] \in StorageRowOf(s.clock)
  BY SlotFacts DEF Typed, RowsTyped
<1>2. /\ SameBut(r, s, {"storage", "journal"})
      /\ r.storage = [s.storage EXCEPT ![k] = row]
      /\ r.journal = AppendIf(s.journal, s.storage[k].warm_transaction # s.transaction, e)
  BY <1>1 DEF WarmStorageId, SameBut, IsState, StateFields
<1>3. row \in StorageRowOf(s.clock) /\ row.warm_transaction = s.transaction
  BY <1>1 DEF StorageRowOf
<1>4. \A f \in StorageRowFields \ {"warm_transaction"} : row[f] = s.storage[k][f]
  BY <1>1 DEF StorageRowOf, StorageRowFields
<1>5. e \in Entries(s.clock) /\ e.kind = "warm_storage" /\ e.id = k
  BY DEF Entries, StorageMark
<1> HIDE DEF r, row, e
<1>6. /\ r.storage[k] = row /\ \A b \in Slots : b # k => r.storage[b] = s.storage[b]
      /\ r.storage \in [Slots -> StorageRowOf(s.clock)]
  BY <1>1, <1>2, <1>3, FunctionUpdate
<1>7. /\ r.accounts = s.accounts /\ r.transaction = s.transaction
      /\ r.deferred_accounts = s.deferred_accounts /\ r.deferred_storage = s.deferred_storage
  BY <1>2 DEF SameBut, StateFields
<1>8. \A o \in Objects : o[1] \in WarmKinds /\ o # <<"warm_storage", k>>
                             => View(r, o) = View(s, o)
  <2>1. ASSUME NEW b \in Slots, b # k
        PROVE  View(r, <<"warm_storage", b>>) = View(s, <<"warm_storage", b>>)
    BY <1>6, <1>7, <2>1, ViewOf
  <2>2. ASSUME NEW o \in Objects, o[1] \in WarmKinds, o # <<"warm_storage", k>>
        PROVE  View(r, o) = View(s, o)
    BY <1>7, <2>1, <2>2, ObjectCases, ViewOf DEF WarmKinds
  <2> QED BY <2>2
<1>9. View(r, <<"warm_storage", k>>) = 1
  BY <1>3, <1>6, <1>7, ViewOf DEF Bit
<1>10. \/ r.journal = s.journal /\ View(r, <<"warm_storage", k>>) = View(s, <<"warm_storage", k>>)
       \/ r.journal = Append(s.journal, e) /\ View(s, <<"warm_storage", k>>) = 0
  <2>1. CASE s.storage[k].warm_transaction = s.transaction
    <3>1. View(s, <<"warm_storage", k>>) = 1
      BY <2>1, ViewOf DEF Bit
    <3> QED BY <1>2, <1>9, <2>1, <3>1 DEF AppendIf
  <2>2. CASE s.storage[k].warm_transaction # s.transaction
    <3>1. View(s, <<"warm_storage", k>>) = 0
      BY <2>2, ViewOf DEF Bit
    <3> QED BY <1>2, <2>2, <3>1 DEF AppendIf
  <2> QED BY <2>1, <2>2
<1>11. /\ SameBut(r, s, WarmFields) /\ r.accounts \in [Accounts -> AccountRowOf(s.clock)]
       /\ \A a \in Accounts : \A f \in AccountRowFields \ {"warm_transaction"} :
              r.accounts[a][f] = s.accounts[a][f]
  BY <1>1, <1>2, <1>7 DEF SameBut, WarmFields
<1>12. \A b \in Slots : \A f \in StorageRowFields \ {"warm_transaction"} :
              r.storage[b][f] = s.storage[b][f]
  BY <1>4, <1>6
<1>13. WarmStep(s, r, e)
  BY <1>5, <1>6, <1>8, <1>10, <1>11, <1>12 DEF WarmStep, WarmKinds
<1> QED BY <1>13, WarmStepFollows DEF r

LEMMA DeferredFollows ==
  ASSUME NEW s, Sound(s)
  PROVE  /\ \A a \in Accounts : Follows(s, WarmAccount(s, a))
         /\ \A k \in Slots : Follows(s, WarmStorage(s, k))
<1>1. /\ Typed(s) /\ IsState(s)
      /\ s.accounts \in [Accounts -> AccountRowOf(s.clock)]
      /\ s.storage \in [Slots -> StorageRowOf(s.clock)]
  BY DEF Sound, Typed, RowsTyped
<1>2. ASSUME NEW a \in Accounts PROVE Follows(s, WarmAccount(s, a))
  <2> DEFINE r == [s EXCEPT !.deferred_accounts = @ \cup {a},
                            !.journal = AppendIf(@, a \notin s.deferred_accounts,
                                         [kind |-> "deferred_warm_account", id |-> a])]
             e == [kind |-> "deferred_warm_account", id |-> a]
  <2>1. CASE IsAdmitted(s, a)
    BY <2>1, WarmAccountIdFollows DEF WarmAccount
  <2>2. CASE ~IsAdmitted(s, a)
    <3>1. WarmAccount(s, a) = r
      BY <2>2 DEF WarmAccount
    <3>2. /\ SameBut(r, s, {"deferred_accounts", "journal"})
          /\ r.deferred_accounts = s.deferred_accounts \cup {a}
          /\ r.journal = AppendIf(s.journal, a \notin s.deferred_accounts, e)
      BY <1>1 DEF SameBut, IsState, StateFields
    <3>3. e \in Entries(s.clock) /\ e.kind = "deferred_warm_account" /\ e.id = a
      BY DEF Entries, AccountMark
    <3> HIDE DEF r, e
    <3>4. /\ r.storage = s.storage /\ r.transaction = s.transaction
          /\ r.accounts = s.accounts /\ r.deferred_storage = s.deferred_storage
      BY <3>2 DEF SameBut, StateFields
    <3>5. \A o \in Objects : o[1] \in WarmKinds /\ o # <<"deferred_warm_account", a>>
                                 => View(r, o) = View(s, o)
      <4>1. ASSUME NEW b \in Accounts, b # a
            PROVE  View(r, <<"deferred_warm_account", b>>) = View(s, <<"deferred_warm_account", b>>)
        <5>1. b \in r.deferred_accounts <=> b \in s.deferred_accounts
          BY <3>2, <4>1
        <5> QED BY <5>1, ViewOf DEF Bit
      <4>2. ASSUME NEW o \in Objects, o[1] \in WarmKinds, o # <<"deferred_warm_account", a>>
            PROVE  View(r, o) = View(s, o)
        BY <3>4, <4>1, <4>2, ObjectCases, ViewOf DEF WarmKinds
      <4> QED BY <4>2
    <3>6. View(r, <<"deferred_warm_account", a>>) = 1
      BY <3>2, ViewOf DEF Bit
    <3>7. \/ /\ r.journal = s.journal
             /\ View(r, <<"deferred_warm_account", a>>) = View(s, <<"deferred_warm_account", a>>)
          \/ r.journal = Append(s.journal, e) /\ View(s, <<"deferred_warm_account", a>>) = 0
      <4>1. CASE a \in s.deferred_accounts
        <5>1. View(s, <<"deferred_warm_account", a>>) = 1
          BY <4>1, ViewOf DEF Bit
        <5> QED BY <3>2, <3>6, <4>1, <5>1 DEF AppendIf
      <4>2. CASE a \notin s.deferred_accounts
        <5>1. View(s, <<"deferred_warm_account", a>>) = 0
          BY <4>2, ViewOf DEF Bit
        <5> QED BY <3>2, <4>2, <5>1 DEF AppendIf
      <4> QED BY <4>1, <4>2
    <3>8. SameBut(r, s, WarmFields)
      BY <3>2 DEF SameBut, WarmFields
    <3>9. WarmStep(s, r, e)
      BY <1>1, <3>3, <3>4, <3>5, <3>7, <3>8 DEF WarmStep, WarmKinds
    <3> QED BY <3>1, <3>9, WarmStepFollows
  <2> QED BY <2>1, <2>2
<1>3. ASSUME NEW k \in Slots PROVE Follows(s, WarmStorage(s, k))
  <2> DEFINE r == [s EXCEPT !.deferred_storage = @ \cup {k},
                            !.journal = AppendIf(@, k \notin s.deferred_storage,
                                         [kind |-> "deferred_warm_storage", id |-> k])]
             e == [kind |-> "deferred_warm_storage", id |-> k]
  <2>1. CASE IsStorageAdmitted(s, k)
    BY <2>1, WarmStorageIdFollows DEF WarmStorage
  <2>2. CASE ~IsStorageAdmitted(s, k)
    <3>1. WarmStorage(s, k) = r
      BY <2>2 DEF WarmStorage
    <3>2. /\ SameBut(r, s, {"deferred_storage", "journal"})
          /\ r.deferred_storage = s.deferred_storage \cup {k}
          /\ r.journal = AppendIf(s.journal, k \notin s.deferred_storage, e)
      BY <1>1 DEF SameBut, IsState, StateFields
    <3>3. e \in Entries(s.clock) /\ e.kind = "deferred_warm_storage" /\ e.id = k
      BY DEF Entries, StorageMark
    <3> HIDE DEF r, e
    <3>4. /\ r.storage = s.storage /\ r.transaction = s.transaction
          /\ r.accounts = s.accounts /\ r.deferred_accounts = s.deferred_accounts
      BY <3>2 DEF SameBut, StateFields
    <3>5. \A o \in Objects : o[1] \in WarmKinds /\ o # <<"deferred_warm_storage", k>>
                                 => View(r, o) = View(s, o)
      <4>1. ASSUME NEW b \in Slots, b # k
            PROVE  View(r, <<"deferred_warm_storage", b>>) = View(s, <<"deferred_warm_storage", b>>)
        <5>1. b \in r.deferred_storage <=> b \in s.deferred_storage
          BY <3>2, <4>1
        <5> QED BY <5>1, ViewOf DEF Bit
      <4>2. ASSUME NEW o \in Objects, o[1] \in WarmKinds, o # <<"deferred_warm_storage", k>>
            PROVE  View(r, o) = View(s, o)
        BY <3>4, <4>1, <4>2, ObjectCases, ViewOf DEF WarmKinds
      <4> QED BY <4>2
    <3>6. View(r, <<"deferred_warm_storage", k>>) = 1
      BY <3>2, ViewOf DEF Bit
    <3>7. \/ /\ r.journal = s.journal
             /\ View(r, <<"deferred_warm_storage", k>>) = View(s, <<"deferred_warm_storage", k>>)
          \/ r.journal = Append(s.journal, e) /\ View(s, <<"deferred_warm_storage", k>>) = 0
      <4>1. CASE k \in s.deferred_storage
        <5>1. View(s, <<"deferred_warm_storage", k>>) = 1
          BY <4>1, ViewOf DEF Bit
        <5> QED BY <3>2, <3>6, <4>1, <5>1 DEF AppendIf
      <4>2. CASE k \notin s.deferred_storage
        <5>1. View(s, <<"deferred_warm_storage", k>>) = 0
          BY <4>2, ViewOf DEF Bit
        <5> QED BY <3>2, <4>2, <5>1 DEF AppendIf
      <4> QED BY <4>1, <4>2
    <3>8. SameBut(r, s, WarmFields)
      BY <3>2 DEF SameBut, WarmFields
    <3>9. WarmStep(s, r, e)
      BY <1>1, <3>3, <3>4, <3>5, <3>7, <3>8 DEF WarmStep, WarmKinds
    <3> QED BY <3>1, <3>9, WarmStepFollows
  <2> QED BY <2>1, <2>2
<1> QED BY <1>2, <1>3

LEMMA AccessFollows ==
  ASSUME NEW s, Sound(s), NEW a \in Accounts
  PROVE  Follows(s, AccessAccount(s, a))
<1> DEFINE t == ResolveAccount(s, a)
           o == ObserveAccount(t, a)
           r == WarmAccountId(o, a)
<1>1. Follows(s, t) /\ Sound(t) /\ IsAdmitted(t, a)
  BY ResolveFollows
<1>2. AccessAccount(s, a) = r
  BY DEF AccessAccount
<1> HIDE DEF t
<1>3. Follows(t, o) /\ Sound(o)
  BY <1>1, ObserveFollows
<1> HIDE DEF o
<1>4. Follows(o, r)
  BY <1>3, WarmAccountIdFollows
<1> HIDE DEF r
<1>5. Follows(s, o)
  BY <1>1, <1>3, FollowsTransitive
<1>6. Follows(s, r)
  BY <1>4, <1>5, FollowsTransitive
<1> QED BY <1>2, <1>6

\* The row of a slot and that of its owner, resolved and observed.
LEMMA ResolvedSlotFollows ==
  ASSUME NEW s, Sound(s), NEW k \in Slots
  PROVE  LET r == ObserveAccount(ResolveStorageKey(s, k), Owner[k])
         IN  /\ Follows(s, r) /\ Sound(r)
             /\ IsAdmitted(r, Owner[k]) /\ IsStorageAdmitted(r, k)
<1> DEFINE t == ResolveStorageKey(s, k)
           a == Owner[k]
           r == ObserveAccount(t, a)
<1>0. a \in Accounts
  BY WorldConstants
<1>1. /\ Follows(s, t) /\ Sound(t) /\ IsAdmitted(t, a) /\ IsStorageAdmitted(t, k)
  BY ResolveKeyFollows
<1> HIDE DEF t, a
<1>2. /\ Follows(t, r) /\ Sound(r) /\ IsAdmitted(r, a)
      /\ SameBut(r, t, {"accounts", "observed_accounts"})
  BY <1>0, <1>1, ObserveFollows
<1> HIDE DEF r
<1>3. Follows(s, r)
  BY <1>1, <1>2, FollowsTransitive
<1>4. IsStorageAdmitted(r, k)
  BY <1>1, <1>2 DEF SameBut, StateFields, IsStorageAdmitted
<1> QED BY <1>2, <1>3, <1>4 DEF r, t, a

LEMMA AccessedFollows ==
  ASSUME NEW s, Sound(s), NEW k \in Slots
  PROVE  LET r == AccessedStorage(s, k)
         IN  /\ Follows(s, r) /\ Sound(r)
             /\ IsAdmitted(r, Owner[k]) /\ IsStorageAdmitted(r, k)
<1> DEFINE t == ObserveAccount(ResolveStorageKey(s, k), Owner[k])
           r == WarmStorageId(t, k)
<1>1. /\ Follows(s, t) /\ Sound(t) /\ IsAdmitted(t, Owner[k]) /\ IsStorageAdmitted(t, k)
  BY ResolvedSlotFollows
<1>2. AccessedStorage(s, k) = r
  BY DEF AccessedStorage
<1> HIDE DEF t
<1>3. Follows(t, r) /\ Sound(r) /\ SameBut(r, t, WarmFields)
  BY <1>1, WarmStorageIdFollows
<1> HIDE DEF r
<1>4. Follows(s, r)
  BY <1>1, <1>3, FollowsTransitive
<1>5. IsAdmitted(r, Owner[k]) /\ IsStorageAdmitted(r, k)
  BY <1>1, <1>3 DEF SameBut, StateFields, WarmFields, IsStorageAdmitted, IsAdmitted
<1> QED BY <1>2, <1>3, <1>4, <1>5

LEMMA StorageFollows ==
  ASSUME NEW s, Sound(s), NEW k \in Slots
  PROVE  /\ Follows(s, LoadStorage(s, k))
         /\ \A v \in Nat : /\ Follows(s, StoreStorage(s, k, v))
                           /\ Follows(s, SetStorage(s, k, v))
<1>1. Follows(s, LoadStorage(s, k))
  <2> DEFINE t == AccessedStorage(s, k)
             r == ObserveStorage(t, k)
  <2>1. Follows(s, t) /\ Sound(t) /\ IsStorageAdmitted(t, k)
    BY AccessedFollows
  <2>2. LoadStorage(s, k) = r
    BY DEF LoadStorage
  <2> HIDE DEF t
  <2>3. Follows(t, r)
    BY <2>1, ObserveStorageFollows
  <2> HIDE DEF r
  <2>4. Follows(s, r)
    BY <2>1, <2>3, FollowsTransitive
  <2> QED BY <2>2, <2>4
<1>2. ASSUME NEW v \in Nat, NEW t, Follows(s, t), Sound(t), IsAdmitted(t, Owner[k]),
             IsStorageAdmitted(t, k)
      PROVE  Follows(s, SetResolvedStorage(t, k, v))
  <2> DEFINE r == SetResolvedStorage(t, k, v)
  <2>1. Follows(t, r)
    BY <1>2, SetResolvedFollows
  <2> HIDE DEF r
  <2>2. Follows(s, r)
    BY <1>2, <2>1, FollowsTransitive
  <2> QED BY <2>2 DEF r
<1>3. ASSUME NEW v \in Nat PROVE Follows(s, StoreStorage(s, k, v))
  <2> DEFINE t == AccessedStorage(s, k)
  <2>1. Follows(s, t) /\ Sound(t) /\ IsAdmitted(t, Owner[k]) /\ IsStorageAdmitted(t, k)
    BY AccessedFollows
  <2>2. StoreStorage(s, k, v) = SetResolvedStorage(t, k, v)
    BY DEF StoreStorage
  <2> HIDE DEF t
  <2> QED BY <1>2, <2>1, <2>2
<1>4. ASSUME NEW v \in Nat PROVE Follows(s, SetStorage(s, k, v))
  <2> DEFINE t == ObserveAccount(ResolveStorageKey(s, k), Owner[k])
  <2>1. Follows(s, t) /\ Sound(t) /\ IsAdmitted(t, Owner[k]) /\ IsStorageAdmitted(t, k)
    BY ResolvedSlotFollows
  <2>2. SetStorage(s, k, v) = SetResolvedStorage(t, k, v)
    BY DEF SetStorage
  <2> HIDE DEF t
  <2> QED BY <1>2, <2>1, <2>2
<1> QED BY <1>1, <1>3, <1>4
-----------------------------------------------------------------------------
(* Steps that change neither rows nor journal                              *)

\* A state returns to itself.
LEMMA ReturnsReflexive ==
  ASSUME NEW s, Typed(s)
  PROVE  Returns(s, s)
<1>1. Len(s.journal) \in Nat /\ Len(s.introduced) \in Nat
  BY ListFacts
<1>2. Introductions(s.journal, Len(s.journal)) = {}
  BY <1>1 DEF Introductions
<1>3. Cardinality(Introductions(s.journal, Len(s.journal))) = 0
  BY <1>2, FS_EmptySet
<1>4. CodesReturn(s, s)
  BY <1>1, <1>3 DEF CodesReturn
<1>5. Extension(s, s) /\ EntriesReturn(s, s) /\ ViewsReturn(s, s)
  BY <1>1 DEF Extension, EntriesReturn, ViewsReturn
<1> QED BY <1>4, <1>5 DEF Returns

LEMMA TypesWiden ==
  ASSUME NEW c \in Nat, NEW d \in Nat, c <= d
  PROVE  /\ AccountRowOf(c) \subseteq AccountRowOf(d)
         /\ StorageRowOf(c) \subseteq StorageRowOf(d)
         /\ Entries(c) \subseteq Entries(d)
<1>1. 0 .. c \subseteq 0 .. d
  OBVIOUS
<1>2. AccountRowOf(c) \subseteq AccountRowOf(d)
  BY <1>1 DEF AccountRowOf
<1>3. StorageRowOf(c) \subseteq StorageRowOf(d)
  BY <1>1 DEF StorageRowOf
<1>4. AccountEntry(c) \subseteq AccountEntry(d)
  BY <1>1 DEF AccountEntry
<1>5. StorageEntry(c) \subseteq StorageEntry(d)
  BY <1>1 DEF StorageEntry
<1> QED BY <1>2, <1>3, <1>4, <1>5 DEF Entries

LogLists ==
    {"block_changed_accounts", "block_storage_wipes", "dirty_storage", "changed_accounts",
     "changed_storage", "transaction_storage_wipes"}

AdjustFields ==
    {"clock", "scope", "root", "scope_depth", "sealed", "scope_reverted", "retained_logs",
     "accepted_len", "logs", "transient"} \cup LogLists

\* The clock, the scope, the lists of changes and the logs are not what the
\* journal is about.
Adjusts(s, r) ==
    /\ SameBut(r, s, AdjustFields)
    /\ s.clock <= r.clock
    /\ \A f \in {"block_changed_accounts", "block_storage_wipes", "changed_accounts",
                 "transaction_storage_wipes"} : r[f] \in Seq(Accounts)
    /\ r.dirty_storage \in Seq(Slots) /\ r.changed_storage \in Seq(Slots)
    /\ r.clock \in Nat
    /\ ControlTyped(r)

LEMMA AdjustFacts ==
  ASSUME NEW s, NEW r, SameBut(r, s, AdjustFields)
  PROVE  /\ IsState(r)
         /\ r.accounts = s.accounts /\ r.storage = s.storage
         /\ r.account_ids = s.account_ids /\ r.storage_ids = s.storage_ids
         /\ r.introduced = s.introduced /\ r.parent_code = s.parent_code
         /\ r.deferred_accounts = s.deferred_accounts
         /\ r.deferred_storage = s.deferred_storage
         /\ r.lifecycle_accounts = s.lifecycle_accounts
         /\ r.block_introduced_codes = s.block_introduced_codes
         /\ r.observed_accounts = s.observed_accounts
         /\ r.observed_storage = s.observed_storage
         /\ r.journal = s.journal /\ r.transaction = s.transaction
         /\ r.transaction_active = s.transaction_active
  BY DEF SameBut, AdjustFields, LogLists, StateFields

LEMMA AdjustsTyped ==
  ASSUME NEW s, Typed(s), NEW r, Adjusts(s, r)
  PROVE  Typed(r)
<1>1. s.clock \in Nat /\ r.clock \in Nat /\ s.clock <= r.clock
  BY DEF Typed, RowsTyped, Adjusts
<1>2. /\ AccountRowOf(s.clock) \subseteq AccountRowOf(r.clock)
      /\ StorageRowOf(s.clock) \subseteq StorageRowOf(r.clock)
      /\ Entries(s.clock) \subseteq Entries(r.clock)
  BY <1>1, TypesWiden
<1>3. /\ s.accounts \in [Accounts -> AccountRowOf(s.clock)]
      /\ s.storage \in [Slots -> StorageRowOf(s.clock)]
      /\ s.journal \in Seq(Entries(s.clock))
  BY DEF Typed, RowsTyped, ListsTyped
<1>4. s.journal \in Seq(Entries(r.clock))
  BY <1>2, <1>3
<1>5. /\ s.accounts \in [Accounts -> AccountRowOf(r.clock)]
      /\ s.storage \in [Slots -> StorageRowOf(r.clock)]
  BY <1>2, <1>3
<1>6. RowsTyped(r)
  BY <1>1, <1>5, AdjustFacts DEF RowsTyped, Adjusts
<1>7. ListsTyped(r)
  <2>1. /\ r.block_changed_accounts \in Seq(Accounts)
        /\ r.block_storage_wipes \in Seq(Accounts)
        /\ r.changed_accounts \in Seq(Accounts)
        /\ r.transaction_storage_wipes \in Seq(Accounts)
        /\ r.dirty_storage \in Seq(Slots) /\ r.changed_storage \in Seq(Slots)
    BY DEF Adjusts
  <2>2. /\ r.account_ids \in Seq(Accounts) /\ r.storage_ids \in Seq(Slots)
        /\ r.introduced \in Seq(Nat) /\ r.block_introduced_codes \in Seq(Nat)
        /\ r.lifecycle_accounts \in Seq(Accounts)
        /\ r.journal \in Seq(Entries(r.clock))
    <3>1. /\ s.account_ids \in Seq(Accounts) /\ s.storage_ids \in Seq(Slots)
          /\ s.introduced \in Seq(Nat) /\ s.block_introduced_codes \in Seq(Nat)
          /\ s.lifecycle_accounts \in Seq(Accounts)
      BY DEF Typed, ListsTyped
    <3>2. SameBut(r, s, AdjustFields)
      BY DEF Adjusts
    <3> QED BY <1>4, <3>1, <3>2, AdjustFacts
  <2> QED BY <2>1, <2>2 DEF ListsTyped
<1>8. ObservationsTyped(r)
  BY AdjustFacts DEF ObservationsTyped, Typed, Adjusts
<1> QED BY <1>6, <1>7, <1>8, AdjustFacts DEF Typed, Adjusts

LEMMA AdjustsSound ==
  ASSUME NEW s, Sound(s), NEW r, Adjusts(s, r)
  PROVE  Sound(r)
<1>1. Typed(r)
  BY AdjustsTyped DEF Sound
<1>2. SameBut(r, s, AdjustFields)
  BY DEF Adjusts
<1>3. Unobserved(r) /\ r.transaction_active /\ CodesListed(r)
  BY <1>2, AdjustFacts DEF Sound, Unobserved, CodesListed
<1>4. LifecycleListed(r)
  BY <1>2, AdjustFacts DEF Sound, LifecycleListed, InLifecycle
<1>5. CodesBound(r)
  BY <1>2, AdjustFacts DEF Sound, CodesBound, CodeBound
<1>6. Pristine(r)
  BY <1>2, AdjustFacts DEF Sound, Pristine, ParentRow, ParentSlot, IsAdmitted,
                           IsStorageAdmitted
<1> QED BY <1>1, <1>3, <1>4, <1>5, <1>6 DEF Sound

LEMMA AdjustsViews ==
  ASSUME NEW s, NEW r, SameBut(r, s, AdjustFields)
  PROVE  \A o \in Objects : View(r, o) = View(s, o)
  BY AdjustFacts, SameViews

LEMMA AdjustsReturns ==
  ASSUME NEW s, NEW r, SameBut(r, s, AdjustFields), NEW b, Returns(s, b)
  PROVE  Returns(r, b)
<1>1. \A o \in Objects : View(r, o) = View(s, o)
  BY AdjustsViews
<1>2. r.journal = s.journal /\ r.introduced = s.introduced
  BY AdjustFacts
<1> QED BY <1>1, <1>2 DEF Returns, Extension, EntriesReturn, ViewsReturn, CodesReturn

\* Transient storage under an unchanged journal.
LEMMA TransientSame ==
  ASSUME NEW s, NEW r, r.journal = s.journal, NEW len, NEW w
  PROVE  /\ TransientEntries(s, len, w) => TransientEntries(r, len, w)
         /\ r.transient = s.transient /\ TransientNow(s, len, w) => TransientNow(r, len, w)
  BY DEF TransientEntries, TransientNow
-----------------------------------------------------------------------------
(* Boundaries of an attempt, and the steps that keep them within reach     *)

\* b is a state of the attempt that s can be returned to.
Base(b, s) ==
    /\ Sound(b)
    /\ b.transaction = s.transaction
    /\ b.clock <= s.clock
    /\ Returns(s, b)
    /\ Grows(b, s)

\* ... and stays so under what the current scope does.
Behind(b, s) == Base(b, s) /\ Unstamped(b, s.scope)

EntriesKept(s, r) ==
    \A len \in 0 .. Len(s.journal) : \A w :
        TransientEntries(s, len, w) => TransientEntries(r, len, w)

TransientsKept(s, r) ==
    \A len \in 0 .. Len(s.journal) : \A w :
        TransientEntries(s, len, w) /\ TransientNow(s, len, w)
            => TransientEntries(r, len, w) /\ TransientNow(r, len, w)

Carries(s, r) ==
    /\ Sound(r)
    /\ s.clock <= r.clock
    /\ \A b : Behind(b, s) => Behind(b, r)
    /\ TransientsKept(s, r)

\* What only the boundaries of sessions and attempts change.
Steady(s, r) ==
    /\ r.transaction = s.transaction /\ r.transaction_active = s.transaction_active
    /\ r.scope = s.scope /\ r.scope_depth = s.scope_depth /\ r.sealed = s.sealed
    /\ r.accepted_len = s.accepted_len

LEMMA FreshScope ==
  ASSUME NEW b, Typed(b), NEW scope \in Nat, b.clock < scope
  PROVE  Unstamped(b, scope)
<1>1. b.clock \in Nat
  BY DEF Typed, RowsTyped
<1>2. \A a \in Accounts : b.accounts[a].journaled_scope \in 0 .. b.clock
  BY DEF Typed, RowsTyped, AccountRowOf
<1>3. \A k \in Slots : b.storage[k].journaled_scope \in 0 .. b.clock
  BY DEF Typed, RowsTyped, StorageRowOf
<1>4. ASSUME NEW o \in Objects, JournaledIn(b, o, scope) PROVE FALSE
  <2>1. o[1] \in {"account", "account_storage_dirty"} => o[2] \in Accounts
    BY DEF Objects
  <2>2. o[1] = "storage" => o[2] \in Slots
    BY DEF Objects
  <2> QED BY <1>1, <1>2, <1>3, <1>4, <2>1, <2>2 DEF JournaledIn
<1> QED BY <1>4 DEF Unstamped

LEMMA FollowsCarries ==
  ASSUME NEW s, Sound(s), NEW r, Follows(s, r)
  PROVE  Carries(s, r) /\ EntriesKept(s, r) /\ Steady(s, r) /\ r.clock = s.clock
<1>1. /\ Sound(r) /\ SameBut(r, s, StepFields) /\ Grows(s, r)
      /\ \A b : Returns(s, b) /\ Unstamped(b, s.scope) => Returns(r, b)
  BY DEF Follows
<1>2. /\ r.clock = s.clock /\ r.transaction = s.transaction /\ r.scope = s.scope
      /\ r.scope_depth = s.scope_depth /\ r.transaction_active = s.transaction_active
      /\ r.sealed = s.sealed /\ r.accepted_len = s.accepted_len
  BY <1>1, StepFacts
<1>3. s.clock \in Nat /\ Typed(s) /\ Typed(r)
  BY <1>1 DEF Sound, Typed, RowsTyped
<1>4. ASSUME NEW b, Behind(b, s) PROVE Behind(b, r)
  <2>1. /\ Sound(b) /\ Typed(b) /\ b.transaction = s.transaction /\ b.clock <= s.clock
        /\ Returns(s, b) /\ Grows(b, s) /\ Unstamped(b, s.scope)
    BY <1>4 DEF Behind, Base, Sound
  <2>2. Grows(b, r)
    BY <1>1, <1>3, <2>1, GrowsTransitive
  <2> QED BY <1>1, <1>2, <2>1, <2>2 DEF Behind, Base
<1>5. EntriesKept(s, r)
  BY DEF Follows, EntriesKept
<1>6. TransientsKept(s, r)
  BY DEF Follows, TransientsKept
<1>7. Carries(s, r)
  BY <1>1, <1>2, <1>3, <1>4, <1>6 DEF Carries
<1> QED BY <1>2, <1>5, <1>7 DEF Steady

LEMMA AdjustsGrows ==
  ASSUME NEW s, Typed(s), NEW r, Adjusts(s, r),
         \A f \in LogLists : r[f] = s[f] \/ PrefixOf(s[f], r[f])
  PROVE  Grows(s, r)
<1>1. SameBut(r, s, AdjustFields)
  BY DEF Adjusts
<1>2. \A f \in ListFields : r[f] = s[f] \/ PrefixOf(s[f], r[f])
  BY <1>1 DEF ListFields, LogLists, AdjustFields, SameBut, StateFields
<1> QED BY <1>1, <1>2, AdjustFacts, SameGrows

LEMMA BaseKept ==
  ASSUME NEW s, Sound(s), NEW r, Adjusts(s, r), Grows(s, r), NEW b, Base(b, s)
  PROVE  Base(b, r)
<1>1. SameBut(r, s, AdjustFields) /\ r.transaction = s.transaction /\ s.clock <= r.clock
  BY AdjustFacts DEF Adjusts
<1>2. /\ Sound(b) /\ Typed(b) /\ b.transaction = s.transaction /\ b.clock <= s.clock
      /\ Returns(s, b) /\ Grows(b, s)
  BY DEF Base, Sound
<1>3. Typed(s) /\ Typed(r)
  BY AdjustsTyped DEF Sound
<1>4. s.clock \in Nat /\ r.clock \in Nat /\ b.clock \in Nat
  BY <1>2, <1>3 DEF Typed, RowsTyped
<1>5. b.clock <= r.clock
  BY <1>1, <1>2, <1>4
<1>6. Returns(r, b)
  BY <1>1, <1>2, AdjustsReturns
<1>7. Grows(b, r)
  BY <1>2, <1>3, GrowsTransitive
<1> QED BY <1>1, <1>2, <1>5, <1>6, <1>7 DEF Base

LEMMA AdjustsCarries ==
  ASSUME NEW s, Sound(s), NEW r, Adjusts(s, r),
         \A f \in LogLists : r[f] = s[f] \/ PrefixOf(s[f], r[f]),
         r.scope = s.scope \/ s.clock < r.scope,
         r.transient = s.transient
  PROVE  Carries(s, r) /\ EntriesKept(s, r)
<1>1. SameBut(r, s, AdjustFields) /\ r.transaction = s.transaction /\ s.clock <= r.clock
      /\ r.journal = s.journal
  BY AdjustFacts DEF Adjusts
<1>2. Sound(r) /\ Typed(s) /\ Typed(r)
  BY AdjustsSound DEF Sound
<1>3. Grows(s, r)
  BY <1>2, AdjustsGrows
<1>4. s.clock \in Nat /\ r.clock \in Nat /\ r.scope \in Nat
  BY <1>2 DEF Typed, RowsTyped, ControlTyped
<1>5. ASSUME NEW b, Behind(b, s) PROVE Behind(b, r)
  <2>1. Typed(b) /\ Base(b, s) /\ Unstamped(b, s.scope) /\ b.clock <= s.clock /\ b.clock \in Nat
    BY <1>5 DEF Behind, Base, Sound, Typed, RowsTyped
  <2>2. Base(b, r)
    BY <1>3, <2>1, BaseKept
  <2>3. Unstamped(b, r.scope)
    BY <1>4, <2>1, FreshScope
  <2> QED BY <2>2, <2>3 DEF Behind
<1>6. EntriesKept(s, r) /\ TransientsKept(s, r)
  BY <1>1, TransientSame DEF EntriesKept, TransientsKept
<1> QED BY <1>1, <1>2, <1>5, <1>6 DEF Carries
-----------------------------------------------------------------------------
(* Transient storage, logs and the boundaries of scopes                    *)

TransientUndo(s, t) ==
    [kind |-> "transient_storage", id |-> t, previous |-> s.transient[t]]

TransientWrite(s, r, t, v) ==
    /\ SameBut(r, s, {"transient", "journal"})
    /\ r.transient = [s.transient EXCEPT ![t] = v]
    /\ r.journal = Append(s.journal, TransientUndo(s, t))

LEMMA TransientWriteSound ==
  ASSUME NEW s, Sound(s), NEW t \in TransientKeys, NEW v \in Nat, NEW r,
         TransientWrite(s, r, t, v)
  PROVE  Sound(r)
<1>1. /\ IsState(r) /\ \A f \in StateFields \ {"transient", "journal"} : r[f] = s[f]
  BY DEF TransientWrite, SameBut
<1>2. /\ r.accounts = s.accounts /\ r.storage = s.storage /\ r.clock = s.clock
      /\ r.account_ids = s.account_ids /\ r.storage_ids = s.storage_ids
      /\ r.introduced = s.introduced /\ r.parent_code = s.parent_code
      /\ r.lifecycle_accounts = s.lifecycle_accounts
      /\ r.block_introduced_codes = s.block_introduced_codes
      /\ r.observed_accounts = s.observed_accounts
      /\ r.observed_storage = s.observed_storage
      /\ r.transaction = s.transaction /\ r.transaction_active = s.transaction_active
  BY <1>1 DEF StateFields
<1>3. /\ r.block_changed_accounts = s.block_changed_accounts
      /\ r.block_storage_wipes = s.block_storage_wipes /\ r.dirty_storage = s.dirty_storage
      /\ r.changed_accounts = s.changed_accounts /\ r.changed_storage = s.changed_storage
      /\ r.transaction_storage_wipes = s.transaction_storage_wipes
      /\ r.logs = s.logs /\ r.scope = s.scope /\ r.root = s.root
      /\ r.scope_depth = s.scope_depth /\ r.sealed = s.sealed
      /\ r.scope_reverted = s.scope_reverted
  BY <1>1 DEF StateFields
<1>4. /\ Typed(s) /\ s.transaction_active /\ CodesListed(s) /\ Unobserved(s)
      /\ LifecycleListed(s) /\ CodesBound(s) /\ Pristine(s)
  BY DEF Sound
<1>5. s.transient \in [TransientKeys -> Nat] /\ s.journal \in Seq(Entries(s.clock))
  BY <1>4 DEF Typed, ControlTyped, ListsTyped
<1>6. TransientUndo(s, t) \in Entries(s.clock)
  BY <1>5 DEF TransientUndo, Entries, TransientEntry
<1>7. r.journal \in Seq(Entries(s.clock))
  BY <1>5, <1>6 DEF TransientWrite
<1>8. r.transient \in [TransientKeys -> Nat]
  BY <1>5, FunctionUpdate DEF TransientWrite
<1>9. ListsTyped(r)
  BY <1>2, <1>3, <1>4, <1>7 DEF Typed, ListsTyped
<1>10. ControlTyped(r)
  BY <1>2, <1>3, <1>4, <1>8 DEF Typed, ControlTyped
<1>11. RowsTyped(r) /\ ObservationsTyped(r)
  BY <1>2, <1>4 DEF Typed, RowsTyped, ObservationsTyped
<1>12. Typed(r)
  BY <1>1, <1>9, <1>10, <1>11 DEF Typed
<1>13. Unobserved(r) /\ CodesListed(r)
  BY <1>2, <1>4 DEF Unobserved, CodesListed
<1>14. LifecycleListed(r)
  BY <1>2, <1>4 DEF LifecycleListed, InLifecycle
<1>15. CodesBound(r)
  BY <1>2, <1>4 DEF CodesBound, CodeBound
<1>16. Pristine(r)
  BY <1>2, <1>4 DEF Pristine, ParentRow, ParentSlot, IsAdmitted, IsStorageAdmitted
<1> QED BY <1>2, <1>4, <1>12, <1>13, <1>14, <1>15, <1>16 DEF Sound

LEMMA TransientWriteJournals ==
  ASSUME NEW s, Sound(s), NEW t \in TransientKeys, NEW r, NEW v, TransientWrite(s, r, t, v)
  PROVE  JournalsFirst(s, r) /\ Grows(s, r)
<1>1. Typed(s) /\ s.transient \in [TransientKeys -> Nat]
  BY DEF Sound, Typed, ControlTyped
<1> DEFINE e == TransientUndo(s, t)
<1>2. e \in Entries(s.clock) /\ e.kind = "transient_storage" /\ Records(e) = {}
  BY <1>1 DEF TransientUndo, Entries, TransientEntry, Records
<1>3. r.journal = Append(s.journal, e) /\ r.introduced = s.introduced
  BY DEF TransientWrite, SameBut, StateFields
<1> HIDE DEF e
<1>4. Extends(s, r)
  BY <1>2, <1>3 DEF Extends
<1>5. /\ r.accounts = s.accounts /\ r.storage = s.storage
      /\ r.observed_accounts = s.observed_accounts
      /\ r.observed_storage = s.observed_storage
      /\ r.deferred_accounts = s.deferred_accounts
      /\ r.deferred_storage = s.deferred_storage
      /\ r.transaction = s.transaction /\ r.parent_code = s.parent_code
  BY DEF TransientWrite, SameBut, StateFields
<1>6. \A o \in Objects : View(r, o) = View(s, o)
  BY <1>5, SameViews
<1>7. \A f \in ListFields : r[f] = s[f]
  BY DEF TransientWrite, SameBut, StateFields, ListFields
<1>8. Grows(s, r)
  BY <1>1, <1>5, <1>7, SameGrows
<1> QED BY <1>4, <1>6, <1>8 DEF JournalsFirst

LEMMA TransientWriteKeeps ==
  ASSUME NEW s, Typed(s), NEW t \in TransientKeys, NEW v, NEW r,
         TransientWrite(s, r, t, v)
  PROVE  TransientsKept(s, r)
<1>1. s.transient \in [TransientKeys -> Nat] /\ s.journal \in Seq(Entries(s.clock))
  BY DEF Typed, ControlTyped, ListsTyped
<1> DEFINE n == Len(s.journal)
<1>2. /\ n \in Nat /\ Len(r.journal) = n + 1
      /\ \A i \in 1 .. n : r.journal[i] = s.journal[i]
      /\ r.journal[n + 1] = TransientUndo(s, t)
  BY <1>1 DEF TransientWrite
<1>3. /\ r.journal[n + 1].kind = "transient_storage" /\ r.journal[n + 1].id = t
      /\ r.journal[n + 1].previous = s.transient[t]
  BY <1>2 DEF TransientUndo
<1>4. \A x \in TransientKeys : x # t => r.transient[x] = s.transient[x]
  BY <1>1 DEF TransientWrite
<1> HIDE DEF n
<1>5. ASSUME NEW len \in 0 .. n, NEW w, TransientEntries(s, len, w), TransientNow(s, len, w)
      PROVE  TransientEntries(r, len, w) /\ TransientNow(r, len, w)
  <2>1. \A x : \A hi \in 0 .. n :
           TransientLogged(s.journal, x, len, hi) => TransientLogged(r.journal, x, len, hi)
    <3>1. ASSUME NEW x, NEW hi \in 0 .. n, TransientLogged(s.journal, x, len, hi)
          PROVE  TransientLogged(r.journal, x, len, hi)
      <4>1. hi \in Nat /\ len \in Nat /\ \A i \in 1 .. hi : r.journal[i] = s.journal[i]
        BY <1>2
      <4> QED BY <3>1, <4>1, TransientLoggedSame
    <3> QED BY <3>1
  <2>2. ASSUME NEW j \in len + 1 .. Len(r.journal), r.journal[j].kind = "transient_storage"
        PROVE  \/ r.journal[j].previous = w[r.journal[j].id]
               \/ TransientLogged(r.journal, r.journal[j].id, len, j - 1)
    <3>1. CASE j = n + 1
      <4>1. j - 1 = n
        BY <1>2, <3>1
      <4>2. s.transient[t] = w[t] \/ TransientLogged(s.journal, t, len, n)
        BY <1>5 DEF TransientNow, n
      <4> QED BY <1>2, <1>3, <2>1, <3>1, <4>1, <4>2
    <3>2. CASE j # n + 1
      <4>1. /\ j \in len + 1 .. n /\ j \in 1 .. n /\ j - 1 \in 0 .. n
            /\ r.journal[j] = s.journal[j]
        BY <1>2, <3>2
      <4>2. \/ s.journal[j].previous = w[s.journal[j].id]
            \/ TransientLogged(s.journal, s.journal[j].id, len, j - 1)
        BY <1>5, <2>2, <4>1 DEF TransientEntries, n
      <4> QED BY <2>1, <4>1, <4>2
    <3> QED BY <3>1, <3>2
  <2>3. TransientEntries(r, len, w)
    BY <2>2 DEF TransientEntries
  <2>4. TransientLogged(r.journal, t, len, n + 1)
    <3>1. n + 1 \in len + 1 .. n + 1
      BY <1>2
    <3> QED BY <1>3, <3>1 DEF TransientLogged
  <2>5. ASSUME NEW x \in TransientKeys
        PROVE  r.transient[x] = w[x] \/ TransientLogged(r.journal, x, len, n + 1)
    <3>1. CASE x = t
      BY <2>4, <3>1
    <3>2. CASE x # t
      <4>1. s.transient[x] = w[x] \/ TransientLogged(s.journal, x, len, n)
        BY <1>5 DEF TransientNow, n
      <4>2. TransientLogged(r.journal, x, len, n) => TransientLogged(r.journal, x, len, n + 1)
        BY <1>2 DEF TransientLogged
      <4> QED BY <1>2, <1>4, <2>1, <3>2, <4>1, <4>2
    <3> QED BY <3>1, <3>2
  <2>6. TransientNow(r, len, w)
    BY <1>2, <2>5 DEF TransientNow
  <2> QED BY <2>3, <2>6
<1> QED BY <1>5 DEF TransientsKept, n

LEMMA TransientWriteCarries ==
  ASSUME NEW s, Sound(s), NEW t \in TransientKeys, NEW v \in Nat
  PROVE  LET r == SetTransientStorage(s, t, v)
         IN  Carries(s, r) /\ Steady(s, r) /\ r.clock = s.clock
<1> DEFINE r == SetTransientStorage(s, t, v)
<1>1. CASE s.transient[t] = v
  <2>1. r = s
    BY <1>1 DEF SetTransientStorage
  <2> QED BY <2>1, FollowsReflexive, FollowsCarries
<1>2. CASE s.transient[t] # v
  <2>1. TransientWrite(s, r, t, v)
    BY <1>2 DEF SetTransientStorage, TransientWrite, TransientUndo, SameBut, StateFields,
                Sound, Typed, IsState
  <2> HIDE DEF r
  <2>2. Sound(r) /\ JournalsFirst(s, r) /\ Grows(s, r) /\ TransientsKept(s, r)
    BY <2>1, TransientWriteSound, TransientWriteJournals, TransientWriteKeeps DEF Sound
  <2>3. Steady(s, r) /\ r.clock = s.clock
    BY <2>1 DEF TransientWrite, SameBut, StateFields, Steady
  <2>4. Typed(s) /\ Typed(r) /\ s.clock \in Nat
    BY <2>2 DEF Sound, Typed, RowsTyped
  <2>5. ASSUME NEW b, Behind(b, s) PROVE Behind(b, r)
    <3>1. /\ Sound(b) /\ Typed(b) /\ b.transaction = s.transaction /\ b.clock <= s.clock
          /\ Returns(s, b) /\ Grows(b, s) /\ Unstamped(b, s.scope)
      BY <2>5 DEF Behind, Base, Sound
    <3>2. Grows(b, r)
      BY <2>2, <2>4, <3>1, GrowsTransitive
    <3>3. StampsLogged(s, b, s.scope)
      BY <3>1, StampsAreLogged DEF Unstamped
    <3>4. Returns(r, b)
      BY <2>2, <2>4, <3>1, <3>3, ReturnsKept
    <3> QED BY <2>3, <3>1, <3>2, <3>4 DEF Behind, Base, Steady
  <2>6. Carries(s, r)
    BY <2>2, <2>3, <2>4, <2>5 DEF Carries
  <2> QED BY <2>3, <2>6 DEF r
<1> QED BY <1>1, <1>2
\* A step that adjusts the fields named and nothing else.
LEMMA AdjustsIf ==
  ASSUME NEW s, Sound(s), NEW r,
         SameBut(r, s, {"clock", "scope", "root", "scope_depth", "logs", "transient"}),
         r.clock \in Nat, s.clock <= r.clock, r.scope \in 0 .. r.clock,
         r.root \in 0 .. r.clock, r.scope_depth \in Nat, r.logs \in Nat,
         r.transient \in [TransientKeys -> Nat]
  PROVE  /\ Adjusts(s, r)
         /\ \A f \in LogLists : r[f] = s[f]
         /\ r.transaction = s.transaction /\ r.transaction_active = s.transaction_active
         /\ r.sealed = s.sealed /\ r.accepted_len = s.accepted_len
         /\ r.journal = s.journal
<1>1. Typed(s) /\ s.clock \in Nat
  BY DEF Sound, Typed, RowsTyped
<1>2. SameBut(r, s, AdjustFields)
  BY DEF SameBut, AdjustFields
<1>3. \A f \in LogLists : r[f] = s[f]
  BY DEF SameBut, LogLists, StateFields
<1>4. /\ r.transaction = s.transaction /\ r.transaction_active = s.transaction_active
      /\ r.sealed = s.sealed /\ r.accepted_len = s.accepted_len
      /\ r.scope_reverted = s.scope_reverted /\ r.journal = s.journal
  BY DEF SameBut, StateFields
<1>5. ControlTyped(r)
  BY <1>1, <1>4 DEF Typed, ControlTyped
<1>6. /\ r.block_changed_accounts \in Seq(Accounts)
      /\ r.block_storage_wipes \in Seq(Accounts)
      /\ r.changed_accounts \in Seq(Accounts)
      /\ r.transaction_storage_wipes \in Seq(Accounts)
      /\ r.dirty_storage \in Seq(Slots) /\ r.changed_storage \in Seq(Slots)
  BY <1>1, <1>3 DEF LogLists, Typed, ListsTyped
<1>7. \A f \in {"block_changed_accounts", "block_storage_wipes", "changed_accounts",
                "transaction_storage_wipes"} : r[f] \in Seq(Accounts)
  BY <1>6
<1>8. Adjusts(s, r)
  BY <1>2, <1>5, <1>6, <1>7 DEF Adjusts
<1> QED BY <1>3, <1>4, <1>8

LEMMA ControlFacts ==
  ASSUME NEW s, Sound(s)
  PROVE  /\ IsState(s) /\ Typed(s) /\ s.clock \in Nat /\ s.scope \in 0 .. s.clock
         /\ s.root \in 0 .. s.clock /\ s.scope_depth \in Nat /\ s.logs \in Nat
         /\ s.transient \in [TransientKeys -> Nat] /\ s.transaction_active
         /\ s.transaction \in 1 .. s.clock
  BY DEF Sound, Typed, RowsTyped, ControlTyped

LEMMA EmitCarries ==
  ASSUME NEW s, Sound(s)
  PROVE  LET r == [s EXCEPT !.logs = @ + 1]
         IN  Carries(s, r) /\ EntriesKept(s, r) /\ Steady(s, r) /\ r.clock = s.clock
<1> DEFINE r == [s EXCEPT !.logs = @ + 1]
<1>1. /\ SameBut(r, s, {"logs"}) /\ r.logs = s.logs + 1
  BY ControlFacts DEF SameBut, IsState, StateFields
<1>2. /\ SameBut(r, s, {"clock", "scope", "root", "scope_depth", "logs", "transient"})
      /\ r.clock = s.clock /\ r.scope = s.scope /\ r.root = s.root
      /\ r.scope_depth = s.scope_depth /\ r.transient = s.transient
  BY <1>1 DEF SameBut, StateFields
<1> HIDE DEF r
<1>3. /\ Adjusts(s, r) /\ \A f \in LogLists : r[f] = s[f]
      /\ r.transaction = s.transaction /\ r.transaction_active = s.transaction_active
      /\ r.sealed = s.sealed /\ r.accepted_len = s.accepted_len
  BY <1>1, <1>2, ControlFacts, AdjustsIf
<1>4. Carries(s, r) /\ EntriesKept(s, r)
  BY <1>2, <1>3, AdjustsCarries
<1> QED BY <1>2, <1>3, <1>4 DEF Steady, r

\* A new scope or root, in a session or between two.
LEMMA TickCarries ==
  ASSUME NEW s, Sound(s), NEW r,
         SameBut(r, s, {"clock", "scope", "root", "scope_depth"}),
         r.clock = s.clock + 1, r.scope = s.clock + 1, r.root \in {s.root, s.clock + 1},
         r.scope_depth \in Nat
  PROVE  /\ Carries(s, r) /\ EntriesKept(s, r) /\ Adjusts(s, r)
         /\ r.transaction = s.transaction /\ r.transaction_active = s.transaction_active
         /\ r.sealed = s.sealed /\ r.accepted_len = s.accepted_len
         /\ r.journal = s.journal
<1>1. r.logs = s.logs /\ r.transient = s.transient
  BY DEF SameBut, StateFields
<1>2. SameBut(r, s, {"clock", "scope", "root", "scope_depth", "logs", "transient"})
  BY DEF SameBut
<1>3. /\ r.clock \in Nat /\ s.clock <= r.clock /\ r.scope \in 0 .. r.clock
      /\ r.root \in 0 .. r.clock /\ s.clock < r.scope
  BY ControlFacts
<1>4. /\ Adjusts(s, r) /\ \A f \in LogLists : r[f] = s[f]
      /\ r.transaction = s.transaction /\ r.transaction_active = s.transaction_active
      /\ r.sealed = s.sealed /\ r.accepted_len = s.accepted_len /\ r.journal = s.journal
  BY <1>1, <1>2, <1>3, ControlFacts, AdjustsIf
<1>5. Carries(s, r) /\ EntriesKept(s, r)
  BY <1>1, <1>3, <1>4, AdjustsCarries
<1> QED BY <1>4, <1>5

LEMMA RootCarries ==
  ASSUME NEW s, Sound(s), NEW d \in Nat
  PROVE  LET r == [OpenRoot(s) EXCEPT !.scope_depth = d]
         IN  /\ Carries(s, r) /\ EntriesKept(s, r)
             /\ r.transaction = s.transaction /\ r.transaction_active = s.transaction_active
             /\ r.sealed = s.sealed /\ r.accepted_len = s.accepted_len
             /\ r.journal = s.journal /\ r.clock = s.clock + 1 /\ r.scope_depth = d
             /\ SameBut(r, s, {"clock", "scope", "root", "scope_depth"})
<1> DEFINE r == [OpenRoot(s) EXCEPT !.scope_depth = d]
<1>1. /\ SameBut(r, s, {"clock", "scope", "root", "scope_depth"})
      /\ r.clock = s.clock + 1 /\ r.scope = s.clock + 1 /\ r.root = s.clock + 1
      /\ r.scope_depth = d
  BY ControlFacts DEF SameBut, IsState, StateFields, OpenRoot
<1> HIDE DEF r
<1>2. /\ Carries(s, r) /\ EntriesKept(s, r)
      /\ r.transaction = s.transaction /\ r.transaction_active = s.transaction_active
      /\ r.sealed = s.sealed /\ r.accepted_len = s.accepted_len /\ r.journal = s.journal
  BY <1>1, TickCarries
<1> QED BY <1>1, <1>2 DEF r

LEMMA SelfBehind ==
  ASSUME NEW s, Sound(s), NEW r, Adjusts(s, r), \A f \in LogLists : r[f] = s[f],
         s.clock < r.scope
  PROVE  Behind(s, r)
<1>1. Typed(s) /\ Sound(r) /\ r.scope \in Nat
  BY AdjustsSound, ControlFacts
<1>2. Grows(s, r) /\ Grows(s, s) /\ Returns(s, s) /\ s.clock <= s.clock
  BY <1>1, AdjustsGrows, GrowsReflexive, ReturnsReflexive, ControlFacts
<1>3. Base(s, s)
  BY <1>2 DEF Base
<1>4. Base(s, r)
  BY <1>2, <1>3, BaseKept
<1> QED BY <1>1, <1>4, FreshScope DEF Behind

LEMMA OpenedCarries ==
  ASSUME NEW s, Sound(s)
  PROVE  LET r == Opened(s)
         IN  /\ Carries(s, r) /\ EntriesKept(s, r) /\ Behind(s, r)
             /\ r.transaction = s.transaction /\ r.transaction_active = s.transaction_active
             /\ r.sealed = s.sealed /\ r.accepted_len = s.accepted_len
             /\ r.journal = s.journal /\ r.clock = s.clock + 1
             /\ r.scope_depth = s.scope_depth + 1
<1> DEFINE r == Opened(s)
<1>1. /\ SameBut(r, s, {"clock", "scope", "scope_depth"})
      /\ r.clock = s.clock + 1 /\ r.scope = s.clock + 1
      /\ r.scope_depth = s.scope_depth + 1
  BY ControlFacts, OpenedFacts
<1>2. /\ SameBut(r, s, {"clock", "scope", "root", "scope_depth"})
      /\ r.root = s.root /\ r.scope_depth \in Nat
      /\ \A f \in LogLists : r[f] = s[f]
  BY <1>1, ControlFacts DEF SameBut, StateFields, LogLists
<1> HIDE DEF r
<1>3. /\ Carries(s, r) /\ EntriesKept(s, r) /\ Adjusts(s, r)
      /\ r.transaction = s.transaction /\ r.transaction_active = s.transaction_active
      /\ r.sealed = s.sealed /\ r.accepted_len = s.accepted_len /\ r.journal = s.journal
  BY <1>1, <1>2, TickCarries
<1>4. s.clock < r.scope
  BY <1>1, ControlFacts
<1>5. Behind(s, r)
  BY <1>2, <1>3, <1>4, SelfBehind
<1> QED BY <1>1, <1>3, <1>5 DEF r

NoTransient == [t \in TransientKeys |-> 0]

LEMMA ZeroTransient == InitialState.transient = NoTransient
  BY DEF InitialState, NoTransient

LEMMA ClearedFacts ==
  ASSUME NEW s, Sound(s)
  PROVE  LET r == ClearTransientStorage(s)
         IN  /\ Sound(r) /\ EntriesKept(s, r) /\ SameBut(r, s, {"transient"})
             /\ r.transient = NoTransient
             /\ \A b : Behind(b, s) => Behind(b, r)
             /\ \A len : TransientNow(r, len, NoTransient)
<1> DEFINE r == ClearTransientStorage(s)
<1>1. SameBut(r, s, {"transient"}) /\ r.transient = NoTransient
  BY ControlFacts, ZeroTransient DEF SameBut, IsState, StateFields, ClearTransientStorage
<1>2. /\ SameBut(r, s, {"clock", "scope", "root", "scope_depth", "logs", "transient"})
      /\ r.clock = s.clock /\ r.scope = s.scope /\ r.root = s.root
      /\ r.scope_depth = s.scope_depth /\ r.logs = s.logs
  BY <1>1 DEF SameBut, StateFields
<1>3. r.transient \in [TransientKeys -> Nat]
  BY <1>1 DEF NoTransient
<1> HIDE DEF r
<1>4. Adjusts(s, r) /\ (\A f \in LogLists : r[f] = s[f]) /\ r.journal = s.journal
  BY <1>2, <1>3, ControlFacts, AdjustsIf
<1>5. Sound(r) /\ Grows(s, r)
  BY <1>4, ControlFacts, AdjustsSound, AdjustsGrows
<1>6. \A b : Behind(b, s) => Behind(b, r)
  BY <1>2, <1>4, <1>5, BaseKept DEF Behind
<1>7. EntriesKept(s, r)
  BY <1>4, TransientSame DEF EntriesKept
<1>8. \A len : TransientNow(r, len, NoTransient)
  BY <1>1 DEF TransientNow
<1> QED BY <1>1, <1>5, <1>6, <1>7, <1>8 DEF r

LEMMA CommitFacts ==
  ASSUME NEW s, Sound(s), s.scope_depth > 0, NEW c, c.parent \in 0 .. s.clock
  PROVE  LET r == CommitTo(s, c)
         IN  /\ Sound(r) /\ SameBut(r, s, {"scope", "scope_depth"})
             /\ r.scope = c.parent /\ r.scope_depth = s.scope_depth - 1
             /\ EntriesKept(s, r) /\ TransientsKept(s, r)
             /\ \A b : Base(b, s) => Base(b, r)
<1> DEFINE r == CommitTo(s, c)
<1>1. /\ SameBut(r, s, {"scope", "scope_depth"})
      /\ r.scope = c.parent /\ r.scope_depth = s.scope_depth - 1
  BY ControlFacts DEF SameBut, IsState, StateFields, CommitTo
<1>2. /\ SameBut(r, s, {"clock", "scope", "root", "scope_depth", "logs", "transient"})
      /\ r.clock = s.clock /\ r.root = s.root /\ r.logs = s.logs
      /\ r.transient = s.transient
  BY <1>1 DEF SameBut, StateFields
<1>3. r.scope_depth \in Nat /\ r.scope \in 0 .. r.clock
  BY <1>1, <1>2, ControlFacts
<1> HIDE DEF r
<1>4. Adjusts(s, r) /\ (\A f \in LogLists : r[f] = s[f]) /\ r.journal = s.journal
  BY <1>2, <1>3, ControlFacts, AdjustsIf
<1>5. Sound(r) /\ Grows(s, r)
  BY <1>4, ControlFacts, AdjustsSound, AdjustsGrows
<1>6. \A b : Base(b, s) => Base(b, r)
  BY <1>4, <1>5, BaseKept
<1>7. EntriesKept(s, r) /\ TransientsKept(s, r)
  BY <1>2, <1>4, TransientSame DEF EntriesKept, TransientsKept
<1> QED BY <1>1, <1>5, <1>6, <1>7 DEF r

\* The rows finalized under their own scope keep every boundary in reach.
LEMMA FinalizingFacts ==
  ASSUME NEW s, Sound(s), NEW n \in 0 .. Len(s.lifecycle_accounts)
  PROVE  LET r == FinalizeRows(s, n)
         IN  /\ Sound(r) /\ Behind(s, r) /\ EntriesKept(s, r) /\ TransientsKept(s, r)
             /\ \A b : Behind(b, s) => Behind(b, r)
             /\ r.clock = s.clock + 1 /\ r.scope_depth = s.scope_depth + 1
             /\ r.transaction = s.transaction /\ r.transaction_active = s.transaction_active
             /\ r.sealed = s.sealed /\ r.accepted_len = s.accepted_len
<1> DEFINE o == Opened(s)
           r == FinalizeRows(s, n)
<1>1. /\ Carries(s, o) /\ EntriesKept(s, o) /\ Behind(s, o)
      /\ o.transaction = s.transaction /\ o.transaction_active = s.transaction_active
      /\ o.sealed = s.sealed /\ o.accepted_len = s.accepted_len
      /\ o.journal = s.journal /\ o.clock = s.clock + 1 /\ o.scope_depth = s.scope_depth + 1
  BY OpenedCarries
<1>2. Sound(o) /\ Typed(s)
  BY <1>1 DEF Carries, Sound
<1>3. Follows(o, r)
  BY <1>2, FinalizeRowsFollows
<1> HIDE DEF o, r
<1>4. Carries(o, r) /\ EntriesKept(o, r) /\ Steady(o, r) /\ r.clock = o.clock
  BY <1>2, <1>3, FollowsCarries
<1>5. /\ Sound(r) /\ Behind(s, r) /\ \A b : Behind(b, s) => Behind(b, r)
  BY <1>1, <1>4 DEF Carries
<1>6. EntriesKept(s, r)
  BY <1>1, <1>4 DEF EntriesKept
<1>7. TransientsKept(s, r)
  BY <1>1, <1>4 DEF TransientsKept, Carries
<1> QED BY <1>1, <1>4, <1>5, <1>6, <1>7 DEF Steady, r

LEMMA FinalizeCarries ==
  ASSUME NEW s, Sound(s)
  PROVE  LET r == FinalizeLifecycle(s)
         IN  Carries(s, r) /\ EntriesKept(s, r) /\ Steady(s, r) /\ r.clock \in {s.clock, s.clock + 1}
<1> DEFINE r == FinalizeLifecycle(s)
           f == FinalizeRows(s, Len(s.lifecycle_accounts))
           c == Checkpoint(s)
<1>1. CASE s.lifecycle_accounts = <<>>
  <2>1. r = s
    BY <1>1 DEF FinalizeLifecycle
  <2> QED BY <2>1, FollowsReflexive, FollowsCarries
<1>2. CASE s.lifecycle_accounts # <<>>
  <2>1. r = CommitTo(f, c)
    BY <1>2 DEF FinalizeLifecycle
  <2>2. Len(s.lifecycle_accounts) \in 0 .. Len(s.lifecycle_accounts)
    BY LifecycleLength DEF Sound
  <2>3. /\ Sound(f) /\ Behind(s, f) /\ EntriesKept(s, f) /\ TransientsKept(s, f)
        /\ \A b : Behind(b, s) => Behind(b, f)
        /\ f.clock = s.clock + 1 /\ f.scope_depth = s.scope_depth + 1
        /\ f.transaction = s.transaction /\ f.transaction_active = s.transaction_active
        /\ f.sealed = s.sealed /\ f.accepted_len = s.accepted_len
    BY <2>2, FinalizingFacts
  <2>4. c.parent = s.scope
    BY DEF Checkpoint
  <2> HIDE DEF f, c
  <2>5. c.parent \in 0 .. f.clock /\ f.scope_depth > 0
    BY <2>3, <2>4, ControlFacts
  <2> DEFINE g == CommitTo(f, c)
  <2>6. /\ Sound(g) /\ SameBut(g, f, {"scope", "scope_depth"})
        /\ g.scope = c.parent /\ g.scope_depth = f.scope_depth - 1
        /\ EntriesKept(f, g) /\ TransientsKept(f, g)
        /\ \A b : Base(b, f) => Base(b, g)
    BY <2>3, <2>5, CommitFacts
  <2> HIDE DEF g
  <2>7. /\ g.clock = f.clock /\ g.transaction = f.transaction /\ g.journal = f.journal
        /\ g.transaction_active = f.transaction_active /\ g.sealed = f.sealed
        /\ g.accepted_len = f.accepted_len
    BY <2>6 DEF SameBut, StateFields
  <2>8. Steady(s, g) /\ g.clock = s.clock + 1 /\ s.clock <= g.clock
    BY <2>3, <2>4, <2>6, <2>7, ControlFacts DEF Steady
  <2>9. \A b : Behind(b, s) => Behind(b, g)
    BY <2>3, <2>4, <2>6 DEF Behind
  <2>10. Typed(s) /\ Typed(f) /\ Len(s.journal) \in Nat /\ Len(f.journal) \in Nat
    BY <2>3, ListFacts DEF Sound
  <2>11. Len(s.journal) <= Len(f.journal)
    BY <2>3 DEF Behind, Base, Returns, Extension
  <2>12. \A len \in 0 .. Len(s.journal) : len \in 0 .. Len(f.journal)
    BY <2>10, <2>11
  <2>13. EntriesKept(s, g) /\ TransientsKept(s, g)
    BY <2>3, <2>6, <2>12 DEF EntriesKept, TransientsKept
  <2> QED BY <2>1, <2>6, <2>8, <2>9, <2>13 DEF Carries, g
<1> QED BY <1>1, <1>2
=============================================================================
