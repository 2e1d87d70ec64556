------------------------------ MODULE MCWorld ------------------------------
(***************************************************************************)
(* Small worlds.  `c` is a contract of the parent state, `e` an account    *)
(* with a balance and no code, whose storage the parent may hold (creation *)
(* must hide it), `n` does not exist.                                      *)
(***************************************************************************)
EXTENDS WorldProperties

CONSTANTS c, e, n, kc, ke, t

MCParentAccount ==
    [a \in Accounts |->
        CASE a = c -> [exists |-> TRUE, balance |-> 1, nonce |-> 1, code |-> 1]
          [] a = e -> [exists |-> TRUE, balance |-> 1, nonce |-> 0, code |-> EmptyCode]
          [] a = n -> Null]

MCParentStorage == [k \in Slots |-> 1]

MCOwner == [k \in Slots |-> IF k = ke THEN e ELSE c]

\* A program that does nothing but open and close attempts and sessions.
Idler ==
    [Fork |-> "cancun", Balances |-> {}, Nonces |-> {}, StorageValues |-> {},
     TransientValues |-> {}, DeployCodes |-> {}, Probed |-> {}, Fetched |-> {},
     Accessed |-> {}, Listed |-> {}, Stored |-> {}, Unpriced |-> {}, Touched |-> {},
     Creatable |-> {}, Destructible |-> {}, Beneficiaries |-> {}, Written |-> {},
     MaxClock |-> 0, MaxDepth |-> 2, MaxJournal |-> 4, MaxLogs |-> 0, MaxSnapshots |-> 0,
     MultiRoot |-> FALSE]

\* Self-destructs over several transactions, with the storage they wipe.
Wipes ==
    [Idler EXCEPT !.Fork = "legacy", !.StorageValues = {2}, !.Stored = {kc},
                  !.Unpriced = {kc}, !.Touched = {c}, !.Destructible = {c},
                  !.Beneficiaries = {c}, !.MaxClock = 10]

\* An account created and destroyed in nested scopes.
Creation ==
    [Idler EXCEPT !.StorageValues = {2}, !.Stored = {ke}, !.Unpriced = {ke},
                  !.Creatable = {e}, !.Destructible = {e}, !.Beneficiaries = {e},
                  !.MaxClock = 10]

\* Balances and nonces written around a creation.
Observed ==
    [Idler EXCEPT !.Fork = "amsterdam", !.Balances = {0}, !.Nonces = {1},
                  !.Written = {c, e}, !.Creatable = {e}, !.Destructible = {e},
                  !.Beneficiaries = {c}, !.MaxClock = 7]

\* SLOAD and SSTORE over two roots and two transactions.
Storage ==
    [Idler EXCEPT !.StorageValues = {0, 2}, !.Stored = {kc}, !.MaxClock = 8]

\* Everything that unwinds with a scope and does not survive the attempt.
Scopes ==
    [Idler EXCEPT !.TransientValues = {0, 1}, !.Probed = {c}, !.Accessed = {c},
                  !.Listed = {c, kc}, !.Stored = {kc}, !.Unpriced = {kc}, !.MaxClock = 6,
                  !.MaxDepth = 3, !.MaxLogs = 1]

\* Several roots in a session, inside and outside a checkpoint around them.
Roots ==
    [Idler EXCEPT !.TransientValues = {0, 1, 2}, !.MaxClock = 9, !.MaxDepth = 4,
                  !.MaxJournal = 4, !.MultiRoot = TRUE]

\* Code installed between nested branch snapshots.
Snapshots ==
    [Idler EXCEPT !.DeployCodes = {2}, !.Written = {c, n}, !.Fetched = {c},
                  !.MaxClock = 5, !.MaxSnapshots = 2]

\* An account touched, created and destroyed.
Touching ==
    [Idler EXCEPT !.Fork = "legacy", !.Touched = {n}, !.Creatable = {n},
                  !.Destructible = {n}, !.Beneficiaries = {n}, !.MaxClock = 10]

BlockPrograms == {Wipes, Creation, Observed, Storage}
ScopePrograms == {Scopes, Snapshots, Roots}
TouchPrograms == {Touching}
=============================================================================
