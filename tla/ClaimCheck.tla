---------------------------- MODULE ClaimCheck ----------------------------
(***************************************************************************)
(* What the differential check of a block access list claim promises: the  *)
(* included transactions are checked one by one in block order, and the    *)
(* verdict is that of the first transaction that does not agree with its   *)
(* claim.  The check may give up at any time; giving up is no verdict.     *)
(***************************************************************************)
EXTENDS Naturals

CONSTANTS
    TxCount,        \* the transactions the authoritative fold includes
    Verdicts        \* what a lane and the accumulator can make of one

VARIABLES
    verdict,        \* [0 .. TxCount - 1 -> Verdicts], "evidence" is agreement
    rejection,      \* "none", or how the claim judges the refused transaction
    checked,        \* how many transactions agreed
    result          \* [kind, tx]

ccVars == <<verdict, rejection, checked, result>>

Open == [kind |-> "open", tx |-> 0]
Result(kind, tx) == [kind |-> kind, tx |-> tx]

CCInit ==
    /\ verdict \in [0 .. TxCount - 1 -> Verdicts]
    /\ rejection \in {"none", "matches", "differs", "not_covered"}
    /\ checked = 0
    /\ result = Open

CCAgree ==
    /\ result = Open
    /\ checked < TxCount /\ verdict[checked] = "evidence"
    /\ checked' = checked + 1
    /\ UNCHANGED <<verdict, rejection, result>>

CCDisagree ==
    /\ result = Open
    /\ checked < TxCount /\ verdict[checked] # "evidence"
    /\ result' = Result(verdict[checked], checked)
    /\ UNCHANGED <<verdict, rejection, checked>>

Conclusion ==
    IF rejection = "none" THEN "agreed"
    ELSE IF rejection = "matches" THEN "rejection_agreed"
    ELSE IF rejection = "differs" THEN "rejection_differs"
    ELSE "claim_not_covered"

\* The whole block agreed, up to the transaction that was refused.
CCConclude ==
    /\ result = Open
    /\ checked = TxCount
    /\ result' = Result(Conclusion, TxCount)
    /\ UNCHANGED <<verdict, rejection, checked>>

\* Block-final work of an agreed block may still disagree.
CCFinal ==
    /\ result.kind = "agreed"
    /\ result' = Result("artifacts_differ", TxCount)
    /\ UNCHANGED <<verdict, rejection, checked>>

CCGiveUp ==
    /\ result = Open \/ result.kind = "agreed"
    /\ result' = Result("gave_up", 0)
    /\ UNCHANGED <<verdict, rejection, checked>>

CCNext == CCAgree \/ CCDisagree \/ CCConclude \/ CCFinal \/ CCGiveUp

CCSpec == CCInit /\ [][CCNext]_ccVars
=============================================================================
