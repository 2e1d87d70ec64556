-------------------------- MODULE T8nDifferential --------------------------
(***************************************************************************)
(* eest/consume/evmz_differential.py: while the execution-specs filler     *)
(* runs its tests, every state transition a test asks for is evaluated by  *)
(* evmz, by a reference tool and, when asked for, by an arbiter; the       *)
(* answers are compared, disagreements are classified and left on disk,    *)
(* and the test fails or goes on with the authority's answer.              *)
(*                                                                         *)
(* Tools answer anything, or raise.  Sessions are run again over the same  *)
(* output directory, and can be killed while they write to it.             *)
(*                                                                         *)
(* An answer is a record: what consensus commits to, the presentation      *)
(* fields that vary between tools, and the rejected transactions, each     *)
(* with the exception names its tool's mapper found ({} when it found      *)
(* none) and the tool's own wording.  Only evmz reads its allocation from  *)
(* a file of a temporary directory, and only when it is asked for.         *)
(***************************************************************************)
EXTENDS Integers, Sequences, FiniteSets

CONSTANTS
  Tests,       \* pytest node ids
  Answers,     \* the answers a tool may give
  None,        \* no document, no answer
  MaxCalls,    \* bound on the transitions of all sessions together
  MaxSessions  \* bound on sessions over one output directory

ASSUME BoundsAreNatural == MaxCalls \in Nat /\ MaxSessions \in Nat

\* The rejected transactions of an answer are a list.
ASSUME RejectedAreLists ==
  \A a \in Answers : a.rejected \in Seq({a.rejected[i] : i \in DOMAIN a.rejected})

Classifications ==
  {"agreement", "tool_error", "unclassified_divergence", "reference_divergence",
   "arbiter_error", "reference_and_arbiter_error", "evmz_divergence",
   "evmz_divergence_with_reference_error", "evmz_and_reference_divergence",
   "three_way_divergence"}

\* A written context is a document.
ASSUME NoneIsNoContext ==
  None \notin [classification : Classifications, session : 0 .. MaxSessions]

VARIABLES
  session,    \* number of the running session, 0 when none runs
  sessions,   \* sessions started so far
  asked,      \* transitions asked for so far
  arbitrated, \* an arbiter was asked for
  begun,      \* tests this session has set up
  test_id, test_call,
  phase,      \* where the call in flight stands, "idle" between calls
  call,       \* the number of the call in flight or last ended
  evals,      \* role -> what the tool did in this call
  tempdir,    \* evmz's temporary directory still exists
  result,     \* how the last call ended
  artifacts,  \* <<test, call>> -> the documents in its directory
  dumped      \* the calls of this session that were preserved

vars == <<session, sessions, asked, arbitrated, begun, test_id, test_call, phase, call,
          evals, tempdir, result, artifacts, dumped>>

Roles == {"evmz", "reference", "arbiter"}
NotRun == [kind |-> "notrun", answer |-> None]
Raised == [kind |-> "error", answer |-> None]
Answered(a) == [kind |-> "output", answer |-> a]

Places == Tests \X (0 .. MaxCalls - 1)
Here == <<test_id, call>>
NoArtifact ==
  [context |-> None, json |-> [r \in Roles |-> None],
   error |-> {}, diff |-> None]

Init ==
  /\ session = 0 /\ sessions = 0 /\ asked = 0 /\ arbitrated = FALSE /\ begun = {}
  /\ test_id = None /\ test_call = 0
  /\ phase = "idle" /\ call = 0
  /\ evals = [r \in Roles |-> NotRun]
  /\ tempdir = FALSE
  /\ result = [kind |-> "none", value |-> None]
  /\ artifacts = [p \in Places |-> NoArtifact]
  /\ dumped = {}

-----------------------------------------------------------------------------
(***************************************************************************)
(* Comparing answers.                                                      *)
(***************************************************************************)
CanonicalException(e) ==
  IF e.names # {} THEN [names |-> e.names, undefined |-> None]
                  ELSE [names |-> {}, undefined |-> e.wording]

CanonicalRejected(r) == [tx |-> r.tx, error |-> CanonicalException(r.error)]

\* Receipts, traces and wording stay out; the rest is kept.
CanonicalOutput(a) ==
  [consensus |-> a.consensus,
   rejected |-> [i \in DOMAIN a.rejected |-> CanonicalRejected(a.rejected[i])]]

ExceptionsEquivalent(left, right) ==
  IF left.names # {} /\ right.names # {}
  THEN left.names \intersect right.names # {}
  ELSE left = right

OutputsEquivalent(left, right) ==
  LET l == CanonicalOutput(left)
      r == CanonicalOutput(right)
  IN  /\ l.consensus = r.consensus
      /\ Len(l.rejected) = Len(r.rejected)
      /\ \A i \in DOMAIN l.rejected :
           /\ l.rejected[i].tx = r.rejected[i].tx
           /\ ExceptionsEquivalent(l.rejected[i].error, r.rejected[i].error)

-----------------------------------------------------------------------------
(***************************************************************************)
(* The session and its tests.                                              *)
(***************************************************************************)
\* Arbitration without an external reference is a usage error: no session.
SessionStart ==
  /\ session = 0 /\ sessions < MaxSessions
  /\ \E external, arbitrate \in BOOLEAN :
       /\ arbitrate => external
       /\ arbitrated' = arbitrate
  /\ session' = sessions + 1 /\ sessions' = sessions + 1
  /\ test_id' = None /\ test_call' = 0 /\ call' = 0
  /\ begun' = {} /\ dumped' = {}
  /\ result' = [kind |-> "none", value |-> None]
  /\ evals' = [r \in Roles |-> NotRun]
  /\ UNCHANGED <<asked, phase, tempdir, artifacts>>

\* pytest sets a test up once in a session.
BeginTest ==
  /\ session # 0 /\ phase = "idle"
  /\ \E t \in Tests \ begun : begun' = begun \union {t} /\ test_id' = t
  /\ test_call' = 0
  /\ result' = [kind |-> "none", value |-> None]
  /\ UNCHANGED <<session, sessions, asked, arbitrated, phase, call, evals, tempdir,
                 artifacts, dumped>>

\* Mutant: the number stays the same from call to call.
SameCall == call' = 0 /\ test_call' = test_call + 1

\* Mutant: calls are numbered from one.
NumberFromOne == call' = test_call + 1 /\ test_call' = test_call + 1

NumberCall == call' = test_call /\ test_call' = test_call + 1

\* A test asks for its next transition unless the last one failed it.
StartCall ==
  /\ phase = "idle" /\ test_id # None
  /\ result.kind \in {"none", "returned"}
  /\ asked < MaxCalls /\ asked' = asked + 1
  /\ NumberCall
  /\ phase' = "evmz"
  /\ evals' = [r \in Roles |-> NotRun]
  /\ result' = [kind |-> "none", value |-> None]
  /\ UNCHANGED <<session, sessions, arbitrated, begun, test_id, tempdir, artifacts, dumped>>

-----------------------------------------------------------------------------
(***************************************************************************)
(* Evaluating.  Whatever a tool raises is its answer.                      *)
(***************************************************************************)
\* The temporary directory outlives the evaluation when the allocation is
\* still to be read from it.
KeepAlive(a) == a.lazy

EvaluateEvmz ==
  /\ phase = "evmz"
  /\ \/ \E a \in Answers :
          /\ evals' = [evals EXCEPT !["evmz"] = Answered(a)]
          /\ tempdir' = KeepAlive(a)
          /\ phase' = "reference"
     \/ /\ evals' = [evals EXCEPT !["evmz"] = Raised]
        /\ tempdir' = FALSE
        /\ phase' = "judge"
  /\ UNCHANGED <<session, sessions, asked, arbitrated, begun, test_id, test_call, call, result,
                 artifacts, dumped>>

Evaluate(role, next) ==
  /\ phase = role
  /\ \E e \in {Answered(a) : a \in Answers} \union {Raised} :
       evals' = [evals EXCEPT ![role] = e]
  /\ phase' = next
  /\ UNCHANGED <<session, sessions, asked, arbitrated, begun, test_id, test_call, call, tempdir,
                 result, artifacts, dumped>>

EvaluateReference == Evaluate("reference", IF arbitrated THEN "arbiter" ELSE "judge")
EvaluateArbiter == Evaluate("arbiter", "judge")

-----------------------------------------------------------------------------
(***************************************************************************)
(* Judging.                                                                *)
(***************************************************************************)
Out(r) == evals[r].kind = "output"
Same(r1, r2) == OutputsEquivalent(evals[r1].answer, evals[r2].answer)

\* Mutant: agreement with the reference is enough.
ReferenceDecides ==
  CASE ~Out("evmz") -> "tool_error"
    [] Out("evmz") /\ ~Out("reference") -> "tool_error"
    [] OTHER -> IF Same("evmz", "reference") THEN "agreement"
                                             ELSE "unclassified_divergence"

\* Mutant: a reference that disagrees is passed over.
SilentReference ==
  CASE ~Out("evmz") -> "tool_error"
    [] Out("evmz") /\ ~arbitrated ->
         IF ~Out("reference") THEN "tool_error"
         ELSE IF Same("evmz", "reference") THEN "agreement"
         ELSE "unclassified_divergence"
    [] OTHER -> IF Out("arbiter") /\ Same("evmz", "arbiter") THEN "agreement"
                ELSE "arbiter_error"

Classification ==
  IF ~Out("evmz") THEN "tool_error"
  ELSE IF ~arbitrated THEN
    IF ~Out("reference") THEN "tool_error"
    ELSE IF Same("evmz", "reference") THEN "agreement"
    ELSE "unclassified_divergence"
  ELSE IF ~Out("arbiter") THEN
    IF Out("reference") THEN "arbiter_error" ELSE "reference_and_arbiter_error"
  ELSE IF Same("evmz", "arbiter") THEN
    IF Out("reference") /\ Same("evmz", "reference") THEN "agreement"
    ELSE "reference_divergence"
  ELSE IF ~Out("reference") THEN "evmz_divergence_with_reference_error"
  ELSE IF Same("reference", "arbiter") THEN "evmz_divergence"
  ELSE IF Same("evmz", "reference") THEN "evmz_and_reference_divergence"
  ELSE "three_way_divergence"

Authority == IF arbitrated THEN "arbiter" ELSE "reference"

\* agreement and reference_divergence go on with the authority's answer, the
\* rest raises; evmz's temporary directory goes with its answer.
EndCall(classification) ==
  /\ phase' = "idle"
  /\ tempdir' = FALSE
  /\ result' = IF classification \in {"agreement", "reference_divergence"}
               THEN [kind |-> "returned", value |-> evals[Authority].answer]
               ELSE [kind |-> "failed", value |-> classification]

\* Reading an allocation whose directory is gone raises out of the comparison.
Readable == Out("evmz") /\ evals["evmz"].answer.lazy => tempdir

Judge ==
  /\ phase = "judge"
  /\ \/ /\ ~Readable
        /\ phase' = "idle" /\ tempdir' = FALSE
        /\ result' = [kind |-> "error", value |-> None]
     \/ /\ Readable /\ Classification = "agreement"
        /\ EndCall("agreement")
     \/ /\ Readable /\ Classification # "agreement"
        /\ phase' = "context"
        /\ UNCHANGED <<tempdir, result>>
  /\ UNCHANGED <<session, sessions, asked, arbitrated, begun, test_id, test_call, call, evals,
                 artifacts, dumped>>

-----------------------------------------------------------------------------
(***************************************************************************)
(* _dump: the input and context first, then a document for each tool that  *)
(* was evaluated, then the difference.  The directory may exist already;   *)
(* documents are replaced, and none is removed.                            *)
(***************************************************************************)
DumpUnchanged == UNCHANGED <<session, sessions, asked, arbitrated, begun, test_id, test_call, call, evals>>

DumpContext ==
  /\ phase = "context"
  /\ artifacts' = [artifacts EXCEPT ![Here].context =
                     [classification |-> Classification, session |-> session]]
  /\ phase' = "documents"
  /\ DumpUnchanged /\ UNCHANGED <<tempdir, result, dumped>>

Document(r, old) == IF Out(r) THEN CanonicalOutput(evals[r].answer) ELSE old

DumpDocuments ==
  /\ phase = "documents"
  /\ artifacts' =
       [artifacts EXCEPT
          ![Here].json = [r \in Roles |-> Document(r, @[r])],
          ![Here].error = @ \union {r \in Roles : evals[r].kind = "error"}]
  /\ phase' = "diff"
  /\ DumpUnchanged /\ UNCHANGED <<tempdir, result, dumped>>

DumpDiff ==
  /\ phase = "diff"
  /\ artifacts' =
       IF Out("evmz") /\ Out("reference")
       THEN [artifacts EXCEPT ![Here].diff =
               <<CanonicalOutput(evals["reference"].answer),
                 CanonicalOutput(evals["evmz"].answer)>>]
       ELSE artifacts
  /\ dumped' = dumped \union {Here}
  /\ EndCall(Classification)
  /\ DumpUnchanged

\* The directory cannot be written: an error of its own ends the call.
DumpFails ==
  /\ phase \in {"context", "documents", "diff"}
  /\ phase' = "idle" /\ tempdir' = FALSE
  /\ result' = [kind |-> "unwritten", value |-> None]
  /\ DumpUnchanged /\ UNCHANGED <<artifacts, dumped>>

\* The session ends, or is killed in the middle of a call.
SessionEnds ==
  /\ session # 0
  /\ session' = 0
  /\ phase' = "idle" /\ tempdir' = FALSE /\ test_id' = None /\ test_call' = 0
  /\ call' = 0 /\ begun' = {} /\ dumped' = {}
  /\ evals' = [r \in Roles |-> NotRun]
  /\ result' = [kind |-> "none", value |-> None]
  /\ UNCHANGED <<sessions, asked, arbitrated, artifacts>>

Next ==
  \/ SessionStart \/ BeginTest \/ StartCall
  \/ EvaluateEvmz \/ EvaluateReference \/ EvaluateArbiter
  \/ Judge \/ DumpContext \/ DumpDocuments \/ DumpDiff \/ DumpFails
  \/ SessionEnds

Spec == Init /\ [][Next]_vars

-----------------------------------------------------------------------------
(***************************************************************************)
(* The differential stays within its state space; a call in flight has a   *)
(* place on disk of its own.                                               *)
(***************************************************************************)
TypeOK ==
  /\ session \in 0 .. MaxSessions /\ arbitrated \in BOOLEAN
  /\ test_id \in Tests \union {None} /\ test_call \in 0 .. MaxCalls
  /\ phase \in {"idle", "evmz", "reference", "arbiter", "judge",
               "context", "documents", "diff"}
  /\ phase # "idle" => Here \in Places /\ session # 0
  /\ result.kind \in {"none", "returned", "failed", "error", "unwritten"}

Ended == phase = "idle" /\ result.kind \notin {"none", "unwritten"}

\* Two answers agree: what they commit to is the same, and for every rejected
\* transaction their tools can mean the same exception, or say the same.
Agree(a, b) ==
  /\ a.consensus = b.consensus
  /\ Len(a.rejected) = Len(b.rejected)
  /\ \A i \in DOMAIN a.rejected :
       LET x == a.rejected[i]  y == b.rejected[i] IN
       /\ x.tx = y.tx
       /\ \/ \E n \in x.error.names : n \in y.error.names
          \/ x.error.names = {} /\ y.error.names = {} /\ x.error.wording = y.error.wording

(***************************************************************************)
(* _evaluate lets a test go on exactly when evmz and the authority (the    *)
(* arbiter, or the reference when there is none) both answered and agree,  *)
(* and then with the authority's answer, whatever the third tool did.      *)
(***************************************************************************)
VerdictFollowsAuthority ==
  Ended =>
    ((result.kind = "returned") <=>
       /\ Out("evmz") /\ Out(Authority)
       /\ Agree(evals["evmz"].answer, evals[Authority].answer))
    /\ (result.kind = "returned" => result.value = evals[Authority].answer)

(***************************************************************************)
(* When a call ends in which a tool raised or did not agree with evmz, the *)
(* directory of that call holds this session's classification and what     *)
(* every tool that ran did, whatever an earlier session left there.        *)
(***************************************************************************)
DisagreementIsPreserved ==
  Ended =>
    LET ran == {r \in Roles : evals[r].kind # "notrun"}
        dissent == \E r \in ran : \/ ~Out(r)
                                  \/ Out("evmz") /\ ~Agree(evals["evmz"].answer, evals[r].answer)
        a == artifacts[Here]
    IN  dissent =>
          /\ a.context # None /\ a.context.session = session
          /\ \A r \in ran : IF Out(r) THEN a.json[r] = CanonicalOutput(evals[r].answer)
                                      ELSE r \in a.error

(***************************************************************************)
(* Within a session no later call touches what a call has preserved: the   *)
(* counter gives every transition of a test a directory of its own.        *)
(***************************************************************************)
EvidenceIsKept ==
  [][session' = session =>
       \A p \in dumped : artifacts'[p] = artifacts[p]]_vars
=============================================================================
