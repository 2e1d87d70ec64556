----------------------- MODULE T8nDifferentialProofs -----------------------
(***************************************************************************)
(* The verdicts and the evidence of the t8n differential, for any tests,   *)
(* any answers and any number of calls and sessions.                       *)
(***************************************************************************)
EXTENDS T8nDifferential, TLAPS

Evaluations == {NotRun, Raised} \union {Answered(a) : a \in Answers}

\* A tool that ran answered or raised.
Ran(r) == evals[r] # NotRun

Shaped(x) ==
  /\ x = [context |-> x.context, json |-> x.json, error |-> x.error, diff |-> x.diff]
  /\ x.json = [r \in Roles |-> x.json[r]]

\* Counters, and what the phases of a call leave behind.
Counters ==
  /\ sessions \in 0 .. MaxSessions /\ session <= sessions
  /\ asked \in 0 .. MaxCalls /\ test_call <= asked
  /\ call \in Nat
  /\ test_id # None => session # 0 /\ test_id \in begun
  /\ phase # "idle" => test_call = call + 1 /\ test_id # None

Values ==
  /\ evals \in [Roles -> Evaluations]
  /\ artifacts = [p \in Places |-> artifacts[p]]
  /\ \A p \in Places : Shaped(artifacts[p])

\* The tools run in order, the arbiter only when one was asked for, and none
\* after evmz raised.
AllRan ==
  IF Out("evmz")
  THEN Ran("reference") /\ (Ran("arbiter") <=> arbitrated)
  ELSE evals["evmz"] = Raised /\ ~Ran("reference") /\ ~Ran("arbiter")

ToolOrder ==
  /\ phase = "evmz" => \A r \in Roles : ~Ran(r)
  /\ phase = "reference" => Out("evmz") /\ ~Ran("reference") /\ ~Ran("arbiter")
  /\ phase = "arbiter" =>
       Out("evmz") /\ Ran("reference") /\ ~Ran("arbiter") /\ arbitrated
  /\ phase \in {"judge", "context", "documents", "diff"} \/ Ended => AllRan

\* evmz's directory is there as long as its allocation may be read.
DirectoryAlive ==
  phase \in {"reference", "arbiter", "judge", "context", "documents", "diff"} => Readable

\* The documents of the call in flight, as far as they are written.
DocumentsWritten ==
  LET a == artifacts[Here] IN
  \A r \in Roles : Ran(r) =>
    IF Out(r) THEN a.json[r] = CanonicalOutput(evals[r].answer) ELSE r \in a.error

ContextWritten == artifacts[Here].context # None /\ artifacts[Here].context.session = session

Evidence ==
  /\ phase \in {"documents", "diff"} => ContextWritten
  /\ phase = "diff" => DocumentsWritten
  /\ Ended /\ Classification # "agreement" => ContextWritten /\ DocumentsWritten

\* What the last call ended with.
Verdict ==
  Ended =>
    IF Classification \in {"agreement", "reference_divergence"}
    THEN result = [kind |-> "returned", value |-> evals[Authority].answer]
    ELSE result.kind = "failed"

\* What was preserved belongs to earlier calls.
DumpedEarlier ==
  \A p \in dumped :
    /\ p \in Places /\ p[1] \in begun
    /\ p[1] = test_id => p[2] < IF phase = "idle" THEN test_call ELSE call

Inv ==
  /\ TypeOK /\ Counters /\ Values /\ ToolOrder /\ DirectoryAlive
  /\ Evidence /\ Verdict /\ DumpedEarlier

-----------------------------------------------------------------------------
(***************************************************************************)
(* Comparing and classifying.                                              *)
(***************************************************************************)
\* OutputsEquivalent, which compares canonical forms, is Agree.
LEMMA EquivalentIsAgree ==
  ASSUME NEW a \in Answers, NEW b \in Answers
  PROVE  OutputsEquivalent(a, b) <=> Agree(a, b)
<1> DEFINE Canon(x) == [i \in DOMAIN x.rejected |-> CanonicalRejected(x.rejected[i])]
<1>1. ASSUME NEW x \in Answers
      PROVE  Len(Canon(x)) = Len(x.rejected) /\ DOMAIN x.rejected = 1 .. Len(x.rejected)
  <2>1. PICK S : x.rejected \in Seq(S)
    BY RejectedAreLists
  <2>2. DOMAIN x.rejected = 1 .. Len(x.rejected) /\ Len(x.rejected) \in Nat
    BY <2>1
  <2>3. DOMAIN Canon(x) = 1 .. Len(x.rejected)
    BY <2>2
  <2>4. Canon(x) \in Seq({Canon(x)[i] : i \in 1 .. Len(x.rejected)})
    BY <2>2, <2>3
  <2> QED BY <2>2, <2>3, <2>4
<1>2. /\ CanonicalOutput(a).consensus = a.consensus /\ CanonicalOutput(b).consensus = b.consensus
      /\ CanonicalOutput(a).rejected = Canon(a) /\ CanonicalOutput(b).rejected = Canon(b)
  BY DEF CanonicalOutput
<1>3. ASSUME NEW x, NEW y
      PROVE  ExceptionsEquivalent(CanonicalException(x), CanonicalException(y)) <=>
               \/ \E n \in x.names : n \in y.names
               \/ x.names = {} /\ y.names = {} /\ x.wording = y.wording
  BY DEF ExceptionsEquivalent, CanonicalException
<1>4. ASSUME Len(a.rejected) = Len(b.rejected), NEW i \in DOMAIN a.rejected
      PROVE  /\ Canon(a)[i].tx = a.rejected[i].tx /\ Canon(b)[i].tx = b.rejected[i].tx
             /\ Canon(a)[i].error = CanonicalException(a.rejected[i].error)
             /\ Canon(b)[i].error = CanonicalException(b.rejected[i].error)
  BY <1>1, <1>4 DEF CanonicalRejected
<1> HIDE DEF Canon
<1>5. DOMAIN Canon(a) = DOMAIN a.rejected
  BY DEF Canon
<1>6. OutputsEquivalent(a, b) <=>
        /\ a.consensus = b.consensus /\ Len(a.rejected) = Len(b.rejected)
        /\ \A i \in DOMAIN a.rejected :
             /\ Canon(a)[i].tx = Canon(b)[i].tx
             /\ ExceptionsEquivalent(Canon(a)[i].error, Canon(b)[i].error)
  BY <1>1, <1>2, <1>5 DEF OutputsEquivalent
<1> QED BY <1>3, <1>4, <1>6 DEF Agree

LEMMA AgreeReflexive ==
  ASSUME NEW a \in Answers PROVE Agree(a, a)
BY DEF Agree

\* An evaluation that is an output holds one of the answers.
LEMMA OutputHoldsAnswer ==
  ASSUME evals \in [Roles -> Evaluations], NEW r \in Roles
  PROVE  /\ Out(r) => evals[r].answer \in Answers
         /\ ~Out(r) => evals[r] \in {NotRun, Raised}
         /\ evals[r].kind # "notrun" <=> Ran(r)
BY DEF Evaluations, NotRun, Raised, Answered, Out, Ran

LEMMA ClassificationTyped == Classification \in Classifications
BY DEF Classification, Classifications

\* A test may go on exactly when evmz agrees with the authority.
LEMMA GoesOnWithAuthority ==
  ASSUME arbitrated \in BOOLEAN, AllRan
  PROVE  Classification \in {"agreement", "reference_divergence"} <=>
           Out("evmz") /\ Out(Authority) /\ Same("evmz", Authority)
BY DEF Classification, Authority, AllRan, Ran, Out, NotRun, Raised

\* Agreement is unanimous.
LEMMA AgreementIsUnanimous ==
  ASSUME arbitrated \in BOOLEAN, AllRan, evals \in [Roles -> Evaluations],
         Classification = "agreement"
  PROVE  Out("evmz") /\ \A r \in Roles \ {"evmz"} : Ran(r) => Out(r) /\ Same("evmz", r)
<1>1. CASE arbitrated
  BY <1>1 DEF Classification, AllRan, Ran, Out, NotRun, Raised, Roles
<1>2. CASE ~arbitrated
  BY <1>2 DEF Classification, AllRan, Ran, Out, NotRun, Raised, Roles
<1> QED BY <1>1, <1>2

LEMMA SameClassification ==
  ASSUME UNCHANGED <<evals, arbitrated>>
  PROVE  /\ Classification' = Classification
         /\ Authority' = Authority
         /\ AllRan' = AllRan
BY DEF Classification, Authority, AllRan, Ran, Out, Same

-----------------------------------------------------------------------------
(***************************************************************************)
(* Between calls nothing is in flight and no verdict stands.               *)
(***************************************************************************)
LEMMA InitEstablishes == Init => Inv
<1> SUFFICES ASSUME Init PROVE Inv
  OBVIOUS
<1>1. TypeOK
  <2>1. arbitrated \in BOOLEAN
    BY DEF Init
  <2> QED BY <2>1, BoundsAreNatural DEF Init, TypeOK
<1>2. Counters
  BY BoundsAreNatural DEF Init, Counters
<1>3. Values
  <2>1. evals \in [Roles -> Evaluations]
    BY DEF Init, Evaluations
  <2>2. ASSUME NEW p \in Places PROVE Shaped(artifacts[p])
    BY <2>2 DEF Init, Shaped, NoArtifact
  <2> QED BY <2>1, <2>2 DEF Init, Values
<1>4. ToolOrder /\ DirectoryAlive /\ Evidence /\ Verdict /\ DumpedEarlier
  BY DEF Init, ToolOrder, DirectoryAlive, Evidence, Verdict, DumpedEarlier, Ended
<1> QED BY <1>1, <1>2, <1>3, <1>4 DEF Inv

LEMMA SessionStartPreserves == Inv /\ SessionStart => Inv'
<1> SUFFICES ASSUME Inv, SessionStart PROVE Inv'
  OBVIOUS
<1>0. phase = "idle" /\ phase' = "idle" /\ result'.kind = "none"
  BY DEF SessionStart, Inv, TypeOK
<1>1. TypeOK' /\ Counters'
  BY <1>0, BoundsAreNatural DEF Inv, SessionStart, TypeOK, Counters
<1>2. Values'
  BY DEF Inv, SessionStart, Values, Evaluations
<1>3. ToolOrder' /\ DirectoryAlive' /\ Evidence' /\ Verdict'
  BY <1>0 DEF ToolOrder, DirectoryAlive, Evidence, Verdict, Ended
<1>4. DumpedEarlier'
  BY DEF SessionStart, DumpedEarlier
<1> QED BY <1>1, <1>2, <1>3, <1>4 DEF Inv

LEMMA BeginTestPreserves == Inv /\ BeginTest => Inv'
<1> SUFFICES ASSUME Inv, BeginTest PROVE Inv'
  OBVIOUS
<1>0. phase = "idle" /\ phase' = "idle" /\ result'.kind = "none"
  BY DEF BeginTest
<1>1. TypeOK' /\ Counters'
  BY <1>0, BoundsAreNatural DEF Inv, BeginTest, TypeOK, Counters
<1>2. Values'
  BY DEF Inv, BeginTest, Values, Evaluations
<1>3. ToolOrder' /\ DirectoryAlive' /\ Evidence' /\ Verdict'
  BY <1>0 DEF ToolOrder, DirectoryAlive, Evidence, Verdict, Ended
<1>4. DumpedEarlier'
  BY DEF Inv, BeginTest, DumpedEarlier
<1> QED BY <1>1, <1>2, <1>3, <1>4 DEF Inv

LEMMA StartCallPreserves == Inv /\ StartCall => Inv'
<1> SUFFICES ASSUME Inv, StartCall PROVE Inv'
  OBVIOUS
<1>0. phase' = "evmz" /\ call' = test_call /\ test_call' = test_call + 1
  BY DEF StartCall, NumberCall
<1>1. TypeOK' /\ Counters'
  BY <1>0, BoundsAreNatural DEF Inv, StartCall, TypeOK, Counters, Here, Places
<1>2. Values'
  BY DEF Inv, StartCall, Values, Evaluations
<1>3. ToolOrder'
  BY <1>0 DEF StartCall, ToolOrder, Ended, Ran
<1>4. DirectoryAlive' /\ Evidence' /\ Verdict'
  BY <1>0 DEF DirectoryAlive, Evidence, Verdict, Ended
<1>5. DumpedEarlier'
  BY <1>0 DEF Inv, StartCall, DumpedEarlier
<1> QED BY <1>1, <1>2, <1>3, <1>4, <1>5 DEF Inv

-----------------------------------------------------------------------------
(***************************************************************************)
(* Evaluating changes evals and the phase, and the directory of evmz.      *)
(***************************************************************************)
LEMMA EvaluateEvmzPreserves == Inv /\ EvaluateEvmz => Inv'
<1> SUFFICES ASSUME Inv, EvaluateEvmz PROVE Inv'
  OBVIOUS
<1>0. /\ phase = "evmz" /\ phase' \in {"reference", "judge"}
      /\ \A r \in Roles : ~Ran(r)
  BY DEF EvaluateEvmz, Inv, ToolOrder
<1>1. TypeOK' /\ Counters'
  BY <1>0 DEF Inv, EvaluateEvmz, TypeOK, Counters, Here
<1>2. Values'
  BY DEF Inv, EvaluateEvmz, Values, Evaluations, Shaped
<1>3. ToolOrder' /\ DirectoryAlive'
  <2>1. CASE phase' = "reference"
    BY <1>0, <2>1 DEF Inv, Values, EvaluateEvmz, ToolOrder, DirectoryAlive, Readable,
       Out, Ran, Roles, NotRun, Raised, Answered, KeepAlive, Ended
  <2>2. CASE phase' = "judge"
    BY <1>0, <2>2 DEF Inv, Values, EvaluateEvmz, ToolOrder, DirectoryAlive, Readable,
       AllRan, Out, Ran, Roles, NotRun, Raised, Answered, Ended
  <2> QED BY <1>0, <2>1, <2>2
<1>4. Evidence' /\ Verdict'
  BY <1>0 DEF Evidence, Verdict, Ended
<1>5. DumpedEarlier'
  BY <1>0 DEF Inv, EvaluateEvmz, DumpedEarlier
<1> QED BY <1>1, <1>2, <1>3, <1>4, <1>5 DEF Inv

LEMMA EvaluateReferencePreserves == Inv /\ EvaluateReference => Inv'
<1> SUFFICES ASSUME Inv, EvaluateReference PROVE Inv'
  OBVIOUS
<1>0. /\ phase = "reference" /\ phase' = IF arbitrated THEN "arbiter" ELSE "judge"
      /\ Out("evmz") /\ ~Ran("arbiter") /\ Readable
  BY DEF EvaluateReference, Evaluate, Inv, ToolOrder, DirectoryAlive
<1>a. PICK e \in {Answered(a) : a \in Answers} \union {Raised} :
        evals' = [evals EXCEPT !["reference"] = e]
  BY DEF EvaluateReference, Evaluate
<1>b. e # NotRun
  BY <1>a DEF Answered, Raised, NotRun
<1>1. TypeOK' /\ Counters'
  BY <1>0 DEF Inv, EvaluateReference, Evaluate, TypeOK, Counters, Here
<1>2. Values'
  BY <1>a DEF Inv, EvaluateReference, Evaluate, Values, Evaluations, Shaped
<1>3. ToolOrder' /\ DirectoryAlive'
  <2>1. evals'["evmz"] = evals["evmz"] /\ evals'["arbiter"] = evals["arbiter"]
        /\ evals'["reference"] = e
    BY <1>a DEF Inv, Values, Roles
  <2> QED
    BY <1>0, <1>b, <2>1 DEF Inv, TypeOK, EvaluateReference, Evaluate, ToolOrder,
       DirectoryAlive, Readable, AllRan, Out, Ran, Ended
<1>4. Evidence' /\ Verdict'
  BY <1>0 DEF Evidence, Verdict, Ended
<1>5. DumpedEarlier'
  BY <1>0 DEF Inv, EvaluateReference, Evaluate, DumpedEarlier
<1> QED BY <1>1, <1>2, <1>3, <1>4, <1>5 DEF Inv

LEMMA EvaluateArbiterPreserves == Inv /\ EvaluateArbiter => Inv'
<1> SUFFICES ASSUME Inv, EvaluateArbiter PROVE Inv'
  OBVIOUS
<1>0. /\ phase = "arbiter" /\ phase' = "judge" /\ arbitrated
      /\ Out("evmz") /\ Ran("reference") /\ Readable
  BY DEF EvaluateArbiter, Evaluate, Inv, ToolOrder, DirectoryAlive
<1>a. PICK e \in {Answered(a) : a \in Answers} \union {Raised} :
        evals' = [evals EXCEPT !["arbiter"] = e]
  BY DEF EvaluateArbiter, Evaluate
<1>b. e # NotRun
  BY <1>a DEF Answered, Raised, NotRun
<1>1. TypeOK' /\ Counters'
  BY <1>0 DEF Inv, EvaluateArbiter, Evaluate, TypeOK, Counters, Here
<1>2. Values'
  BY <1>a DEF Inv, EvaluateArbiter, Evaluate, Values, Evaluations, Shaped
<1>3. ToolOrder' /\ DirectoryAlive'
  <2>1. evals'["evmz"] = evals["evmz"] /\ evals'["reference"] = evals["reference"]
        /\ evals'["arbiter"] = e
    BY <1>a DEF Inv, Values, Roles
  <2> QED
    BY <1>0, <1>b, <2>1 DEF Inv, TypeOK, EvaluateArbiter, Evaluate, ToolOrder,
       DirectoryAlive, Readable, AllRan, Out, Ran, Ended
<1>4. Evidence' /\ Verdict'
  BY <1>0 DEF Evidence, Verdict, Ended
<1>5. DumpedEarlier'
  BY <1>0 DEF Inv, EvaluateArbiter, Evaluate, DumpedEarlier
<1> QED BY <1>1, <1>2, <1>3, <1>4, <1>5 DEF Inv

-----------------------------------------------------------------------------
(***************************************************************************)
(* Judging and dumping leave evals alone, and with them the classification.*)
(***************************************************************************)
LEMMA JudgePreserves == Inv /\ Judge => Inv'
<1> SUFFICES ASSUME Inv, Judge PROVE Inv'
  OBVIOUS
<1>0. /\ phase = "judge" /\ Readable /\ AllRan
      /\ UNCHANGED <<evals, arbitrated, artifacts, session, test_id, call, dumped>>
      /\ Classification' = Classification /\ Authority' = Authority /\ AllRan' = AllRan
  BY SameClassification DEF Judge, Inv, ToolOrder, DirectoryAlive
<1>1. CASE Classification = "agreement"
  <2>1. /\ phase' = "idle"
        /\ result' = [kind |-> "returned", value |-> evals[Authority].answer]
    BY <1>0, <1>1 DEF Judge, EndCall
  <2>2. TypeOK' /\ Counters'
    BY <2>1 DEF Inv, Judge, TypeOK, Counters
  <2>3. Values'
    BY <1>0 DEF Inv, Values, Shaped
  <2>4. ToolOrder' /\ DirectoryAlive'
    BY <1>0, <2>1 DEF ToolOrder, DirectoryAlive
  <2>5. Evidence' /\ Verdict'
    BY <1>0, <1>1, <2>1 DEF Evidence, Verdict
  <2>6. DumpedEarlier'
    BY <1>0, <2>1 DEF Inv, TypeOK, Judge, Counters, DumpedEarlier, Places
  <2> QED BY <2>2, <2>3, <2>4, <2>5, <2>6 DEF Inv
<1>2. CASE Classification # "agreement"
  <2>1. phase' = "context" /\ UNCHANGED <<tempdir, result>>
    BY <1>0, <1>2 DEF Judge
  <2>2. TypeOK' /\ Counters'
    BY <1>0, <2>1 DEF Inv, Judge, TypeOK, Counters, Here
  <2>3. Values'
    BY <1>0 DEF Inv, Values, Shaped
  <2>4. ToolOrder' /\ DirectoryAlive'
    BY <1>0, <2>1 DEF ToolOrder, DirectoryAlive, Readable, Out
  <2>5. Evidence' /\ Verdict'
    BY <2>1 DEF Evidence, Verdict, Ended
  <2>6. DumpedEarlier'
    BY <1>0, <2>1 DEF Inv, Judge, DumpedEarlier
  <2> QED BY <2>2, <2>3, <2>4, <2>5, <2>6 DEF Inv
<1> QED BY <1>1, <1>2

LEMMA DumpContextPreserves == Inv /\ DumpContext => Inv'
<1> SUFFICES ASSUME Inv, DumpContext PROVE Inv'
  OBVIOUS
<1>0. /\ phase = "context" /\ phase' = "documents" /\ Readable /\ AllRan
      /\ UNCHANGED <<evals, arbitrated, session, test_id, call, dumped, tempdir, result>>
      /\ Here \in Places /\ Here' = Here /\ session \in 0 .. MaxSessions
      /\ AllRan' = AllRan
  BY SameClassification
     DEF DumpContext, DumpUnchanged, Inv, TypeOK, ToolOrder, DirectoryAlive, Here
<1> DEFINE ctx == [classification |-> Classification, session |-> session]
<1>a. ctx # None
  BY <1>0, ClassificationTyped, NoneIsNoContext
<1>b. artifacts' = [artifacts EXCEPT ![Here].context = ctx]
  BY DEF DumpContext
<1> HIDE DEF ctx
<1>1. TypeOK' /\ Counters'
  BY <1>0 DEF Inv, DumpContext, DumpUnchanged, TypeOK, Counters
<1>c. /\ artifacts' = [p \in Places |-> artifacts'[p]]
      /\ \A p \in Places \ {Here} : artifacts'[p] = artifacts[p]
      /\ artifacts'[Here] = [artifacts[Here] EXCEPT !.context = ctx]
  BY <1>0, <1>b DEF Inv, Values
<1>2. Values'
  <2>1. Shaped(artifacts'[Here])
    BY <1>0, <1>c DEF Inv, Values, Shaped
  <2>2. ASSUME NEW p \in Places PROVE Shaped(artifacts'[p])
    BY <1>c, <2>1 DEF Inv, Values
  <2> QED BY <1>0, <1>c, <2>2 DEF Inv, Values, Shaped
<1>3. ToolOrder' /\ DirectoryAlive'
  BY <1>0 DEF ToolOrder, DirectoryAlive, Readable, Out, Ended
<1>4. artifacts'[Here].context = ctx
  BY <1>0, <1>c DEF Inv, Values, Shaped
<1>5. ContextWritten'
  BY <1>0, <1>4, <1>a DEF ContextWritten, ctx
<1>6. Evidence' /\ Verdict'
  BY <1>0, <1>5 DEF Evidence, Verdict, Ended
<1>7. DumpedEarlier'
  BY <1>0 DEF Inv, DumpContext, DumpUnchanged, DumpedEarlier
<1> QED BY <1>1, <1>2, <1>3, <1>6, <1>7 DEF Inv

LEMMA DumpDocumentsPreserves == Inv /\ DumpDocuments => Inv'
<1> SUFFICES ASSUME Inv, DumpDocuments PROVE Inv'
  OBVIOUS
<1>0. /\ phase = "documents" /\ phase' = "diff" /\ Readable /\ AllRan /\ ContextWritten
      /\ UNCHANGED <<evals, arbitrated, session, test_id, call, dumped, tempdir, result>>
      /\ Here \in Places /\ Here' = Here
      /\ AllRan' = AllRan
  BY SameClassification
     DEF DumpDocuments, DumpUnchanged, Inv, TypeOK, ToolOrder, DirectoryAlive, Evidence, Here
<1> DEFINE a == artifacts[Here]
           js == [r \in Roles |-> Document(r, a.json[r])]
           es == a.error \union {r \in Roles : evals[r].kind = "error"}
<1>a. artifacts' = [artifacts EXCEPT ![Here].json = js, ![Here].error = es]
  BY <1>0 DEF DumpDocuments, Inv, Values, Shaped
<1>b. Shaped(a)
  BY <1>0 DEF Inv, Values
<1> HIDE DEF js, es
<1>c. /\ artifacts' = [p \in Places |-> artifacts'[p]]
      /\ artifacts'[Here] = [context |-> a.context, json |-> js, error |-> es, diff |-> a.diff]
      /\ \A p \in Places \ {Here} : artifacts'[p] = artifacts[p]
  BY <1>0, <1>a, <1>b DEF Inv, Values, Shaped
<1>1. TypeOK' /\ Counters'
  BY <1>0 DEF Inv, DumpDocuments, DumpUnchanged, TypeOK, Counters
<1>2. Values'
  <2>1. Shaped(artifacts'[Here])
    BY <1>c DEF Shaped, js
  <2>2. ASSUME NEW p \in Places PROVE Shaped(artifacts'[p])
    BY <1>c, <2>1 DEF Inv, Values
  <2> QED BY <1>0, <1>c, <2>2 DEF Inv, Values, Shaped
<1>3. ToolOrder' /\ DirectoryAlive'
  BY <1>0 DEF ToolOrder, DirectoryAlive, Readable, Out, Ended
<1>4. ContextWritten'
  BY <1>0, <1>c DEF ContextWritten
<1>5. DocumentsWritten'
  <2> SUFFICES ASSUME NEW r \in Roles, Ran(r)
               PROVE  IF Out(r) THEN js[r] = CanonicalOutput(evals[r].answer) ELSE r \in es
    BY <1>0, <1>c DEF DocumentsWritten, Ran, Out
  <2>1. CASE Out(r)
    BY <2>1 DEF js, Document
  <2>2. CASE ~Out(r)
    BY <2>2, OutputHoldsAnswer DEF Inv, Values, Ran, Raised, es
  <2> QED BY <2>1, <2>2
<1>6. Evidence' /\ Verdict'
  BY <1>0, <1>4, <1>5 DEF Evidence, Verdict, Ended
<1>7. DumpedEarlier'
  BY <1>0 DEF Inv, DumpDocuments, DumpUnchanged, DumpedEarlier
<1> QED BY <1>1, <1>2, <1>3, <1>6, <1>7 DEF Inv

LEMMA DumpDiffPreserves == Inv /\ DumpDiff => Inv'
<1> SUFFICES ASSUME Inv, DumpDiff PROVE Inv'
  OBVIOUS
<1>0. /\ phase = "diff" /\ phase' = "idle" /\ AllRan /\ ContextWritten /\ DocumentsWritten
      /\ UNCHANGED <<evals, arbitrated, session, test_id, test_call, call, begun>>
      /\ Here \in Places /\ Here' = Here
      /\ Classification' = Classification /\ Authority' = Authority /\ AllRan' = AllRan
  BY SameClassification
     DEF DumpDiff, DumpUnchanged, EndCall, Inv, TypeOK, ToolOrder, Evidence, Here
<1>a. /\ artifacts' = [p \in Places |-> artifacts'[p]]
      /\ \A p \in Places : Shaped(artifacts'[p])
      /\ artifacts'[Here].context = artifacts[Here].context
      /\ artifacts'[Here].json = artifacts[Here].json
      /\ artifacts'[Here].error = artifacts[Here].error
  <2>1. PICK d : artifacts' \in {artifacts, [artifacts EXCEPT ![Here].diff = d]}
    BY DEF DumpDiff
  <2> QED BY <1>0, <2>1, ZenonT(30) DEF Inv, Values, Shaped
<1>1. TypeOK' /\ Counters'
  BY <1>0 DEF Inv, DumpDiff, DumpUnchanged, EndCall, TypeOK, Counters
<1>2. Values'
  BY <1>0, <1>a DEF Inv, Values, Shaped
<1>3. ToolOrder' /\ DirectoryAlive'
  BY <1>0 DEF ToolOrder, DirectoryAlive
<1>4. ContextWritten' /\ DocumentsWritten'
  BY <1>0, <1>a DEF ContextWritten, DocumentsWritten, Ran, Out
<1>5. Evidence' /\ Verdict'
  BY <1>0, <1>4 DEF Evidence, Verdict, DumpDiff, EndCall
<1>6. DumpedEarlier'
  <2> SUFFICES ASSUME NEW p \in dumped \union {Here}
               PROVE  p \in Places /\ p[1] \in begun /\ (p[1] = test_id => p[2] < test_call)
    BY <1>0 DEF DumpDiff, DumpedEarlier
  <2>1. CASE p \in dumped
    BY <1>0, <2>1 DEF Inv, TypeOK, DumpedEarlier, Counters, Places
  <2>2. CASE p = Here
    <3>1. test_id \in begun
      BY <1>0 DEF Inv, Counters, Here
    <3> QED BY <1>0, <2>2, <3>1 DEF Inv, TypeOK, Counters, Here
  <2> QED BY <2>1, <2>2
<1> QED BY <1>1, <1>2, <1>3, <1>5, <1>6 DEF Inv

LEMMA DumpFailsPreserves == Inv /\ DumpFails => Inv'
<1> SUFFICES ASSUME Inv, DumpFails PROVE Inv'
  OBVIOUS
<1>0. /\ phase \in {"context", "documents", "diff"} /\ phase' = "idle"
      /\ result'.kind = "unwritten"
  BY DEF DumpFails
<1>1. TypeOK' /\ Counters'
  BY <1>0 DEF Inv, DumpFails, DumpUnchanged, TypeOK, Counters
<1>2. Values'
  BY DEF Inv, DumpFails, DumpUnchanged, Values, Shaped
<1>3. ToolOrder' /\ DirectoryAlive' /\ Evidence' /\ Verdict'
  BY <1>0 DEF ToolOrder, DirectoryAlive, Evidence, Verdict, Ended
<1>4. DumpedEarlier'
  BY <1>0 DEF Inv, TypeOK, Counters, DumpFails, DumpUnchanged, DumpedEarlier, Places
<1> QED BY <1>1, <1>2, <1>3, <1>4 DEF Inv

LEMMA SessionEndsPreserves == Inv /\ SessionEnds => Inv'
<1> SUFFICES ASSUME Inv, SessionEnds PROVE Inv'
  OBVIOUS
<1>0. phase' = "idle" /\ result'.kind = "none"
  BY DEF SessionEnds
<1>1. TypeOK' /\ Counters'
  BY <1>0, BoundsAreNatural DEF Inv, SessionEnds, TypeOK, Counters
<1>2. Values'
  BY DEF Inv, SessionEnds, Values, Evaluations
<1>3. ToolOrder' /\ DirectoryAlive' /\ Evidence' /\ Verdict'
  BY <1>0 DEF ToolOrder, DirectoryAlive, Evidence, Verdict, Ended
<1>4. DumpedEarlier'
  BY DEF SessionEnds, DumpedEarlier
<1> QED BY <1>1, <1>2, <1>3, <1>4 DEF Inv

-----------------------------------------------------------------------------
LEMMA StepPreserves == Inv /\ [Next]_vars => Inv'
<1> SUFFICES ASSUME Inv, [Next]_vars PROVE Inv'
  OBVIOUS
<1>1. CASE UNCHANGED vars
  <2>1. Classification' = Classification /\ Authority' = Authority /\ AllRan' = AllRan
    BY <1>1, SameClassification DEF vars
  <2>2. (TypeOK /\ Counters /\ Values)'
    BY <1>1 DEF vars, Inv, TypeOK, Counters, Values, Shaped, Here
  <2>3. (ToolOrder /\ DirectoryAlive)'
    BY <1>1, <2>1 DEF vars, Inv, ToolOrder, Ran, Out, Ended, DirectoryAlive, Readable
  <2>4. (Evidence /\ Verdict)'
    BY <1>1, <2>1 DEF vars, Inv, Evidence, ContextWritten, DocumentsWritten, Verdict, Ended,
       Ran, Out, Here
  <2>5. DumpedEarlier'
    BY <1>1 DEF vars, Inv, DumpedEarlier
  <2> QED BY <2>2, <2>3, <2>4, <2>5 DEF Inv
<1>2. CASE Next
  BY <1>2, SessionStartPreserves, BeginTestPreserves, StartCallPreserves,
     EvaluateEvmzPreserves, EvaluateReferencePreserves, EvaluateArbiterPreserves,
     JudgePreserves, DumpContextPreserves, DumpDocumentsPreserves, DumpDiffPreserves,
     DumpFailsPreserves, SessionEndsPreserves DEF Next
<1> QED BY <1>1, <1>2

LEMMA Invariance == Spec => []Inv
<1> QED BY InitEstablishes, StepPreserves, PTL DEF Spec

(***************************************************************************)
(* The differential stays within its state space, and every call in flight *)
(* has a place on disk.                                                    *)
(***************************************************************************)
THEOREM TypeCorrect == Spec => []TypeOK
<1>1. Inv => TypeOK
  BY DEF Inv
<1> QED BY <1>1, Invariance, PTL

(***************************************************************************)
(* _evaluate: a test goes on exactly when evmz agrees with the authority,  *)
(* and with the authority's answer.                                        *)
(***************************************************************************)
THEOREM VerdictIsAuthoritys == Spec => []VerdictFollowsAuthority
<1>1. Inv => VerdictFollowsAuthority
  <2> SUFFICES ASSUME Inv, Ended
               PROVE  /\ result.kind = "returned" <=>
                           /\ Out("evmz") /\ Out(Authority)
                           /\ Agree(evals["evmz"].answer, evals[Authority].answer)
                      /\ result.kind = "returned" => result.value = evals[Authority].answer
    BY DEF VerdictFollowsAuthority
  <2>1. Authority \in Roles /\ "evmz" \in Roles
    BY DEF Authority, Roles
  <2>2. Out("evmz") /\ Out(Authority) =>
          (Same("evmz", Authority) <=> Agree(evals["evmz"].answer, evals[Authority].answer))
    BY <2>1, OutputHoldsAnswer, EquivalentIsAgree DEF Same, Inv, Values
  <2>3. Classification \in {"agreement", "reference_divergence"} <=>
          Out("evmz") /\ Out(Authority) /\ Same("evmz", Authority)
    BY GoesOnWithAuthority DEF Inv, TypeOK, ToolOrder
  <2> QED BY <2>2, <2>3 DEF Inv, Verdict
<1> QED BY <1>1, Invariance, PTL

(***************************************************************************)
(* _dump: when a call ends in which a tool raised or disagreed with evmz,  *)
(* its directory tells what happened in this session.                      *)
(***************************************************************************)
THEOREM DisagreementPreserved == Spec => []DisagreementIsPreserved
<1>1. Inv => DisagreementIsPreserved
  <2> SUFFICES ASSUME Inv, Ended, NEW q \in Roles, evals[q].kind # "notrun",
                      \/ ~Out(q)
                      \/ Out("evmz") /\ ~Agree(evals["evmz"].answer, evals[q].answer)
               PROVE  /\ ContextWritten
                      /\ \A r \in Roles : evals[r].kind # "notrun" =>
                           IF Out(r)
                           THEN artifacts[Here].json[r] = CanonicalOutput(evals[r].answer)
                           ELSE r \in artifacts[Here].error
    BY DEF DisagreementIsPreserved, ContextWritten
  <2>1. AllRan /\ arbitrated \in BOOLEAN /\ evals \in [Roles -> Evaluations]
    BY DEF Inv, ToolOrder, TypeOK, Values
  <2>2. "evmz" \in Roles /\ \A r \in Roles : evals[r].kind # "notrun" <=> Ran(r)
    BY <2>1, OutputHoldsAnswer DEF Roles
  <2>3. Classification # "agreement"
    <3> SUFFICES ASSUME Classification = "agreement" PROVE FALSE
      OBVIOUS
    <3>1. Out("evmz") /\ \A r \in Roles \ {"evmz"} : Ran(r) => Out(r) /\ Same("evmz", r)
      BY <2>1, AgreementIsUnanimous
    <3>2. Out(q) /\ evals[q].answer \in Answers /\ evals["evmz"].answer \in Answers
      BY <2>1, <2>2, <3>1, OutputHoldsAnswer
    <3>3. Agree(evals["evmz"].answer, evals[q].answer)
      BY <2>2, <3>1, <3>2, EquivalentIsAgree, AgreeReflexive DEF Same
    <3> QED BY <3>2, <3>3
  <2>4. ContextWritten /\ DocumentsWritten
    BY <2>3 DEF Inv, Evidence
  <2> QED BY <2>2, <2>4 DEF DocumentsWritten
<1> QED BY <1>1, Invariance, PTL

(***************************************************************************)
(* Within a session no later call touches what a call has preserved.       *)
(***************************************************************************)
THEOREM EvidenceKept == Spec => EvidenceIsKept
<1>1. Inv /\ [Next]_vars =>
        [session' = session => \A p \in dumped : artifacts'[p] = artifacts[p]]_vars
  <2> SUFFICES ASSUME Inv, Next, session' = session, NEW p \in dumped
               PROVE  artifacts'[p] = artifacts[p]
    OBVIOUS
  <2>1. CASE UNCHANGED artifacts
    BY <2>1
  <2>2. CASE phase \in {"context", "documents", "diff"} /\ (DumpContext \/ DumpDocuments \/ DumpDiff)
    <3>1. p # Here
      BY <2>2 DEF Inv, DumpedEarlier, Counters, TypeOK, Here
    <3>2. CASE DumpContext
      BY <3>1, <3>2 DEF DumpContext, Inv, Values
    <3>3. CASE DumpDocuments
      <4>1. PICK js, es : artifacts' = [artifacts EXCEPT ![Here].json = js, ![Here].error = es]
        BY <3>3 DEF DumpDocuments
      <4>2. p \in Places
        BY DEF Inv, DumpedEarlier
      <4> QED BY <3>1, <4>1, <4>2 DEF Inv, Values
    <3>4. CASE DumpDiff
      BY <3>1, <3>4 DEF DumpDiff, Inv, Values
    <3> QED BY <2>2, <3>2, <3>3, <3>4
  <2> QED
    BY <2>1, <2>2 DEF Next, SessionStart, BeginTest, StartCall, EvaluateEvmz,
       EvaluateReference, EvaluateArbiter, Evaluate, Judge, DumpContext, DumpDocuments,
       DumpDiff, DumpFails, SessionEnds
<1> QED BY <1>1, Invariance, PTL DEF Spec, EvidenceIsKept
=============================================================================
