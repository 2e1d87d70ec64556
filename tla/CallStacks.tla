---------------------------- MODULE CallStacks -----------------------------
(***************************************************************************)
(* What nested EVM calls promise, without the storage they run on: every   *)
(* call has an operand stack and a memory of its own that nobody else      *)
(* changes, the state it found is the state it leaves when it does not     *)
(* succeed, its output reaches the call below it, and an error gives up    *)
(* all of them, newest first, each undone once.                            *)
(***************************************************************************)
EXTENDS Naturals, Sequences, SequencesExt

CONSTANTS
  Clear, Data,  \* an empty memory or output, and one with bytes
  NoCheckpoint, \* saved state of a root call: its caller owns the scope
  Worlds        \* states of the world

VARIABLES
  calls,   \* the live calls, oldest first
  world,
  pending, \* the result of a call that ended, until the one below received it
  failing  \* an error is giving up the calls

vars == <<calls, world, pending, failing>>

Nothing == <<>>
Top == Last(calls)
Call(saved, creates) ==
  [stack |-> <<>>, memory |-> Clear, saved |-> saved, creates |-> creates]
WithTop(call) == Append(Front(calls), call)
Owner == Len(calls)

Init ==
  /\ calls = <<>> /\ pending = Nothing /\ failing = FALSE
  /\ world \in Worlds

Start ==
  /\ calls = <<>> /\ pending = Nothing
  /\ \/ calls' = <<Call(NoCheckpoint, FALSE)>> /\ UNCHANGED world
     \/ \E creates \in BOOLEAN : calls' = <<Call(world, creates)>> /\ world' \in Worlds
  /\ UNCHANGED <<pending, failing>>

\* The newest call computes: one word on or off its stack, its memory, the world.
Compute ==
  /\ calls # <<>> /\ pending = Nothing /\ ~failing
  /\ \/ /\ calls' = WithTop([Top EXCEPT !.stack = Append(@, Owner)])
        /\ UNCHANGED world
     \/ /\ Top.stack # <<>>
        /\ calls' = WithTop([Top EXCEPT !.stack = Front(@)])
        /\ UNCHANGED world
     \/ calls' = WithTop([Top EXCEPT !.memory = Data]) /\ UNCHANGED world
     \/ world' \in Worlds /\ UNCHANGED calls
  /\ UNCHANGED <<pending, failing>>

\* It calls: the argument leaves its stack and a new call begins on top.
Enter ==
  /\ calls # <<>> /\ pending = Nothing /\ ~failing
  /\ Top.stack # <<>>
  /\ \E creates \in BOOLEAN :
       calls' = Append(WithTop([Top EXCEPT !.stack = Front(@)]), Call(world, creates))
  /\ world' \in Worlds
  /\ UNCHANGED <<pending, failing>>

\* Or the call is answered on the spot.
Answer ==
  /\ calls # <<>> /\ pending = Nothing /\ ~failing
  /\ Top.stack # <<>>
  /\ \/ \E bytes \in {Top.memory, Data} :
          calls' = WithTop([Top EXCEPT !.stack = Append(Front(@), Owner), !.memory = bytes])
     \/ calls' = WithTop([Top EXCEPT !.stack = Front(@)])
  /\ world' \in Worlds
  /\ UNCHANGED <<pending, failing>>

\* It ends: kept, a creation with its code stored, or undone to the state it found.
Leave(ok) ==
  /\ calls # <<>> /\ pending = Nothing /\ ~failing
  /\ calls' = Front(calls)
  /\ \E bytes \in IF Top.creates THEN {Clear} ELSE {Clear, Top.memory} :
       pending' = <<[ok |-> ok, output |-> bytes]>>
  /\ IF ok
     THEN world' \in IF Top.creates THEN Worlds ELSE {world}
     ELSE world' = IF Top.saved = NoCheckpoint THEN world ELSE Top.saved
  /\ UNCHANGED failing

\* The call below takes the result, or stops on it.
WithOutput(stack, output) ==
  WithTop([Top EXCEPT !.stack = stack, !.memory = IF output = Clear THEN @ ELSE output])

Receive ==
  /\ pending # Nothing /\ ~failing
  /\ \/ UNCHANGED calls
     \/ /\ calls # <<>>
        /\ calls' = WithOutput(Append(Top.stack, Owner), Head(pending).output)
  /\ pending' = Nothing
  /\ UNCHANGED <<world, failing>>

\* An error: a call's argument may be gone and its answer half received.
Fail ==
  /\ calls # <<>> /\ ~failing
  /\ failing' = TRUE
  /\ pending' = Nothing
  /\ \/ UNCHANGED <<calls, world>>
     \/ /\ pending = Nothing /\ Top.stack # <<>>
        /\ \E stack \in {Front(Top.stack), Append(Front(Top.stack), Owner)},
             output \in {Clear, Data} : calls' = WithOutput(stack, output)
        /\ world' \in Worlds
     \/ /\ pending # Nothing
        /\ \E stack \in {Top.stack, Append(Top.stack, Owner)} :
             calls' = WithOutput(stack, Head(pending).output)
        /\ UNCHANGED world

\* The error of a last delivery finds no call left to give up.
FailAtEnd ==
  /\ calls = <<>> /\ pending # Nothing
  /\ pending' = Nothing
  /\ UNCHANGED <<calls, world, failing>>

GiveUp ==
  /\ failing
  /\ calls' = Front(calls)
  /\ world' = IF Top.saved = NoCheckpoint THEN world ELSE Top.saved
  /\ failing' = (calls' # <<>>)
  /\ UNCHANGED pending

Next ==
  \/ Start \/ Compute \/ Enter \/ Answer \/ Receive
  \/ \E ok \in BOOLEAN : Leave(ok)
  \/ Fail \/ FailAtEnd \/ GiveUp

Spec == Init /\ [][Next]_vars
=============================================================================
