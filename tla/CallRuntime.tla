---------------------------- MODULE CallRuntime ----------------------------
(***************************************************************************)
(* The iterative call runtime (executor.zig, CallRuntime) and the LIFO     *)
(* storage its frames live in (executor/FrameStore.zig).                   *)
(*                                                                         *)
(* The operand stacks of all frames are windows of one growing array: a    *)
(* new frame's window begins right above its parent's live words, inside   *)
(* the parent's headroom, and growing the array may move it.  Memories     *)
(* outlive their frames and are used again by the next frame at the same   *)
(* depth.  Every row but a root call owns a checkpoint of the state.       *)
(* Allocation can fail wherever the code allocates, and one executor runs  *)
(* many runtimes, after failed ones too.                                   *)
(*                                                                         *)
(* A word is the number of the row that wrote it; a memory or a buffer is  *)
(* Clear or holds Data; a call's arguments are one word.                   *)
(***************************************************************************)
EXTENDS Naturals, Sequences, SequencesExt

CONSTANTS
  StackCapacity, \* Stack.capacity
  MaxRows,       \* default_max_live_frames, and the deepest call
  MaxWords,      \* bound on the capacity the word array grows to
  Worlds         \* states of the world

ASSUME RuntimeConstants ==
  /\ StackCapacity \in Nat \ {0} /\ MaxRows \in Nat \ {0} /\ MaxWords \in Nat
  /\ MaxWords >= (MaxRows - 1) * (StackCapacity - 1) + StackCapacity

VARIABLES
  reserved, \* how many of frames, messages, memories, ios have stable capacity
  frames,   \* rows: control and call frame
  memories, \* the memory of every row constructed so far
  words,    \* stack_words up to its capacity
  used,     \* stack_words.items.len
  scopes,   \* states saved by the open checkpoints, a checkpoint is a position
  world,
  top_frame_resolved,
  result,   \* the resolved top frame's result
  pc        \* idle, running, finished, delivered, failed or panic

outcome == <<top_frame_resolved, result>>
store == <<reserved, memories, words, used>>
vars  == <<store, frames, scopes, world, outcome, pc>>

Clear     == "clear"
Data      == "data"
None      == "none"   \* no checkpoint saved a state
Freed     == MaxRows + 1 \* what a stale pointer reads
Undefined == 0        \* a word nobody wrote
Root      == 0        \* checkpoint of a root call
Lists     == 4        \* pointer-bearing metadata lists
Kinds     == {"call", "create"}

\* A saved state is a state.
ASSUME NoneIsNoWorld == None \notin Worlds

Result(ok, row) == [ok |-> ok, row |-> row]
Top == Last(frames)
WithTop(row) == Append(Front(frames), row)

Init ==
  /\ reserved = 0 /\ frames = <<>> /\ memories = <<>>
  /\ words = <<>> /\ used = 0
  /\ scopes = <<>> /\ world \in Worlds
  /\ top_frame_resolved = FALSE /\ result = Result(FALSE, 0)
  /\ pc = "idle"

(***************************************************************************)
(* FrameStore.                                                             *)
(***************************************************************************)
\* Mutant: the child's window begins on the parent's top word.
BaseOnTopWord(rows) ==
  IF rows = <<>> \/ Last(rows).len = 0 THEN 0 ELSE Last(rows).base_word + Last(rows).len - 1

NextStackBase(rows) == IF rows = <<>> THEN 0 ELSE Last(rows).base_word + Last(rows).len

\* Reservation from the first list missing it, as far as it gets.
Reserving == {[lists |-> n, ok |-> n = Lists] : n \in reserved .. Lists}

\* Mutant: the first list stands for all of them.
ReserveUnlessFramesFit ==
  IF reserved > 0 THEN {[lists |-> reserved, ok |-> TRUE]} ELSE Reserving

\* reserveStableMetadataCapacity: all four lists fit, or it reserves them in order.
ReserveStableMetadata ==
  IF reserved = Lists THEN {[lists |-> Lists, ok |-> TRUE]} ELSE Reserving

\* ensureConstructedRow and Memory.initRetainingCapacity.
ConstructedRow(rows) ==
  IF Len(rows) < Len(memories) THEN memories ELSE Append(memories, Clear)
InitMemory(rows) == [ConstructedRow(rows) EXCEPT ![Len(rows) + 1] = Clear]

\* ensureStackRange: what the array may be afterwards.  A moved array keeps
\* only the words in use.
EnsureStackRange(base) ==
  LET required == base + StackCapacity
      Keeps(i, moved) == i <= IF moved THEN used ELSE Len(words)
  IN IF required <= Len(words) THEN {[words |-> words, moved |-> FALSE]}
     ELSE {[words |-> [i \in 1 .. n |-> IF Keeps(i, moved) THEN words[i] ELSE Undefined],
            moved |-> moved] :
             n \in required .. MaxWords, moved \in BOOLEAN}

\* rebindSuspendedStackPointers, once the array moved; a window it leaves out
\* still points into the freed one.
Rebound(rows) == DOMAIN rows

RebindSuspended(rows, moved) ==
  [i \in DOMAIN rows |-> [rows[i] EXCEPT !.bound = IF moved THEN i \in Rebound(rows) ELSE @]]

\* Mutant: the window shrinks to the words the frame holds now.
RestoreLiveWords(rows) == IF rows = <<>> THEN 0 ELSE Last(rows).base_word + Last(rows).len

RestoreStackRange(rows) == IF rows = <<>> THEN 0 ELSE Last(rows).base_word + StackCapacity

\* FrameStore.push on top of rows, and initRetainingMemoryCapacity.
Push(rows, kind, checkpoint) ==
  LET base == NextStackBase(rows) IN
  \E r \in ReserveStableMetadata, grown \in EnsureStackRange(base) :
    /\ r.ok
    /\ reserved' = r.lists
    /\ memories' = InitMemory(rows)
    /\ words' = grown.words
    /\ used' = IF used < base + StackCapacity THEN base + StackCapacity ELSE used
    /\ frames' = Append(RebindSuspended(rows, grown.moved),
                        [kind |-> kind, checkpoint |-> checkpoint, base_word |-> base,
                         len |-> 0, bound |-> TRUE, state |-> "running"])

\* A push that fails: reserving metadata, then room for the control, then the
\* stack words, then the capture of the new frame after the row was complete.
PushFails(rows) ==
  \/ /\ \E r \in ReserveStableMetadata : ~r.ok /\ reserved' = r.lists
     /\ frames' = rows
     /\ UNCHANGED <<memories, words, used>>
  \/ /\ reserved' = Lists
     /\ frames' = rows
     /\ UNCHANGED <<memories, words, used>>
  \/ /\ NextStackBase(rows) + StackCapacity > Len(words)
     /\ reserved' = Lists
     /\ memories' = ConstructedRow(rows)
     /\ frames' = rows
     /\ used' = RestoreStackRange(rows)
     /\ UNCHANGED words
  \/ \E grown \in EnsureStackRange(NextStackBase(rows)) :
       /\ reserved' = Lists
       /\ memories' = InitMemory(rows)
       /\ words' = grown.words
       /\ frames' = RebindSuspended(rows, grown.moved)
       /\ used' = RestoreStackRange(rows)

\* FrameStore.pop; the row's memory is cleared and kept.
Pop ==
  /\ frames' = Front(frames)
  /\ memories' = [memories EXCEPT ![Len(frames)] = Clear]
  /\ used' = RestoreStackRange(Front(frames))
  /\ UNCHANGED <<reserved, words>>

(***************************************************************************)
(* Scopes (executor.zig openScope, commitScope, revertScope).              *)
(***************************************************************************)
OpenScope  == Append(scopes, world)
IsCurrent(checkpoint) == checkpoint = Len(scopes)
CloseScope(checkpoint) == IF checkpoint = Root THEN scopes ELSE Front(scopes)
Restored(checkpoint) == IF checkpoint = Root THEN world ELSE scopes[checkpoint]

(***************************************************************************)
(* Starting a runtime: a root call, or a call or creation that begins with *)
(* a scope of its own and a value transfer inside it.                      *)
(***************************************************************************)
StartRoot ==
  /\ pc = "idle"
  /\ \/ Push(<<>>, "root_call", Root) /\ pc' = "running"
     \/ PushFails(<<>>) /\ UNCHANGED pc
  /\ UNCHANGED <<scopes, world, outcome>>

\* Mutant: disarmed before the row took the checkpoint over.
DisarmedEarly == scopes' = OpenScope /\ UNCHANGED world

\* The guard of the caller's checkpoint restores it when the push fails.
OnPushFailure == UNCHANGED <<scopes, world>>

StartMessage(kind) ==
  /\ pc = "idle"
  /\ \/ /\ Push(<<>>, kind, Len(scopes) + 1)
        /\ scopes' = OpenScope /\ world' \in Worlds
        /\ pc' = "running"
     \/ PushFails(<<>>) /\ OnPushFailure /\ UNCHANGED pc
  /\ UNCHANGED outcome

(***************************************************************************)
(* The interpreter on the newest frame.                                    *)
(***************************************************************************)
Running == pc = "running" /\ Top.state = "running"

\* Stack.push through the frame's pointer; a stale pointer loses the word.
Written(i) ==
  IF frames[i].bound
  THEN [words EXCEPT ![frames[i].base_word + frames[i].len + 1] = i]
  ELSE words

StackPush ==
  /\ Running /\ Top.len < StackCapacity
  /\ words' = Written(Len(frames))
  /\ frames' = WithTop([Top EXCEPT !.len = @ + 1])
  /\ UNCHANGED <<reserved, memories, used, scopes, world, outcome, pc>>

StackPop ==
  /\ Running /\ Top.len > 0
  /\ frames' = WithTop([Top EXCEPT !.len = @ - 1])
  /\ UNCHANGED <<store, scopes, world, outcome, pc>>

MemoryWrite ==
  /\ Running
  /\ memories' = [memories EXCEPT ![Len(frames)] = Data]
  /\ UNCHANGED <<reserved, words, used, frames, scopes, world, outcome, pc>>

StateWrite ==
  /\ Running
  /\ world' \in Worlds
  /\ UNCHANGED <<store, frames, scopes, outcome, pc>>

\* executeUntilSuspended returns an error.
RuntimeError ==
  /\ Running
  /\ pc' = "failed"
  /\ UNCHANGED <<store, frames, scopes, world, outcome>>

(***************************************************************************)
(* CALL and CREATE: the frame is suspended with its arguments popped and   *)
(* dispatchSuspension starts the child.                                    *)
(***************************************************************************)
\* The output a resumed row copies into its memory (and its return data).
Received(i, bytes) == [memories EXCEPT ![i] = IF bytes = Clear THEN @ ELSE bytes]

Suspended == WithTop([Top EXCEPT !.len = @ - 1, !.state = "suspended"])

\* startCall, startCreate: a child row that takes the checkpoint over.
StartChild(kind) ==
  /\ Running /\ Top.len > 0 /\ Len(frames) < MaxRows
  /\ \/ /\ Push(Suspended, kind, Len(scopes) + 1)
        /\ scopes' = OpenScope /\ world' \in Worlds
        /\ UNCHANGED pc
     \/ PushFails(Suspended) /\ OnPushFailure /\ pc' = "failed"
  /\ UNCHANGED outcome

\* Answered at once: no code, a precompile, too deep, too poor.  The frame is
\* resumed where it stands, unless the gas it owes halts it.
StartImmediate ==
  /\ Running /\ Top.len > 0
  /\ world' \in Worlds
  /\ \/ /\ \E bytes \in {Clear, Data} : memories' = Received(Len(frames), bytes)
        /\ words' = [words EXCEPT ![Top.base_word + Top.len] =
                       IF Top.bound THEN Len(frames) ELSE @]
        /\ UNCHANGED frames
     \/ /\ frames' = WithTop([Top EXCEPT !.len = @ - 1, !.state = "halted"])
        /\ UNCHANGED <<memories, words>>
  /\ UNCHANGED <<reserved, used, scopes, outcome, pc>>

\* beginCall or beginCreate fails, or the answer's output cannot be kept, or its
\* capture fails once the frame is resumed.
StartFails ==
  /\ Running /\ Top.len > 0
  /\ \/ frames' = Suspended /\ UNCHANGED <<memories, words, world>>
     \/ /\ frames' = WithTop([Top EXCEPT !.len = @ - 1])
        /\ \E bytes \in {Clear, Data} : memories' = Received(Len(frames), bytes)
        /\ world' \in Worlds
        /\ UNCHANGED words
     \/ /\ words' = [words EXCEPT ![Top.base_word + Top.len] =
                       IF Top.bound THEN Len(frames) ELSE @]
        /\ \E bytes \in {Clear, Data} : memories' = Received(Len(frames), bytes)
        /\ world' \in Worlds
        /\ UNCHANGED frames
  /\ pc' = "failed"
  /\ UNCHANGED <<reserved, used, scopes, outcome>>

(***************************************************************************)
(* finishFrame: the row's checkpoint is committed or restored before       *)
(* anything below it moves.                                                *)
(***************************************************************************)
Resolve(ok, row) ==
  /\ scopes' = CloseScope(Top.checkpoint)
  /\ result' = Result(ok, row)
  /\ top_frame_resolved' = TRUE
  /\ pc' = "finished"
  /\ UNCHANGED <<store, frames>>

\* The output is a range of the row's memory, or empty.
Outputs == {0, Len(frames)}

FinishCall(ok) ==
  /\ pc = "running" /\ Top.kind # "create"
  /\ Top.state = "running" \/ (Top.state = "halted" /\ ~ok)
  /\ world' = IF ok THEN world ELSE Restored(Top.checkpoint)
  /\ \E row \in Outputs : Resolve(ok, row)

\* finishCreate: the code is stored, or refused although the frame succeeded.
FinishCreate(ok) ==
  /\ pc = "running" /\ Top.kind = "create"
  /\ Top.state = "running" \/ (Top.state = "halted" /\ ~ok)
  /\ IF ok THEN world' \in Worlds ELSE world' = Restored(Top.checkpoint)
  /\ \E row \in Outputs : Resolve(ok, row)

\* A failing capture or code store: the guard restores the checkpoint and the
\* row stays unresolved.
FinishFails ==
  /\ pc = "running" /\ Top.state \in {"running", "halted"}
  /\ world' = Restored(Top.checkpoint)
  /\ scopes' = CloseScope(Top.checkpoint)
  /\ pc' = "failed"
  /\ UNCHANGED <<store, frames, outcome>>

(***************************************************************************)
(* The result reaches the row below while the finished row still holds the *)
(* output, and only then is the row dropped.                               *)
(***************************************************************************)
OutputOf(r) == IF r.row = 0 THEN Clear ELSE memories[r.row]

\* resumeWithCall copies the output; resumeWithCreate takes only the address.
Delivered(r) == IF Top.kind = "create" THEN Clear ELSE OutputOf(r)

Parent == Len(frames) - 1

\* resumeWith: the row below goes on, or the gas it owes halts it.
Resumed ==
  \/ /\ words' = Written(Parent)
     /\ memories' = Received(Parent, Delivered(result))
     /\ frames' = [frames EXCEPT ![Parent].state = "running", ![Parent].len = @ + 1]
  \/ /\ frames' = [frames EXCEPT ![Parent].state = "halted"]
     /\ UNCHANGED <<memories, words>>

ResumeSuspended ==
  /\ pc = "finished" /\ Parent > 0
  /\ Resumed
  /\ pc' = "delivered"
  /\ UNCHANGED <<reserved, used, scopes, world, outcome>>

StabilizeFinalResult ==
  /\ pc = "finished" /\ Parent = 0
  /\ pc' = "delivered"
  /\ UNCHANGED <<store, frames, scopes, world, outcome>>

\* The output cannot be kept: for the caller of the runtime, or as return data
\* of the row below, whose memory has it already.  Or its capture fails.
DeliveryFails ==
  /\ pc = "finished"
  /\ \/ Parent = 0 /\ UNCHANGED <<frames, memories, words>>
     \/ /\ Parent > 0
        /\ memories' = Received(Parent, Delivered(result))
        /\ frames' = [frames EXCEPT ![Parent].state = "running"]
        /\ UNCHANGED words
     \/ Parent > 0 /\ Resumed
  /\ pc' = "failed"
  /\ UNCHANGED <<reserved, used, scopes, world, outcome>>

Unresolved == top_frame_resolved' = FALSE /\ result' = Result(FALSE, 0)

PopResolvedFrame ==
  /\ pc = "delivered"
  /\ Pop
  /\ Unresolved
  /\ pc' = IF Parent = 0 THEN "idle" ELSE "running"
  /\ UNCHANGED <<scopes, world>>

\* deinit, one row at a time: a resolved row is dropped, any other is restored.
\* Restoring a checkpoint that is not the current scope trips assertCheckpoint.
RestorableRow == Top.checkpoint = Root \/ IsCurrent(Top.checkpoint)

Deinit ==
  /\ pc = "failed"
  /\ \/ top_frame_resolved /\ Pop /\ UNCHANGED <<scopes, world>>
     \/ /\ ~top_frame_resolved /\ RestorableRow
        /\ Pop
        /\ world' = Restored(Top.checkpoint)
        /\ scopes' = CloseScope(Top.checkpoint)
  /\ Unresolved
  /\ pc' = IF Parent = 0 THEN "idle" ELSE "failed"

Panics ==
  /\ pc = "failed" /\ ~top_frame_resolved /\ ~RestorableRow
  /\ pc' = "panic"
  /\ UNCHANGED <<store, frames, scopes, world, outcome>>

Next ==
  \/ StartRoot \/ \E kind \in Kinds : StartMessage(kind)
  \/ StackPush \/ StackPop \/ MemoryWrite \/ StateWrite \/ RuntimeError
  \/ StartImmediate \/ StartFails \/ \E kind \in Kinds : StartChild(kind)
  \/ \E ok \in BOOLEAN : FinishCall(ok) \/ FinishCreate(ok)
  \/ ResumeSuspended \/ StabilizeFinalResult \/ DeliveryFails \/ PopResolvedFrame
  \/ (FinishFails /\ Top.checkpoint = Root)
  \/ Deinit

Spec == Init /\ [][Next]_vars

\* With the failures inside finishFrame for every row.
FaultySpec == Init /\ [][Next \/ FinishFails \/ Panics]_vars

(***************************************************************************)
(* Properties.                                                             *)
(***************************************************************************)
\* The newest frame's full window, and every older one's, lies inside the words
\* in use: what Stack.init, Stack.rebind and restoreStackRange assert, in every
\* state in which the store is at rest.
TypeOK ==
  /\ reserved \in 0 .. Lists
  /\ pc \in {"idle", "running", "finished", "delivered", "failed", "panic"}
  /\ Len(frames) <= Len(memories) /\ Len(memories) <= MaxRows
  /\ used <= Len(words) /\ Len(words) <= MaxWords
  /\ \A i \in DOMAIN frames :
       /\ frames[i].len \in 0 .. StackCapacity
       /\ frames[i].base_word + StackCapacity <= used
       /\ frames[i].state = "suspended" => i < Len(frames) \/ pc = "failed"
  /\ (pc = "idle") = (frames = <<>>)

\* A suspended frame's pending action is a pointer into row storage, held while
\* children are pushed: no list that holds a row may still have to grow, even
\* after a reservation that failed half way and was tried again.
MetadataStable == frames # <<>> => reserved = Lists

\* The rows whose checkpoint is not resolved yet.
LiveRows == IF top_frame_resolved THEN Parent ELSE Len(frames)

\* The open scopes are exactly the checkpoints of the unresolved rows, oldest
\* first: nothing is left open by a failed push, and nothing is closed twice.
ScopesBalanced ==
  /\ {frames[i].checkpoint : i \in 1 .. LiveRows} \ {Root} = 1 .. Len(scopes)
  /\ \A i, j \in 1 .. LiveRows : i < j => frames[i].checkpoint < frames[j].checkpoint

\* deinit restores every unresolved checkpoint the runtime owns, and each only
\* once: it never meets one that is not the current scope.
RestoredOnce == pc # "panic"

\* The calls of the abstract specification: the words each frame reads through
\* its own pointer, its memory and the state its checkpoint saved.
StackOf(row, array) ==
  [j \in 1 .. row.len |-> IF row.bound THEN array[row.base_word + j] ELSE Freed]
SavedBy(row, saved) == IF row.checkpoint = Root THEN None ELSE saved[row.checkpoint]
CallOf(row, array, memory, saved) ==
  [stack |-> StackOf(row, array), memory |-> memory, saved |-> SavedBy(row, saved),
   creates |-> row.kind = "create"]
Calls == [i \in 1 .. LiveRows |-> CallOf(frames[i], words, memories[i], scopes)]

\* A result on its way to the call below, and rows an error still has to undo.
Pending ==
  IF pc = "finished" THEN <<[ok |-> result.ok, output |-> Delivered(result)]>> ELSE <<>>
Failing == pc = "failed" /\ LiveRows > 0

Abstract == INSTANCE CallStacks WITH
  NoCheckpoint <- None, calls <- Calls, pending <- Pending, failing <- Failing

\* The frame store and the runtime behave as separate call stacks do, each call
\* with words and memory of its own, kept or undone once, whatever moves below
\* them and whichever allocation fails.
ImplementsCallStacks == Abstract!Spec
=============================================================================
