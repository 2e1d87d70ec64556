------------------------- MODULE CallRuntimeProofs -------------------------
(***************************************************************************)
(* The call runtime and its frame store, for any stack capacity, depth of  *)
(* calls and array of words: what the store asserts, the checkpoints the   *)
(* rows own, and that frames sharing one array behave as call stacks of    *)
(* their own.                                                              *)
(***************************************************************************)
EXTENDS CallRuntime, SequenceTheorems, TLAPS

Row ==
  [kind : Kinds \union {"root_call"}, checkpoint : Nat, base_word : Nat,
   len : 0 .. StackCapacity, bound : BOOLEAN, state : {"running", "suspended", "halted"}]

Types ==
  /\ reserved \in 0 .. Lists
  /\ frames \in Seq(Row) /\ memories \in Seq({Clear, Data})
  /\ words \in Seq(Nat) /\ used \in Nat
  /\ scopes \in Seq(Worlds) /\ world \in Worlds
  /\ top_frame_resolved \in BOOLEAN /\ result \in [ok : BOOLEAN, row : Nat]
  /\ pc \in {"idle", "running", "finished", "delivered", "failed"}

Depth == Len(frames)

\* Where the runtime is, and which frames wait for a call of theirs.
Control ==
  /\ (pc = "idle") <=> (Depth = 0)
  /\ pc \in {"finished", "delivered"} => top_frame_resolved
  /\ top_frame_resolved => pc \in {"finished", "delivered", "failed"}
  /\ pc = "finished" => result.row \in {0, Depth}
  /\ \A i \in 1 .. Depth :
       /\ frames[i].state = "suspended" => frames[i].len < StackCapacity
       /\ i < Depth /\ pc \in {"running", "finished"} => frames[i].state = "suspended"
       /\ i < Depth - 1 /\ pc = "delivered" => frames[i].state = "suspended"
       /\ i = Depth /\ pc \in {"running", "finished", "delivered"} =>
            frames[i].state # "suspended"
       /\ i = Depth - 1 /\ pc = "delivered" => frames[i].state # "suspended"

\* The windows of the frames lie in the words in use, and the live words of a
\* frame below the window of every newer one.
Layout ==
  /\ used = IF Depth = 0 THEN 0 ELSE frames[Depth].base_word + StackCapacity
  /\ used <= Len(words) /\ Len(words) <= MaxWords
  /\ Depth <= Len(memories) /\ Len(memories) <= MaxRows
  /\ Depth > 0 => reserved = Lists
  /\ \A i \in 1 .. Depth : frames[i].bound
  /\ \A i, j \in 1 .. Depth : i < j => frames[i].base_word <= frames[j].base_word
  /\ \A i, j \in 1 .. LiveRows :
       i < j => frames[i].base_word + frames[i].len <= frames[j].base_word

\* Checkpoints are numbered from the oldest row that owns one, which is the
\* first or the second.
Checkpoints ==
  /\ Depth > 0 => frames[1].checkpoint \in {0, 1}
  /\ \A i \in 1 .. Depth : frames[i].checkpoint = frames[1].checkpoint + i - 1
  /\ Len(scopes) = IF LiveRows = 0 THEN 0 ELSE frames[1].checkpoint + LiveRows - 1

Inv == Types /\ Control /\ Layout /\ Checkpoints

-----------------------------------------------------------------------------
(***************************************************************************)
(* Sequences.                                                              *)
(***************************************************************************)
LEMMA FrontIs ==
  ASSUME NEW S, NEW s \in Seq(S), Len(s) > 0
  PROVE  /\ Front(s) \in Seq(S) /\ Len(Front(s)) = Len(s) - 1
         /\ \A i \in 1 .. Len(s) - 1 : Front(s)[i] = s[i]
<1>1. Len(s) \in Nat /\ \A i \in 1 .. Len(s) - 1 : s[i] \in S
  BY LenProperties
<1>2. Len(s) - 1 \in Int /\ 1 \in Int
  BY <1>1
<1>3. /\ SubSeq(s, 1, Len(s) - 1) \in Seq(S)
      /\ Len(SubSeq(s, 1, Len(s) - 1)) = IF 1 <= Len(s) - 1 THEN Len(s) - 1 - 1 + 1 ELSE 0
      /\ \A i \in 1 .. Len(s) - 1 - 1 + 1 : SubSeq(s, 1, Len(s) - 1)[i] = s[1 + i - 1]
  BY <1>1, <1>2, SubSeqProperties
<1> DEFINE f == SubSeq(s, 1, Len(s) - 1)
           n == Len(s)
<1>4. f \in Seq(S) /\ Len(f) = (IF 1 <= n - 1 THEN n - 1 - 1 + 1 ELSE 0)
      /\ \A i \in 1 .. n - 1 - 1 + 1 : f[i] = s[1 + i - 1]
  BY <1>3
<1>5. n \in Nat /\ n > 0
  BY <1>1
<1> HIDE DEF f, n
<1>6. Len(f) = n - 1 /\ \A i \in 1 .. n - 1 : f[i] = s[i]
  BY <1>4, <1>5
<1> QED BY <1>4, <1>6 DEF Front, f, n

LEMMA TopReplaced ==
  ASSUME NEW S, NEW s \in Seq(S), Len(s) > 0, NEW v \in S
  PROVE  LET t == Append(Front(s), v) IN
         /\ t \in Seq(S) /\ Len(t) = Len(s) /\ t[Len(s)] = v
         /\ \A i \in 1 .. Len(s) - 1 : t[i] = s[i]
<1>1. Front(s) \in Seq(S) /\ Len(Front(s)) = Len(s) - 1
      /\ \A i \in 1 .. Len(s) - 1 : Front(s)[i] = s[i]
  BY FrontIs
<1>2. Len(s) \in Nat
  BY LenProperties
<1> DEFINE f == Front(s)
<1>3. /\ Append(f, v) \in Seq(S) /\ Len(Append(f, v)) = Len(f) + 1
      /\ \A i \in 1 .. Len(f) : Append(f, v)[i] = f[i]
      /\ Append(f, v)[Len(f) + 1] = v
  BY <1>1, AppendProperties
<1>4. f \in Seq(S) /\ Len(f) = Len(s) - 1 /\ \A i \in 1 .. Len(s) - 1 : f[i] = s[i]
  BY <1>1
<1> HIDE DEF f
<1>5. Len(f) + 1 = Len(s)
  BY <1>2, <1>4
<1>6. \A i \in 1 .. Len(s) - 1 : Append(f, v)[i] = s[i]
  BY <1>3, <1>4
<1> QED BY <1>3, <1>5, <1>6 DEF f

\* Append to, and Append on the Front of, what need not be a sequence of a
\* known type.
Tabulated(f, n) == [i \in 1 .. n |-> f[i]]
WithLast(f, n, v) == [i \in 1 .. n |-> IF i = n THEN v ELSE f[i]]
WithMore(f, n, v) == [i \in 1 .. n + 1 |-> IF i = n + 1 THEN v ELSE f[i]]

LEMMA FunctionTop ==
  ASSUME NEW n \in Nat, NEW f, f = Tabulated(f, n), NEW v
  PROVE  /\ Len(f) = n
         /\ Append(f, v) = WithMore(f, n, v)
         /\ n > 0 => /\ Front(f) = Tabulated(f, n - 1)
                     /\ Append(Front(f), v) = WithLast(f, n, v)
<1> USE DEF Tabulated, WithLast, WithMore
<1> DEFINE S == {f[i] : i \in 1 .. n} \union {v}
<1>1. f \in Seq(S) /\ Len(f) = n /\ v \in S
  OBVIOUS
<1> HIDE DEF S
<1>2. Append(f, v) = [i \in 1 .. n + 1 |-> IF i = n + 1 THEN v ELSE f[i]]
  BY <1>1
<1>3. ASSUME n > 0
      PROVE  /\ Front(f) = [i \in 1 .. n - 1 |-> f[i]]
             /\ Append(Front(f), v) = [i \in 1 .. n |-> IF i = n THEN v ELSE f[i]]
  <2> DEFINE g == Front(f)
  <2>1. g \in Seq(S) /\ Len(g) = n - 1 /\ \A i \in 1 .. n - 1 : g[i] = f[i]
    BY <1>1, <1>3, FrontIs
  <2> HIDE DEF g
  <2>2. g = [i \in 1 .. n - 1 |-> f[i]]
    <3>1. g \in [1 .. n - 1 -> S]
      BY <2>1, LenProperties
    <3> QED BY <2>1, <3>1
  <2>3. Append(g, v) = [i \in 1 .. n |-> IF i = n THEN v ELSE f[i]]
    <3> DEFINE a == Append(g, v)
    <3>1. a \in Seq(S) /\ Len(a) = Len(g) + 1
          /\ (\A i \in 1 .. Len(g) : a[i] = g[i]) /\ a[Len(g) + 1] = v
      BY <1>1, <2>1, AppendProperties
    <3> HIDE DEF a
    <3>2. Len(g) + 1 = n
      BY <1>3, <2>1
    <3>3. a \in [1 .. n -> S]
      BY <3>1, <3>2, LenProperties
    <3>4. ASSUME NEW i \in 1 .. n PROVE a[i] = IF i = n THEN v ELSE f[i]
      <4>1. CASE i = n
        BY <3>1, <3>2, <4>1
      <4>2. CASE i # n
        <5>1. i \in 1 .. n - 1 /\ Len(g) = n - 1
          BY <2>1, <4>2
        <5> QED BY <2>1, <3>1, <4>2, <5>1
      <4> QED BY <4>1, <4>2
    <3>5. a = [i \in 1 .. n |-> IF i = n THEN v ELSE f[i]]
      BY <3>3, <3>4
    <3> QED BY <3>5 DEF a
  <2> QED BY <2>2, <2>3 DEF g
<1> QED BY <1>1, <1>2, <1>3

-----------------------------------------------------------------------------
(***************************************************************************)
(* The inductive invariant.                                                *)
(***************************************************************************)
LEMMA InitEstablishes == Init => Inv
<1> SUFFICES ASSUME Init PROVE Inv
  OBVIOUS
<1> USE RuntimeConstants
<1>1. Depth = 0 /\ LiveRows = 0 /\ Len(scopes) = 0 /\ Len(words) = 0 /\ Len(memories) = 0
  BY DEF Init, Depth, LiveRows
<1>2. Types
  <2>1. reserved \in 0 .. Lists /\ used \in Nat
    BY DEF Init, Lists
  <2>2. frames \in Seq(Row) /\ memories \in Seq({Clear, Data}) /\ words \in Seq(Nat)
        /\ scopes \in Seq(Worlds)
    BY DEF Init
  <2>3. top_frame_resolved \in BOOLEAN /\ result \in [ok : BOOLEAN, row : Nat]
    BY DEF Init, Result
  <2> QED BY <2>1, <2>2, <2>3 DEF Init, Types
<1>3. Control
  BY <1>1 DEF Init, Control
<1>4. Layout
  BY <1>1 DEF Init, Layout
<1>5. Checkpoints
  BY <1>1 DEF Checkpoints
<1> QED BY <1>2, <1>3, <1>4, <1>5 DEF Inv

\* A runtime that runs has a newest frame, which nobody has resolved.
LEMMA RunningHasTop ==
  ASSUME Inv, pc \in {"running", "finished", "delivered", "failed"}
  PROVE  /\ Depth \in Nat \ {0} /\ Depth = Len(frames) /\ Top = frames[Depth] /\ Top \in Row
         /\ frames \in Seq(Row) /\ Parent = Depth - 1 /\ Parent \in Nat
         /\ LiveRows = IF top_frame_resolved THEN Parent ELSE Depth
         /\ pc = "running" => ~top_frame_resolved
<1>1. frames \in Seq(Row) /\ Len(frames) \in Nat
  BY DEF Inv, Types
<1>2. Depth \in Nat \ {0}
  BY <1>1 DEF Inv, Control, Depth
<1>3. frames[Depth] \in Row
  BY <1>1, <1>2, ElementOfSeq DEF Depth
<1> QED BY <1>1, <1>2, <1>3 DEF Depth, Top, Last, Parent, LiveRows, Inv, Control, Types

\* The newest frame changes its live words or its state; nothing else moves.
LEMMA RunningPreserves ==
  ASSUME Inv, pc = "running", pc' \in {"running", "failed"},
         NEW row \in Row, row.checkpoint = Top.checkpoint, row.base_word = Top.base_word, row.bound,
         row.state = "suspended" => pc' = "failed" /\ row.len < StackCapacity,
         frames' \in Seq(Row), Len(frames') = Len(frames), frames'[Len(frames)] = row,
         \A i \in 1 .. Len(frames) - 1 : frames'[i] = frames[i],
         memories' \in Seq({Clear, Data}), Len(memories') = Len(memories),
         words' \in Seq(Nat), Len(words') = Len(words),
         world' \in Worlds, UNCHANGED <<reserved, used, scopes, outcome>>
  PROVE  Inv'
<1> USE RuntimeConstants
<1>0. /\ Depth \in Nat \ {0} /\ Depth = Len(frames) /\ Top = frames[Depth] /\ Top \in Row
      /\ ~top_frame_resolved /\ LiveRows = Depth
  BY RunningHasTop
<1>1. /\ Depth' = Depth /\ LiveRows' = Depth /\ ~top_frame_resolved'
      /\ frames'[Depth] = row /\ \A i \in 1 .. Depth - 1 : frames'[i] = frames[i]
  BY <1>0 DEF Depth, LiveRows, outcome
<1>2. Types'
  BY DEF Inv, Types, outcome
<1>3. Control'
  BY <1>0, <1>1 DEF Inv, Control
<1>4. \A i \in 1 .. Depth : /\ frames'[i].base_word = frames[i].base_word
                            /\ frames'[i].checkpoint = frames[i].checkpoint
                            /\ frames'[i].bound
                            /\ i < Depth => frames'[i].len = frames[i].len
  <2>1. ASSUME NEW i \in 1 .. Depth
        PROVE  /\ frames'[i].base_word = frames[i].base_word
               /\ frames'[i].checkpoint = frames[i].checkpoint
               /\ frames'[i].bound
               /\ i < Depth => frames'[i].len = frames[i].len
    <3>1. CASE i = Depth
      BY <1>0, <1>1, <3>1
    <3>2. CASE i # Depth
      <4>1. i \in 1 .. Depth - 1
        BY <1>0, <3>2
      <4> QED BY <1>1, <4>1 DEF Inv, Layout
    <3> QED BY <3>1, <3>2
  <2> QED BY <2>1
<1>5. Layout'
  <2>1. used' = frames'[Depth].base_word + StackCapacity
    BY <1>0, <1>4 DEF Inv, Layout
  <2>2. \A i, j \in 1 .. Depth : i < j => frames'[i].base_word <= frames'[j].base_word
    BY <1>4 DEF Inv, Layout
  <2>3. \A i, j \in 1 .. Depth :
          i < j => frames'[i].base_word + frames'[i].len <= frames'[j].base_word
    <3>1. \A i, j \in 1 .. Depth : i < j => frames[i].base_word + frames[i].len <= frames[j].base_word
      BY <1>0 DEF Inv, Layout
    <3>2. \A i, j \in 1 .. Depth : i < j => i < Depth
      BY <1>0
    <3> QED BY <1>4, <3>1, <3>2
  <2>4. \A i \in 1 .. Depth : frames'[i].bound
    BY <1>4
  <2> QED BY <1>0, <1>1, <2>1, <2>2, <2>3, <2>4 DEF Inv, Layout
<1>6. Checkpoints'
  BY <1>0, <1>1, <1>4 DEF Inv, Checkpoints
<1> QED BY <1>2, <1>3, <1>5, <1>6 DEF Inv

\* The same for an action that keeps the rows as they are.
LEMMA SameRowsPreserves ==
  ASSUME Inv, pc = "running", pc' \in {"running", "failed"}, frames' = frames,
         memories' \in Seq({Clear, Data}), Len(memories') = Len(memories),
         words' \in Seq(Nat), Len(words') = Len(words),
         world' \in Worlds, UNCHANGED <<reserved, used, scopes, outcome>>
  PROVE  Inv'
<1>1. /\ Depth \in Nat \ {0} /\ Depth = Len(frames) /\ Top = frames[Depth] /\ Top \in Row
      /\ frames \in Seq(Row)
  BY RunningHasTop
<1>2. Top.bound /\ Top.state # "suspended"
  BY <1>1 DEF Inv, Layout, Control
<1>3. frames'[Len(frames)] = Top /\ \A i \in 1 .. Len(frames) - 1 : frames'[i] = frames[i]
  BY <1>1
<1> QED BY <1>1, <1>2, <1>3, RunningPreserves

\* And for one that replaces the newest row.
LEMMA NewTopPreserves ==
  ASSUME Inv, pc = "running", pc' \in {"running", "failed"},
         NEW n \in 0 .. StackCapacity, NEW st \in {"running", "suspended", "halted"},
         st = "suspended" => pc' = "failed" /\ n < StackCapacity,
         frames' = WithTop([Top EXCEPT !.len = n, !.state = st]),
         memories' \in Seq({Clear, Data}), Len(memories') = Len(memories),
         words' \in Seq(Nat), Len(words') = Len(words),
         world' \in Worlds, UNCHANGED <<reserved, used, scopes, outcome>>
  PROVE  Inv'
<1>1. /\ Depth \in Nat \ {0} /\ Depth = Len(frames) /\ Top = frames[Depth] /\ Top \in Row
      /\ frames \in Seq(Row) /\ Len(frames) > 0
  BY RunningHasTop
<1>2. Top.bound
  BY <1>1 DEF Inv, Layout
<1> DEFINE row == [Top EXCEPT !.len = n, !.state = st]
<1>3. /\ row \in Row /\ row.checkpoint = Top.checkpoint /\ row.base_word = Top.base_word
      /\ row.bound = Top.bound /\ row.state = st /\ row.len = n
  BY <1>1 DEF Row
<1>4. frames' = Append(Front(frames), row)
  BY DEF WithTop
<1> HIDE DEF row
<1>5. /\ frames' \in Seq(Row) /\ Len(frames') = Len(frames) /\ frames'[Len(frames)] = row
      /\ \A i \in 1 .. Len(frames) - 1 : frames'[i] = frames[i]
  <2>1. frames \in Seq(Row) /\ Len(frames) > 0 /\ row \in Row
    BY <1>1, <1>3
  <2>2. LET t == Append(Front(frames), row) IN
         /\ t \in Seq(Row) /\ Len(t) = Len(frames) /\ t[Len(frames)] = row
         /\ \A i \in 1 .. Len(frames) - 1 : t[i] = frames[i]
    BY <2>1, TopReplaced
  <2> QED BY <1>4, <2>2
<1> QED BY <1>2, <1>3, <1>5, RunningPreserves

\* The word behind a live frame's pointer exists.
LEMMA WordExists ==
  ASSUME Inv, NEW i \in 1 .. Depth
  PROVE  /\ frames[i] \in Row /\ frames[i].bound
         /\ frames[i].base_word + StackCapacity <= Len(words)
         /\ frames[i].base_word + StackCapacity <= used
<1> USE RuntimeConstants
<1>1. frames \in Seq(Row) /\ Depth = Len(frames) /\ Depth \in Nat
  BY DEF Inv, Types, Depth
<1>2. frames[i] \in Row /\ frames[Depth] \in Row /\ i <= Depth /\ Depth \in 1 .. Depth
  BY <1>1
<1>3. frames[i].base_word <= frames[Depth].base_word
  <2>1. frames[i].base_word \in Nat
    BY <1>2 DEF Row
  <2>2. CASE i = Depth
    BY <2>1, <2>2
  <2>3. CASE i < Depth
    BY <1>2, <2>3 DEF Inv, Layout
  <2> QED BY <1>1, <1>2, <2>2, <2>3
<1>4. used = frames[Depth].base_word + StackCapacity /\ used <= Len(words) /\ Len(words) \in Nat
  <2>1. used = (IF Depth = 0 THEN 0 ELSE frames[Depth].base_word + StackCapacity) /\ used <= Len(words)
    BY DEF Inv, Layout
  <2>2. words \in Seq(Nat) /\ Depth # 0
    BY <1>1, <1>2 DEF Inv, Types
  <2> QED BY <2>1, <2>2
<1>5. frames[i].base_word \in Nat /\ frames[Depth].base_word \in Nat
  BY <1>2 DEF Row
<1>6. frames[i].bound
  BY DEF Inv, Layout
<1>7. \A a, b, u, w \in Nat : a <= b /\ u = b + StackCapacity /\ u <= w
        => a + StackCapacity <= w /\ a + StackCapacity <= u
  OBVIOUS
<1>8. used \in Nat
  BY <1>4, <1>5, SMTT(30)
<1>9. /\ frames[i].base_word + StackCapacity <= Len(words)
      /\ frames[i].base_word + StackCapacity <= used
  BY <1>3, <1>4, <1>5, <1>7, <1>8
<1> QED BY <1>2, <1>6, <1>9

\* The interpreter pushes a word through the pointer of a live frame.
LEMMA WrittenIs ==
  ASSUME Inv, NEW i \in 1 .. Depth, frames[i].len < StackCapacity
  PROVE  LET p == frames[i].base_word + frames[i].len + 1 IN
         /\ p \in 1 .. Len(words)
         /\ Written(i) = [words EXCEPT ![p] = i]
         /\ Written(i) \in Seq(Nat) /\ Len(Written(i)) = Len(words)
         /\ Written(i)[p] = i /\ \A k \in 1 .. Len(words) \ {p} : Written(i)[k] = words[k]
<1> USE RuntimeConstants
<1> DEFINE p == frames[i].base_word + frames[i].len + 1
<1>1. frames[i] \in Row /\ frames[i].bound /\ frames[i].base_word + StackCapacity <= Len(words)
  BY WordExists
<1>2. words \in Seq(Nat) /\ Len(words) \in Nat /\ i \in Nat
  BY DEF Inv, Types
<1>3. p \in 1 .. Len(words)
  BY <1>1, <1>2, SMTT(30) DEF Row
<1>4. Written(i) = [words EXCEPT ![p] = i]
  BY <1>1 DEF Written
<1> HIDE DEF p
<1>5. /\ Written(i) \in Seq(Nat) /\ Len(Written(i)) = Len(words)
      /\ \A k \in 1 .. Len(words) : Written(i)[k] = IF k = p THEN i ELSE words[k]
  BY <1>2, <1>3, <1>4, ExceptSeq
<1>6. /\ Written(i)[p] = i /\ \A k \in 1 .. Len(words) \ {p} : Written(i)[k] = words[k]
  BY <1>3, <1>5
<1> QED BY <1>3, <1>4, <1>5, <1>6 DEF p

LEMMA StackPushPreserves == Inv /\ StackPush => Inv'
<1> SUFFICES ASSUME Inv, StackPush PROVE Inv'
  OBVIOUS
<1> USE RuntimeConstants
<1>1. /\ pc = "running" /\ Top.state = "running" /\ Top.len < StackCapacity
      /\ words' = Written(Len(frames)) /\ frames' = WithTop([Top EXCEPT !.len = @ + 1])
      /\ UNCHANGED <<reserved, memories, used, scopes, world, outcome, pc>>
  BY DEF StackPush, Running
<1>2. /\ Depth \in Nat \ {0} /\ Depth = Len(frames) /\ Top = frames[Depth] /\ Top \in Row
  BY <1>1, RunningHasTop
<1>3. Top.len + 1 \in 0 .. StackCapacity
  BY <1>1, <1>2 DEF Row
<1>4. frames' = WithTop([Top EXCEPT !.len = Top.len + 1, !.state = "running"])
  <2>1. [Top EXCEPT !.len = @ + 1] = [Top EXCEPT !.len = Top.len + 1, !.state = "running"]
    BY <1>1, <1>2 DEF Row
  <2> QED BY <1>1, <2>1
<1>5. words' \in Seq(Nat) /\ Len(words') = Len(words)
  <2>1. Depth \in 1 .. Depth /\ frames[Depth].len < StackCapacity
    BY <1>1, <1>2
  <2>2. Written(Depth) \in Seq(Nat) /\ Len(Written(Depth)) = Len(words)
    BY <2>1, WrittenIs
  <2> QED BY <1>1, <1>2, <2>2
<1> QED BY <1>1, <1>3, <1>4, <1>5, NewTopPreserves DEF Inv, Types

LEMMA StackPopPreserves == Inv /\ StackPop => Inv'
<1> SUFFICES ASSUME Inv, StackPop PROVE Inv'
  OBVIOUS
<1> USE RuntimeConstants
<1>1. /\ pc = "running" /\ Top.state = "running" /\ Top.len > 0
      /\ frames' = WithTop([Top EXCEPT !.len = @ - 1])
      /\ UNCHANGED <<store, scopes, world, outcome, pc>>
  BY DEF StackPop, Running
<1>2. Top \in Row
  BY <1>1, RunningHasTop
<1>3. Top.len - 1 \in 0 .. StackCapacity
  BY <1>1, <1>2 DEF Row
<1>4. frames' = WithTop([Top EXCEPT !.len = Top.len - 1, !.state = "running"])
  <2>1. [Top EXCEPT !.len = @ - 1] = [Top EXCEPT !.len = Top.len - 1, !.state = "running"]
    BY <1>1, <1>2 DEF Row
  <2> QED BY <1>1, <2>1
<1> QED BY <1>1, <1>3, <1>4, NewTopPreserves DEF Inv, Types, store

LEMMA WritesPreserve == Inv /\ (MemoryWrite \/ StateWrite \/ RuntimeError) => Inv'
<1> SUFFICES ASSUME Inv, MemoryWrite \/ StateWrite \/ RuntimeError PROVE Inv'
  OBVIOUS
<1>1. CASE MemoryWrite
  <2>1. /\ memories \in Seq({Clear, Data}) /\ Len(frames) \in 1 .. Len(memories)
        /\ Data \in {Clear, Data} /\ memories' = [memories EXCEPT ![Len(frames)] = Data]
    <3>1. Depth \in Nat \ {0} /\ Depth = Len(frames)
      BY <1>1, RunningHasTop DEF MemoryWrite, Running
    <3> QED BY <1>1, <3>1 DEF MemoryWrite, Inv, Types, Layout
  <2>2. memories' \in Seq({Clear, Data}) /\ Len(memories') = Len(memories)
    BY <2>1, ExceptSeq
  <2> QED BY <1>1, <2>2, SameRowsPreserves DEF MemoryWrite, Running, Inv, Types
<1>2. CASE StateWrite
  BY <1>2, SameRowsPreserves DEF StateWrite, Running, Inv, Types, store
<1>3. CASE RuntimeError
  BY <1>3, SameRowsPreserves DEF RuntimeError, Running, Inv, Types, store
<1> QED BY <1>1, <1>2, <1>3

\* The frame that asks for a call, its argument popped.
LEMMA SuspendedIs ==
  ASSUME Inv, pc = "running", Top.len > 0
  PROVE  /\ Suspended \in Seq(Row) /\ Len(Suspended) = Depth
         /\ \A i \in 1 .. Depth - 1 : Suspended[i] = frames[i]
         /\ LET row == Suspended[Depth] IN
            /\ row \in Row /\ row.kind = Top.kind /\ row.checkpoint = Top.checkpoint
            /\ row.base_word = Top.base_word /\ row.bound = Top.bound
            /\ row.len = Top.len - 1 /\ row.state = "suspended"
<1> USE RuntimeConstants
<1>1. /\ Depth \in Nat \ {0} /\ Depth = Len(frames) /\ Top = frames[Depth] /\ Top \in Row
      /\ frames \in Seq(Row)
  BY RunningHasTop
<1> DEFINE row == [Top EXCEPT !.len = @ - 1, !.state = "suspended"]
           m == Top.len - 1
<1>2. m \in 0 .. StackCapacity
  BY <1>1 DEF Row
<1>3. row = [Top EXCEPT !.len = m, !.state = "suspended"]
  BY <1>1 DEF Row
<1>4. Suspended = Append(Front(frames), row)
  BY DEF Suspended, WithTop
<1> HIDE DEF row, m
<1>5. /\ row \in Row /\ row.kind = Top.kind /\ row.checkpoint = Top.checkpoint
      /\ row.base_word = Top.base_word /\ row.bound = Top.bound
      /\ row.len = m /\ row.state = "suspended"
  BY <1>1, <1>2, <1>3 DEF Row
<1>6. frames \in Seq(Row) /\ Len(frames) > 0
  BY <1>1
<1>7. LET t == Append(Front(frames), row) IN
       /\ t \in Seq(Row) /\ Len(t) = Len(frames) /\ t[Len(frames)] = row
       /\ \A i \in 1 .. Len(frames) - 1 : t[i] = frames[i]
  BY <1>5, <1>6, TopReplaced
<1> QED BY <1>1, <1>4, <1>5, <1>7 DEF m

\* The output a row receives.
LEMMA ReceivedIs ==
  ASSUME Inv, NEW i \in 1 .. Depth, NEW bytes \in {Clear, Data}
  PROVE  LET m == Received(i, bytes) IN
         /\ m \in Seq({Clear, Data}) /\ Len(m) = Len(memories)
         /\ \A k \in 1 .. Len(memories) \ {i} : m[k] = memories[k]
         /\ m[i] = IF bytes = Clear THEN memories[i] ELSE bytes
<1>1. memories \in Seq({Clear, Data}) /\ i \in 1 .. Len(memories)
  BY DEF Inv, Types, Layout, Depth
<1> DEFINE v == IF bytes = Clear THEN memories[i] ELSE bytes
<1>2. v \in {Clear, Data}
  BY <1>1, ElementOfSeq
<1>3. Received(i, bytes) = [memories EXCEPT ![i] = v]
  BY <1>1 DEF Received
<1>4. v = IF bytes = Clear THEN memories[i] ELSE bytes
  OBVIOUS
<1> HIDE DEF v
<1> DEFINE m == [memories EXCEPT ![i] = v]
<1>5. /\ m \in Seq({Clear, Data}) /\ Len(m) = Len(memories)
      /\ \A k \in 1 .. Len(memories) : m[k] = IF k = i THEN v ELSE memories[k]
  BY <1>1, <1>2, ExceptSeq
<1> HIDE DEF m
<1>6. m[i] = v /\ \A k \in 1 .. Len(memories) \ {i} : m[k] = memories[k]
  BY <1>1, <1>5
<1> QED BY <1>3, <1>4, <1>5, <1>6 DEF m

\* The word that answers a call on the spot takes the place of its argument.
LEMMA AnsweredIs ==
  ASSUME Inv, pc = "running", Top.len > 0
  PROVE  LET p == Top.base_word + Top.len
             w == [words EXCEPT ![p] = IF Top.bound THEN Len(frames) ELSE @] IN
         /\ p \in 1 .. Len(words)
         /\ w \in Seq(Nat) /\ Len(w) = Len(words)
         /\ w[p] = Depth /\ \A k \in 1 .. Len(words) \ {p} : w[k] = words[k]
<1> USE RuntimeConstants
<1>1. /\ Depth \in Nat \ {0} /\ Depth = Len(frames) /\ Top = frames[Depth] /\ Top \in Row
      /\ Depth \in 1 .. Depth
  BY RunningHasTop
<1>2. Top.bound /\ Top.base_word + StackCapacity <= Len(words)
  BY <1>1, WordExists
<1>3. words \in Seq(Nat) /\ Len(words) \in Nat
  BY DEF Inv, Types
<1> DEFINE p == Top.base_word + Top.len
           w == [words EXCEPT ![p] = Depth]
<1>4. p \in 1 .. Len(words)
  BY <1>1, <1>2, <1>3 DEF Row
<1>5. [words EXCEPT ![p] = IF Top.bound THEN Len(frames) ELSE @] = w
  BY <1>1, <1>2
<1> HIDE DEF p
<1>6. /\ w \in Seq(Nat) /\ Len(w) = Len(words)
      /\ \A k \in 1 .. Len(words) : w[k] = IF k = p THEN Depth ELSE words[k]
  BY <1>1, <1>3, <1>4, ExceptSeq
<1> HIDE DEF w
<1>7. w[p] = Depth /\ \A k \in 1 .. Len(words) \ {p} : w[k] = words[k]
  BY <1>4, <1>6
<1> QED BY <1>4, <1>5, <1>6, <1>7 DEF p

LEMMA StartImmediatePreserves == Inv /\ StartImmediate => Inv'
<1> SUFFICES ASSUME Inv, StartImmediate PROVE Inv'
  OBVIOUS
<1> USE RuntimeConstants
<1>0. /\ pc = "running" /\ pc' = "running" /\ Top.state = "running" /\ Top.len > 0
      /\ world' \in Worlds /\ UNCHANGED <<reserved, used, scopes, outcome>>
  BY DEF StartImmediate, Running
<1>1. Depth \in Nat \ {0} /\ Depth = Len(frames) /\ Top = frames[Depth] /\ Top \in Row
  BY <1>0, RunningHasTop
<1>2. CASE /\ \E bytes \in {Clear, Data} : memories' = Received(Len(frames), bytes)
           /\ words' = [words EXCEPT ![Top.base_word + Top.len] =
                         IF Top.bound THEN Len(frames) ELSE @]
           /\ UNCHANGED frames
  <2>1. PICK bytes \in {Clear, Data} : memories' = Received(Depth, bytes)
    BY <1>1, <1>2
  <2>2. memories' \in Seq({Clear, Data}) /\ Len(memories') = Len(memories)
    BY <1>1, <2>1, ReceivedIs
  <2>3. words' \in Seq(Nat) /\ Len(words') = Len(words)
    BY <1>0, <1>2, AnsweredIs
  <2> QED BY <1>0, <1>2, <2>2, <2>3, SameRowsPreserves
<1>3. CASE /\ frames' = WithTop([Top EXCEPT !.len = @ - 1, !.state = "halted"])
           /\ UNCHANGED <<memories, words>>
  <2>1. Top.len - 1 \in 0 .. StackCapacity
    BY <1>0, <1>1 DEF Row
  <2>2. [Top EXCEPT !.len = @ - 1, !.state = "halted"]
          = [Top EXCEPT !.len = Top.len - 1, !.state = "halted"]
    BY <1>1 DEF Row
  <2>3. frames' = WithTop([Top EXCEPT !.len = Top.len - 1, !.state = "halted"])
    BY <1>3, <2>2
  <2> QED BY <1>0, <1>3, <2>1, <2>3, NewTopPreserves DEF Inv, Types
<1> QED BY <1>2, <1>3 DEF StartImmediate

LEMMA StartFailsPreserves == Inv /\ StartFails => Inv'
<1> SUFFICES ASSUME Inv, StartFails PROVE Inv'
  OBVIOUS
<1> USE RuntimeConstants
<1>0. /\ pc = "running" /\ pc' = "failed" /\ Top.state = "running" /\ Top.len > 0
      /\ UNCHANGED <<reserved, used, scopes, outcome>> /\ world \in Worlds
      /\ memories \in Seq({Clear, Data}) /\ words \in Seq(Nat)
  BY DEF StartFails, Running, Inv, Types
<1>1. Depth \in Nat \ {0} /\ Depth = Len(frames) /\ Top = frames[Depth] /\ Top \in Row
  BY <1>0, RunningHasTop
<1>a. Top.len - 1 \in 0 .. StackCapacity /\ Top.len - 1 < StackCapacity
  BY <1>0, <1>1 DEF Row
<1>2. CASE frames' = Suspended /\ UNCHANGED <<memories, words, world>>
  <2>1. [Top EXCEPT !.len = @ - 1, !.state = "suspended"]
          = [Top EXCEPT !.len = Top.len - 1, !.state = "suspended"]
    BY <1>1 DEF Row
  <2>2. frames' = WithTop([Top EXCEPT !.len = Top.len - 1, !.state = "suspended"])
    BY <1>2, <2>1 DEF Suspended
  <2> QED BY <1>0, <1>a, <1>2, <2>2, NewTopPreserves
<1>3. CASE /\ frames' = WithTop([Top EXCEPT !.len = @ - 1])
           /\ \E bytes \in {Clear, Data} : memories' = Received(Len(frames), bytes)
           /\ world' \in Worlds /\ UNCHANGED words
  <2>1. PICK bytes \in {Clear, Data} : memories' = Received(Depth, bytes)
    BY <1>1, <1>3
  <2>2. memories' \in Seq({Clear, Data}) /\ Len(memories') = Len(memories)
    BY <1>1, <2>1, ReceivedIs
  <2>3. [Top EXCEPT !.len = @ - 1] = [Top EXCEPT !.len = Top.len - 1, !.state = "running"]
    BY <1>0, <1>1 DEF Row
  <2>4. frames' = WithTop([Top EXCEPT !.len = Top.len - 1, !.state = "running"])
    BY <1>3, <2>3
  <2> QED BY <1>0, <1>a, <1>3, <2>2, <2>4, NewTopPreserves
<1>4. CASE /\ words' = [words EXCEPT ![Top.base_word + Top.len] =
                         IF Top.bound THEN Len(frames) ELSE @]
           /\ \E bytes \in {Clear, Data} : memories' = Received(Len(frames), bytes)
           /\ world' \in Worlds /\ UNCHANGED frames
  <2>1. PICK bytes \in {Clear, Data} : memories' = Received(Depth, bytes)
    BY <1>1, <1>4
  <2>2. memories' \in Seq({Clear, Data}) /\ Len(memories') = Len(memories)
    BY <1>1, <2>1, ReceivedIs
  <2>3. words' \in Seq(Nat) /\ Len(words') = Len(words)
    BY <1>0, <1>4, AnsweredIs
  <2> QED BY <1>0, <1>4, <2>2, <2>3, SameRowsPreserves
<1> QED BY <1>2, <1>3, <1>4 DEF StartFails

\* FinishFails of a root call, which has no checkpoint to restore.
LEMMA FinishRootFailsPreserves == Inv /\ FinishFails /\ Top.checkpoint = Root => Inv'
<1> SUFFICES ASSUME Inv, FinishFails, Top.checkpoint = Root PROVE Inv'
  OBVIOUS
<1>1. world' = world /\ scopes' = scopes
  BY DEF FinishFails, Restored, CloseScope
<1> QED BY <1>1, SameRowsPreserves DEF FinishFails, Inv, Types, store

-----------------------------------------------------------------------------
(***************************************************************************)
(* Pushing a row: on an empty store, or on the rows with the newest one    *)
(* suspended.                                                              *)
(***************************************************************************)
RowsOk(rows) ==
  /\ rows \in Seq(Row) /\ Len(rows) = Depth
  /\ \A i \in 1 .. Depth :
       /\ rows[i].base_word = frames[i].base_word /\ rows[i].checkpoint = frames[i].checkpoint
       /\ rows[i].bound /\ rows[i].state = "suspended" /\ rows[i].len < StackCapacity
  /\ \A i, j \in 1 .. Depth : i < j => rows[i].base_word + rows[i].len <= rows[j].base_word

LEMMA EmptyRowsOk == ASSUME Inv, pc = "idle" PROVE RowsOk(<<>>) /\ Depth = 0
<1>1. Depth = 0
  BY DEF Inv, Control
<1> QED BY <1>1 DEF RowsOk

LEMMA SuspendedRowsOk == ASSUME Inv, pc = "running", Top.len > 0 PROVE RowsOk(Suspended)
<1> USE RuntimeConstants
<1>1. /\ Depth \in Nat \ {0} /\ Depth = Len(frames) /\ Top = frames[Depth] /\ Top \in Row
      /\ frames \in Seq(Row) /\ LiveRows = Depth
  BY RunningHasTop
<1> DEFINE s == Suspended
<1>2. /\ s \in Seq(Row) /\ Len(s) = Depth
      /\ \A i \in 1 .. Depth - 1 : s[i] = frames[i]
      /\ s[Depth].checkpoint = Top.checkpoint
      /\ s[Depth].base_word = Top.base_word /\ s[Depth].bound = Top.bound
      /\ s[Depth].len = Top.len - 1 /\ s[Depth].state = "suspended"
  BY SuspendedIs
<1> HIDE DEF s
<1>3. Top.len - 1 < StackCapacity /\ Top.len \in Nat
  BY <1>1 DEF Row
<1>4. ASSUME NEW i \in 1 .. Depth
      PROVE  /\ s[i].base_word = frames[i].base_word /\ s[i].checkpoint = frames[i].checkpoint
             /\ s[i].bound /\ s[i].state = "suspended" /\ s[i].len < StackCapacity
             /\ i < Depth => s[i].len = frames[i].len
  <2>1. frames[i].bound
    BY DEF Inv, Layout
  <2>2. CASE i = Depth
    BY <1>1, <1>2, <1>3, <2>1, <2>2
  <2>3. CASE i # Depth
    <3>1. i \in 1 .. Depth - 1 /\ i < Depth
      BY <1>1, <2>3
    <3>2. frames[i].state = "suspended" /\ frames[i].len < StackCapacity
      BY <3>1 DEF Inv, Control
    <3> QED BY <1>2, <2>1, <3>1, <3>2
  <2> QED BY <2>2, <2>3
<1>5. \A i, j \in 1 .. Depth : i < j => s[i].base_word + s[i].len <= s[j].base_word
  <2>1. \A i, j \in 1 .. Depth : i < j => frames[i].base_word + frames[i].len <= frames[j].base_word
    BY <1>1 DEF Inv, Layout
  <2>2. \A i, j \in 1 .. Depth : i < j => i < Depth
    BY <1>1
  <2> QED BY <1>4, <2>1, <2>2
<1>6. RowsOk(s)
  BY <1>2, <1>4, <1>5 DEF RowsOk
<1> QED BY <1>6 DEF s

\* Every suspended window is rebound when the array moves.
LEMMA ReboundIs ==
  ASSUME NEW rows, RowsOk(rows), NEW moved \in BOOLEAN
  PROVE  RebindSuspended(rows, moved) = rows
<1>1. rows \in [1 .. Depth -> Row] /\ \A i \in 1 .. Depth : rows[i].bound
  BY LenProperties DEF RowsOk
<1>2. DOMAIN rows = 1 .. Depth
  BY <1>1
<1>3. ASSUME NEW i \in 1 .. Depth, NEW b, b = (IF moved THEN i \in Rebound(rows) ELSE rows[i].bound)
      PROVE  [rows[i] EXCEPT !.bound = b] = rows[i]
  <2>1. b = TRUE
    BY <1>1, <1>2, <1>3 DEF Rebound, Row
  <2>2. rows[i] \in Row /\ rows[i].bound = TRUE
    BY <1>1 DEF Row
  <2> QED BY <2>1, <2>2 DEF Row
<1>4. \A i \in DOMAIN rows :
        [rows[i] EXCEPT !.bound = IF moved THEN i \in Rebound(rows) ELSE @] = rows[i]
  BY <1>1, <1>2, <1>3
<1> QED BY <1>1, <1>2, <1>4 DEF RebindSuspended

\* Growing the array keeps the words in use.
LEMMA GrownIs ==
  ASSUME Inv, NEW base \in Nat, NEW grown \in EnsureStackRange(base)
  PROVE  /\ grown.moved \in BOOLEAN
         /\ grown.words \in Seq(Nat) /\ base + StackCapacity <= Len(grown.words)
         /\ Len(grown.words) <= MaxWords /\ Len(words) <= Len(grown.words)
         /\ \A k \in 1 .. used : grown.words[k] = words[k]
<1> USE RuntimeConstants
<1>1. words \in Seq(Nat) /\ Len(words) \in Nat /\ used \in Nat /\ used <= Len(words)
      /\ Len(words) <= MaxWords
  BY DEF Inv, Types, Layout
<1>2. CASE base + StackCapacity <= Len(words)
  <2>1. grown = [words |-> words, moved |-> FALSE]
    BY <1>2 DEF EnsureStackRange
  <2> QED BY <1>1, <1>2, <2>1
<1>3. CASE ~(base + StackCapacity <= Len(words))
  <2>1. PICK n \in base + StackCapacity .. MaxWords, moved \in BOOLEAN :
          grown = [words |-> [i \in 1 .. n |-> IF i <= (IF moved THEN used ELSE Len(words))
                                               THEN words[i] ELSE Undefined],
                   moved |-> moved]
    BY <1>3 DEF EnsureStackRange
  <2> DEFINE w == [i \in 1 .. n |-> IF i <= (IF moved THEN used ELSE Len(words))
                                    THEN words[i] ELSE Undefined]
  <2>2. n \in Nat /\ Len(words) < n
    BY <1>1, <1>3
  <2>3. \A i \in 1 .. Len(words) : words[i] \in Nat
    BY <1>1, ElementOfSeq
  <2>4. \A i \in 1 .. n : w[i] \in Nat
    BY <1>1, <2>2, <2>3 DEF Undefined
  <2>5. \A k \in 1 .. used : w[k] = words[k]
    BY <1>1, <2>2
  <2>6. grown.words = w /\ grown.moved = moved
    BY <2>1
  <2>7. w \in Seq(Nat) /\ Len(w) = n
    BY <2>2, <2>4
  <2> HIDE DEF w
  <2> QED BY <1>1, <2>2, <2>5, <2>6, <2>7
<1> QED BY <1>2, <1>3

\* The memory of the new row exists, is empty, and those below keep what they hold.
LEMMA ConstructedIs ==
  ASSUME Inv, NEW rows, RowsOk(rows), Depth < MaxRows
  PROVE  LET m == ConstructedRow(rows) IN
         /\ m \in Seq({Clear, Data}) /\ Depth + 1 <= Len(m) /\ Len(m) <= MaxRows
         /\ \A k \in 1 .. Depth : m[k] = memories[k]
<1> USE RuntimeConstants
<1>1. memories \in Seq({Clear, Data}) /\ Len(memories) \in Nat /\ Len(rows) = Depth
      /\ Depth \in Nat /\ Depth <= Len(memories) /\ Len(memories) <= MaxRows
  BY DEF Inv, Types, Layout, RowsOk, Depth
<1>2. CASE Depth < Len(memories)
  BY <1>1, <1>2 DEF ConstructedRow
<1>3. CASE ~(Depth < Len(memories))
  <2> DEFINE m == Append(memories, Clear)
  <2>1. m \in Seq({Clear, Data}) /\ Len(m) = Len(memories) + 1
        /\ \A k \in 1 .. Len(memories) : m[k] = memories[k]
    BY <1>1, AppendProperties
  <2>2. ConstructedRow(rows) = m
    BY <1>1, <1>3 DEF ConstructedRow
  <2> HIDE DEF m
  <2> QED BY <1>1, <1>3, <2>1, <2>2
<1> QED BY <1>2, <1>3

LEMMA InitMemoryIs ==
  ASSUME Inv, NEW rows, RowsOk(rows), Depth < MaxRows
  PROVE  LET m == InitMemory(rows) IN
         /\ m \in Seq({Clear, Data}) /\ Depth + 1 <= Len(m) /\ Len(m) <= MaxRows
         /\ \A k \in 1 .. Depth : m[k] = memories[k]
         /\ m[Depth + 1] = Clear
<1> DEFINE c == ConstructedRow(rows)
           m == [c EXCEPT ![Depth + 1] = Clear]
<1>1. Depth \in Nat /\ Len(rows) = Depth
  BY DEF Inv, Types, RowsOk, Depth
<1>2. /\ c \in Seq({Clear, Data}) /\ Depth + 1 <= Len(c) /\ Len(c) <= MaxRows
      /\ \A k \in 1 .. Depth : c[k] = memories[k]
  BY ConstructedIs
<1>3. InitMemory(rows) = m
  BY <1>1 DEF InitMemory
<1> HIDE DEF c
<1>4. Depth + 1 \in 1 .. Len(c) /\ Len(c) \in Nat
  BY <1>1, <1>2
<1>5. /\ m \in Seq({Clear, Data}) /\ Len(m) = Len(c)
      /\ \A k \in 1 .. Len(c) : m[k] = IF k = Depth + 1 THEN Clear ELSE c[k]
  BY <1>2, <1>4, ExceptSeq
<1> HIDE DEF m
<1>6. m[Depth + 1] = Clear /\ \A k \in 1 .. Depth : m[k] = memories[k]
  BY <1>1, <1>2, <1>4, <1>5
<1> QED BY <1>2, <1>3, <1>5, <1>6

\* The window of a new row.
LEMMA NextBaseIs ==
  ASSUME Inv, NEW rows, RowsOk(rows)
  PROVE  /\ NextStackBase(rows) \in Nat
         /\ Depth = 0 => NextStackBase(rows) = 0 /\ RestoreStackRange(rows) = 0
         /\ Depth > 0 => /\ NextStackBase(rows) = rows[Depth].base_word + rows[Depth].len
                         /\ RestoreStackRange(rows) = rows[Depth].base_word + StackCapacity
                         /\ rows[Depth] \in Row
         /\ RestoreStackRange(rows) = used
         /\ used <= NextStackBase(rows) + StackCapacity
<1> USE RuntimeConstants
<1>1. rows \in Seq(Row) /\ Len(rows) = Depth /\ Depth \in Nat
  BY DEF RowsOk, Inv, Types, Depth
<1>2. CASE Depth = 0
  <2>1. rows = <<>>
    BY <1>1, <1>2
  <2> QED BY <1>2, <2>1 DEF NextStackBase, RestoreStackRange, Inv, Layout
<1>3. CASE Depth > 0
  <2>1. rows # <<>> /\ Depth \in 1 .. Depth
    BY <1>1, <1>3
  <2>2. rows[Depth] \in Row /\ rows[Depth].base_word = frames[Depth].base_word
    BY <1>1, <2>1, ElementOfSeq DEF RowsOk
  <2>3. used = frames[Depth].base_word + StackCapacity
    BY <1>1, <1>3 DEF Inv, Layout
  <2>4. /\ NextStackBase(rows) = rows[Depth].base_word + rows[Depth].len
        /\ RestoreStackRange(rows) = rows[Depth].base_word + StackCapacity
    BY <1>1, <2>1 DEF NextStackBase, RestoreStackRange, Last
  <2>5. rows[Depth].base_word \in Nat /\ rows[Depth].len \in Nat
    BY <2>2 DEF Row
  <2> QED BY <1>3, <2>2, <2>3, <2>4, <2>5
<1> QED BY <1>1, <1>2, <1>3

NewRow(kind, checkpoint, base) ==
  [kind |-> kind, checkpoint |-> checkpoint, base_word |-> base,
   len |-> 0, bound |-> TRUE, state |-> "running"]

\* What a reservation leaves reserved; with all lists reserved it cannot fail.
LEMMA ReservedIs ==
  ASSUME Inv, NEW r \in ReserveStableMetadata
  PROVE  /\ r.ok => r.lists = Lists
         /\ r.lists \in 0 .. Lists
         /\ ~r.ok => reserved # Lists
<1>1. reserved \in 0 .. Lists /\ Lists = 4
  BY DEF Inv, Types, Lists
<1>2. CASE reserved = Lists
  <2>1. r = [lists |-> Lists, ok |-> TRUE]
    BY <1>2 DEF ReserveStableMetadata
  <2>2. r.lists = Lists /\ r.ok
    BY <2>1
  <2> QED BY <1>1, <2>2
<1>3. CASE reserved # Lists
  <2>1. PICK n \in reserved .. Lists : r = [lists |-> n, ok |-> (n = Lists)]
    BY <1>3 DEF ReserveStableMetadata, Reserving
  <2>2. r.lists = n /\ r.ok = (n = Lists)
    BY <2>1
  <2>3. n \in 0 .. Lists
    BY <1>1, <2>1
  <2>4. r.ok => r.lists = Lists
    BY <2>2, Zenon
  <2> QED BY <1>3, <2>2, <2>3, <2>4
<1> QED BY <1>2, <1>3

LEMMA PushIs ==
  ASSUME Inv, NEW rows, RowsOk(rows), Depth < MaxRows,
         NEW kind \in Kinds \union {"root_call"}, NEW checkpoint \in Nat,
         Push(rows, kind, checkpoint)
  PROVE  LET base == NextStackBase(rows)
             row == NewRow(kind, checkpoint, base) IN
         /\ reserved' = Lists /\ base \in Nat /\ row \in Row
         /\ memories' \in Seq({Clear, Data}) /\ Depth + 1 <= Len(memories')
         /\ Len(memories') <= MaxRows /\ memories'[Depth + 1] = Clear
         /\ \A k \in 1 .. Depth : memories'[k] = memories[k]
         /\ words' \in Seq(Nat) /\ used' = base + StackCapacity
         /\ used' <= Len(words') /\ Len(words') <= MaxWords
         /\ \A k \in 1 .. used : words'[k] = words[k]
         /\ frames' \in Seq(Row) /\ Len(frames') = Depth + 1 /\ frames'[Depth + 1] = row
         /\ \A i \in 1 .. Depth : frames'[i] = rows[i]
<1> USE RuntimeConstants
<1> DEFINE base == NextStackBase(rows)
           row == NewRow(kind, checkpoint, base)
<1>1. base \in Nat /\ used <= base + StackCapacity /\ used \in Nat
  BY NextBaseIs DEF Inv, Types
<1>2. PICK r \in ReserveStableMetadata, grown \in EnsureStackRange(base) :
        /\ r.ok /\ reserved' = r.lists /\ memories' = InitMemory(rows) /\ words' = grown.words
        /\ used' = IF used < base + StackCapacity THEN base + StackCapacity ELSE used
        /\ frames' = Append(RebindSuspended(rows, grown.moved), row)
  BY DEF Push, NewRow
<1>3. reserved' = Lists
  BY <1>2, ReservedIs
<1>4. row \in Row
  BY <1>1 DEF Row, NewRow
<1>5. /\ grown.moved \in BOOLEAN /\ grown.words \in Seq(Nat)
      /\ base + StackCapacity <= Len(grown.words) /\ Len(grown.words) <= MaxWords
      /\ \A k \in 1 .. used : grown.words[k] = words[k]
  BY <1>1, GrownIs
<1>6. used' = base + StackCapacity
  BY <1>1, <1>2
<1>7. frames' = Append(rows, row)
  BY <1>2, <1>5, ReboundIs
<1> HIDE DEF row, base
<1>8. rows \in Seq(Row) /\ Len(rows) = Depth
  BY DEF RowsOk
<1>9. /\ frames' \in Seq(Row) /\ Len(frames') = Depth + 1 /\ frames'[Depth + 1] = row
      /\ \A i \in 1 .. Depth : frames'[i] = rows[i]
  <2> DEFINE f == Append(rows, row)
  <2>1. /\ f \in Seq(Row) /\ Len(f) = Len(rows) + 1 /\ f[Len(rows) + 1] = row
        /\ \A i \in 1 .. Len(rows) : f[i] = rows[i]
    BY <1>4, <1>8, AppendProperties
  <2> HIDE DEF f
  <2>2. frames' = f
    BY <1>7 DEF f
  <2> QED BY <1>8, <2>1, <2>2
<1>10. /\ memories' \in Seq({Clear, Data}) /\ Depth + 1 <= Len(memories')
       /\ Len(memories') <= MaxRows /\ memories'[Depth + 1] = Clear
       /\ \A k \in 1 .. Depth : memories'[k] = memories[k]
  BY <1>2, InitMemoryIs
<1>11. words' \in Seq(Nat) /\ used' <= Len(words') /\ Len(words') <= MaxWords
       /\ \A k \in 1 .. used : words'[k] = words[k]
  BY <1>2, <1>5, <1>6
<1> QED BY <1>1, <1>3, <1>4, <1>6, <1>9, <1>10, <1>11 DEF row, base

LEMMA PushPreserves ==
  ASSUME Inv, pc \in {"idle", "running"}, NEW rows, RowsOk(rows), Depth < MaxRows,
         NEW kind \in Kinds \union {"root_call"}, NEW checkpoint \in Nat,
         Push(rows, kind, checkpoint),
         \/ checkpoint = Len(scopes) + 1 /\ scopes' = OpenScope
         \/ checkpoint = Root /\ scopes' = scopes /\ pc = "idle",
         world' \in Worlds, UNCHANGED outcome, pc' = "running"
  PROVE  Inv'
<1> USE RuntimeConstants
<1> DEFINE base == NextStackBase(rows)
           row == NewRow(kind, checkpoint, base)
<1>0. Depth \in Nat /\ ~top_frame_resolved /\ LiveRows = Depth /\ world \in Worlds
      /\ scopes \in Seq(Worlds)
  BY DEF Inv, Types, Control, Depth, LiveRows
<1>1. /\ reserved' = Lists /\ base \in Nat /\ row \in Row
      /\ memories' \in Seq({Clear, Data}) /\ Depth + 1 <= Len(memories')
      /\ Len(memories') <= MaxRows
      /\ words' \in Seq(Nat) /\ used' = base + StackCapacity
      /\ used' <= Len(words') /\ Len(words') <= MaxWords
      /\ frames' \in Seq(Row) /\ Len(frames') = Depth + 1 /\ frames'[Depth + 1] = row
      /\ \A i \in 1 .. Depth : frames'[i] = rows[i]
  BY PushIs
<1>2. /\ row.checkpoint = checkpoint /\ row.base_word = base /\ row.len = 0 /\ row.bound
      /\ row.state = "running"
  BY DEF NewRow
<1>3. Depth > 0 => base = rows[Depth].base_word + rows[Depth].len /\ rows[Depth] \in Row
  BY NextBaseIs
<1> HIDE DEF row, base
<1>4. Depth' = Depth + 1 /\ LiveRows' = Depth + 1 /\ ~top_frame_resolved'
  BY <1>0, <1>1 DEF Depth, LiveRows, outcome
<1>5. scopes' \in Seq(Worlds)
  BY <1>0, AppendProperties DEF OpenScope
<1>6. Types'
  BY <1>1, <1>4, <1>5 DEF Inv, Types, outcome, Lists
<1>7. ASSUME NEW i \in 1 .. Depth + 1
      PROVE  (i \in 1 .. Depth /\ frames'[i] = rows[i]) \/ (i = Depth + 1 /\ frames'[i] = row)
  <2>1. i \in 1 .. Depth \/ i = Depth + 1
    BY <1>0, <1>7
  <2> QED BY <1>0, <1>1, <2>1
<1>8. Control'
  <2>1. \A i \in 1 .. Depth + 1 :
          /\ frames'[i].state = "suspended" => frames'[i].len < StackCapacity
          /\ i < Depth + 1 => frames'[i].state = "suspended"
          /\ i = Depth + 1 => frames'[i].state # "suspended"
    BY <1>0, <1>2, <1>7 DEF RowsOk
  <2> QED BY <1>0, <1>4, <2>1 DEF Control
<1>9. Layout'
  <2>1. \A i \in 1 .. Depth + 1 : frames'[i].bound
    BY <1>2, <1>7 DEF RowsOk
  <2>2. ASSUME NEW i \in 1 .. Depth PROVE rows[i].base_word + rows[i].len <= base
    <3>1. Depth > 0 /\ Depth \in 1 .. Depth /\ rows[i] \in Row /\ rows[Depth] \in Row
      BY <1>0, ElementOfSeq DEF RowsOk
    <3>2. /\ rows[i].base_word \in Nat /\ rows[i].len \in Nat
          /\ rows[Depth].base_word \in Nat /\ rows[Depth].len \in Nat
      BY <3>1 DEF Row
    <3>3. CASE i = Depth
      BY <1>3, <3>1, <3>2, <3>3
    <3>4. CASE i # Depth
      <4>1. rows[i].base_word + rows[i].len <= rows[Depth].base_word
        BY <1>0, <3>1, <3>4 DEF RowsOk
      <4>2. base = rows[Depth].base_word + rows[Depth].len
        BY <1>3, <3>1
      <4>3. \A x, y, z \in Nat : x <= y => x <= y + z
        OBVIOUS
      <4>4. rows[i].base_word + rows[i].len \in Nat
        BY <3>2, SMTT(30)
      <4> QED BY <3>2, <4>1, <4>2, <4>3, <4>4
    <3> QED BY <3>3, <3>4
  <2>3. ASSUME NEW i \in 1 .. Depth + 1, NEW j \in 1 .. Depth + 1, i < j
        PROVE  frames'[i].base_word + frames'[i].len <= frames'[j].base_word
    <3>1. i \in 1 .. Depth /\ frames'[i] = rows[i]
      BY <1>0, <1>1, <2>3
    <3>2. CASE j \in 1 .. Depth /\ frames'[j] = rows[j]
      BY <2>3, <3>1, <3>2 DEF RowsOk
    <3>3. CASE j = Depth + 1 /\ frames'[j] = row
      BY <1>2, <2>2, <3>1, <3>3
    <3> QED BY <1>7, <3>2, <3>3
  <2>4. \A i \in 1 .. Depth + 1 : frames'[i].base_word \in Nat /\ frames'[i].len \in Nat
    <3>1. \A i \in 1 .. Depth + 1 : frames'[i] \in Row
      BY <1>1, ElementOfSeq
    <3> QED BY <3>1 DEF Row
  <2>5. \A i, j \in 1 .. Depth + 1 : i < j => frames'[i].base_word <= frames'[j].base_word
    BY <2>3, <2>4
  <2> QED BY <1>0, <1>1, <1>2, <1>4, <2>1, <2>3, <2>5 DEF Layout
<1>10. Checkpoints'
  <2>1. /\ Depth > 0 => frames[1].checkpoint \in {0, 1}
        /\ \A i \in 1 .. Depth : frames[i].checkpoint = frames[1].checkpoint + i - 1
        /\ Len(scopes) = IF Depth = 0 THEN 0 ELSE frames[1].checkpoint + Depth - 1
    BY <1>0 DEF Inv, Checkpoints
  <2>2. \A i \in 1 .. Depth : frames'[i].checkpoint = frames[i].checkpoint
    BY <1>7, <1>0, <1>1 DEF RowsOk
  <2>3. frames'[Depth + 1].checkpoint = checkpoint
    BY <1>1, <1>2
  <2>4. \/ checkpoint = Len(scopes) + 1 /\ Len(scopes') = Len(scopes) + 1
        \/ checkpoint = 0 /\ Len(scopes') = Len(scopes) /\ Depth = 0
    <3>1. Len(OpenScope) = Len(scopes) + 1
      BY <1>0, AppendProperties DEF OpenScope
    <3> QED BY <3>1 DEF Root, Inv, Control
  <2>5. CASE Depth = 0
    <3>1. \A i \in 1 .. Depth + 1 : i = 1
      BY <2>5
    <3>2. frames'[1].checkpoint \in {0, 1} /\ Len(scopes') = frames'[1].checkpoint
      <4>1. Len(scopes) = 0 /\ Depth + 1 = 1
        BY <2>1, <2>5
      <4>2. frames'[1].checkpoint = checkpoint
        BY <2>3, <4>1
      <4>3. CASE checkpoint = Len(scopes) + 1 /\ Len(scopes') = Len(scopes) + 1
        <5>1. checkpoint = 1 /\ Len(scopes') = 1
          BY <4>1, <4>3
        <5> QED BY <4>2, <5>1
      <4>4. CASE checkpoint = 0 /\ Len(scopes') = Len(scopes)
        BY <4>1, <4>2, <4>4
      <4> QED BY <2>4, <4>3, <4>4
    <3> QED BY <1>4, <2>5, <3>1, <3>2 DEF Checkpoints
  <2>6. CASE Depth > 0
    <3>1. 1 \in 1 .. Depth /\ frames'[1].checkpoint = frames[1].checkpoint
      BY <1>0, <2>2, <2>6
    <3>2. checkpoint = frames'[1].checkpoint + Depth /\ Len(scopes') = frames'[1].checkpoint + Depth
      BY <1>0, <2>1, <2>4, <2>6, <3>1
    <3>3. \A i \in 1 .. Depth + 1 : frames'[i].checkpoint = frames'[1].checkpoint + i - 1
      <4>1. ASSUME NEW i \in 1 .. Depth + 1
            PROVE  frames'[i].checkpoint = frames'[1].checkpoint + i - 1
        <5>1. CASE i \in 1 .. Depth
          BY <2>1, <2>2, <3>1, <5>1
        <5>2. CASE i = Depth + 1
          BY <1>0, <2>1, <2>3, <2>6, <3>1, <3>2, <5>2
        <5> QED BY <1>0, <5>1, <5>2
      <4> QED BY <4>1
    <3> QED BY <1>0, <1>4, <2>1, <2>6, <3>1, <3>2, <3>3 DEF Checkpoints
  <2> QED BY <1>0, <2>5, <2>6
<1> QED BY <1>6, <1>8, <1>9, <1>10 DEF Inv

\* A push that fails keeps the rows and the words in use.
LEMMA PushFailsIs ==
  ASSUME Inv, NEW rows, RowsOk(rows), Depth < MaxRows, PushFails(rows)
  PROVE  /\ frames' = rows /\ used' = used
         /\ reserved' \in 0 .. Lists /\ (Depth > 0 => reserved' = Lists)
         /\ memories' \in Seq({Clear, Data}) /\ Depth <= Len(memories')
         /\ Len(memories') <= MaxRows /\ \A k \in 1 .. Depth : memories'[k] = memories[k]
         /\ words' \in Seq(Nat) /\ used <= Len(words') /\ Len(words') <= MaxWords
         /\ \A k \in 1 .. used : words'[k] = words[k]
<1> USE RuntimeConstants
<1>0. /\ memories \in Seq({Clear, Data}) /\ Depth <= Len(memories) /\ Len(memories) <= MaxRows
      /\ words \in Seq(Nat) /\ used <= Len(words) /\ Len(words) <= MaxWords
      /\ Depth \in Nat /\ (Depth > 0 => reserved = Lists) /\ reserved \in 0 .. Lists
      /\ used \in Nat /\ Len(words) \in Nat
  BY DEF Inv, Types, Layout, Depth
<1>1. RestoreStackRange(rows) = used /\ NextStackBase(rows) \in Nat
  BY NextBaseIs
<1>2. Lists \in 0 .. Lists
  BY DEF Lists
<1>3. CASE /\ \E r \in ReserveStableMetadata : ~r.ok /\ reserved' = r.lists
           /\ frames' = rows /\ UNCHANGED <<memories, words, used>>
  <2>1. reserved' \in 0 .. Lists /\ reserved # Lists
    BY <1>3, ReservedIs
  <2> QED BY <1>0, <1>3, <2>1
<1>4. CASE reserved' = Lists /\ frames' = rows /\ UNCHANGED <<memories, words, used>>
  BY <1>0, <1>2, <1>4
<1>5. CASE /\ reserved' = Lists /\ memories' = ConstructedRow(rows) /\ frames' = rows
           /\ used' = RestoreStackRange(rows) /\ UNCHANGED words
  <2>1. /\ memories' \in Seq({Clear, Data}) /\ Depth + 1 <= Len(memories')
        /\ Len(memories') <= MaxRows /\ \A k \in 1 .. Depth : memories'[k] = memories[k]
    BY <1>5, ConstructedIs
  <2> QED BY <1>0, <1>1, <1>2, <1>5, <2>1
<1>6. CASE \E grown \in EnsureStackRange(NextStackBase(rows)) :
             /\ reserved' = Lists /\ memories' = InitMemory(rows) /\ words' = grown.words
             /\ frames' = RebindSuspended(rows, grown.moved)
             /\ used' = RestoreStackRange(rows)
  <2> DEFINE base == NextStackBase(rows)
  <2>0. base \in Nat
    BY <1>1
  <2>1. PICK grown \in EnsureStackRange(base) :
             /\ reserved' = Lists /\ memories' = InitMemory(rows) /\ words' = grown.words
             /\ frames' = RebindSuspended(rows, grown.moved)
             /\ used' = RestoreStackRange(rows)
    BY <1>6
  <2> HIDE DEF base
  <2>2. /\ grown.moved \in BOOLEAN
        /\ grown.words \in Seq(Nat) /\ base + StackCapacity <= Len(grown.words)
        /\ Len(grown.words) <= MaxWords /\ Len(words) <= Len(grown.words)
        /\ \A k \in 1 .. used : grown.words[k] = words[k]
    BY <2>0, GrownIs
  <2>3. frames' = rows
    BY <2>1, <2>2, ReboundIs
  <2>4. /\ memories' \in Seq({Clear, Data}) /\ Depth + 1 <= Len(memories')
        /\ Len(memories') <= MaxRows /\ \A k \in 1 .. Depth : memories'[k] = memories[k]
    BY <2>1, InitMemoryIs
  <2>5. used <= Len(words')
    <3>1. Len(words') \in Nat
      BY <2>1, <2>2
    <3> QED BY <1>0, <2>1, <2>2, <3>1
  <2> QED BY <1>0, <1>1, <1>2, <2>1, <2>2, <2>3, <2>4, <2>5
<1> QED BY <1>3, <1>4, <1>5, <1>6 DEF PushFails

LEMMA PushFailsPreserves ==
  ASSUME Inv, pc \in {"idle", "running"}, NEW rows, RowsOk(rows), Depth < MaxRows,
         PushFails(rows), pc' = IF pc = "idle" THEN "idle" ELSE "failed",
         UNCHANGED <<scopes, world, outcome>>
  PROVE  Inv'
<1> USE RuntimeConstants
<1>0. /\ Depth \in Nat /\ ~top_frame_resolved /\ LiveRows = Depth /\ (pc = "idle" <=> Depth = 0)
      /\ rows \in Seq(Row) /\ Len(rows) = Depth
  BY DEF Inv, Types, Control, Depth, LiveRows, RowsOk
<1>1. /\ frames' = rows /\ used' = used
      /\ reserved' \in 0 .. Lists /\ (Depth > 0 => reserved' = Lists)
      /\ memories' \in Seq({Clear, Data}) /\ Depth <= Len(memories')
      /\ Len(memories') <= MaxRows
      /\ words' \in Seq(Nat) /\ used <= Len(words') /\ Len(words') <= MaxWords
  BY PushFailsIs
<1>2. Depth' = Depth /\ LiveRows' = Depth /\ ~top_frame_resolved'
  BY <1>0, <1>1 DEF Depth, LiveRows, outcome
<1>3. Types'
  BY <1>0, <1>1 DEF Inv, Types, outcome
<1>4. Control'
  BY <1>0, <1>1, <1>2 DEF Control, RowsOk
<1>5. \A i \in 1 .. Depth : frames'[i] = rows[i] /\ rows[i].base_word = frames[i].base_word
                            /\ rows[i].checkpoint = frames[i].checkpoint /\ rows[i].bound
  BY <1>1 DEF RowsOk
<1>6. Layout'
  <2>1. used' = IF Depth = 0 THEN 0 ELSE frames'[Depth].base_word + StackCapacity
    BY <1>0, <1>1, <1>5 DEF Inv, Layout
  <2>2. \A i, j \in 1 .. Depth : i < j => frames'[i].base_word <= frames'[j].base_word
    BY <1>5 DEF Inv, Layout
  <2>3. \A i, j \in 1 .. Depth :
          i < j => frames'[i].base_word + frames'[i].len <= frames'[j].base_word
    BY <1>1 DEF RowsOk
  <2>4. \A i \in 1 .. Depth : frames'[i].bound
    BY <1>5
  <2> QED BY <1>1, <1>2, <2>1, <2>2, <2>3, <2>4 DEF Layout
<1>7. Checkpoints'
  BY <1>0, <1>2, <1>5 DEF Inv, Checkpoints
<1> QED BY <1>3, <1>4, <1>6, <1>7 DEF Inv

LEMMA StartsPreserve == Inv /\ (StartRoot \/ \E kind \in Kinds : StartMessage(kind)) => Inv'
<1> SUFFICES ASSUME Inv, StartRoot \/ \E kind \in Kinds : StartMessage(kind) PROVE Inv'
  OBVIOUS
<1> USE RuntimeConstants
<1>0. pc = "idle" /\ world \in Worlds /\ scopes \in Seq(Worlds)
  BY DEF StartRoot, StartMessage, Inv, Types
<1>1. RowsOk(<<>>) /\ Depth < MaxRows
  BY <1>0, EmptyRowsOk
<1>2. Root \in Nat /\ Len(scopes) + 1 \in Nat
  BY <1>0 DEF Root
<1>3. CASE StartRoot
  <2>1. CASE Push(<<>>, "root_call", Root) /\ pc' = "running"
    <3>1. UNCHANGED <<scopes, world, outcome>>
      BY <1>3 DEF StartRoot
    <3> QED BY <1>0, <1>1, <1>2, <2>1, <3>1, PushPreserves
  <2>2. CASE PushFails(<<>>) /\ UNCHANGED pc
    BY <1>0, <1>1, <1>3, <2>2, PushFailsPreserves DEF StartRoot
  <2> QED BY <1>3, <2>1, <2>2 DEF StartRoot
<1>4. ASSUME NEW kind \in Kinds, StartMessage(kind) PROVE Inv'
  <2>1. CASE /\ Push(<<>>, kind, Len(scopes) + 1) /\ scopes' = OpenScope
             /\ world' \in Worlds /\ pc' = "running"
    <3>1. UNCHANGED outcome
      BY <1>4 DEF StartMessage
    <3> QED BY <1>0, <1>1, <1>2, <2>1, <3>1, PushPreserves
  <2>2. CASE PushFails(<<>>) /\ OnPushFailure /\ UNCHANGED pc
    BY <1>0, <1>1, <1>4, <2>2, PushFailsPreserves DEF StartMessage, OnPushFailure
  <2> QED BY <1>4, <2>1, <2>2 DEF StartMessage
<1> QED BY <1>3, <1>4

LEMMA StartChildPreserves == \A kind \in Kinds : Inv /\ StartChild(kind) => Inv'
<1> SUFFICES ASSUME NEW kind \in Kinds, Inv, StartChild(kind) PROVE Inv'
  OBVIOUS
<1> USE RuntimeConstants
<1>0. pc = "running" /\ Top.len > 0 /\ Depth < MaxRows /\ world \in Worlds
      /\ Len(scopes) + 1 \in Nat /\ UNCHANGED outcome
  BY DEF StartChild, Running, Inv, Types, Depth
<1>1. RowsOk(Suspended)
  BY <1>0, SuspendedRowsOk
<1>2. CASE /\ Push(Suspended, kind, Len(scopes) + 1) /\ scopes' = OpenScope
           /\ world' \in Worlds /\ UNCHANGED pc
  BY <1>0, <1>1, <1>2, PushPreserves
<1>3. CASE PushFails(Suspended) /\ OnPushFailure /\ pc' = "failed"
  BY <1>0, <1>1, <1>3, PushFailsPreserves DEF OnPushFailure
<1> QED BY <1>2, <1>3 DEF StartChild

-----------------------------------------------------------------------------
(***************************************************************************)
(* Finishing a frame, delivering its result and dropping its row.          *)
(***************************************************************************)
\* The newest row, while nobody resolved it, owns the newest scope.
LEMMA ClosedIs ==
  ASSUME Inv, pc \in {"running", "failed"}, ~top_frame_resolved
  PROVE  LET c == CloseScope(Top.checkpoint) IN
         /\ Top.checkpoint = Len(scopes)
         /\ c \in Seq(Worlds) /\ Len(c) = (IF Parent = 0 THEN 0 ELSE frames[1].checkpoint + Parent - 1)
         /\ \A k \in 1 .. Len(c) : c[k] = scopes[k]
         /\ Restored(Top.checkpoint) \in Worlds
<1>1. /\ Depth \in Nat \ {0} /\ Top = frames[Depth] /\ Parent = Depth - 1 /\ Parent \in Nat
      /\ LiveRows = Depth
  BY RunningHasTop
<1>2. scopes \in Seq(Worlds) /\ world \in Worlds /\ Len(scopes) \in Nat
  BY DEF Inv, Types
<1>3. frames[1].checkpoint \in {0, 1} /\ Top.checkpoint = frames[1].checkpoint + Depth - 1
      /\ Len(scopes) = frames[1].checkpoint + Depth - 1
  BY <1>1 DEF Inv, Checkpoints
<1>4. CASE Top.checkpoint = Root
  <2>1. Parent = 0 /\ Len(scopes) = 0
    BY <1>1, <1>3, <1>4 DEF Root
  <2> QED BY <1>2, <1>3, <1>4, <2>1 DEF CloseScope, Restored
<1>5. CASE Top.checkpoint # Root
  <2>1. Len(scopes) > 0 /\ Top.checkpoint \in 1 .. Len(scopes)
    BY <1>1, <1>2, <1>3, <1>5 DEF Root
  <2>2. /\ Front(scopes) \in Seq(Worlds) /\ Len(Front(scopes)) = Len(scopes) - 1
        /\ \A k \in 1 .. Len(scopes) - 1 : Front(scopes)[k] = scopes[k]
    BY <1>2, <2>1, FrontIs
  <2>3. scopes[Top.checkpoint] \in Worlds
    BY <1>2, <2>1, ElementOfSeq
  <2> DEFINE f == Front(scopes)
  <2>4. CloseScope(Top.checkpoint) = f /\ Restored(Top.checkpoint) = scopes[Top.checkpoint]
    BY <1>5 DEF CloseScope, Restored
  <2>5. f \in Seq(Worlds) /\ Len(f) = Len(scopes) - 1
        /\ \A k \in 1 .. Len(scopes) - 1 : f[k] = scopes[k]
    BY <2>2
  <2> HIDE DEF f
  <2>6. Len(f) = IF Parent = 0 THEN 0 ELSE frames[1].checkpoint + Parent - 1
    <3>1. Parent = 0 => frames[1].checkpoint = 1
      BY <1>1, <1>3, <2>1
    <3> QED BY <1>1, <1>3, <2>5, <3>1
  <2> QED BY <1>3, <2>3, <2>4, <2>5, <2>6
<1> QED BY <1>4, <1>5

LEMMA ResolvePreserves ==
  ASSUME Inv, pc = "running", NEW ok \in BOOLEAN, NEW row \in Outputs, Resolve(ok, row),
         world' = world \/ world' \in Worlds \/ world' = Restored(Top.checkpoint)
  PROVE  Inv'
<1> USE RuntimeConstants
<1>0. /\ Depth \in Nat \ {0} /\ Depth = Len(frames) /\ Top = frames[Depth] /\ Parent = Depth - 1
      /\ ~top_frame_resolved /\ LiveRows = Depth /\ Parent \in Nat
  BY RunningHasTop
<1>1. /\ scopes' = CloseScope(Top.checkpoint) /\ result' = [ok |-> ok, row |-> row]
      /\ top_frame_resolved' /\ top_frame_resolved' \in BOOLEAN /\ pc' = "finished"
      /\ UNCHANGED <<reserved, memories, words, used, frames>>
  BY DEF Resolve, store, Result
<1>2. /\ scopes' \in Seq(Worlds) /\ world' \in Worlds
      /\ Len(scopes') = (IF Parent = 0 THEN 0 ELSE frames[1].checkpoint + Parent - 1)
  BY <1>0, <1>1, ClosedIs DEF Inv, Types
<1>3. Depth' = Depth /\ LiveRows' = Parent
  BY <1>0, <1>1 DEF Depth, LiveRows, Parent
<1>4. row \in {0, Depth} /\ row \in Nat
  BY <1>0 DEF Outputs
<1>5. result' \in [ok : BOOLEAN, row : Nat] /\ result'.row = row
  BY <1>1, <1>4
<1>6. Types'
  BY <1>1, <1>2, <1>5 DEF Inv, Types
<1>7. Control'
  BY <1>0, <1>1, <1>3, <1>4, <1>5 DEF Inv, Control
<1>8. Layout'
  <2>1. \A i \in 1 .. Parent : i \in 1 .. Depth
    BY <1>0
  <2>2. \A i, j \in 1 .. Parent : i < j => frames[i].base_word + frames[i].len <= frames[j].base_word
    BY <1>0, <2>1 DEF Inv, Layout
  <2> QED BY <1>1, <1>3, <2>2 DEF Inv, Layout
<1>9. Checkpoints'
  BY <1>0, <1>1, <1>2, <1>3 DEF Inv, Checkpoints
<1> QED BY <1>6, <1>7, <1>8, <1>9 DEF Inv

LEMMA FinishesPreserve ==
  \A ok \in BOOLEAN : Inv /\ (FinishCall(ok) \/ FinishCreate(ok)) => Inv'
<1> SUFFICES ASSUME NEW ok \in BOOLEAN, Inv, FinishCall(ok) \/ FinishCreate(ok) PROVE Inv'
  OBVIOUS
<1>1. pc = "running" /\ (world' = world \/ world' \in Worlds \/ world' = Restored(Top.checkpoint))
  BY DEF FinishCall, FinishCreate
<1>2. PICK row \in Outputs : Resolve(ok, row)
  BY DEF FinishCall, FinishCreate
<1> QED BY <1>1, <1>2, ResolvePreserves

\* The row below the finished one takes the result or halts; nothing else moves.
LEMMA DeliveredPreserves ==
  ASSUME Inv, pc = "finished", pc' \in {"delivered", "failed"},
         frames' \in Seq(Row), Len(frames') = Len(frames),
         \A i \in 1 .. Len(frames) :
           /\ i # Parent => frames'[i] = frames[i]
           /\ frames'[i].checkpoint = frames[i].checkpoint
           /\ frames'[i].base_word = frames[i].base_word /\ frames'[i].bound
           /\ i = Parent => frames'[i].state # "suspended",
         memories' \in Seq({Clear, Data}), Len(memories') = Len(memories),
         words' \in Seq(Nat), Len(words') = Len(words),
         UNCHANGED <<reserved, used, scopes, world, outcome>>
  PROVE  Inv'
<1> USE RuntimeConstants
<1>0. /\ Depth \in Nat \ {0} /\ Depth = Len(frames) /\ Parent = Depth - 1 /\ Parent \in Nat
      /\ top_frame_resolved /\ LiveRows = Parent
  BY RunningHasTop DEF Inv, Control
<1>1. Depth' = Depth /\ LiveRows' = Parent /\ top_frame_resolved'
  BY <1>0 DEF Depth, LiveRows, Parent, outcome
<1>2. Types'
  BY DEF Inv, Types, outcome
<1>3. Control'
  BY <1>0, <1>1 DEF Inv, Control
<1>4. Layout'
  <2>1. used' = frames'[Depth].base_word + StackCapacity
    BY <1>0 DEF Inv, Layout
  <2>2. \A i, j \in 1 .. Depth : i < j => frames'[i].base_word <= frames'[j].base_word
    BY <1>0 DEF Inv, Layout
  <2>3. ASSUME NEW i \in 1 .. Parent, NEW j \in 1 .. Parent, i < j
        PROVE  frames'[i].base_word + frames'[i].len <= frames'[j].base_word
    <3>1. i \in 1 .. Depth /\ j \in 1 .. Depth /\ i # Parent
      BY <1>0, <2>3
    <3>2. frames[i].base_word + frames[i].len <= frames[j].base_word
      BY <1>0, <2>3 DEF Inv, Layout
    <3> QED BY <1>0, <3>1, <3>2
  <2>4. \A i \in 1 .. Depth : frames'[i].bound
    BY <1>0
  <2> QED BY <1>0, <1>1, <2>1, <2>2, <2>3, <2>4 DEF Inv, Layout
<1>5. Checkpoints'
  <2>1. \A i \in 1 .. Depth : frames'[i].checkpoint = frames[i].checkpoint
    BY <1>0
  <2>2. 1 \in 1 .. Depth /\ frames'[1].checkpoint = frames[1].checkpoint
    BY <1>0, <2>1
  <2>3. /\ frames[1].checkpoint \in {0, 1}
        /\ \A i \in 1 .. Depth : frames[i].checkpoint = frames[1].checkpoint + i - 1
        /\ Len(scopes) = IF Parent = 0 THEN 0 ELSE frames[1].checkpoint + Parent - 1
    BY <1>0 DEF Inv, Checkpoints
  <2> QED BY <1>1, <2>1, <2>2, <2>3 DEF Checkpoints
<1> QED BY <1>2, <1>3, <1>4, <1>5 DEF Inv

\* The row below a finished one waits with room for a word.
LEMMA ParentIs ==
  ASSUME Inv, pc = "finished"
  PROVE  /\ Delivered(result) \in {Clear, Data}
         /\ Parent \in Nat /\ Parent < Depth /\ Depth = Parent + 1 /\ Depth = Len(frames)
         /\ frames \in Seq(Row)
         /\ Parent > 0 => /\ Parent \in 1 .. Depth /\ frames[Parent] \in Row
                          /\ frames[Parent].state = "suspended"
                          /\ frames[Parent].len < StackCapacity
<1>1. /\ Depth \in Nat \ {0} /\ Depth = Len(frames) /\ Parent = Depth - 1 /\ Parent \in Nat
      /\ frames \in Seq(Row)
  BY RunningHasTop
<1>2. result.row \in {0, Depth} /\ memories \in Seq({Clear, Data}) /\ Depth \in 1 .. Len(memories)
  BY <1>1 DEF Inv, Control, Types, Layout
<1>3. memories[Depth] \in {Clear, Data}
  BY <1>2, ElementOfSeq
<1>4. Delivered(result) \in {Clear, Data}
  BY <1>2, <1>3 DEF Delivered, OutputOf
<1>5. ASSUME Parent > 0
      PROVE  /\ Parent \in 1 .. Depth /\ frames[Parent] \in Row
             /\ frames[Parent].state = "suspended" /\ frames[Parent].len < StackCapacity
  <2>1. Parent \in 1 .. Depth /\ Parent < Depth
    BY <1>1, <1>5
  <2>2. frames[Parent] \in Row
    BY <1>1, <2>1, ElementOfSeq
  <2> QED BY <2>1, <2>2 DEF Inv, Control
<1> QED BY <1>1, <1>4, <1>5

\* The rows with the one below the newest in another state.
AtParent(st, n) ==
  [frames EXCEPT ![Parent] = [frames[Parent] EXCEPT !.state = st, !.len = n]]

LEMMA ParentReplaced ==
  ASSUME Inv, pc = "finished", Parent > 0,
         NEW n \in 0 .. StackCapacity, NEW st \in {"running", "halted"}
  PROVE  LET f == AtParent(st, n) IN
         /\ f \in Seq(Row) /\ Len(f) = Len(frames)
         /\ \A i \in 1 .. Len(frames) :
              /\ i # Parent => f[i] = frames[i]
              /\ f[i].kind = frames[i].kind
              /\ f[i].checkpoint = frames[i].checkpoint
              /\ f[i].base_word = frames[i].base_word /\ f[i].bound
              /\ i = Parent => f[i].state = st /\ f[i].len = n
<1>1. /\ Parent \in 1 .. Depth /\ Depth = Len(frames) /\ frames \in Seq(Row)
      /\ frames[Parent] \in Row
  BY ParentIs
<1> DEFINE row == [frames[Parent] EXCEPT !.state = st, !.len = n]
<1>2. /\ row \in Row /\ row.kind = frames[Parent].kind /\ row.checkpoint = frames[Parent].checkpoint
      /\ row.base_word = frames[Parent].base_word /\ row.bound = frames[Parent].bound
      /\ row.state = st /\ row.len = n
  BY <1>1 DEF Row
<1> HIDE DEF row
<1> DEFINE f == [frames EXCEPT ![Parent] = row]
<1>4. /\ f \in Seq(Row) /\ Len(f) = Len(frames)
      /\ \A i \in 1 .. Len(frames) : f[i] = IF i = Parent THEN row ELSE frames[i]
  BY <1>1, <1>2, ExceptSeq
<1> HIDE DEF f
<1>5. \A i \in 1 .. Len(frames) : frames[i].bound
  BY <1>1 DEF Inv, Layout
<1>6. /\ f \in Seq(Row) /\ Len(f) = Len(frames)
      /\ \A i \in 1 .. Len(frames) :
           /\ i # Parent => f[i] = frames[i]
           /\ f[i].kind = frames[i].kind
           /\ f[i].checkpoint = frames[i].checkpoint
           /\ f[i].base_word = frames[i].base_word /\ f[i].bound
           /\ i = Parent => f[i].state = st /\ f[i].len = n
  BY <1>2, <1>4, <1>5
<1> QED BY <1>6 DEF f, row, AtParent

LEMMA ResumedIs ==
  ASSUME Inv, pc = "finished", Parent > 0
  PROVE  LET p == frames[Parent] IN
         /\ [frames EXCEPT ![Parent].state = "running", ![Parent].len = @ + 1]
              = AtParent("running", p.len + 1)
         /\ \A st \in {"running", "halted"} :
              [frames EXCEPT ![Parent].state = st] = AtParent(st, p.len)
         /\ p.len + 1 \in 0 .. StackCapacity /\ p.len \in 0 .. StackCapacity
<1> USE RuntimeConstants
<1> DEFINE p == frames[Parent]
<1>1. /\ Parent \in 1 .. Depth /\ Depth = Len(frames) /\ frames \in Seq(Row) /\ p \in Row
      /\ p.len < StackCapacity
  BY ParentIs
<1>2. DOMAIN frames = 1 .. Depth
  BY <1>1
<1>3. p.len + 1 \in 0 .. StackCapacity /\ p.len \in 0 .. StackCapacity
  BY <1>1 DEF Row
<1>4. [frames EXCEPT ![Parent].state = "running", ![Parent].len = @ + 1]
        = [frames EXCEPT ![Parent] = [p EXCEPT !.state = "running", !.len = p.len + 1]]
  <2>1. [p EXCEPT !.state = "running", !.len = @ + 1]
          = [p EXCEPT !.state = "running", !.len = p.len + 1]
    BY <1>1 DEF Row
  <2> QED BY <1>1, <1>2, <2>1
<1>5. ASSUME NEW st \in {"running", "halted"}
      PROVE  [frames EXCEPT ![Parent].state = st]
               = [frames EXCEPT ![Parent] = [p EXCEPT !.state = st, !.len = p.len]]
  <2>1. [p EXCEPT !.state = st] = [p EXCEPT !.state = st, !.len = p.len]
    BY <1>1 DEF Row
  <2> QED BY <1>1, <1>2, <2>1
<1> QED BY <1>3, <1>4, <1>5 DEF AtParent

LEMMA ResumedPreserves ==
  ASSUME Inv, pc = "finished", pc' \in {"delivered", "failed"}, Parent > 0,
         \/ Resumed
         \/ /\ memories' = Received(Parent, Delivered(result))
            /\ frames' = [frames EXCEPT ![Parent].state = "running"]
            /\ UNCHANGED words,
         UNCHANGED <<reserved, used, scopes, world, outcome>>
  PROVE  Inv'
<1> DEFINE p == frames[Parent]
<1>1. /\ Parent \in 1 .. Depth /\ Delivered(result) \in {Clear, Data} /\ p.len < StackCapacity
      /\ memories \in Seq({Clear, Data}) /\ words \in Seq(Nat)
  BY ParentIs DEF Inv, Types
<1>2. /\ [frames EXCEPT ![Parent].state = "running", ![Parent].len = @ + 1]
           = AtParent("running", p.len + 1)
      /\ \A st \in {"running", "halted"} :
           [frames EXCEPT ![Parent].state = st] = AtParent(st, p.len)
      /\ p.len + 1 \in 0 .. StackCapacity /\ p.len \in 0 .. StackCapacity
  BY ResumedIs
<1>3. PICK n \in 0 .. StackCapacity, st \in {"running", "halted"} : frames' = AtParent(st, n)
  BY <1>2 DEF Resumed
<1>4. /\ frames' \in Seq(Row) /\ Len(frames') = Len(frames)
      /\ \A i \in 1 .. Len(frames) :
           /\ i # Parent => frames'[i] = frames[i]
           /\ frames'[i].checkpoint = frames[i].checkpoint
           /\ frames'[i].base_word = frames[i].base_word /\ frames'[i].bound
           /\ i = Parent => frames'[i].state = st
  BY <1>3, ParentReplaced
<1>5. memories' \in Seq({Clear, Data}) /\ Len(memories') = Len(memories)
  <2>1. memories' = memories \/ memories' = Received(Parent, Delivered(result))
    BY DEF Resumed
  <2>2. LET m == Received(Parent, Delivered(result)) IN
        m \in Seq({Clear, Data}) /\ Len(m) = Len(memories)
    BY <1>1, ReceivedIs
  <2> QED BY <1>1, <2>1, <2>2
<1>6. words' \in Seq(Nat) /\ Len(words') = Len(words)
  <2>1. words' = words \/ words' = Written(Parent)
    BY DEF Resumed
  <2>2. Written(Parent) \in Seq(Nat) /\ Len(Written(Parent)) = Len(words)
    BY <1>1, WrittenIs
  <2> QED BY <1>1, <2>1, <2>2
<1> QED BY <1>3, <1>4, <1>5, <1>6, DeliveredPreserves

LEMMA DeliveriesPreserve ==
  Inv /\ (ResumeSuspended \/ StabilizeFinalResult \/ DeliveryFails) => Inv'
<1> SUFFICES ASSUME Inv, ResumeSuspended \/ StabilizeFinalResult \/ DeliveryFails PROVE Inv'
  OBVIOUS
<1>0. /\ pc = "finished" /\ pc' \in {"delivered", "failed"}
      /\ UNCHANGED <<reserved, used, scopes, world, outcome>>
  BY DEF ResumeSuspended, StabilizeFinalResult, DeliveryFails, store
<1>1. CASE Parent > 0
  BY <1>0, <1>1, ResumedPreserves DEF ResumeSuspended, StabilizeFinalResult, DeliveryFails
<1>2. CASE Parent = 0
  <2>1. UNCHANGED <<frames, memories, words>>
    BY <1>2 DEF ResumeSuspended, StabilizeFinalResult, DeliveryFails, store
  <2>2. \A i \in 1 .. Len(frames) : i # Parent /\ frames[i].bound
    BY <1>2 DEF Inv, Layout, Depth
  <2> QED BY <1>0, <2>1, <2>2, DeliveredPreserves DEF Inv, Types
<1>3. Parent \in Nat
  BY <1>0, ParentIs
<1> QED BY <1>1, <1>2, <1>3

\* The newest row is dropped and its memory cleared for the next one.
LEMMA PopIs ==
  ASSUME Inv, pc \in {"delivered", "failed"}, Pop
  PROVE  /\ frames' \in Seq(Row) /\ Len(frames') = Parent /\ Parent \in Nat
         /\ \A i \in 1 .. Parent : frames'[i] = frames[i] /\ i \in 1 .. Depth
         /\ memories' \in Seq({Clear, Data}) /\ Len(memories') = Len(memories)
         /\ \A i \in 1 .. Parent : memories'[i] = memories[i]
         /\ used' = (IF Parent = 0 THEN 0 ELSE frames[Parent].base_word + StackCapacity)
         /\ used' <= used /\ used' \in Nat /\ UNCHANGED <<reserved, words>>
<1> USE RuntimeConstants
<1>0. /\ Depth \in Nat \ {0} /\ Depth = Len(frames) /\ Parent = Depth - 1 /\ Parent \in Nat
      /\ frames \in Seq(Row) /\ Len(frames) > 0
  BY RunningHasTop
<1> DEFINE f == Front(frames)
<1>1. f \in Seq(Row) /\ Len(f) = Len(frames) - 1 /\ \A i \in 1 .. Len(frames) - 1 : f[i] = frames[i]
  BY <1>0, FrontIs
<1> HIDE DEF f
<1>2. /\ frames' = f /\ memories' = [memories EXCEPT ![Depth] = Clear]
      /\ used' = RestoreStackRange(f) /\ UNCHANGED <<reserved, words>>
  BY <1>0 DEF Pop, f
<1>3. Len(f) = Parent /\ \A i \in 1 .. Parent : f[i] = frames[i] /\ i \in 1 .. Depth
  BY <1>0, <1>1
<1>4. memories \in Seq({Clear, Data}) /\ Depth \in 1 .. Len(memories) /\ Len(memories) \in Nat
  BY <1>0 DEF Inv, Types, Layout
<1>5. /\ memories' \in Seq({Clear, Data}) /\ Len(memories') = Len(memories)
      /\ \A k \in 1 .. Len(memories) : memories'[k] = IF k = Depth THEN Clear ELSE memories[k]
  BY <1>2, <1>4, ExceptSeq
<1>6. \A i \in 1 .. Parent : memories'[i] = memories[i]
  BY <1>0, <1>4, <1>5
<1>7. used' = (IF Parent = 0 THEN 0 ELSE frames[Parent].base_word + StackCapacity)
  <2>1. CASE Parent = 0
    <3>1. f = <<>>
      BY <1>1, <1>3, <2>1
    <3> QED BY <1>2, <2>1, <3>1 DEF RestoreStackRange
  <2>2. CASE Parent # 0
    <3>1. f # <<>> /\ Last(f) = frames[Parent]
      BY <1>0, <1>1, <1>3, <2>2 DEF Last
    <3> QED BY <1>2, <2>2, <3>1 DEF RestoreStackRange
  <2> QED BY <2>1, <2>2
<1>8. used' <= used /\ used' \in Nat
  <2>1. CASE Parent = 0
    BY <1>7, <2>1 DEF Inv, Types
  <2>2. CASE Parent # 0
    <3>1. Parent \in 1 .. Depth
      BY <1>0, <2>2
    <3>2. frames[Parent].base_word + StackCapacity <= used /\ frames[Parent] \in Row
      BY <3>1, WordExists
    <3>3. frames[Parent].base_word \in Nat
      BY <3>2 DEF Row
    <3> QED BY <1>7, <2>2, <3>2, <3>3
  <2> QED BY <2>1, <2>2
<1> QED BY <1>0, <1>1, <1>2, <1>3, <1>5, <1>6, <1>7, <1>8

LEMMA PopPreserves ==
  ASSUME Inv, pc \in {"delivered", "failed"}, Pop, Unresolved,
         \/ top_frame_resolved /\ UNCHANGED <<scopes, world>>
         \/ /\ ~top_frame_resolved /\ world' = Restored(Top.checkpoint)
            /\ scopes' = CloseScope(Top.checkpoint),
         pc' = IF Parent = 0 THEN "idle" ELSE IF pc = "failed" THEN "failed" ELSE "running"
  PROVE  Inv'
<1> USE RuntimeConstants
<1>0. /\ Depth \in Nat \ {0} /\ Depth = Len(frames) /\ Parent = Depth - 1 /\ Parent \in Nat
      /\ LiveRows = IF top_frame_resolved THEN Parent ELSE Depth
  BY RunningHasTop
<1>1. /\ frames' \in Seq(Row) /\ Len(frames') = Parent
      /\ \A i \in 1 .. Parent : frames'[i] = frames[i] /\ i \in 1 .. Depth
      /\ memories' \in Seq({Clear, Data}) /\ Len(memories') = Len(memories)
      /\ used' = (IF Parent = 0 THEN 0 ELSE frames[Parent].base_word + StackCapacity)
      /\ used' <= used /\ used' \in Nat /\ UNCHANGED <<reserved, words>>
  BY PopIs
<1>2. /\ Depth' = Parent /\ ~top_frame_resolved' /\ LiveRows' = Parent
      /\ top_frame_resolved' \in BOOLEAN /\ result' \in [ok : BOOLEAN, row : Nat]
  BY <1>1 DEF Depth, LiveRows, Unresolved, Result
<1>3. /\ scopes' \in Seq(Worlds) /\ world' \in Worlds
      /\ Len(scopes') = (IF Parent = 0 THEN 0 ELSE frames[1].checkpoint + Parent - 1)
  <2>1. CASE top_frame_resolved
    BY <1>0, <2>1 DEF Inv, Types, Checkpoints
  <2>2. CASE ~top_frame_resolved
    <3>1. pc = "failed"
      BY <2>2 DEF Inv, Control
    <3> QED BY <2>2, <3>1, ClosedIs
  <2> QED BY <2>1, <2>2
<1>4. Types'
  BY <1>0, <1>1, <1>2, <1>3 DEF Inv, Types
<1>5. Control'
  <2>1. \A i \in 1 .. Parent :
          /\ frames'[i].state = "suspended" => frames'[i].len < StackCapacity
          /\ pc = "delivered" => (i < Parent => frames'[i].state = "suspended")
          /\ pc = "delivered" => (i = Parent => frames'[i].state # "suspended")
    BY <1>0, <1>1 DEF Inv, Control
  <2>2. /\ pc' = "idle" <=> Parent = 0
        /\ pc' \in {"idle", "running", "failed"} /\ (pc' = "running" => pc = "delivered")
    OBVIOUS
  <2> QED BY <1>2, <2>1, <2>2 DEF Control
<1>6. Layout'
  <2>1. used' <= Len(words') /\ Len(words') <= MaxWords /\ Parent <= Len(memories')
        /\ Len(memories') <= MaxRows /\ reserved' = Lists
    <3>1. /\ used <= Len(words) /\ Len(words) <= MaxWords /\ Depth <= Len(memories)
          /\ Len(memories) <= MaxRows /\ reserved = Lists
      BY <1>0 DEF Inv, Layout
    <3>2. Len(words) \in Nat /\ Len(memories) \in Nat /\ used \in Nat /\ words' = words
      BY <1>1 DEF Inv, Types
    <3>3. Parent <= Len(memories')
      BY <1>0, <1>1, <3>1, <3>2
    <3>4. used' <= Len(words')
      BY <1>1, <3>1, <3>2
    <3> QED BY <1>1, <3>1, <3>2, <3>3, <3>4
  <2>2. used' = IF Parent = 0 THEN 0 ELSE frames'[Parent].base_word + StackCapacity
    <3>1. Parent # 0 => Parent \in 1 .. Parent
      BY <1>0
    <3>2. Parent # 0 => frames'[Parent] = frames[Parent]
      BY <1>1, <3>1
    <3> QED BY <1>1, <3>2
  <2>3. \A i, j \in 1 .. Parent : i < j => frames'[i].base_word <= frames'[j].base_word
    BY <1>1 DEF Inv, Layout
  <2>4. \A i, j \in 1 .. Parent :
          i < j => frames'[i].base_word + frames'[i].len <= frames'[j].base_word
    <3>1. \A i \in 1 .. Parent : i \in 1 .. LiveRows
      BY <1>0
    <3> QED BY <1>1, <3>1 DEF Inv, Layout
  <2>5. \A i \in 1 .. Parent : frames'[i].bound
    BY <1>1 DEF Inv, Layout
  <2> QED BY <1>2, <2>1, <2>2, <2>3, <2>4, <2>5 DEF Layout
<1>7. Checkpoints'
  <2>1. Parent > 0 => 1 \in 1 .. Parent /\ frames'[1] = frames[1]
    BY <1>0, <1>1
  <2>2. /\ frames[1].checkpoint \in {0, 1}
        /\ \A i \in 1 .. Depth : frames[i].checkpoint = frames[1].checkpoint + i - 1
    BY <1>0 DEF Inv, Checkpoints
  <2>3. \A i \in 1 .. Parent : frames'[i].checkpoint = frames'[1].checkpoint + i - 1
    <3>1. ASSUME NEW i \in 1 .. Parent
          PROVE  frames'[i].checkpoint = frames'[1].checkpoint + i - 1
      <4>1. frames'[i] = frames[i] /\ i \in 1 .. Depth /\ frames'[1] = frames[1]
        BY <1>0, <1>1, <2>1
      <4> QED BY <2>2, <4>1
    <3> QED BY <3>1
  <2>4. Len(scopes') = IF Parent = 0 THEN 0 ELSE frames'[1].checkpoint + Parent - 1
    BY <1>0, <1>3, <2>1
  <2>5. Parent > 0 => frames'[1].checkpoint \in {0, 1}
    BY <2>1, <2>2
  <2> QED BY <1>2, <2>3, <2>4, <2>5 DEF Checkpoints
<1> QED BY <1>4, <1>5, <1>6, <1>7 DEF Inv

LEMMA DropsPreserve == Inv /\ (PopResolvedFrame \/ Deinit) => Inv'
<1> SUFFICES ASSUME Inv, PopResolvedFrame \/ Deinit PROVE Inv'
  OBVIOUS
<1>1. CASE PopResolvedFrame
  BY <1>1, PopPreserves DEF PopResolvedFrame, Inv, Control
<1>2. CASE Deinit
  BY <1>2, PopPreserves DEF Deinit
<1> QED BY <1>1, <1>2

LEMMA StutterPreserves == Inv /\ UNCHANGED vars => Inv'
<1> SUFFICES ASSUME Inv, UNCHANGED vars PROVE Inv'
  OBVIOUS
<1>1. /\ UNCHANGED <<reserved, memories, words, used, frames, scopes, world>>
      /\ UNCHANGED <<top_frame_resolved, result, pc>>
  BY DEF vars, store, outcome
<1>2. Depth' = Depth /\ LiveRows' = LiveRows
  BY <1>1 DEF Depth, LiveRows, Parent
<1>3. Types'
  BY <1>1 DEF Inv, Types
<1>4. Control'
  BY <1>1, <1>2 DEF Inv, Control
<1>5. Layout'
  BY <1>1, <1>2 DEF Inv, Layout
<1>6. Checkpoints'
  BY <1>1, <1>2 DEF Inv, Checkpoints
<1> QED BY <1>3, <1>4, <1>5, <1>6 DEF Inv

LEMMA StepPreserves == Inv /\ [Next]_vars => Inv'
  BY StartsPreserve, StackPushPreserves, StackPopPreserves, WritesPreserve,
     StartImmediatePreserves, StartFailsPreserves, StartChildPreserves, FinishesPreserve,
     DeliveriesPreserve, FinishRootFailsPreserves, DropsPreserve, StutterPreserves
  DEF Next

LEMMA Invariance == Spec => []Inv
  BY InitEstablishes, StepPreserves, PTL DEF Spec

-----------------------------------------------------------------------------
(***************************************************************************)
(* What the invariant says of the store and of the scopes.                 *)
(***************************************************************************)
LEMMA InvTypes == Inv => TypeOK
<1> SUFFICES ASSUME Inv PROVE TypeOK
  OBVIOUS
<1> USE RuntimeConstants
<1>1. /\ frames \in Seq(Row) /\ Depth = Len(frames) /\ Depth \in Nat /\ DOMAIN frames = 1 .. Depth
      /\ reserved \in 0 .. Lists /\ pc \in {"idle", "running", "finished", "delivered", "failed"}
  BY DEF Inv, Types, Depth
<1>2. ASSUME NEW i \in 1 .. Depth
      PROVE  /\ frames[i].len \in 0 .. StackCapacity
             /\ frames[i].base_word + StackCapacity <= used
             /\ frames[i].state = "suspended" => i < Depth \/ pc = "failed"
  <2>1. frames[i] \in Row /\ frames[i].base_word + StackCapacity <= used
    BY WordExists
  <2>2. frames[i].len \in 0 .. StackCapacity
    BY <2>1 DEF Row
  <2>3. frames[i].state = "suspended" => i < Depth \/ pc = "failed"
    <3>1. CASE i = Depth
      BY <1>1, <3>1 DEF Inv, Control
    <3>2. CASE i # Depth
      BY <1>1, <3>2
    <3> QED BY <3>1, <3>2
  <2> QED BY <2>1, <2>2, <2>3
<1>3. (pc = "idle") = (frames = <<>>)
  <2>1. frames = <<>> <=> Depth = 0
    BY <1>1
  <2> QED BY <2>1 DEF Inv, Control
<1> QED BY <1>1, <1>2, <1>3 DEF TypeOK, Inv, Layout

LEMMA InvScopes == Inv => ScopesBalanced
<1> SUFFICES ASSUME Inv PROVE ScopesBalanced
  OBVIOUS
<1>1. Depth \in Nat /\ Len(scopes) \in Nat /\ top_frame_resolved \in BOOLEAN
  BY DEF Inv, Types, Depth
<1>2. LiveRows \in Nat /\ LiveRows <= Depth
  <2>1. top_frame_resolved => Depth > 0
    BY <1>1 DEF Inv, Control
  <2> QED BY <1>1, <2>1 DEF LiveRows, Parent, Depth
<1> DEFINE n == LiveRows
           c == frames[1].checkpoint
<1>3. /\ n > 0 => c \in {0, 1}
      /\ \A i \in 1 .. n : frames[i].checkpoint = c + i - 1
      /\ Len(scopes) = IF n = 0 THEN 0 ELSE c + n - 1
  BY <1>1, <1>2 DEF Inv, Checkpoints
<1> DEFINE C == {frames[i].checkpoint : i \in 1 .. n}
<1> HIDE DEF n, c
<1>4. n \in Nat
  BY <1>2 DEF n
<1>5. C \ {Root} = 1 .. Len(scopes)
  <2>1. ASSUME NEW x \in C \ {Root} PROVE x \in 1 .. Len(scopes)
    <3>1. PICK i \in 1 .. n : x = frames[i].checkpoint
      OBVIOUS
    <3> QED BY <1>3, <1>4, <2>1, <3>1 DEF Root
  <2>2. ASSUME NEW x \in 1 .. Len(scopes) PROVE x \in C \ {Root}
    <3> DEFINE i == x - c + 1
    <3>1. i \in 1 .. n /\ x = c + i - 1
      BY <1>1, <1>3, <1>4
    <3>2. frames[i].checkpoint = x
      BY <1>3, <3>1
    <3> QED BY <3>1, <3>2 DEF Root
  <2> QED BY <2>1, <2>2
<1>6. \A i, j \in 1 .. n : i < j => frames[i].checkpoint < frames[j].checkpoint
  <2>1. ASSUME NEW i \in 1 .. n, NEW j \in 1 .. n, i < j
        PROVE  frames[i].checkpoint < frames[j].checkpoint
    <3>1. c \in Nat /\ frames[i].checkpoint = c + i - 1 /\ frames[j].checkpoint = c + j - 1
      BY <1>3, <1>4
    <3> QED BY <2>1, <3>1
  <2> QED BY <2>1
<1> QED BY <1>5, <1>6 DEF ScopesBalanced, n

\* In every state in which the frame store is at rest, the full window of every
\* frame lies inside the words in use and inside the array: what Stack.init,
\* Stack.rebind and restoreStackRange assert, for any capacity and depth.
THEOREM TypeCorrect == Spec => []TypeOK
  BY Invariance, InvTypes, PTL

\* Once a row is live no metadata list has to grow, whatever reservations failed
\* before: the pointers that suspended frames keep stay valid.
THEOREM MetadataStays == Spec => []MetadataStable
<1>1. Inv => MetadataStable
  <2> SUFFICES ASSUME Inv, frames # <<>> PROVE reserved = Lists
    BY DEF MetadataStable
  <2>1. frames \in Seq(Row) /\ Depth = Len(frames)
    BY DEF Inv, Types, Depth
  <2>2. Depth > 0
    BY <2>1
  <2> QED BY <2>2 DEF Inv, Layout
<1> QED BY <1>1, Invariance, PTL

\* The open scopes are exactly the checkpoints of the unresolved rows, oldest
\* first, after any push, failure or unwinding.
THEOREM ScopesMatchRows == Spec => []ScopesBalanced
  BY Invariance, InvScopes, PTL

-----------------------------------------------------------------------------
(***************************************************************************)
(* The call runtime implements CallStacks, step by step: frames that share *)
(* one array of words, memories that outlive their frames and checkpoints  *)
(* taken over by rows behave as calls that have all of these to            *)
(* themselves.                                                             *)
(***************************************************************************)

-----------------------------------------------------------------------------
(***************************************************************************)
(* Calls as records.                                                       *)
(***************************************************************************)
Record(stack, memory, saved, creates) ==
  [stack |-> stack, memory |-> memory, saved |-> saved, creates |-> creates]

LEMMA CallIs ==
  ASSUME NEW row, NEW array, NEW memory, NEW saved
  PROVE  CallOf(row, array, memory, saved)
           = Record(StackOf(row, array), memory, SavedBy(row, saved), row.kind = "create")
  BY DEF CallOf, Record

\* Two rows that see the same words.
LEMMA SameStack ==
  ASSUME NEW a \in Row, NEW b \in Row, a.bound, b.bound,
         a.base_word = b.base_word, a.len = b.len, NEW x, NEW y,
         \A k \in 1 .. a.base_word + a.len : x[k] = y[k]
  PROVE  StackOf(a, x) = StackOf(b, y)
<1> USE RuntimeConstants
<1>1. a.base_word \in Nat /\ a.len \in Nat
  BY DEF Row
<1>2. \A j \in 1 .. a.len : a.base_word + j \in 1 .. a.base_word + a.len
  BY <1>1
<1> QED BY <1>2 DEF StackOf

\* A stack as a sequence: a word more, a word less, the top word replaced.
LEMMA StackIs ==
  ASSUME NEW row \in Row, row.bound, NEW array
  PROVE  LET s == StackOf(row, array) IN
         /\ Len(s) = row.len /\ row.len \in Nat
         /\ row.len > 0 => s # <<>>
         /\ \A j \in 1 .. row.len : s[j] = array[row.base_word + j]
         /\ \A v : Append(s, v) = WithMore(s, row.len, v)
         /\ row.len > 0 => Front(s) = Tabulated(s, row.len - 1)
         /\ row.len > 0 => \A v : Append(Front(s), v) = WithLast(s, row.len, v)
<1> USE RuntimeConstants
<1> DEFINE s == StackOf(row, array)
           n == row.len
<1>1. n \in Nat
  BY DEF Row
<1>2. s = Tabulated(s, n) /\ \A j \in 1 .. n : s[j] = array[row.base_word + j]
  BY DEF StackOf, Tabulated
<1> HIDE DEF s, n
<1>3. ASSUME NEW v
      PROVE  /\ Len(s) = n
             /\ Append(s, v) = WithMore(s, n, v)
             /\ n > 0 => /\ Front(s) = Tabulated(s, n - 1)
                         /\ Append(Front(s), v) = WithLast(s, n, v)
  <2>1. s = Tabulated(s, n)
    BY <1>2
  <2> QED BY <1>1, <2>1, FunctionTop
<1>4. n > 0 => s # <<>>
  BY <1>1, <1>3
<1> QED BY <1>1, <1>2, <1>3, <1>4 DEF s, n

-----------------------------------------------------------------------------
(***************************************************************************)
(* The calls a state stands for.                                           *)
(***************************************************************************)
\* The rows that are live calls, and what backs them.
Live ==
  /\ LiveRows \in Nat /\ LiveRows = IF top_frame_resolved THEN Depth - 1 ELSE Depth
  /\ Depth \in Nat /\ Depth = Len(frames) /\ Parent = Depth - 1
  /\ \A i \in 1 .. LiveRows :
       /\ i \in 1 .. Depth /\ frames[i] \in Row /\ frames[i].bound
       /\ frames[i].checkpoint = Root \/ frames[i].checkpoint \in 1 .. Len(scopes)

\* Calls as a sequence.
CallsListed ==
  /\ LiveRows \in Nat /\ Len(Calls) = LiveRows /\ Calls = Tabulated(Calls, LiveRows)
  /\ \A i \in 1 .. LiveRows : Calls[i] = CallOf(frames[i], words, memories[i], scopes)
  /\ LiveRows = 0 => Calls = <<>>
  /\ LiveRows > 0 => Calls # <<>> /\ Last(Calls) = Calls[LiveRows]
                     /\ Front(Calls) = Tabulated(Calls, LiveRows - 1)
  /\ LiveRows > 0 => \A v : Append(Front(Calls), v) = WithLast(Calls, LiveRows, v)

LEMMA InvLive == Inv => Live
<1> SUFFICES ASSUME Inv PROVE Live
  OBVIOUS
<1>1. /\ Depth \in Nat /\ Depth = Len(frames) /\ frames \in Seq(Row) /\ Parent = Depth - 1
      /\ Len(scopes) \in Nat /\ top_frame_resolved \in BOOLEAN
  BY DEF Inv, Types, Depth, Parent
<1>2. LiveRows \in Nat /\ LiveRows = IF top_frame_resolved THEN Depth - 1 ELSE Depth
  BY <1>1 DEF Inv, Control, LiveRows
<1>3. ASSUME NEW i \in 1 .. LiveRows
      PROVE  /\ i \in 1 .. Depth /\ frames[i] \in Row /\ frames[i].bound
             /\ frames[i].checkpoint = Root \/ frames[i].checkpoint \in 1 .. Len(scopes)
  <2>1. i \in 1 .. Depth
    BY <1>1, <1>2
  <2>2. frames[i] \in Row
    BY <1>1, <2>1, ElementOfSeq
  <2>3. frames[i].bound
    BY <2>1 DEF Inv, Layout
  <2>4. /\ frames[1].checkpoint \in {0, 1} /\ frames[i].checkpoint = frames[1].checkpoint + i - 1
        /\ Len(scopes) = frames[1].checkpoint + LiveRows - 1
    BY <1>1, <1>2, <2>1 DEF Inv, Checkpoints
  <2>5. frames[i].checkpoint = 0 \/ frames[i].checkpoint \in 1 .. Len(scopes)
    BY <1>1, <1>2, <2>4
  <2> QED BY <2>1, <2>2, <2>3, <2>5 DEF Root
<1> QED BY <1>1, <1>2, <1>3 DEF Live

LEMMA LiveNext == Inv' => Live'
  BY InvLive, PTL

LEMMA InvListed == Inv => CallsListed
<1> SUFFICES ASSUME Inv PROVE CallsListed
  OBVIOUS
<1> DEFINE n == LiveRows
           c == Calls
<1>1. n \in Nat
  BY InvLive DEF Live
<1>2. /\ c = Tabulated(c, n)
      /\ \A i \in 1 .. n : c[i] = CallOf(frames[i], words, memories[i], scopes)
  BY DEF Calls, Tabulated
<1> HIDE DEF n, c
<1>3. ASSUME NEW v
      PROVE  Len(c) = n /\ (n > 0 => /\ Front(c) = Tabulated(c, n - 1)
                                     /\ Append(Front(c), v) = WithLast(c, n, v))
  <2>1. c = Tabulated(c, n)
    BY <1>2
  <2> QED BY <1>1, <2>1, FunctionTop
<1>4. n = 0 => c = <<>>
  BY <1>2 DEF Tabulated
<1>5. n > 0 => c # <<>> /\ Last(c) = c[n]
  BY <1>1, <1>3 DEF Last
<1> QED BY <1>1, <1>2, <1>3, <1>4, <1>5 DEF CallsListed, n, c

LEMMA ListedNext == Inv' => CallsListed'
  BY InvListed, PTL

\* A call whose row, words, memory and checkpoint nobody touched.
LEMMA CallKept ==
  ASSUME Inv, Inv', NEW i \in 1 .. LiveRows, i \in 1 .. LiveRows',
         frames'[i].kind = frames[i].kind, frames'[i].checkpoint = frames[i].checkpoint,
         frames'[i].base_word = frames[i].base_word, frames'[i].len = frames[i].len,
         memories'[i] = memories[i],
         \A k \in 1 .. frames[i].base_word + frames[i].len : words'[k] = words[k],
         \A k \in 1 .. Len(scopes) : k \in 1 .. Len(scopes') => scopes'[k] = scopes[k]
  PROVE  Calls'[i] = Calls[i]
<1>1. /\ frames[i] \in Row /\ frames[i].bound
      /\ frames[i].checkpoint = Root \/ frames[i].checkpoint \in 1 .. Len(scopes)
  BY InvLive DEF Live
<1>2. /\ frames'[i] \in Row /\ frames'[i].bound
      /\ frames'[i].checkpoint = Root \/ frames'[i].checkpoint \in 1 .. Len(scopes')
  BY LiveNext DEF Live
<1>3. StackOf(frames'[i], words') = StackOf(frames[i], words)
  <2> DEFINE a == frames'[i]
             b == frames[i]
             x == words'
             y == words
  <2>1. /\ a \in Row /\ b \in Row /\ a.bound /\ b.bound
        /\ a.base_word = b.base_word /\ a.len = b.len
        /\ \A k \in 1 .. a.base_word + a.len : x[k] = y[k]
    BY <1>1, <1>2
  <2> HIDE DEF a, b, x, y
  <2>2. StackOf(a, x) = StackOf(b, y)
    BY <2>1, SameStack
  <2> QED BY <2>2 DEF a, b, x, y
<1>4. SavedBy(frames'[i], scopes') = SavedBy(frames[i], scopes)
  BY <1>1, <1>2 DEF SavedBy
<1>5. CallOf(frames'[i], words', memories'[i], scopes') = CallOf(frames[i], words, memories[i], scopes)
  BY <1>3, <1>4 DEF CallOf
<1>6. Calls[i] = CallOf(frames[i], words, memories[i], scopes)
  BY InvListed DEF CallsListed
<1>7. Calls'[i] = CallOf(frames'[i], words', memories'[i], scopes')
  BY ListedNext DEF CallsListed
<1> QED BY <1>5, <1>6, <1>7

\* How the calls changed, from what became of each of them.
LEMMA CallsUnmoved ==
  ASSUME Inv, Inv', LiveRows' = LiveRows, \A i \in 1 .. LiveRows : Calls'[i] = Calls[i]
  PROVE  Calls' = Calls
<1>1. Calls = Tabulated(Calls, LiveRows) /\ Calls' = Tabulated(Calls', LiveRows)
  BY InvListed, ListedNext DEF CallsListed
<1>2. Tabulated(Calls', LiveRows) = Tabulated(Calls, LiveRows)
  BY DEF Tabulated
<1> QED BY <1>1, <1>2

LEMMA CallsDropped ==
  ASSUME Inv, Inv', LiveRows > 0, LiveRows' = LiveRows - 1,
         \A i \in 1 .. LiveRows - 1 : Calls'[i] = Calls[i]
  PROVE  Calls' = Front(Calls)
<1>1. Front(Calls) = Tabulated(Calls, LiveRows - 1) /\ Calls' = Tabulated(Calls', LiveRows - 1)
  BY InvListed, ListedNext DEF CallsListed
<1>2. Tabulated(Calls', LiveRows - 1) = Tabulated(Calls, LiveRows - 1)
  BY DEF Tabulated
<1> QED BY <1>1, <1>2

LEMMA TopChanged ==
  ASSUME Inv, Inv', LiveRows > 0, LiveRows' = LiveRows,
         \A i \in 1 .. LiveRows - 1 : Calls'[i] = Calls[i]
  PROVE  Calls' = Append(Front(Calls), Calls'[LiveRows])
<1> DEFINE n == LiveRows
<1>1. n \in Nat /\ Calls' = Tabulated(Calls', n)
      /\ Append(Front(Calls), Calls'[n]) = WithLast(Calls, n, Calls'[n])
  BY InvListed, ListedNext DEF CallsListed
<1>2. \A i \in 1 .. n : Calls'[i] = IF i = n THEN Calls'[n] ELSE Calls[i]
  <2>1. \A i \in 1 .. n : i # n => i \in 1 .. n - 1
    BY <1>1
  <2> QED BY <2>1
<1>3. Tabulated(Calls', n) = WithLast(Calls, n, Calls'[n])
  BY <1>2 DEF Tabulated, WithLast
<1> QED BY <1>1, <1>3

LEMMA CallsEntered ==
  ASSUME Inv, Inv', LiveRows > 0, LiveRows' = LiveRows + 1,
         \A i \in 1 .. LiveRows - 1 : Calls'[i] = Calls[i]
  PROVE  Calls' = Append(Append(Front(Calls), Calls'[LiveRows]), Calls'[LiveRows + 1])
<1> DEFINE n == LiveRows
           a == Calls'[n]
           b == Calls'[n + 1]
           g == Append(Front(Calls), a)
<1>1. n \in Nat /\ Calls' = Tabulated(Calls', n + 1) /\ g = WithLast(Calls, n, a)
  BY InvListed, ListedNext DEF CallsListed
<1>2. \A i \in 1 .. n : g[i] = Calls'[i]
  <2>1. \A i \in 1 .. n : i # n => i \in 1 .. n - 1
    BY <1>1
  <2> QED BY <1>1, <2>1 DEF WithLast
<1>3. g = Tabulated(g, n)
  BY <1>1 DEF WithLast, Tabulated
<1> HIDE DEF g, a, b, n
<1>4. Append(g, b) = WithMore(g, n, b)
  BY <1>1, <1>3, FunctionTop
<1>5. Tabulated(Calls', n + 1) = WithMore(g, n, b)
  <2>1. \A i \in 1 .. n + 1 : Calls'[i] = IF i = n + 1 THEN b ELSE g[i]
    <3>1. \A i \in 1 .. n + 1 : i # n + 1 => i \in 1 .. n
      BY <1>1
    <3> QED BY <1>2, <3>1 DEF b
  <2> QED BY <2>1 DEF Tabulated, WithMore
<1>6. Calls' = Append(g, b)
  BY <1>1, <1>4, <1>5
<1> QED BY <1>6 DEF g, a, b, n

\* What the words of a frame say after one of them changed.
LEMMA StackPushed ==
  ASSUME NEW a \in Row, NEW b \in Row, a.bound, b.bound, b.base_word = a.base_word,
         b.len = a.len + 1, NEW x, NEW y, NEW v, y[a.base_word + a.len + 1] = v,
         \A k \in 1 .. a.base_word + a.len : y[k] = x[k]
  PROVE  StackOf(b, y) = Append(StackOf(a, x), v)
<1>1. a.base_word \in Nat /\ a.len \in Nat
  BY DEF Row
<1>2. Append(StackOf(a, x), v) = WithMore(StackOf(a, x), a.len, v)
      /\ \A j \in 1 .. a.len : StackOf(a, x)[j] = x[a.base_word + j]
  <2>1. /\ \A w : Append(StackOf(a, x), w) = WithMore(StackOf(a, x), a.len, w)
        /\ \A j \in 1 .. a.len : StackOf(a, x)[j] = x[a.base_word + j]
    BY StackIs, ZenonT(30)
  <2> QED BY <2>1
<1>3. \A j \in 1 .. a.len + 1 :
        y[a.base_word + j] = IF j = a.len + 1 THEN v ELSE StackOf(a, x)[j]
  <2>1. ASSUME NEW j \in 1 .. a.len + 1
        PROVE  y[a.base_word + j] = IF j = a.len + 1 THEN v ELSE StackOf(a, x)[j]
    <3>1. CASE j = a.len + 1
      <4>1. a.base_word + j = a.base_word + a.len + 1
        BY <1>1, <3>1
      <4> QED BY <3>1, <4>1
    <3>2. CASE j # a.len + 1
      <4>1. j \in 1 .. a.len /\ a.base_word + j \in 1 .. a.base_word + a.len
        BY <1>1, <3>2
      <4> QED BY <1>2, <3>2, <4>1
    <3> QED BY <3>1, <3>2
  <2> QED BY <2>1
<1>4. StackOf(b, y) = [j \in 1 .. a.len + 1 |-> y[a.base_word + j]]
  BY DEF StackOf
<1>5. StackOf(b, y) = WithMore(StackOf(a, x), a.len, v)
  BY <1>3, <1>4 DEF WithMore
<1> QED BY <1>2, <1>5

LEMMA StackPopped ==
  ASSUME NEW a \in Row, NEW b \in Row, a.bound, b.bound, b.base_word = a.base_word,
         a.len > 0, b.len = a.len - 1, NEW x, NEW y,
         \A k \in 1 .. a.base_word + a.len - 1 : y[k] = x[k]
  PROVE  StackOf(b, y) = Front(StackOf(a, x))
<1>1. a.base_word \in Nat /\ a.len \in Nat
  BY DEF Row
<1>2. Front(StackOf(a, x)) = Tabulated(StackOf(a, x), a.len - 1)
      /\ \A j \in 1 .. a.len : StackOf(a, x)[j] = x[a.base_word + j]
  BY StackIs
<1>3. \A j \in 1 .. a.len - 1 : y[a.base_word + j] = StackOf(a, x)[j]
  <2>1. ASSUME NEW j \in 1 .. a.len - 1 PROVE y[a.base_word + j] = StackOf(a, x)[j]
    <3>1. j \in 1 .. a.len /\ a.base_word + j \in 1 .. a.base_word + a.len - 1
      BY <1>1
    <3> QED BY <1>2, <3>1
  <2> QED BY <2>1
<1>4. StackOf(b, y) = [j \in 1 .. a.len - 1 |-> y[a.base_word + j]]
  BY DEF StackOf
<1>5. StackOf(b, y) = Tabulated(StackOf(a, x), a.len - 1)
  BY <1>3, <1>4 DEF Tabulated
<1> QED BY <1>2, <1>5

LEMMA StackAnswered ==
  ASSUME NEW a \in Row, a.bound, a.len > 0, NEW x, NEW y, NEW v, y[a.base_word + a.len] = v,
         \A k \in 1 .. a.base_word + a.len - 1 : y[k] = x[k]
  PROVE  StackOf(a, y) = Append(Front(StackOf(a, x)), v)
<1>1. a.base_word \in Nat /\ a.len \in Nat
  BY DEF Row
<1>2. Append(Front(StackOf(a, x)), v) = WithLast(StackOf(a, x), a.len, v)
      /\ \A j \in 1 .. a.len : StackOf(a, x)[j] = x[a.base_word + j]
  <2>1. /\ \A w : Append(Front(StackOf(a, x)), w) = WithLast(StackOf(a, x), a.len, w)
        /\ \A j \in 1 .. a.len : StackOf(a, x)[j] = x[a.base_word + j]
    BY StackIs
  <2> QED BY <2>1
<1>3. \A j \in 1 .. a.len :
        y[a.base_word + j] = IF j = a.len THEN v ELSE StackOf(a, x)[j]
  <2>1. ASSUME NEW j \in 1 .. a.len
        PROVE  y[a.base_word + j] = IF j = a.len THEN v ELSE StackOf(a, x)[j]
    <3>1. CASE j = a.len
      BY <3>1
    <3>2. CASE j # a.len
      <4>1. a.base_word + j \in 1 .. a.base_word + a.len - 1
        BY <1>1, <3>2
      <4> QED BY <1>2, <3>2, <4>1
    <3> QED BY <3>1, <3>2
  <2> QED BY <2>1
<1>4. StackOf(a, y) = [j \in 1 .. a.len |-> y[a.base_word + j]]
  BY DEF StackOf
<1>5. StackOf(a, y) = WithLast(StackOf(a, x), a.len, v)
  BY <1>3, <1>4 DEF WithLast
<1> QED BY <1>2, <1>5

-----------------------------------------------------------------------------
(***************************************************************************)
(* Steps of the interpreter and of the calls it starts.                    *)
(***************************************************************************)
AbstractStep == [Abstract!Next]_(Abstract!vars)

\* The newest call, as the abstract specification sees it.
TopCall == Record(StackOf(Top, words), memories[Depth], SavedBy(Top, scopes), Top.kind = "create")

LEMMA RunningCalls ==
  ASSUME Inv, pc = "running"
  PROVE  /\ Depth \in Nat \ {0} /\ Depth = Len(frames) /\ Top = frames[Depth] /\ Top \in Row
         /\ Top.bound /\ LiveRows = Depth
         /\ Calls # <<>> /\ Len(Calls) = Depth /\ Pending = <<>> /\ Failing = FALSE
         /\ Last(Calls) = TopCall
<1>1. /\ Depth \in Nat \ {0} /\ Depth = Len(frames) /\ Top = frames[Depth] /\ Top \in Row
      /\ LiveRows = Depth
  BY RunningHasTop
<1>2. Top.bound
  BY <1>1 DEF Inv, Layout
<1>3. /\ Calls # <<>> /\ Len(Calls) = Depth /\ Last(Calls) = Calls[Depth]
      /\ Calls[Depth] = CallOf(Top, words, memories[Depth], scopes)
  BY <1>1, InvListed DEF CallsListed
<1>4. Last(Calls) = TopCall
  BY <1>3, CallIs DEF TopCall
<1> QED BY <1>1, <1>2, <1>3, <1>4 DEF Pending, Failing

\* A step that changes the newest frame changes only the newest call.
LEMMA TopCallChanges ==
  ASSUME Inv, Inv', pc = "running", UNCHANGED <<scopes, outcome>>,
         Len(frames') = Len(frames), frames'[Depth].kind = Top.kind,
         frames'[Depth].checkpoint = Top.checkpoint,
         \A i \in 1 .. Depth - 1 : /\ frames'[i].kind = frames[i].kind
                                   /\ frames'[i].checkpoint = frames[i].checkpoint
                                   /\ frames'[i].base_word = frames[i].base_word
                                   /\ frames'[i].len = frames[i].len
                                   /\ memories'[i] = memories[i],
         \A k \in 1 .. Top.base_word : words'[k] = words[k]
  PROVE  Calls' = Append(Front(Calls), Record(StackOf(frames'[Depth], words'), memories'[Depth],
                                              SavedBy(Top, scopes), Top.kind = "create"))
         /\ LiveRows' = Depth
<1>1. /\ Depth \in Nat \ {0} /\ Depth = Len(frames) /\ Top = frames[Depth] /\ Top \in Row
      /\ LiveRows = Depth /\ ~top_frame_resolved
  BY RunningHasTop
<1>2. LiveRows' = Depth
  BY <1>1 DEF LiveRows, outcome
<1>3. ASSUME NEW i \in 1 .. Depth - 1 PROVE Calls'[i] = Calls[i]
  <2>1. i \in 1 .. LiveRows /\ i \in 1 .. LiveRows'
    BY <1>1, <1>2
  <2>2. \A k \in 1 .. frames[i].base_word + frames[i].len : words'[k] = words[k]
    <3>1. frames[i].base_word + frames[i].len <= Top.base_word
      <4>1. i \in 1 .. LiveRows /\ Depth \in 1 .. LiveRows /\ i < Depth
        BY <1>1, <2>1
      <4> QED BY <1>1, <4>1 DEF Inv, Layout
    <3>2. frames[i].base_word \in Nat /\ frames[i].len \in Nat /\ Top.base_word \in Nat
      BY <1>1, <2>1, InvLive DEF Live, Row
    <3>3. \A k \in 1 .. frames[i].base_word + frames[i].len : k \in 1 .. Top.base_word
      BY <3>1, <3>2
    <3> QED BY <3>3
  <2> QED BY <2>1, <2>2, CallKept
<1>4. Calls' = Append(Front(Calls), Calls'[Depth])
  BY <1>1, <1>2, <1>3, TopChanged
<1>5. Calls'[Depth] = CallOf(frames'[Depth], words', memories'[Depth], scopes')
  BY <1>1, <1>2, ListedNext DEF CallsListed
<1>6. SavedBy(frames'[Depth], scopes') = SavedBy(Top, scopes)
  BY DEF SavedBy
<1>7. Calls'[Depth] = Record(StackOf(frames'[Depth], words'), memories'[Depth],
                             SavedBy(Top, scopes), Top.kind = "create")
  BY <1>5, <1>6 DEF CallOf, Record
<1> QED BY <1>2, <1>4, <1>7

\* The forms in which the abstract actions replace the newest call.
PushedCall(r, n) == [r EXCEPT !.stack = Append(@, n)]
PoppedCall(r) == [r EXCEPT !.stack = Front(@)]
WroteCall(r) == [r EXCEPT !.memory = Data]
AnsweredCall(r, n, bytes) == [r EXCEPT !.stack = Append(Front(@), n), !.memory = bytes]
TookOutput(r, stack, output) ==
  [r EXCEPT !.stack = stack, !.memory = IF output = Clear THEN @ ELSE output]

LEMMA CallEdits ==
  ASSUME NEW s, NEW m, NEW v, NEW c
  PROVE  LET r == Record(s, m, v, c) IN
         /\ r.stack = s /\ r.memory = m /\ r.saved = v /\ r.creates = c
         /\ \A n : PushedCall(r, n) = Record(Append(s, n), m, v, c)
         /\ PoppedCall(r) = Record(Front(s), m, v, c)
         /\ WroteCall(r) = Record(s, Data, v, c)
         /\ \A n, y : AnsweredCall(r, n, y) = Record(Append(Front(s), n), y, v, c)
         /\ \A x, o : TookOutput(r, x, o) = Record(x, IF o = Clear THEN m ELSE o, v, c)
<1> DEFINE r == Record(s, m, v, c)
<1>1. r.stack = s /\ r.memory = m /\ r.saved = v /\ r.creates = c
  BY DEF Record
<1>2. ASSUME NEW n PROVE PushedCall(r, n) = Record(Append(s, n), m, v, c)
  <2>1. PushedCall(r, n) = [r EXCEPT !.stack = Append(s, n)]
    BY <1>1 DEF PushedCall
  <2> DEFINE x == Append(s, n)
  <2> HIDE DEF x
  <2>2. [r EXCEPT !.stack = x] = Record(x, m, v, c)
    BY DEF Record
  <2> QED BY <2>1, <2>2 DEF x
<1>3. PoppedCall(r) = Record(Front(s), m, v, c)
  <2>1. PoppedCall(r) = [r EXCEPT !.stack = Front(s)]
    BY <1>1 DEF PoppedCall
  <2> DEFINE x == Front(s)
  <2> HIDE DEF x
  <2>2. [r EXCEPT !.stack = x] = Record(x, m, v, c)
    BY DEF Record
  <2> QED BY <2>1, <2>2 DEF x
<1>4. WroteCall(r) = Record(s, Data, v, c)
  BY DEF WroteCall, Record
<1>5. ASSUME NEW x, NEW y PROVE [r EXCEPT !.stack = x, !.memory = y] = Record(x, y, v, c)
  <2>1. [r EXCEPT !.stack = x, !.memory = y] = [[r EXCEPT !.stack = x] EXCEPT !.memory = y]
    OBVIOUS
  <2>2. [r EXCEPT !.stack = x] = Record(x, m, v, c)
    BY DEF Record
  <2>3. [Record(x, m, v, c) EXCEPT !.memory = y] = Record(x, y, v, c)
    BY DEF Record
  <2> QED BY <2>1, <2>2, <2>3
<1>6. ASSUME NEW n, NEW y PROVE AnsweredCall(r, n, y) = Record(Append(Front(s), n), y, v, c)
  <2> DEFINE x == Append(Front(s), n)
  <2>1. AnsweredCall(r, n, y) = [r EXCEPT !.stack = x, !.memory = y]
    BY <1>1 DEF AnsweredCall
  <2> HIDE DEF x
  <2>2. [r EXCEPT !.stack = x, !.memory = y] = Record(x, y, v, c)
    BY <1>5
  <2> QED BY <2>1, <2>2 DEF x
<1>7. ASSUME NEW x, NEW o PROVE TookOutput(r, x, o) = Record(x, IF o = Clear THEN m ELSE o, v, c)
  <2> DEFINE y == IF o = Clear THEN m ELSE o
  <2>1. TookOutput(r, x, o) = [r EXCEPT !.stack = x, !.memory = y]
    <3>1. [[r EXCEPT !.stack = x] EXCEPT !.memory = IF o = Clear THEN @ ELSE o]
            = [[r EXCEPT !.stack = x] EXCEPT !.memory = y]
      BY DEF Record
    <3> QED BY <3>1 DEF TookOutput
  <2> HIDE DEF y
  <2>2. [r EXCEPT !.stack = x, !.memory = y] = Record(x, y, v, c)
    BY <1>5
  <2> QED BY <2>1, <2>2 DEF y
<1> QED BY <1>1, <1>2, <1>3, <1>4, <1>6, <1>7

\* The instance has the sequence operators once more.
LEMMA AbstractIs ==
  /\ Abstract!Top = Last(Calls) /\ Abstract!Owner = Len(Calls)
  /\ \A call : Abstract!WithTop(call) = Append(Front(Calls), call)
  /\ \A s : Abstract!Front(s) = Front(s)
<1>1. \A s : Abstract!Front(s) = Front(s)
  BY DEF Abstract!Front, Front
<1>2. Abstract!Top = Last(Calls)
  BY DEF Abstract!Top, Abstract!Last, Last
<1> QED BY <1>1, <1>2 DEF Abstract!WithTop, Abstract!Owner

LEMMA StackPushMaps == ASSUME Inv, Inv', StackPush PROVE AbstractStep
<1>0. /\ pc = "running" /\ pc' = "running" /\ Top.state = "running" /\ Top.len < StackCapacity
      /\ words' = Written(Len(frames)) /\ frames' = WithTop([Top EXCEPT !.len = @ + 1])
      /\ UNCHANGED <<memories, scopes, world, outcome>>
  BY DEF StackPush, Running
<1>1. /\ Depth \in Nat \ {0} /\ Depth = Len(frames) /\ Top = frames[Depth] /\ Top \in Row
      /\ Top.bound /\ frames \in Seq(Row)
      /\ Calls # <<>> /\ Len(Calls) = Depth /\ Pending = <<>> /\ Failing = FALSE
      /\ Last(Calls) = TopCall
  BY <1>0, RunningCalls DEF Inv, Types
<1> DEFINE row == [Top EXCEPT !.len = @ + 1]
<1>2. /\ row \in Row /\ row.kind = Top.kind /\ row.checkpoint = Top.checkpoint
      /\ row.base_word = Top.base_word /\ row.len = Top.len + 1 /\ row.bound
  <2>1. Top.len + 1 \in 0 .. StackCapacity
    <3>1. Top.len \in 0 .. StackCapacity /\ Top.len < StackCapacity /\ StackCapacity \in Nat
      BY <1>0, <1>1, RuntimeConstants DEF Row
    <3> QED BY <3>1
  <2>2. row = [Top EXCEPT !.len = Top.len + 1]
    BY <1>1 DEF Row
  <2> QED BY <1>1, <2>1, <2>2 DEF Row
<1> HIDE DEF row
<1>3. /\ Len(frames') = Len(frames) /\ frames'[Depth] = row
      /\ \A i \in 1 .. Depth - 1 : frames'[i] = frames[i]
  <2>1. frames' = Append(Front(frames), row)
    BY <1>0 DEF WithTop, row
  <2>2. LET t == Append(Front(frames), row) IN
         /\ t \in Seq(Row) /\ Len(t) = Len(frames) /\ t[Len(frames)] = row
         /\ \A i \in 1 .. Len(frames) - 1 : t[i] = frames[i]
    BY <1>1, <1>2, TopReplaced
  <2> QED BY <1>1, <2>1, <2>2
<1>4. /\ words'[Top.base_word + Top.len + 1] = Depth
      /\ \A k \in 1 .. Top.base_word + Top.len : words'[k] = words[k]
  <2> DEFINE p == Top.base_word + Top.len + 1
  <2>1. /\ p \in 1 .. Len(words) /\ words'[p] = Depth
        /\ \A k \in 1 .. Len(words) \ {p} : words'[k] = words[k]
    <3>1. Depth \in 1 .. Depth /\ frames[Depth].len < StackCapacity
      BY <1>0, <1>1
    <3> QED BY <1>0, <1>1, <3>1, WrittenIs
  <2>2. Top.base_word \in Nat /\ Top.len \in Nat /\ Len(words) \in Nat
    <3>1. words \in Seq(Nat)
      BY DEF Inv, Types
    <3> QED BY <1>1, <3>1 DEF Row
  <2>3. \A k \in 1 .. Top.base_word + Top.len : k \in 1 .. Len(words) \ {p}
    BY <2>1, <2>2
  <2> QED BY <2>1, <2>3
<1>5. StackOf(frames'[Depth], words') = Append(StackOf(Top, words), Depth)
  <2> DEFINE y == words'
  <2>1. y[Top.base_word + Top.len + 1] = Depth
        /\ \A k \in 1 .. Top.base_word + Top.len : y[k] = words[k]
    BY <1>4
  <2> HIDE DEF y
  <2>2. StackOf(row, y) = Append(StackOf(Top, words), Depth)
    BY <1>1, <1>2, <2>1, StackPushed
  <2> QED BY <1>3, <2>2 DEF y
<1>6. Calls' = Append(Front(Calls), Record(Append(StackOf(Top, words), Depth), memories[Depth],
                                           SavedBy(Top, scopes), Top.kind = "create"))
  <2>1. \A k \in 1 .. Top.base_word : words'[k] = words[k]
    <3>1. Top.base_word \in Nat /\ Top.len \in Nat
      BY <1>1 DEF Row
    <3> QED BY <1>4, <3>1
  <2>2. Calls' = Append(Front(Calls), Record(StackOf(frames'[Depth], words'), memories'[Depth],
                                             SavedBy(Top, scopes), Top.kind = "create"))
    BY <1>0, <1>2, <1>3, <2>1, TopCallChanges
  <2> QED BY <1>0, <1>5, <2>2
<1>7. PushedCall(TopCall, Depth)
        = Record(Append(StackOf(Top, words), Depth), memories[Depth],
                 SavedBy(Top, scopes), Top.kind = "create")
  BY CallEdits DEF TopCall
<1>8. Calls' = Append(Front(Calls), PushedCall(Last(Calls), Len(Calls)))
  BY <1>1, <1>6, <1>7
<1>9. Pending' = Pending /\ Failing' = Failing /\ world' = world
  BY <1>0, <1>1 DEF Pending, Failing
<1>10. Abstract!Compute
  <2>1. Calls' = Abstract!WithTop([Abstract!Top EXCEPT !.stack = Append(@, Abstract!Owner)])
    <3>1. Calls' = Abstract!WithTop(PushedCall(Abstract!Top, Abstract!Owner))
      BY <1>8, AbstractIs
    <3> QED BY <3>1 DEF PushedCall
  <2> QED BY <1>1, <1>9, <2>1 DEF Abstract!Compute, Abstract!Nothing
<1> QED BY <1>10 DEF AbstractStep, Abstract!Next

LEMMA TopCallEdits ==
  LET s == StackOf(Top, words)
      m == memories[Depth]
      v == SavedBy(Top, scopes)
      c == Top.kind = "create" IN
  /\ TopCall.stack = s /\ TopCall.memory = m /\ TopCall.saved = v /\ TopCall.creates = c
  /\ \A n : PushedCall(TopCall, n) = Record(Append(s, n), m, v, c)
  /\ PoppedCall(TopCall) = Record(Front(s), m, v, c)
  /\ WroteCall(TopCall) = Record(s, Data, v, c)
  /\ \A n, y : AnsweredCall(TopCall, n, y) = Record(Append(Front(s), n), y, v, c)
  /\ \A x, o : TookOutput(TopCall, x, o) = Record(x, IF o = Clear THEN m ELSE o, v, c)
<1> DEFINE s == StackOf(Top, words)
           m == memories[Depth]
           v == SavedBy(Top, scopes)
           c == Top.kind = "create"
<1>1. TopCall = Record(s, m, v, c)
  BY DEF TopCall
<1> HIDE DEF s, m, v, c
<1>2. LET r == Record(s, m, v, c) IN
         /\ r.stack = s /\ r.memory = m /\ r.saved = v /\ r.creates = c
         /\ \A n : PushedCall(r, n) = Record(Append(s, n), m, v, c)
         /\ PoppedCall(r) = Record(Front(s), m, v, c)
         /\ WroteCall(r) = Record(s, Data, v, c)
         /\ \A n, y : AnsweredCall(r, n, y) = Record(Append(Front(s), n), y, v, c)
         /\ \A x, o : TookOutput(r, x, o) = Record(x, IF o = Clear THEN m ELSE o, v, c)
  BY CallEdits
<1> QED BY <1>1, <1>2 DEF s, m, v, c

LEMMA NewTopRow ==
  ASSUME Inv, pc = "running", NEW n \in 0 .. StackCapacity,
         NEW st \in {"running", "suspended", "halted"},
         frames' = WithTop([Top EXCEPT !.len = n, !.state = st])
  PROVE  LET row == frames'[Depth] IN
         /\ Len(frames') = Len(frames) /\ \A i \in 1 .. Depth - 1 : frames'[i] = frames[i]
         /\ row \in Row /\ row.kind = Top.kind /\ row.checkpoint = Top.checkpoint
         /\ row.base_word = Top.base_word /\ row.len = n /\ row.bound
<1>1. /\ Depth = Len(frames) /\ Len(frames) > 0 /\ Top \in Row /\ Top.bound /\ frames \in Seq(Row)
  BY RunningCalls DEF Inv, Types
<1> DEFINE row == [Top EXCEPT !.len = n, !.state = st]
<1>2. /\ row \in Row /\ row.kind = Top.kind /\ row.checkpoint = Top.checkpoint
      /\ row.base_word = Top.base_word /\ row.len = n /\ row.bound = Top.bound
  BY <1>1 DEF Row
<1>3. frames' = Append(Front(frames), row)
  BY DEF WithTop
<1> HIDE DEF row
<1>4. LET t == Append(Front(frames), row) IN
       /\ t \in Seq(Row) /\ Len(t) = Len(frames) /\ t[Len(frames)] = row
       /\ \A i \in 1 .. Len(frames) - 1 : t[i] = frames[i]
  BY <1>1, <1>2, TopReplaced
<1> QED BY <1>1, <1>2, <1>3, <1>4

\* The argument of a call is popped.
LEMMA PoppedCalls ==
  ASSUME Inv, Inv', pc = "running", Top.len > 0, UNCHANGED <<words, scopes, outcome>>,
         NEW st \in {"running", "suspended", "halted"},
         frames' = WithTop([Top EXCEPT !.len = @ - 1, !.state = st]),
         \A i \in 1 .. Depth - 1 : memories'[i] = memories[i]
  PROVE  Calls' = Append(Front(Calls), Record(Front(StackOf(Top, words)), memories'[Depth],
                                              SavedBy(Top, scopes), Top.kind = "create"))
         /\ LiveRows' = Depth
<1>1. /\ Depth \in Nat \ {0} /\ Depth = Len(frames) /\ Top \in Row /\ Top.bound
  BY RunningCalls
<1>2. Top.len - 1 \in 0 .. StackCapacity
  BY <1>1, RuntimeConstants DEF Row
<1>3. frames' = WithTop([Top EXCEPT !.len = Top.len - 1, !.state = st])
  <2>1. [Top EXCEPT !.len = @ - 1, !.state = st] = [Top EXCEPT !.len = Top.len - 1, !.state = st]
    BY <1>1 DEF Row
  <2> QED BY <2>1
<1> DEFINE row == frames'[Depth]
<1>4. /\ Len(frames') = Len(frames) /\ \A i \in 1 .. Depth - 1 : frames'[i] = frames[i]
      /\ row \in Row /\ row.kind = Top.kind /\ row.checkpoint = Top.checkpoint
      /\ row.base_word = Top.base_word /\ row.len = Top.len - 1 /\ row.bound
  BY <1>2, <1>3, NewTopRow
<1>5. Calls' = Append(Front(Calls), Record(StackOf(row, words'), memories'[Depth],
                                           SavedBy(Top, scopes), Top.kind = "create"))
      /\ LiveRows' = Depth
  BY <1>4, TopCallChanges
<1>6. StackOf(row, words') = Front(StackOf(Top, words))
  <2> HIDE DEF row
  <2>1. /\ Top \in Row /\ row \in Row /\ Top.bound /\ row.bound
        /\ row.base_word = Top.base_word /\ Top.len > 0 /\ row.len = Top.len - 1
        /\ \A k \in 1 .. Top.base_word + Top.len - 1 : words[k] = words[k]
    BY <1>1, <1>4
  <2>2. StackOf(row, words) = Front(StackOf(Top, words))
    BY <2>1, StackPopped, SMTT(20)
  <2> QED BY <2>2
<1> QED BY <1>5, <1>6

\* The answer takes the place of the argument.
LEMMA AnsweredCalls ==
  ASSUME Inv, Inv', pc = "running", Top.len > 0, UNCHANGED <<frames, scopes, outcome>>,
         words' = [words EXCEPT ![Top.base_word + Top.len] = IF Top.bound THEN Len(frames) ELSE @],
         \A i \in 1 .. Depth - 1 : memories'[i] = memories[i]
  PROVE  Calls' = Append(Front(Calls), Record(Append(Front(StackOf(Top, words)), Depth),
                                              memories'[Depth], SavedBy(Top, scopes),
                                              Top.kind = "create"))
         /\ LiveRows' = Depth
<1>1. /\ Depth \in Nat \ {0} /\ Depth = Len(frames) /\ Top = frames[Depth] /\ Top \in Row /\ Top.bound
  BY RunningCalls
<1> DEFINE p == Top.base_word + Top.len
           y == words'
<1>2. /\ p \in 1 .. Len(words) /\ y[p] = Depth
      /\ \A k \in 1 .. Len(words) \ {p} : y[k] = words[k]
  BY AnsweredIs
<1>3. Top.base_word \in Nat /\ Top.len \in Nat /\ Len(words) \in Nat
  <2>1. words \in Seq(Nat)
    BY DEF Inv, Types
  <2> QED BY <1>1, <2>1 DEF Row
<1>4. \A k \in 1 .. p - 1 : k \in 1 .. Len(words) \ {p}
  BY <1>2, <1>3
<1>5. \A k \in 1 .. p - 1 : y[k] = words[k]
  BY <1>2, <1>4
<1>6. \A k \in 1 .. Top.base_word : y[k] = words[k]
  <2>1. \A k \in 1 .. Top.base_word : k \in 1 .. p - 1
    BY <1>3
  <2> QED BY <1>5, <2>1
<1>7. Calls' = Append(Front(Calls), Record(StackOf(frames'[Depth], words'), memories'[Depth],
                                           SavedBy(Top, scopes), Top.kind = "create"))
      /\ LiveRows' = Depth
  BY <1>1, <1>6, TopCallChanges
<1>8. frames'[Depth] = Top
  BY <1>1
<1>9. StackOf(Top, words') = Append(Front(StackOf(Top, words)), Depth)
  <2>1. /\ Top \in Row /\ Top.bound /\ Top.len > 0 /\ y[Top.base_word + Top.len] = Depth
        /\ \A k \in 1 .. Top.base_word + Top.len - 1 : y[k] = words[k]
    BY <1>1, <1>2, <1>3, <1>5
  <2> HIDE DEF y
  <2>2. StackOf(Top, y) = Append(Front(StackOf(Top, words)), Depth)
    BY <2>1, StackAnswered
  <2> QED BY <2>2 DEF y
<1> QED BY <1>7, <1>8, <1>9

LEMMA StackPopMaps == ASSUME Inv, Inv', StackPop PROVE AbstractStep
<1>0. /\ pc = "running" /\ pc' = "running" /\ Top.state = "running" /\ Top.len > 0
      /\ frames' = WithTop([Top EXCEPT !.len = @ - 1])
      /\ UNCHANGED <<memories, words, scopes, world, outcome>>
  BY DEF StackPop, Running, store
<1>1. /\ Top \in Row /\ Top.bound
      /\ Calls # <<>> /\ Len(Calls) = Depth /\ Pending = <<>> /\ Failing = FALSE
      /\ Last(Calls) = TopCall
  BY <1>0, RunningCalls
<1>2. frames' = WithTop([Top EXCEPT !.len = @ - 1, !.state = "running"])
  <2>1. [Top EXCEPT !.len = @ - 1] = [Top EXCEPT !.len = @ - 1, !.state = "running"]
    BY <1>0, <1>1 DEF Row
  <2> QED BY <1>0, <2>1
<1>3. Calls' = Append(Front(Calls), Record(Front(StackOf(Top, words)), memories[Depth],
                                           SavedBy(Top, scopes), Top.kind = "create"))
  BY <1>0, <1>2, PoppedCalls
<1>4. Calls' = Append(Front(Calls), PoppedCall(TopCall))
  BY <1>3, TopCallEdits
<1>5. Pending' = Pending /\ Failing' = Failing /\ world' = world
  BY <1>0, <1>1 DEF Pending, Failing
<1>6. TopCall.stack # <<>>
  BY <1>0, <1>1, TopCallEdits, StackIs
<1>7. Abstract!Compute
  <2>1. Calls' = Abstract!WithTop(PoppedCall(Abstract!Top)) /\ Abstract!Top.stack # <<>>
    BY <1>1, <1>4, <1>6, AbstractIs
  <2>2. PoppedCall(Abstract!Top) = [Abstract!Top EXCEPT !.stack = Abstract!Front(@)]
    BY AbstractIs DEF PoppedCall
  <2> QED BY <1>1, <1>5, <2>1, <2>2 DEF Abstract!Compute, Abstract!Nothing
<1> QED BY <1>7 DEF AbstractStep, Abstract!Next

LEMMA MemoryWriteMaps == ASSUME Inv, Inv', MemoryWrite PROVE AbstractStep
<1>0. /\ pc = "running" /\ pc' = "running" /\ memories' = [memories EXCEPT ![Len(frames)] = Data]
      /\ UNCHANGED <<words, frames, scopes, world, outcome>>
  BY DEF MemoryWrite, Running
<1>1. /\ Depth \in Nat \ {0} /\ Depth = Len(frames) /\ Top = frames[Depth]
      /\ Calls # <<>> /\ Len(Calls) = Depth /\ Pending = <<>> /\ Failing = FALSE
      /\ Last(Calls) = TopCall
  BY <1>0, RunningCalls
<1>2. /\ memories'[Depth] = Data /\ \A i \in 1 .. Depth - 1 : memories'[i] = memories[i]
  <2>1. memories \in Seq({Clear, Data}) /\ Depth \in 1 .. Len(memories)
    BY <1>1 DEF Inv, Types, Layout
  <2> QED BY <1>0, <1>1, <2>1
<1>3. Calls' = Append(Front(Calls), Record(StackOf(frames'[Depth], words'), memories'[Depth],
                                           SavedBy(Top, scopes), Top.kind = "create"))
  BY <1>0, <1>1, <1>2, TopCallChanges
<1>4. Calls' = Append(Front(Calls), WroteCall(TopCall))
  BY <1>0, <1>1, <1>2, <1>3, TopCallEdits
<1>5. Pending' = Pending /\ Failing' = Failing /\ world' = world
  BY <1>0, <1>1 DEF Pending, Failing
<1>6. Abstract!Compute
  <2>1. Calls' = Abstract!WithTop(WroteCall(Abstract!Top))
    BY <1>1, <1>4, AbstractIs
  <2>2. Calls' = Abstract!WithTop([Abstract!Top EXCEPT !.memory = Data])
    BY <2>1 DEF WroteCall
  <2> QED BY <1>1, <1>5, <2>2 DEF Abstract!Compute, Abstract!Nothing
<1> QED BY <1>6 DEF AbstractStep, Abstract!Next

\* Steps of a running frame that leave its call as it is.
LEMMA SameCallMaps ==
  ASSUME Inv, Inv', pc = "running", UNCHANGED <<frames, memories, words, scopes, outcome>>,
         \/ pc' = "running" /\ world' \in Worlds
         \/ pc' = "failed" /\ world' = world
  PROVE  AbstractStep
<1>1. /\ Depth \in Nat \ {0} /\ LiveRows = Depth
      /\ Calls # <<>> /\ Pending = <<>> /\ Failing = FALSE
  BY RunningCalls
<1>2. LiveRows' = LiveRows
  BY DEF LiveRows, Parent, outcome
<1>3. Calls' = Calls
  BY <1>2 DEF Calls
<1>4. CASE pc' = "running" /\ world' \in Worlds
  <2>1. Pending' = Pending /\ Failing' = Failing
    BY <1>1, <1>4 DEF Pending, Failing
  <2>2. Abstract!Compute
    BY <1>1, <1>3, <1>4, <2>1 DEF Abstract!Compute, Abstract!Nothing
  <2> QED BY <2>2 DEF AbstractStep, Abstract!Next
<1>5. CASE pc' = "failed" /\ world' = world
  <2>1. Pending' = <<>> /\ Failing' = TRUE
    BY <1>1, <1>2, <1>5 DEF Pending, Failing
  <2>2. Abstract!Fail
    BY <1>1, <1>3, <1>5, <2>1 DEF Abstract!Fail, Abstract!Nothing
  <2> QED BY <2>2 DEF AbstractStep, Abstract!Next
<1> QED BY <1>4, <1>5

LEMMA WritesMap ==
  ASSUME Inv, Inv', StateWrite \/ RuntimeError \/ (FinishFails /\ Top.checkpoint = Root)
  PROVE  AbstractStep
<1>1. CASE StateWrite
  BY <1>1, SameCallMaps DEF StateWrite, Running, store
<1>2. CASE RuntimeError
  BY <1>2, SameCallMaps DEF RuntimeError, Running, store
<1>3. CASE FinishFails /\ Top.checkpoint = Root
  BY <1>3, SameCallMaps DEF FinishFails, store, Restored, CloseScope
<1> QED BY <1>1, <1>2, <1>3

\* What the newest frame's memory holds once it took an answer.
LEMMA TopReceives ==
  ASSUME Inv, pc = "running", NEW bytes \in {Clear, Data}, memories' = Received(Len(frames), bytes)
  PROVE  /\ \A i \in 1 .. Depth - 1 : memories'[i] = memories[i]
         /\ memories'[Depth] = IF bytes = Clear THEN memories[Depth] ELSE bytes
<1>1. Depth \in Nat \ {0} /\ Depth = Len(frames) /\ Depth \in 1 .. Depth
  BY RunningCalls
<1>2. /\ \A k \in 1 .. Len(memories) \ {Depth} : memories'[k] = memories[k]
      /\ memories'[Depth] = IF bytes = Clear THEN memories[Depth] ELSE bytes
  BY <1>1, ReceivedIs
<1>3. \A i \in 1 .. Depth - 1 : i \in 1 .. Len(memories) \ {Depth}
  <2>1. Depth <= Len(memories) /\ Len(memories) \in Nat
    BY DEF Inv, Types, Layout
  <2> QED BY <1>1, <2>1
<1> QED BY <1>2, <1>3

LEMMA StartImmediateMaps == ASSUME Inv, Inv', StartImmediate PROVE AbstractStep
<1>0. /\ pc = "running" /\ pc' = "running" /\ Top.len > 0 /\ world' \in Worlds
      /\ UNCHANGED <<scopes, outcome>>
  BY DEF StartImmediate, Running
<1>1. /\ Top \in Row /\ Top.bound
      /\ Calls # <<>> /\ Len(Calls) = Depth /\ Pending = <<>> /\ Failing = FALSE
      /\ Last(Calls) = TopCall
  BY <1>0, RunningCalls
<1>2. Pending' = Pending /\ Failing' = Failing
  BY <1>0, <1>1 DEF Pending, Failing
<1>3. TopCall.stack # <<>> /\ TopCall.memory = memories[Depth]
  BY <1>0, <1>1, TopCallEdits, StackIs
<1>4. CASE /\ \E bytes \in {Clear, Data} : memories' = Received(Len(frames), bytes)
           /\ words' = [words EXCEPT ![Top.base_word + Top.len] =
                         IF Top.bound THEN Len(frames) ELSE @]
           /\ UNCHANGED frames
  <2>1. PICK bytes \in {Clear, Data} : memories' = Received(Len(frames), bytes)
    BY <1>4
  <2>2. /\ \A i \in 1 .. Depth - 1 : memories'[i] = memories[i]
        /\ memories'[Depth] = IF bytes = Clear THEN memories[Depth] ELSE bytes
    BY <1>0, <2>1, TopReceives
  <2>3. Calls' = Append(Front(Calls), Record(Append(Front(StackOf(Top, words)), Depth),
                                             memories'[Depth], SavedBy(Top, scopes),
                                             Top.kind = "create"))
    BY <1>0, <1>4, <2>2, AnsweredCalls
  <2>4. Calls' = Append(Front(Calls), AnsweredCall(TopCall, Depth, memories'[Depth]))
    BY <2>3, TopCallEdits
  <2>5. memories'[Depth] \in {TopCall.memory, Data}
    BY <1>3, <2>1, <2>2
  <2>6. Calls' = Abstract!WithTop(AnsweredCall(Abstract!Top, Abstract!Owner, memories'[Depth]))
        /\ Abstract!Top.stack # <<>> /\ memories'[Depth] \in {Abstract!Top.memory, Data}
    BY <1>1, <1>3, <2>4, <2>5, AbstractIs
  <2>7. AnsweredCall(Abstract!Top, Abstract!Owner, memories'[Depth])
          = [Abstract!Top EXCEPT !.stack = Append(Abstract!Front(@), Abstract!Owner),
                                 !.memory = memories'[Depth]]
    BY AbstractIs DEF AnsweredCall
  <2>8. Abstract!Answer
    BY <1>0, <1>1, <1>2, <2>6, <2>7 DEF Abstract!Answer, Abstract!Nothing
  <2> QED BY <2>8 DEF AbstractStep, Abstract!Next
<1>5. CASE /\ frames' = WithTop([Top EXCEPT !.len = @ - 1, !.state = "halted"])
           /\ UNCHANGED <<memories, words>>
  <2>1. Calls' = Append(Front(Calls), Record(Front(StackOf(Top, words)), memories[Depth],
                                             SavedBy(Top, scopes), Top.kind = "create"))
    BY <1>0, <1>5, PoppedCalls
  <2>2. Calls' = Append(Front(Calls), PoppedCall(TopCall))
    BY <2>1, TopCallEdits
  <2>3. Calls' = Abstract!WithTop(PoppedCall(Abstract!Top)) /\ Abstract!Top.stack # <<>>
    BY <1>1, <1>3, <2>2, AbstractIs
  <2>4. PoppedCall(Abstract!Top) = [Abstract!Top EXCEPT !.stack = Abstract!Front(@)]
    BY AbstractIs DEF PoppedCall
  <2>5. Abstract!Answer
    BY <1>0, <1>1, <1>2, <2>3, <2>4 DEF Abstract!Answer, Abstract!Nothing
  <2> QED BY <2>5 DEF AbstractStep, Abstract!Next
<1> QED BY <1>4, <1>5 DEF StartImmediate

\* A failure that leaves the newest call without its argument or half answered.
LEMMA CallFails ==
  ASSUME Inv, pc = "running", Top.len > 0, pc' = "failed", LiveRows' = Depth, world' \in Worlds,
         NEW x \in {Front(StackOf(Top, words)), Append(Front(StackOf(Top, words)), Depth)},
         NEW o \in {Clear, Data},
         Calls' = Append(Front(Calls), Record(x, IF o = Clear THEN memories[Depth] ELSE o,
                                              SavedBy(Top, scopes), Top.kind = "create"))
  PROVE  AbstractStep
<1>1. /\ Depth \in Nat \ {0} /\ Top \in Row /\ Top.bound
      /\ Calls # <<>> /\ Len(Calls) = Depth /\ Pending = <<>> /\ Failing = FALSE
      /\ Last(Calls) = TopCall
  BY RunningCalls
<1>2. Pending' = <<>> /\ Failing' = TRUE
  BY <1>1 DEF Pending, Failing
<1>3. TopCall.stack # <<>> /\ TopCall.stack = StackOf(Top, words)
  BY <1>1, TopCallEdits, StackIs
<1>4. Calls' = Append(Front(Calls), TookOutput(TopCall, x, o))
  BY TopCallEdits
<1>5. /\ Calls' = Abstract!WithTop(TookOutput(Abstract!Top, x, o)) /\ Abstract!Top.stack # <<>>
      /\ x \in {Abstract!Front(Abstract!Top.stack),
                Append(Abstract!Front(Abstract!Top.stack), Abstract!Owner)}
  BY <1>1, <1>3, <1>4, AbstractIs
<1>6. Calls' = Abstract!WithOutput(x, o)
  BY <1>5 DEF Abstract!WithOutput, TookOutput
<1>7. Abstract!Fail
  BY <1>1, <1>2, <1>5, <1>6 DEF Abstract!Fail, Abstract!Nothing
<1> QED BY <1>7 DEF AbstractStep, Abstract!Next

LEMMA StartFailsMaps == ASSUME Inv, Inv', StartFails PROVE AbstractStep
<1>0. /\ pc = "running" /\ pc' = "failed" /\ Top.state = "running" /\ Top.len > 0
      /\ UNCHANGED <<scopes, outcome>> /\ world \in Worlds
  BY DEF StartFails, Running, Inv, Types
<1>1. Top \in Row /\ Top.bound
  BY <1>0, RunningCalls
<1> DEFINE S == StackOf(Top, words)
<1>2. CASE frames' = Suspended /\ UNCHANGED <<memories, words, world>>
  <2>1. Calls' = Append(Front(Calls), Record(Front(S), memories[Depth],
                                             SavedBy(Top, scopes), Top.kind = "create"))
        /\ LiveRows' = Depth
    BY <1>0, <1>2, PoppedCalls DEF Suspended
  <2>2. Clear \in {Clear, Data} /\ memories[Depth] = IF Clear = Clear THEN memories[Depth] ELSE Clear
    OBVIOUS
  <2> QED BY <1>0, <1>2, <2>1, <2>2, CallFails
<1>3. CASE /\ frames' = WithTop([Top EXCEPT !.len = @ - 1])
           /\ \E bytes \in {Clear, Data} : memories' = Received(Len(frames), bytes)
           /\ world' \in Worlds /\ UNCHANGED words
  <2>1. PICK bytes \in {Clear, Data} : memories' = Received(Len(frames), bytes)
    BY <1>3
  <2>2. /\ \A i \in 1 .. Depth - 1 : memories'[i] = memories[i]
        /\ memories'[Depth] = IF bytes = Clear THEN memories[Depth] ELSE bytes
    BY <1>0, <2>1, TopReceives
  <2>3. frames' = WithTop([Top EXCEPT !.len = @ - 1, !.state = "running"])
    <3>1. [Top EXCEPT !.len = @ - 1] = [Top EXCEPT !.len = @ - 1, !.state = "running"]
      BY <1>0, <1>1 DEF Row
    <3> QED BY <1>3, <3>1
  <2>4. Calls' = Append(Front(Calls), Record(Front(S), memories'[Depth],
                                             SavedBy(Top, scopes), Top.kind = "create"))
        /\ LiveRows' = Depth
    BY <1>0, <1>3, <2>2, <2>3, PoppedCalls
  <2>5. Calls' = Append(Front(Calls), Record(Front(S), IF bytes = Clear THEN memories[Depth] ELSE bytes,
                                             SavedBy(Top, scopes), Top.kind = "create"))
    BY <2>2, <2>4
  <2> QED BY <1>0, <1>3, <2>4, <2>5, CallFails
<1>4. CASE /\ words' = [words EXCEPT ![Top.base_word + Top.len] =
                         IF Top.bound THEN Len(frames) ELSE @]
           /\ \E bytes \in {Clear, Data} : memories' = Received(Len(frames), bytes)
           /\ world' \in Worlds /\ UNCHANGED frames
  <2>1. PICK bytes \in {Clear, Data} : memories' = Received(Len(frames), bytes)
    BY <1>4
  <2>2. /\ \A i \in 1 .. Depth - 1 : memories'[i] = memories[i]
        /\ memories'[Depth] = IF bytes = Clear THEN memories[Depth] ELSE bytes
    BY <1>0, <2>1, TopReceives
  <2>3. Calls' = Append(Front(Calls), Record(Append(Front(S), Depth), memories'[Depth],
                                             SavedBy(Top, scopes), Top.kind = "create"))
        /\ LiveRows' = Depth
    BY <1>0, <1>4, <2>2, AnsweredCalls
  <2>4. Calls' = Append(Front(Calls), Record(Append(Front(S), Depth),
                                             IF bytes = Clear THEN memories[Depth] ELSE bytes,
                                             SavedBy(Top, scopes), Top.kind = "create"))
    BY <2>2, <2>3
  <2> QED BY <1>0, <1>4, <2>3, <2>4, CallFails
<1> QED BY <1>2, <1>3, <1>4 DEF StartFails

-----------------------------------------------------------------------------
(***************************************************************************)
(* Calls that begin.                                                       *)
(***************************************************************************)
\* The calls below a new row, whether its push succeeds or fails: the newest
\* lost its argument, whatever the array did.
LEMMA SuspendedCalls ==
  ASSUME Inv, Inv', pc = "running", Top.len > 0, LiveRows' >= Depth,
         \A i \in 1 .. Depth : frames'[i] = Suspended[i] /\ memories'[i] = memories[i],
         \A k \in 1 .. used : words'[k] = words[k],
         \A k \in 1 .. Len(scopes) : k \in 1 .. Len(scopes') => scopes'[k] = scopes[k]
  PROVE  /\ \A i \in 1 .. Depth - 1 : Calls'[i] = Calls[i]
         /\ Calls'[Depth] = PoppedCall(TopCall)
<1> USE RuntimeConstants
<1>1. /\ Depth \in Nat \ {0} /\ Depth = Len(frames) /\ Top = frames[Depth] /\ Top \in Row
      /\ Top.bound /\ LiveRows = Depth
  BY RunningCalls
<1>2. LiveRows' \in Nat
  BY LiveNext DEF Live
<1>3. /\ \A i \in 1 .. Depth - 1 : Suspended[i] = frames[i]
      /\ LET row == Suspended[Depth] IN
         /\ row \in Row /\ row.kind = Top.kind /\ row.checkpoint = Top.checkpoint
         /\ row.base_word = Top.base_word /\ row.bound = Top.bound
         /\ row.len = Top.len - 1
  BY SuspendedIs
<1>4. ASSUME NEW i \in 1 .. Depth
      PROVE  /\ frames[i] \in Row /\ frames[i].base_word \in Nat /\ frames[i].len \in Nat
             /\ \A k \in 1 .. frames[i].base_word + frames[i].len : words'[k] = words[k]
  <2>1. frames[i] \in Row /\ frames[i].base_word + StackCapacity <= used
    BY WordExists
  <2>2. frames[i].base_word \in Nat /\ frames[i].len \in 0 .. StackCapacity /\ used \in Nat
    BY <2>1 DEF Row, Inv, Types
  <2>3. \A k \in 1 .. frames[i].base_word + frames[i].len : k \in 1 .. used
    BY <2>1, <2>2
  <2>4. \A k \in 1 .. frames[i].base_word + frames[i].len : words'[k] = words[k]
    BY <2>3
  <2>5. frames[i].len \in Nat
    BY <2>2
  <2> QED BY <2>1, <2>2, <2>4, <2>5
<1>5. ASSUME NEW i \in 1 .. Depth - 1 PROVE Calls'[i] = Calls[i]
  <2>1. i \in 1 .. LiveRows /\ i \in 1 .. LiveRows' /\ i \in 1 .. Depth
    BY <1>1, <1>2
  <2>2. frames'[i] = frames[i] /\ memories'[i] = memories[i]
    BY <1>3, <2>1
  <2>3. \A k \in 1 .. frames[i].base_word + frames[i].len : words'[k] = words[k]
    BY <1>4, <2>1
  <2> QED BY <2>1, <2>2, <2>3, CallKept
<1>6. Calls'[Depth] = PoppedCall(TopCall)
  <2> DEFINE row == frames'[Depth]
             y == words'
  <2>1. Depth \in 1 .. Depth /\ Depth \in 1 .. LiveRows' /\ row = Suspended[Depth]
    BY <1>1, <1>2
  <2>2. /\ row \in Row /\ row.bound /\ row.base_word = Top.base_word /\ row.len = Top.len - 1
        /\ row.kind = Top.kind /\ row.checkpoint = Top.checkpoint
    BY <1>1, <1>3, <2>1
  <2>3. \A k \in 1 .. Top.base_word + Top.len - 1 : y[k] = words[k]
    <3>1. /\ Top.base_word \in Nat /\ Top.len \in Nat
          /\ \A k \in 1 .. Top.base_word + Top.len : words'[k] = words[k]
      BY <1>1, <1>4, <2>1
    <3>2. \A k \in 1 .. Top.base_word + Top.len - 1 : k \in 1 .. Top.base_word + Top.len
      BY <3>1
    <3> QED BY <3>1, <3>2
  <2>4. Calls'[Depth] = CallOf(row, y, memories'[Depth], scopes') /\ memories'[Depth] = memories[Depth]
    BY <2>1, ListedNext DEF CallsListed
  <2>5. SavedBy(row, scopes') = SavedBy(Top, scopes)
    <3>1. Top.checkpoint = Root \/ Top.checkpoint \in 1 .. Len(scopes)
      BY <1>1, <2>1, InvLive DEF Live
    <3>2. row.checkpoint = Root \/ row.checkpoint \in 1 .. Len(scopes')
      BY <2>1, LiveNext DEF Live
    <3> QED BY <2>2, <3>1, <3>2 DEF SavedBy
  <2>6. StackOf(row, y) = Front(StackOf(Top, words))
    <3> HIDE DEF row, y
    <3> QED BY <1>1, <2>2, <2>3, StackPopped
  <2>7. CallOf(row, y, memories'[Depth], scopes')
          = Record(Front(StackOf(Top, words)), memories[Depth], SavedBy(Top, scopes), Top.kind = "create")
    <3> HIDE DEF row, y
    <3> QED BY <2>2, <2>4, <2>5, <2>6 DEF CallOf, Record
  <2> QED BY <2>4, <2>7, TopCallEdits
<1> QED BY <1>5, <1>6

\* The call of a row that was just pushed.
LEMMA NewCall ==
  ASSUME Inv', NEW n \in 1 .. LiveRows', NEW kind, NEW checkpoint, NEW base,
         frames'[n] = NewRow(kind, checkpoint, base), memories'[n] = Clear
  PROVE  Calls'[n] = Abstract!Call(SavedBy(frames'[n], scopes'), kind = "create")
<1>1. Calls'[n] = CallOf(frames'[n], words', memories'[n], scopes')
  BY ListedNext DEF CallsListed
<1>2. frames'[n].len = 0 /\ frames'[n].kind = kind
  BY DEF NewRow
<1>3. StackOf(frames'[n], words') = <<>>
  BY <1>2 DEF StackOf
<1> QED BY <1>1, <1>2, <1>3 DEF CallOf, Abstract!Call

LEMMA StartChildMaps == ASSUME Inv, Inv', NEW kind \in Kinds, StartChild(kind) PROVE AbstractStep
<1> USE RuntimeConstants
<1>0. /\ pc = "running" /\ Top.len > 0 /\ Depth < MaxRows /\ world \in Worlds
      /\ scopes \in Seq(Worlds) /\ Len(scopes) \in Nat /\ Len(scopes) + 1 \in Nat
      /\ UNCHANGED outcome
  BY DEF StartChild, Running, Inv, Types, Depth
<1>1. /\ Depth \in Nat \ {0} /\ Depth = Len(frames) /\ Top \in Row /\ Top.bound /\ LiveRows = Depth
      /\ ~top_frame_resolved
      /\ Calls # <<>> /\ Len(Calls) = Depth /\ Pending = <<>> /\ Failing = FALSE
      /\ Last(Calls) = TopCall
  BY <1>0, RunningCalls, RunningHasTop
<1>2. RowsOk(Suspended) /\ Len(Suspended) = Depth
  BY <1>0, SuspendedRowsOk DEF RowsOk
<1>3. TopCall.stack # <<>>
  BY <1>0, <1>1, TopCallEdits, StackIs
<1>4. CASE /\ Push(Suspended, kind, Len(scopes) + 1) /\ scopes' = OpenScope
           /\ world' \in Worlds /\ UNCHANGED pc
  <2> DEFINE base == NextStackBase(Suspended)
             row == NewRow(kind, Len(scopes) + 1, base)
  <2>1. /\ memories'[Depth + 1] = Clear /\ \A k \in 1 .. Depth : memories'[k] = memories[k]
        /\ \A k \in 1 .. used : words'[k] = words[k]
        /\ Len(frames') = Depth + 1 /\ frames'[Depth + 1] = row
        /\ \A i \in 1 .. Depth : frames'[i] = Suspended[i]
    BY <1>0, <1>2, <1>4, PushIs
  <2>2. LiveRows' = Depth + 1
    BY <1>0, <1>1, <2>1 DEF LiveRows, outcome
  <2>3. /\ Len(scopes') = Len(scopes) + 1 /\ scopes'[Len(scopes) + 1] = world
        /\ \A k \in 1 .. Len(scopes) : scopes'[k] = scopes[k]
    <3> DEFINE t == Append(scopes, world)
    <3>1. /\ Len(t) = Len(scopes) + 1 /\ t[Len(scopes) + 1] = world
          /\ \A k \in 1 .. Len(scopes) : t[k] = scopes[k]
      BY <1>0, AppendProperties
    <3> HIDE DEF t
    <3>2. scopes' = t
      BY <1>4 DEF OpenScope, t
    <3> QED BY <3>1, <3>2
  <2>4. /\ \A i \in 1 .. Depth - 1 : Calls'[i] = Calls[i]
        /\ Calls'[Depth] = PoppedCall(TopCall)
    <3>1. LiveRows' >= Depth
      BY <1>1, <2>2
    <3>2. \A i \in 1 .. Depth : frames'[i] = Suspended[i] /\ memories'[i] = memories[i]
      BY <2>1
    <3>3. \A k \in 1 .. Len(scopes) : k \in 1 .. Len(scopes') => scopes'[k] = scopes[k]
      BY <2>3
    <3> QED BY <1>0, <2>1, <3>1, <3>2, <3>3, SuspendedCalls
  <2>5. Calls' = Append(Append(Front(Calls), PoppedCall(TopCall)), Calls'[Depth + 1])
    BY <1>1, <2>2, <2>4, CallsEntered
  <2>6. Calls'[Depth + 1] = Abstract!Call(world, kind = "create")
    <3>1. Depth + 1 \in 1 .. LiveRows'
      BY <1>1, <2>2
    <3> HIDE DEF base
    <3>2. Calls'[Depth + 1] = Abstract!Call(SavedBy(frames'[Depth + 1], scopes'), kind = "create")
      BY <2>1, <3>1, NewCall
    <3>3. frames'[Depth + 1].checkpoint = Len(scopes) + 1 /\ Len(scopes) + 1 # Root
      BY <1>0, <2>1 DEF NewRow, Root
    <3>4. SavedBy(frames'[Depth + 1], scopes') = world
      BY <2>3, <3>3 DEF SavedBy
    <3> QED BY <3>2, <3>4
  <2>7. Pending' = Pending /\ Failing' = Failing
    BY <1>0, <1>1, <1>4 DEF Pending, Failing
  <2>8. /\ Abstract!Top.stack # <<>>
        /\ Calls' = Append(Abstract!WithTop(PoppedCall(Abstract!Top)), Abstract!Call(world, kind = "create"))
    BY <1>1, <1>3, <2>5, <2>6, AbstractIs
  <2>9. PoppedCall(Abstract!Top) = [Abstract!Top EXCEPT !.stack = Abstract!Front(@)]
    BY AbstractIs DEF PoppedCall
  <2>10. \E creates \in BOOLEAN :
           Calls' = Append(Abstract!WithTop([Abstract!Top EXCEPT !.stack = Abstract!Front(@)]),
                           Abstract!Call(world, creates))
    <3>1. (kind = "create") \in BOOLEAN
      OBVIOUS
    <3> QED BY <2>8, <2>9, <3>1, Zenon
  <2>11. Abstract!Enter
    BY <1>1, <1>4, <2>7, <2>8, <2>10 DEF Abstract!Enter, Abstract!Nothing
  <2> QED BY <2>11 DEF AbstractStep, Abstract!Next
<1>5. CASE PushFails(Suspended) /\ OnPushFailure /\ pc' = "failed"
  <2>1. /\ frames' = Suspended /\ \A k \in 1 .. Depth : memories'[k] = memories[k]
        /\ \A k \in 1 .. used : words'[k] = words[k]
        /\ scopes' = scopes /\ world' = world
    BY <1>0, <1>2, <1>5, PushFailsIs DEF OnPushFailure
  <2>2. LiveRows' = Depth
    BY <1>0, <1>1, <1>2, <2>1 DEF LiveRows, outcome
  <2>3. /\ \A i \in 1 .. Depth - 1 : Calls'[i] = Calls[i]
        /\ Calls'[Depth] = PoppedCall(TopCall)
    BY <1>0, <1>1, <2>1, <2>2, SuspendedCalls
  <2>4. Calls' = Append(Front(Calls), PoppedCall(TopCall))
    BY <1>1, <2>2, <2>3, TopChanged
  <2>5. Calls' = Append(Front(Calls), Record(Front(StackOf(Top, words)),
                                             IF Clear = Clear THEN memories[Depth] ELSE Clear,
                                             SavedBy(Top, scopes), Top.kind = "create"))
    BY <2>4, TopCallEdits
  <2>6. Clear \in {Clear, Data} /\ world' \in Worlds
    BY <1>0, <2>1
  <2> QED BY <1>0, <1>5, <2>2, <2>5, <2>6, CallFails
<1> QED BY <1>4, <1>5 DEF StartChild

\* The first call of a runtime.
LEMMA FirstCall ==
  ASSUME Inv, Inv', pc = "idle", pc' = "running",
         NEW kind \in Kinds \union {"root_call"}, NEW checkpoint \in Nat,
         Push(<<>>, kind, checkpoint), UNCHANGED outcome
  PROVE  /\ Calls = <<>> /\ Pending = <<>> /\ UNCHANGED <<Pending, Failing>>
         /\ LiveRows' = 1 /\ frames'[1].checkpoint = checkpoint
         /\ Calls' = <<Abstract!Call(SavedBy(frames'[1], scopes'), kind = "create")>>
<1> USE RuntimeConstants
<1>1. RowsOk(<<>>) /\ Depth = 0 /\ Depth < MaxRows
  BY EmptyRowsOk
<1> DEFINE base == NextStackBase(<<>>)
<1>2. /\ memories'[Depth + 1] = Clear /\ Len(frames') = Depth + 1
      /\ frames'[Depth + 1] = NewRow(kind, checkpoint, base)
  BY <1>1, PushIs
<1> HIDE DEF base
<1>3. /\ memories'[1] = Clear /\ Len(frames') = 1 /\ frames'[1] = NewRow(kind, checkpoint, base)
  BY <1>1, <1>2
<1>4. ~top_frame_resolved /\ LiveRows = 0
  BY <1>1 DEF Inv, Control, LiveRows, Depth
<1>5. LiveRows' = 1 /\ 1 \in 1 .. LiveRows'
  BY <1>3, <1>4 DEF LiveRows, outcome
<1>6. Calls'[1] = Abstract!Call(SavedBy(frames'[1], scopes'), kind = "create")
  BY <1>3, <1>5, NewCall
<1>7. Calls' = <<Calls'[1]>>
  <2>1. Calls' = Tabulated(Calls', 1)
    BY <1>5, ListedNext DEF CallsListed
  <2>2. Tabulated(Calls', 1) = <<Calls'[1]>>
    BY DEF Tabulated
  <2> QED BY <2>1, <2>2
<1>8. Calls = <<>>
  BY <1>4, InvListed DEF CallsListed
<1>9. Pending = <<>> /\ UNCHANGED <<Pending, Failing>>
  BY DEF Pending, Failing
<1>10. frames'[1].checkpoint = checkpoint
  BY <1>3 DEF NewRow
<1> QED BY <1>5, <1>6, <1>7, <1>8, <1>9, <1>10

LEMMA StartsMap ==
  ASSUME Inv, Inv', StartRoot \/ \E kind \in Kinds : StartMessage(kind)
  PROVE  AbstractStep
<1> USE RuntimeConstants
<1>0. pc = "idle" /\ scopes \in Seq(Worlds) /\ Len(scopes) \in Nat /\ UNCHANGED outcome /\ world \in Worlds
  BY DEF StartRoot, StartMessage, Inv, Types
<1>1. Root \in Nat /\ Len(scopes) + 1 \in Nat
  BY <1>0 DEF Root
<1>2. ASSUME PushFails(<<>>), UNCHANGED <<scopes, world, pc>> PROVE AbstractStep
  <2>1. RowsOk(<<>>) /\ Depth = 0 /\ Depth < MaxRows
    BY <1>0, EmptyRowsOk
  <2>2. frames' = <<>>
    BY <1>2, <2>1, PushFailsIs
  <2>3. LiveRows = 0 /\ LiveRows' = 0
    BY <1>0, <2>1, <2>2 DEF Inv, Control, LiveRows, Depth, outcome
  <2>4. Calls = <<>> /\ Calls' = <<>>
    BY <2>3, InvListed, ListedNext DEF CallsListed
  <2>5. Pending' = Pending /\ Failing' = Failing
    BY <1>0, <1>2 DEF Pending, Failing
  <2> QED BY <1>2, <2>4, <2>5 DEF AbstractStep, Abstract!vars
<1>3. CASE StartRoot
  <2>1. CASE Push(<<>>, "root_call", Root) /\ pc' = "running"
    <3>1. /\ Calls = <<>> /\ Pending = <<>> /\ UNCHANGED <<Pending, Failing>>
          /\ frames'[1].checkpoint = Root
          /\ Calls' = <<Abstract!Call(SavedBy(frames'[1], scopes'), "root_call" = "create")>>
      BY <1>0, <1>1, <2>1, FirstCall
    <3>2. SavedBy(frames'[1], scopes') = None
      BY <3>1 DEF SavedBy
    <3>3. Calls' = <<Abstract!Call(None, FALSE)>>
      <4>1. ("root_call" = "create") = FALSE
        OBVIOUS
      <4> QED BY <3>1, <3>2, <4>1
    <3>4. world' = world
      BY <1>3 DEF StartRoot
    <3>5. Abstract!Start
      BY <3>1, <3>3, <3>4 DEF Abstract!Start, Abstract!Nothing
    <3> QED BY <3>5 DEF AbstractStep, Abstract!Next
  <2> QED BY <1>2, <1>3, <2>1 DEF StartRoot
<1>4. ASSUME NEW kind \in Kinds, StartMessage(kind) PROVE AbstractStep
  <2>1. CASE /\ Push(<<>>, kind, Len(scopes) + 1) /\ scopes' = OpenScope
             /\ world' \in Worlds /\ pc' = "running"
    <3>1. /\ Calls = <<>> /\ Pending = <<>> /\ UNCHANGED <<Pending, Failing>>
          /\ frames'[1].checkpoint = Len(scopes) + 1
          /\ Calls' = <<Abstract!Call(SavedBy(frames'[1], scopes'), kind = "create")>>
      BY <1>0, <1>1, <2>1, FirstCall
    <3>2. scopes'[Len(scopes) + 1] = world /\ Len(scopes) + 1 # Root
      BY <1>0, <2>1, AppendProperties DEF OpenScope, Root
    <3>3. SavedBy(frames'[1], scopes') = world
      BY <3>1, <3>2 DEF SavedBy
    <3>4. \E creates \in BOOLEAN : Calls' = <<Abstract!Call(world, creates)>>
      <4>1. (kind = "create") \in BOOLEAN
        OBVIOUS
      <4>2. Calls' = <<Abstract!Call(world, kind = "create")>>
        BY <3>1, <3>3
      <4> QED BY <4>1, <4>2, Zenon
    <3>5. Abstract!Start
      BY <2>1, <3>1, <3>4 DEF Abstract!Start, Abstract!Nothing
    <3> QED BY <3>5 DEF AbstractStep, Abstract!Next
  <2>2. CASE PushFails(<<>>) /\ OnPushFailure /\ UNCHANGED pc
    BY <1>2, <2>2 DEF OnPushFailure
  <2> QED BY <1>4, <2>1, <2>2 DEF StartMessage
<1> QED BY <1>3, <1>4

-----------------------------------------------------------------------------
(***************************************************************************)
(* Calls that end or are given up.                                         *)
(***************************************************************************)
\* The calls below stay as they are.
LEMMA LowerCalls ==
  ASSUME Inv, Inv', NEW n \in Nat, n <= LiveRows, n <= LiveRows', words' = words,
         \A i \in 1 .. n : frames'[i] = frames[i] /\ memories'[i] = memories[i],
         \A k \in 1 .. Len(scopes) : k \in 1 .. Len(scopes') => scopes'[k] = scopes[k]
  PROVE  \A i \in 1 .. n : Calls'[i] = Calls[i]
<1>1. ASSUME NEW i \in 1 .. n PROVE Calls'[i] = Calls[i]
  <2>1. LiveRows \in Nat /\ LiveRows' \in Nat
    BY InvLive, LiveNext DEF Live
  <2>2. i \in 1 .. LiveRows /\ i \in 1 .. LiveRows'
    BY <2>1
  <2>3. frames'[i] = frames[i] /\ memories'[i] = memories[i]
    OBVIOUS
  <2> QED BY <2>2, <2>3, CallKept
<1> QED BY <1>1

\* The newest call, and the state its checkpoint restores.
LEMMA TopOwns ==
  ASSUME Inv, pc \in {"running", "failed"}, ~top_frame_resolved
  PROVE  /\ Depth \in Nat \ {0} /\ LiveRows = Depth /\ Parent = Depth - 1 /\ Calls # <<>>
         /\ Last(Calls).saved = SavedBy(Top, scopes) /\ Last(Calls).memory = memories[Depth]
         /\ Last(Calls).creates = (Top.kind = "create")
         /\ Restored(Top.checkpoint)
              = IF SavedBy(Top, scopes) = None THEN world ELSE SavedBy(Top, scopes)
<1>1. /\ Depth \in Nat \ {0} /\ Top = frames[Depth] /\ LiveRows = Depth /\ Parent = Depth - 1
  BY RunningHasTop
<1>2. Depth \in 1 .. LiveRows
  BY <1>1
<1>3. /\ Calls # <<>> /\ Last(Calls) = Calls[Depth]
      /\ Calls[Depth] = CallOf(Top, words, memories[Depth], scopes)
  BY <1>1, <1>2, InvListed DEF CallsListed
<1>4. Top.checkpoint = Root \/ Top.checkpoint \in 1 .. Len(scopes)
  BY <1>1, <1>2, InvLive DEF Live
<1>5. Restored(Top.checkpoint)
        = IF SavedBy(Top, scopes) = None THEN world ELSE SavedBy(Top, scopes)
  <2>1. CASE Top.checkpoint = Root
    BY <2>1 DEF Restored, SavedBy
  <2>2. CASE Top.checkpoint # Root
    <3>1. scopes[Top.checkpoint] \in Worlds
      <4>1. scopes \in Seq(Worlds) /\ Top.checkpoint \in 1 .. Len(scopes)
        BY <1>4, <2>2 DEF Inv, Types
      <4> QED BY <4>1, ElementOfSeq
    <3> QED BY <2>2, <3>1, NoneIsNoWorld DEF Restored, SavedBy
  <2> QED BY <2>1, <2>2
<1>6. Last(Calls) = Record(StackOf(Top, words), memories[Depth], SavedBy(Top, scopes),
                           Top.kind = "create")
  BY <1>3, CallIs
<1>7. /\ Last(Calls).saved = SavedBy(Top, scopes) /\ Last(Calls).memory = memories[Depth]
      /\ Last(Calls).creates = (Top.kind = "create")
  BY <1>6 DEF Record
<1> QED BY <1>1, <1>3, <1>5, <1>7

LEMMA FinishesMap ==
  ASSUME Inv, Inv', NEW ok \in BOOLEAN, FinishCall(ok) \/ FinishCreate(ok)
  PROVE  AbstractStep
<1>0. pc = "running" /\ \E row \in Outputs : Resolve(ok, row)
  BY DEF FinishCall, FinishCreate
<1>1. /\ Depth = Len(frames) /\ ~top_frame_resolved /\ Pending = <<>> /\ Failing = FALSE
  BY <1>0, RunningCalls, RunningHasTop
<1>2. /\ Depth \in Nat \ {0} /\ LiveRows = Depth /\ Parent = Depth - 1 /\ Calls # <<>>
      /\ Last(Calls).saved = SavedBy(Top, scopes) /\ Last(Calls).memory = memories[Depth]
      /\ Last(Calls).creates = (Top.kind = "create")
      /\ Restored(Top.checkpoint)
           = IF SavedBy(Top, scopes) = None THEN world ELSE SavedBy(Top, scopes)
  BY <1>0, <1>1, TopOwns
<1>3. PICK row \in Outputs : Resolve(ok, row)
  BY <1>0
<1>4. /\ scopes' = CloseScope(Top.checkpoint) /\ result' = [ok |-> ok, row |-> row]
      /\ top_frame_resolved' /\ pc' = "finished" /\ UNCHANGED <<memories, words, frames>>
  BY <1>3 DEF Resolve, store, Result
<1>5. LiveRows' = Depth - 1 /\ Parent \in Nat
  BY <1>1, <1>2, <1>4 DEF LiveRows, Parent
<1>6. \A i \in 1 .. Depth - 1 : Calls'[i] = Calls[i]
  <2>1. \A k \in 1 .. Len(scopes') : scopes'[k] = scopes[k]
    BY <1>0, <1>1, <1>4, ClosedIs
  <2>2. Depth - 1 \in Nat /\ Depth - 1 <= LiveRows /\ Depth - 1 <= LiveRows'
    BY <1>2, <1>5
  <2> QED BY <1>4, <2>1, <2>2, LowerCalls
<1>7. Calls' = Front(Calls)
  BY <1>2, <1>5, <1>6, CallsDropped
<1> DEFINE out == IF Top.kind = "create" \/ row = 0 THEN Clear ELSE memories[Depth]
<1>8. Pending' = <<[ok |-> ok, output |-> out]>> /\ Failing' = FALSE
  <2>1. Top' = Top /\ (row = 0 \/ row = Depth)
    BY <1>1, <1>4 DEF Top, Outputs
  <2>2. Delivered(result)' = out
    BY <1>4, <2>1 DEF Delivered, OutputOf
  <2>3. result'.ok = ok
    BY <1>4
  <2>4. Pending' = <<[ok |-> result'.ok, output |-> Delivered(result)']>> /\ Failing' = FALSE
    BY <1>4 DEF Pending, Failing
  <2> QED BY <2>2, <2>3, <2>4
<1>9. out \in IF Last(Calls).creates THEN {Clear} ELSE {Clear, Last(Calls).memory}
  BY <1>2
<1> HIDE DEF out
<1>10. IF ok THEN world' \in IF Last(Calls).creates THEN Worlds ELSE {world}
       ELSE world' = IF Last(Calls).saved = None THEN world ELSE Last(Calls).saved
  BY <1>2 DEF FinishCall, FinishCreate
<1>11. Abstract!Leave(ok)
  <2>1. Calls' = Abstract!Front(Calls) /\ Abstract!Top = Last(Calls)
    BY <1>7, AbstractIs
  <2>2. \E bytes \in IF Abstract!Top.creates THEN {Clear} ELSE {Clear, Abstract!Top.memory} :
          Pending' = <<[ok |-> ok, output |-> bytes]>>
    BY <1>8, <1>9, <2>1
  <2> QED BY <1>1, <1>2, <1>8, <1>10, <2>1, <2>2 DEF Abstract!Leave, Abstract!Nothing
<1> QED BY <1>11 DEF AbstractStep, Abstract!Next

LEMMA DropsMap == ASSUME Inv, Inv', PopResolvedFrame \/ Deinit PROVE AbstractStep
<1>0. /\ pc \in {"delivered", "failed"} /\ Pop /\ Unresolved
      /\ pc' = IF Parent = 0 THEN "idle" ELSE IF pc = "failed" THEN "failed" ELSE "running"
      /\ pc = "delivered" => top_frame_resolved
      /\ \/ top_frame_resolved /\ UNCHANGED <<scopes, world>>
         \/ /\ ~top_frame_resolved /\ world' = Restored(Top.checkpoint)
            /\ scopes' = CloseScope(Top.checkpoint)
  BY DEF PopResolvedFrame, Deinit, Inv, Control
<1>1. /\ Depth \in Nat \ {0} /\ Depth = Len(frames) /\ Parent = Depth - 1 /\ Parent \in Nat
      /\ LiveRows = IF top_frame_resolved THEN Parent ELSE Depth
  BY <1>0, RunningHasTop
<1>2. /\ Len(frames') = Parent /\ words' = words
      /\ \A i \in 1 .. Parent : frames'[i] = frames[i] /\ memories'[i] = memories[i]
  BY <1>0, PopIs
<1>3. LiveRows' = Parent
  BY <1>0, <1>2 DEF LiveRows, Unresolved
<1>4. Pending = <<>> /\ Pending' = <<>> /\ Failing = (pc = "failed" /\ LiveRows > 0)
      /\ Failing' = (pc' = "failed" /\ Parent > 0)
  BY <1>0, <1>3 DEF Pending, Failing
<1>5. CASE top_frame_resolved /\ UNCHANGED <<scopes, world>>
  <2>1. LiveRows = Parent /\ Parent <= LiveRows /\ Parent <= LiveRows'
    BY <1>1, <1>3, <1>5
  <2>2. \A i \in 1 .. Parent : Calls'[i] = Calls[i]
    BY <1>1, <1>2, <1>5, <2>1, LowerCalls
  <2>3. Calls' = Calls
    BY <1>3, <2>1, <2>2, CallsUnmoved
  <2>4. Failing' = Failing
    BY <1>0, <1>1, <1>4, <2>1
  <2> QED BY <1>4, <1>5, <2>3, <2>4 DEF AbstractStep, Abstract!vars
<1>6. CASE /\ ~top_frame_resolved /\ world' = Restored(Top.checkpoint)
           /\ scopes' = CloseScope(Top.checkpoint)
  <2>1. pc = "failed" /\ LiveRows = Depth /\ Depth > 0
    BY <1>0, <1>1, <1>6
  <2>2. /\ Calls # <<>> /\ Last(Calls).saved = SavedBy(Top, scopes)
        /\ Restored(Top.checkpoint)
             = IF SavedBy(Top, scopes) = None THEN world ELSE SavedBy(Top, scopes)
    BY <1>6, <2>1, TopOwns
  <2>3. \A i \in 1 .. Parent : Calls'[i] = Calls[i]
    <3>1. \A k \in 1 .. Len(scopes') : scopes'[k] = scopes[k]
      BY <1>6, <2>1, ClosedIs
    <3>2. Parent <= LiveRows /\ Parent <= LiveRows'
      BY <1>1, <1>3, <2>1
    <3> QED BY <1>1, <1>2, <3>1, <3>2, LowerCalls
  <2>4. Calls' = Front(Calls)
    BY <1>1, <1>3, <2>1, <2>3, CallsDropped
  <2>5. (Calls' # <<>>) = (Parent > 0)
    BY <1>1, <1>3, ListedNext DEF CallsListed
  <2>6. Failing = TRUE /\ Failing' = (Calls' # <<>>)
    <3>1. pc' = "failed" <=> Parent > 0
      BY <1>0, <1>1, <2>1
    <3>2. Failing = TRUE
      BY <1>1, <2>1 DEF Failing
    <3>3. Failing' = (pc' = "failed" /\ Parent > 0)
      BY <1>3 DEF Failing
    <3> QED BY <2>5, <3>1, <3>2, <3>3, Zenon
  <2>7. Calls' = Abstract!Front(Calls) /\ Abstract!Top = Last(Calls)
    BY <2>4, AbstractIs
  <2>8. world' = IF Abstract!Top.saved = None THEN world ELSE Abstract!Top.saved
    BY <1>6, <2>2, <2>7
  <2>9. Abstract!GiveUp
    BY <1>4, <2>6, <2>7, <2>8 DEF Abstract!GiveUp
  <2> QED BY <2>9 DEF AbstractStep, Abstract!Next
<1> QED BY <1>0, <1>5, <1>6

-----------------------------------------------------------------------------
(***************************************************************************)
(* The result of a call reaches the one below.                             *)
(***************************************************************************)
\* The call below a finished row.
LowerCall == Record(StackOf(frames[Parent], words), memories[Parent],
                    SavedBy(frames[Parent], scopes), frames[Parent].kind = "create")

LEMMA FinishedCalls ==
  ASSUME Inv, pc = "finished"
  PROVE  /\ Parent \in Nat /\ LiveRows = Parent /\ Depth = Parent + 1 /\ top_frame_resolved
         /\ Len(Calls) = Parent /\ (Parent = 0 => Calls = <<>>)
         /\ Parent > 0 => Calls # <<>> /\ Last(Calls) = LowerCall
         /\ Pending # <<>> /\ Head(Pending).output = Delivered(result) /\ Failing = FALSE
         /\ Delivered(result) \in {Clear, Data}
<1>1. /\ Parent \in Nat /\ Depth = Parent + 1 /\ LiveRows = Parent /\ top_frame_resolved
      /\ Delivered(result) \in {Clear, Data}
  BY ParentIs, RunningHasTop DEF Inv, Control
<1>2. Len(Calls) = Parent /\ (Parent = 0 => Calls = <<>>)
  BY <1>1, InvListed DEF CallsListed
<1>3. ASSUME Parent > 0 PROVE Calls # <<>> /\ Last(Calls) = LowerCall
  <2>1. Parent \in 1 .. LiveRows
    BY <1>1, <1>3
  <2>2. /\ Calls # <<>> /\ Last(Calls) = Calls[Parent]
        /\ Calls[Parent] = CallOf(frames[Parent], words, memories[Parent], scopes)
    BY <1>1, <1>3, <2>1, InvListed DEF CallsListed
  <2> QED BY <2>2, CallIs DEF LowerCall
<1>4. Pending = <<[ok |-> result.ok, output |-> Delivered(result)]>> /\ Failing = FALSE
  BY DEF Pending, Failing
<1> DEFINE d == Delivered(result)
<1>5. Pending # <<>> /\ Head(Pending).output = d
  <2>1. Pending = <<[ok |-> result.ok, output |-> d]>>
    BY <1>4
  <2> HIDE DEF d
  <2> QED BY <2>1
<1> QED BY <1>1, <1>2, <1>3, <1>4, <1>5

\* A step that changes the row below the finished one changes only its call.
LEMMA LowerCallChanges ==
  ASSUME Inv, Inv', pc = "finished", Parent > 0, UNCHANGED <<scopes, outcome>>,
         NEW n \in 0 .. StackCapacity, NEW st \in {"running", "halted"}, frames' = AtParent(st, n),
         \A i \in 1 .. Parent - 1 : memories'[i] = memories[i],
         \A k \in 1 .. frames[Parent].base_word : words'[k] = words[k]
  PROVE  /\ LiveRows' = Parent
         /\ LET row == frames'[Parent] IN
            /\ row \in Row /\ row.bound /\ row.base_word = frames[Parent].base_word /\ row.len = n
            /\ Calls' = Append(Front(Calls),
                               Record(StackOf(row, words'), memories'[Parent],
                                      SavedBy(frames[Parent], scopes),
                                      frames[Parent].kind = "create"))
<1>1. /\ Parent \in Nat \ {0} /\ LiveRows = Parent /\ Depth = Parent + 1 /\ top_frame_resolved
      /\ Parent \in 1 .. Depth /\ Depth = Len(frames) /\ frames[Parent] \in Row
  BY FinishedCalls, ParentIs
<1> DEFINE row == frames'[Parent]
<1>2. /\ Len(frames') = Len(frames) /\ frames' \in Seq(Row)
      /\ \A i \in 1 .. Len(frames) :
           /\ i # Parent => frames'[i] = frames[i]
           /\ frames'[i].kind = frames[i].kind
           /\ frames'[i].checkpoint = frames[i].checkpoint
           /\ frames'[i].base_word = frames[i].base_word /\ frames'[i].bound
           /\ i = Parent => frames'[i].len = n
  BY ParentReplaced
<1>3. /\ row \in Row /\ row.bound /\ row.base_word = frames[Parent].base_word /\ row.len = n
      /\ row.kind = frames[Parent].kind /\ row.checkpoint = frames[Parent].checkpoint
  <2>1. Parent \in 1 .. Len(frames')
    BY <1>1, <1>2
  <2>2. row \in Row
    BY <1>2, <2>1, ElementOfSeq
  <2> QED BY <1>1, <1>2, <2>2
<1>4. LiveRows' = Parent
  BY <1>1, <1>2 DEF LiveRows, Parent, outcome
<1>5. ASSUME NEW i \in 1 .. Parent - 1 PROVE Calls'[i] = Calls[i]
  <2>1. i \in 1 .. LiveRows /\ i \in 1 .. LiveRows' /\ i \in 1 .. Len(frames) /\ i # Parent /\ i < Parent
        /\ Parent \in 1 .. LiveRows
    BY <1>1, <1>4
  <2>2. frames'[i] = frames[i] /\ memories'[i] = memories[i]
    BY <1>2, <2>1
  <2>3. \A k \in 1 .. frames[i].base_word + frames[i].len : words'[k] = words[k]
    <3>1. frames[i].base_word + frames[i].len <= frames[Parent].base_word
      BY <2>1 DEF Inv, Layout
    <3>2. frames[i].base_word \in Nat /\ frames[i].len \in Nat /\ frames[Parent].base_word \in Nat
      BY <1>1, <2>1, InvLive DEF Live, Row
    <3>3. \A k \in 1 .. frames[i].base_word + frames[i].len : k \in 1 .. frames[Parent].base_word
      BY <3>1, <3>2
    <3> QED BY <3>3
  <2> QED BY <2>1, <2>2, <2>3, CallKept
<1>6. Calls' = Append(Front(Calls), Calls'[Parent])
  BY <1>1, <1>4, <1>5, TopChanged
<1>7. Calls'[Parent] = CallOf(row, words', memories'[Parent], scopes')
  BY <1>1, <1>4, ListedNext DEF CallsListed
<1>8. SavedBy(row, scopes') = SavedBy(frames[Parent], scopes)
  BY <1>3 DEF SavedBy
<1>9. Calls'[Parent] = Record(StackOf(row, words'), memories'[Parent],
                              SavedBy(frames[Parent], scopes), frames[Parent].kind = "create")
  BY <1>3, <1>7, <1>8 DEF CallOf, Record
<1> QED BY <1>3, <1>4, <1>6, <1>9

\* What the memory of the row below holds once it took the output.
LEMMA LowerReceives ==
  ASSUME Inv, pc = "finished", Parent > 0, memories' = Received(Parent, Delivered(result))
  PROVE  /\ \A i \in 1 .. Parent - 1 : memories'[i] = memories[i]
         /\ memories'[Parent] = IF Delivered(result) = Clear THEN memories[Parent]
                                                             ELSE Delivered(result)
<1> DEFINE d == Delivered(result)
<1>1. Parent \in 1 .. Depth /\ d \in {Clear, Data} /\ Parent \in Nat
  BY ParentIs
<1>2. Depth <= Len(memories) /\ Len(memories) \in Nat /\ Depth \in Nat
  BY DEF Inv, Types, Layout, Depth
<1>3. memories' = Received(Parent, d)
  OBVIOUS
<1> HIDE DEF d
<1>4. /\ \A k \in 1 .. Len(memories) \ {Parent} : memories'[k] = memories[k]
      /\ memories'[Parent] = IF d = Clear THEN memories[Parent] ELSE d
  BY <1>1, <1>3, ReceivedIs
<1>5. \A i \in 1 .. Parent - 1 : i \in 1 .. Len(memories) \ {Parent}
  BY <1>1, <1>2
<1> QED BY <1>4, <1>5 DEF d

\* The row below took the result, or its output at least, or halted.
LEMMA LowerTakes ==
  ASSUME Inv, Inv', pc = "finished", Parent > 0, UNCHANGED <<scopes, outcome>>,
         NEW x \in {StackOf(frames[Parent], words), Append(StackOf(frames[Parent], words), Parent)},
         NEW n \in 0 .. StackCapacity, NEW st \in {"running", "halted"}, frames' = AtParent(st, n),
         \A k \in 1 .. frames[Parent].base_word : words'[k] = words[k],
         StackOf(frames'[Parent], words') = x,
         memories' = Received(Parent, Delivered(result))
  PROVE  /\ LiveRows' = Parent
         /\ Calls' = Abstract!WithOutput(x, Head(Pending).output)
         /\ x \in {Abstract!Top.stack, Append(Abstract!Top.stack, Abstract!Owner)}
<1> DEFINE d == Delivered(result)
           m == memories[Parent]
           v == SavedBy(frames[Parent], scopes)
           c == frames[Parent].kind = "create"
           s == StackOf(frames[Parent], words)
<1>1. /\ \A i \in 1 .. Parent - 1 : memories'[i] = memories[i]
      /\ memories'[Parent] = IF d = Clear THEN m ELSE d
  BY LowerReceives
<1>2. /\ LiveRows' = Parent
      /\ Calls' = Append(Front(Calls), Record(x, memories'[Parent], v, c))
  BY <1>1, LowerCallChanges
<1>3. /\ Last(Calls) = Record(s, m, v, c) /\ Head(Pending).output = d /\ Len(Calls) = Parent
  BY FinishedCalls DEF LowerCall
<1>4. x \in {s, Append(s, Parent)}
  OBVIOUS
<1> HIDE DEF d, m, v, c, s
<1>5. /\ Record(s, m, v, c).stack = s
      /\ TookOutput(Record(s, m, v, c), x, d) = Record(x, IF d = Clear THEN m ELSE d, v, c)
  BY CallEdits
<1>6. Calls' = Append(Front(Calls), TookOutput(Last(Calls), x, d))
  BY <1>1, <1>2, <1>3, <1>5
<1>7. Calls' = Abstract!WithTop(TookOutput(Abstract!Top, x, d))
      /\ Abstract!Top.stack = s /\ Abstract!Owner = Parent
  BY <1>3, <1>5, <1>6, AbstractIs
<1>8. Calls' = Abstract!WithOutput(x, d)
  BY <1>7 DEF Abstract!WithOutput, TookOutput
<1> QED BY <1>2, <1>3, <1>4, <1>7, <1>8

\* The three things a delivery does to the calls.
LEMMA ResumedMaps ==
  ASSUME Inv, Inv', pc = "finished", Parent > 0, UNCHANGED <<scopes, outcome>>,
         words' = Written(Parent), memories' = Received(Parent, Delivered(result)),
         frames' = [frames EXCEPT ![Parent].state = "running", ![Parent].len = @ + 1]
  PROVE  /\ LiveRows' = Parent
         /\ Calls' = Abstract!WithOutput(Append(Abstract!Top.stack, Abstract!Owner),
                                         Head(Pending).output)
<1> USE RuntimeConstants
<1> DEFINE p == frames[Parent]
           y == words'
           row == frames'[Parent]
<1>1. /\ Parent \in 1 .. Depth /\ p \in Row /\ p.len < StackCapacity /\ p.bound
  BY ParentIs, WordExists
<1>2. frames' = AtParent("running", p.len + 1) /\ p.len + 1 \in 0 .. StackCapacity
  BY ResumedIs
<1>3. /\ p.base_word + p.len + 1 \in 1 .. Len(words) /\ y[p.base_word + p.len + 1] = Parent
      /\ \A k \in 1 .. Len(words) \ {p.base_word + p.len + 1} : y[k] = words[k]
  BY <1>1, WrittenIs, SMTT(20)
<1>4. p.base_word \in Nat /\ p.len \in Nat /\ Len(words) \in Nat
  <2>1. words \in Seq(Nat)
    BY DEF Inv, Types
  <2> QED BY <1>1, <2>1 DEF Row
<1>5. \A k \in 1 .. p.base_word + p.len : y[k] = words[k]
  <2> HIDE DEF p, y
  <2>1. \A k \in 1 .. p.base_word + p.len : k \in 1 .. Len(words) \ {p.base_word + p.len + 1}
    BY <1>3, <1>4
  <2> QED BY <1>3, <2>1
<1>6. \A k \in 1 .. p.base_word : words'[k] = words[k]
  BY <1>4, <1>5
<1>7. /\ row \in Row /\ row.bound /\ row.base_word = p.base_word /\ row.len = p.len + 1
  <2>1. \A i \in 1 .. Parent - 1 : memories'[i] = memories[i]
    BY LowerReceives
  <2>2. "running" \in {"running", "halted"}
    OBVIOUS
  <2> QED BY <1>2, <1>6, <2>1, <2>2, LowerCallChanges
<1>8. StackOf(row, y) = Append(StackOf(p, words), Parent)
  <2>1. /\ p \in Row /\ row \in Row /\ p.bound /\ row.bound /\ row.base_word = p.base_word
        /\ row.len = p.len + 1 /\ y[p.base_word + p.len + 1] = Parent
        /\ \A k \in 1 .. p.base_word + p.len : y[k] = words[k]
    BY <1>1, <1>3, <1>5, <1>7
  <2> HIDE DEF p, y, row
  <2> QED BY <2>1, StackPushed
<1> DEFINE x == Append(StackOf(p, words), Parent)
<1>9. x \in {StackOf(p, words), Append(StackOf(p, words), Parent)} /\ StackOf(frames'[Parent], words') = x
      /\ "running" \in {"running", "halted"}
  BY <1>8
<1> HIDE DEF x
<1>10. /\ LiveRows' = Parent /\ Calls' = Abstract!WithOutput(x, Head(Pending).output)
  BY <1>2, <1>6, <1>9, LowerTakes
<1>11. x = Append(Abstract!Top.stack, Abstract!Owner)
  <2>1. Abstract!Top = LowerCall /\ Abstract!Owner = Parent
    BY FinishedCalls, AbstractIs
  <2>2. LowerCall.stack = StackOf(p, words)
    BY DEF LowerCall, Record
  <2> QED BY <2>1, <2>2 DEF x
<1> QED BY <1>10, <1>11

LEMMA HaltedMaps ==
  ASSUME Inv, Inv', pc = "finished", Parent > 0, UNCHANGED <<scopes, outcome>>,
         NEW st \in {"running", "halted"}, frames' = [frames EXCEPT ![Parent].state = st],
         UNCHANGED words
  PROVE  /\ LiveRows' = Parent
         /\ memories' = memories => Calls' = Calls
         /\ memories' = Received(Parent, Delivered(result)) =>
              Calls' = Abstract!WithOutput(Abstract!Top.stack, Head(Pending).output)
<1> USE RuntimeConstants
<1> DEFINE p == frames[Parent]
           row == frames'[Parent]
<1>1. /\ Parent \in 1 .. Depth /\ p \in Row /\ p.bound /\ LiveRows = Parent /\ Parent \in Nat
      /\ top_frame_resolved /\ Depth = Len(frames) /\ Depth = Parent + 1
  BY ParentIs, WordExists, FinishedCalls
<1>2. frames' = AtParent(st, p.len) /\ p.len \in 0 .. StackCapacity
  BY ResumedIs
<1>3. /\ Len(frames') = Len(frames) /\ frames' \in Seq(Row)
      /\ \A i \in 1 .. Len(frames) :
           /\ i # Parent => frames'[i] = frames[i]
           /\ frames'[i].kind = frames[i].kind
           /\ frames'[i].checkpoint = frames[i].checkpoint
           /\ frames'[i].base_word = frames[i].base_word /\ frames'[i].bound
           /\ i = Parent => frames'[i].len = p.len
  <2> DEFINE n == p.len
             f == AtParent(st, n)
  <2>1. frames' = f /\ n \in 0 .. StackCapacity
    BY <1>2
  <2> HIDE DEF n
  <2>2. /\ Len(f) = Len(frames) /\ f \in Seq(Row)
        /\ \A i \in 1 .. Len(frames) :
             /\ i # Parent => f[i] = frames[i]
             /\ f[i].kind = frames[i].kind
             /\ f[i].checkpoint = frames[i].checkpoint
             /\ f[i].base_word = frames[i].base_word /\ f[i].bound
             /\ i = Parent => f[i].len = n
    BY <2>1, ParentReplaced
  <2> HIDE DEF f
  <2>3. /\ Len(frames') = Len(frames) /\ frames' \in Seq(Row)
        /\ \A i \in 1 .. Len(frames) :
             /\ i # Parent => frames'[i] = frames[i]
             /\ frames'[i].kind = frames[i].kind
             /\ frames'[i].checkpoint = frames[i].checkpoint
             /\ frames'[i].base_word = frames[i].base_word /\ frames'[i].bound
             /\ i = Parent => frames'[i].len = n
    BY <2>1, <2>2
  <2> QED BY <2>3 DEF n
<1>4. LiveRows' = Parent
  BY <1>1, <1>3 DEF LiveRows, Parent, outcome
<1>5. ASSUME memories' = memories PROVE Calls' = Calls
  <2>1. ASSUME NEW i \in 1 .. LiveRows PROVE Calls'[i] = Calls[i]
    <3>1. i \in 1 .. LiveRows' /\ i \in 1 .. Len(frames)
      BY <1>1, <1>4
    <3>2. /\ frames'[i].kind = frames[i].kind /\ frames'[i].checkpoint = frames[i].checkpoint
          /\ frames'[i].base_word = frames[i].base_word /\ frames'[i].len = frames[i].len
      BY <1>3, <3>1
    <3> QED BY <1>5, <3>1, <3>2, CallKept
  <2> QED BY <1>1, <1>4, <2>1, CallsUnmoved
<1>6. ASSUME memories' = Received(Parent, Delivered(result))
      PROVE  Calls' = Abstract!WithOutput(Abstract!Top.stack, Head(Pending).output)
  <2> DEFINE x == StackOf(p, words)
  <2>1. StackOf(row, words') = x
    <3>1. row.base_word = p.base_word /\ row.len = p.len /\ row.bound
      BY <1>1, <1>3
    <3> QED BY <1>1, <3>1 DEF StackOf
  <2>2. x \in {StackOf(p, words), Append(StackOf(p, words), Parent)}
    OBVIOUS
  <2>3. x = Abstract!Top.stack
    BY FinishedCalls, AbstractIs, CallEdits DEF LowerCall
  <2> HIDE DEF x
  <2>4. Calls' = Abstract!WithOutput(x, Head(Pending).output)
    BY <1>2, <1>6, <2>1, <2>2, LowerTakes
  <2> QED BY <2>3, <2>4
<1> QED BY <1>4, <1>5, <1>6

LEMMA DeliveriesMap ==
  ASSUME Inv, Inv', ResumeSuspended \/ StabilizeFinalResult \/ DeliveryFails
  PROVE  AbstractStep
<1>0. /\ pc = "finished" /\ UNCHANGED <<scopes, world, outcome>> /\ pc' \in {"delivered", "failed"}
      /\ pc' = "delivered" \/ DeliveryFails
  BY DEF ResumeSuspended, StabilizeFinalResult, DeliveryFails
<1>1. /\ Parent \in Nat /\ LiveRows = Parent /\ Depth = Parent + 1 /\ top_frame_resolved
      /\ Len(Calls) = Parent /\ (Parent = 0 => Calls = <<>>) /\ (Parent > 0 => Calls # <<>>)
      /\ Pending # <<>> /\ Failing = FALSE
  BY <1>0, FinishedCalls
<1>2. Pending' = <<>> /\ world' = world
  BY <1>0 DEF Pending
<1>3. CASE Parent = 0
  <2>1. UNCHANGED <<frames, memories, words>>
    BY <1>3 DEF ResumeSuspended, StabilizeFinalResult, DeliveryFails, store
  <2>2. LiveRows' = 0
    BY <1>0, <1>1, <1>3, <2>1 DEF LiveRows, Parent, outcome
  <2>3. Calls = <<>> /\ Calls' = <<>> /\ Failing' = FALSE
    BY <1>1, <1>3, <2>2, ListedNext DEF CallsListed, Failing
  <2>4. Abstract!FailAtEnd
    BY <1>1, <1>2, <2>3 DEF Abstract!FailAtEnd, Abstract!Nothing
  <2> QED BY <2>4 DEF AbstractStep, Abstract!Next
<1>4. CASE Parent > 0
  <2>1. \/ Resumed
        \/ /\ pc' = "failed" /\ memories' = Received(Parent, Delivered(result))
           /\ frames' = [frames EXCEPT ![Parent].state = "running"]
           /\ UNCHANGED words
    BY <1>4 DEF ResumeSuspended, StabilizeFinalResult, DeliveryFails
  <2>2. /\ LiveRows' = Parent
        /\ \/ Calls' = Calls
           \/ Calls' = Abstract!WithOutput(Append(Abstract!Top.stack, Abstract!Owner),
                                           Head(Pending).output)
           \/ /\ pc' = "failed"
              /\ Calls' = Abstract!WithOutput(Abstract!Top.stack, Head(Pending).output)
    <3>1. "running" \in {"running", "halted"} /\ "halted" \in {"running", "halted"}
      OBVIOUS
    <3>2. CASE /\ words' = Written(Parent) /\ memories' = Received(Parent, Delivered(result))
               /\ frames' = [frames EXCEPT ![Parent].state = "running", ![Parent].len = @ + 1]
      BY <1>0, <1>4, <3>2, ResumedMaps
    <3>3. CASE frames' = [frames EXCEPT ![Parent].state = "halted"] /\ UNCHANGED <<memories, words>>
      <4>1. LiveRows' = Parent /\ (memories' = memories => Calls' = Calls)
        BY <1>0, <1>4, <3>1, <3>3, HaltedMaps
      <4> QED BY <3>3, <4>1
    <3>4. CASE /\ pc' = "failed" /\ memories' = Received(Parent, Delivered(result))
               /\ frames' = [frames EXCEPT ![Parent].state = "running"]
               /\ UNCHANGED words
      <4>1. /\ LiveRows' = Parent
            /\ memories' = Received(Parent, Delivered(result)) =>
                 Calls' = Abstract!WithOutput(Abstract!Top.stack, Head(Pending).output)
        BY <1>0, <1>4, <3>1, <3>4, HaltedMaps
      <4> QED BY <3>4, <4>1
    <3> QED BY <2>1, <3>2, <3>3, <3>4 DEF Resumed
  <2>3. CASE pc' = "delivered"
    <3>1. Failing' = FALSE
      BY <2>3 DEF Failing
    <3>2. Abstract!Receive
      BY <1>1, <1>2, <1>4, <2>2, <2>3, <3>1 DEF Abstract!Receive, Abstract!Nothing
    <3> QED BY <3>2 DEF AbstractStep, Abstract!Next
  <2>4. CASE pc' = "failed"
    <3>1. Failing' = TRUE
      BY <1>4, <2>2, <2>4 DEF Failing
    <3>2. Abstract!Fail
      BY <1>1, <1>2, <1>4, <2>2, <3>1 DEF Abstract!Fail, Abstract!Nothing
    <3> QED BY <3>2 DEF AbstractStep, Abstract!Next
  <2> QED BY <1>0, <2>3, <2>4
<1> QED BY <1>1, <1>3, <1>4

-----------------------------------------------------------------------------
(***************************************************************************)
(* The refinement.                                                         *)
(***************************************************************************)
LEMMA StutterMaps == ASSUME UNCHANGED vars PROVE AbstractStep
<1>1. /\ UNCHANGED <<memories, words, frames, scopes, world, top_frame_resolved, result, pc>>
  BY DEF vars, store, outcome
<1>2. LiveRows' = LiveRows /\ Delivered(result)' = Delivered(result)
  BY <1>1 DEF LiveRows, Parent, Delivered, OutputOf, Top
<1>3. Calls' = Calls /\ Pending' = Pending /\ Failing' = Failing
  BY <1>1, <1>2 DEF Calls, Pending, Failing
<1> QED BY <1>1, <1>3 DEF AbstractStep, Abstract!vars

LEMMA StepMaps == ASSUME Inv, Inv', [Next]_vars PROVE AbstractStep
<1>1. CASE StartRoot \/ \E kind \in Kinds : StartMessage(kind)
  BY <1>1, StartsMap
<1>2. CASE StackPush
  BY <1>2, StackPushMaps
<1>3. CASE StackPop
  BY <1>3, StackPopMaps
<1>4. CASE MemoryWrite
  BY <1>4, MemoryWriteMaps
<1>5. CASE StateWrite \/ RuntimeError \/ (FinishFails /\ Top.checkpoint = Root)
  BY <1>5, WritesMap
<1>6. CASE StartImmediate
  BY <1>6, StartImmediateMaps
<1>7. CASE StartFails
  BY <1>7, StartFailsMaps
<1>8. CASE \E kind \in Kinds : StartChild(kind)
  BY <1>8, StartChildMaps
<1>9. CASE \E ok \in BOOLEAN : FinishCall(ok) \/ FinishCreate(ok)
  BY <1>9, FinishesMap
<1>10. CASE ResumeSuspended \/ StabilizeFinalResult \/ DeliveryFails
  BY <1>10, DeliveriesMap
<1>11. CASE PopResolvedFrame \/ Deinit
  BY <1>11, DropsMap
<1>12. CASE UNCHANGED vars
  BY <1>12, StutterMaps
<1> QED BY <1>1, <1>2, <1>3, <1>4, <1>5, <1>6, <1>7, <1>8, <1>9, <1>10, <1>11, <1>12 DEF Next

LEMMA InitMaps == Init => Abstract!Init
<1> SUFFICES ASSUME Init PROVE Abstract!Init
  OBVIOUS
<1>1. Inv
  BY InitEstablishes
<1>2. LiveRows = 0 /\ Pending = <<>> /\ Failing = FALSE /\ world \in Worlds
  BY DEF Init, LiveRows, Pending, Failing
<1>3. Calls = <<>>
  BY <1>1, <1>2, InvListed DEF CallsListed
<1> QED BY <1>2, <1>3 DEF Abstract!Init, Abstract!Nothing

\* For any stack capacity, depth and array of words, the frame store and the
\* call runtime (FrameStore.push and pop, startCall, finishFrame,
\* resumeWithCall, deinit) implement calls that each have a stack, a memory and
\* a saved state of their own: no frame's words are lost or overwritten when
\* the shared array moves, and every checkpoint is kept or undone once,
\* whichever allocation fails.
THEOREM ImplementsSeparateCalls == Spec => ImplementsCallStacks
<1>1. Init /\ [][Next]_vars /\ []Inv => Abstract!Init /\ [][Abstract!Next]_(Abstract!vars)
  <2>1. Inv /\ Inv' /\ [Next]_vars => [Abstract!Next]_(Abstract!vars)
    BY StepMaps DEF AbstractStep
  <2> QED BY <2>1, InitMaps, PTL
<1> QED BY <1>1, Invariance, PTL DEF Spec, ImplementsCallStacks, Abstract!Spec

=============================================================================
