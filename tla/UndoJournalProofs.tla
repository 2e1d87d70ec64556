------------------------- MODULE UndoJournalProofs -------------------------
(***************************************************************************)
(* The rollback algorithm of UndoJournal is correct for every set of rows, *)
(* every set of values and every bound: its inductive invariant UndoInv,   *)
(* and the refinement of BranchStore that rests on it.                     *)
(***************************************************************************)
EXTENDS UndoJournal, SequenceTheorems, FiniteSetTheorems,
        WellFoundedInduction, TLAPS

Less == {p \in Nat \X Nat : p[1] < p[2]}

\* Every non-empty set of journal positions has a least element.
LEMMA LeastNatural ==
    ASSUME NEW S \in SUBSET Nat, S # {}
    PROVE  \E x \in S : \A y \in S : x <= y
<1>1. Less = OpToRel(<, Nat)
  BY Zenon DEF Less, OpToRel
<1>2. IsWellFoundedOn(Less, Nat)
  BY <1>1, NatLessThanWellFounded, Zenon
<1>3. PICK x \in S : \A y \in S : ~(<<y, x>> \in Less)
  BY <1>2, WFMin, Zenon
<1>4. ASSUME NEW y \in S PROVE x <= y
  <2>1. ~(<<y, x>> \in Less)
    BY <1>3
  <2>2. ~(y < x)
    BY <2>1 DEF Less
  <2> QED BY <2>2
<1> QED BY <1>4

LEMMA PrefixProperties ==
    ASSUME NEW S, NEW s \in Seq(S), NEW m \in Nat, m <= Len(s)
    PROVE  /\ SubSeq(s, 1, m) \in Seq(S)
           /\ Len(SubSeq(s, 1, m)) = m
           /\ \A i \in 1 .. m : SubSeq(s, 1, m)[i] = s[i]
<1>1. \A i \in 1 .. m : s[i] \in S
  BY ElementOfSeq, LenProperties
<1> QED BY <1>1, SubSeqProperties

\* The record that has the last word in a rollback: the oldest one.
LEMMA OldestUndo ==
    ASSUME NEW j \in Seq(Undo), NEW id, NEW len \in Nat,
           UndoIndices(j, id, len) # {}
    PROVE  LET o == Oldest(UndoIndices(j, id, len))
           IN  /\ o \in UndoIndices(j, id, len)
               /\ o \in Nat /\ len < o /\ o <= Len(j)
               /\ j[o].id = id
               /\ j[o] \in Undo
               /\ \A k \in UndoIndices(j, id, len) : o <= k
<1> DEFINE U == UndoIndices(j, id, len)
           o == Oldest(U)
<1>0. Len(j) \in Nat
  BY LenProperties
<1>1. U \in SUBSET Nat
  BY <1>0 DEF UndoIndices
<1>2. \E x \in U : \A y \in U : x <= y
  BY <1>1, LeastNatural
<1>3. o \in U /\ \A y \in U : o <= y
  BY <1>2 DEF Oldest
<1>4. o \in (len + 1) .. Len(j) /\ j[o].id = id
  BY <1>3 DEF UndoIndices
<1>5. o \in Nat /\ len < o /\ o <= Len(j)
  BY <1>4, <1>0
<1>6. j[o] \in Undo
  BY <1>5, ElementOfSeq, <1>0
<1> QED BY <1>3, <1>4, <1>5, <1>6

LEMMA UndoneType ==
    ASSUME NEW j \in Seq(Undo), NEW r \in [Ids -> Row], NEW len \in Nat
    PROVE  Undone(j, r, len) \in [Ids -> Row]
<1> SUFFICES ASSUME NEW id \in Ids PROVE UndoneRow(j, r, id, len) \in Row
  BY DEF Undone
<1>1. CASE UndoIndices(j, id, len) = {}
  BY <1>1 DEF UndoneRow
<1>2. CASE UndoIndices(j, id, len) # {}
  <2>1. j[Oldest(UndoIndices(j, id, len))] \in Undo
    BY <1>2, OldestUndo
  <2> QED BY <2>1, <1>2 DEF UndoneRow, Undo, Row
<1> QED BY <1>1, <1>2

\* Journaling rows before changing them changes nothing that a rollback to
\* an earlier length would restore.
Covered(j, new, r, r2, len) ==
    /\ \A i \in 1 .. Len(new) : /\ new[i].val = r[new[i].id].val
                                /\ new[i].js = r[new[i].id].js
    /\ \A id \in Ids : \/ r2[id] = r[id]
                       \/ UndoIndices(j, id, len) # {}
                       \/ \E i \in 1 .. Len(new) : new[i].id = id

LEMMA UndoneAppend ==
    ASSUME NEW j \in Seq(Undo), NEW new \in Seq(Undo),
           NEW r \in [Ids -> Row], NEW r2 \in [Ids -> Row],
           NEW len \in Nat, len <= Len(j), Covered(j, new, r, r2, len)
    PROVE  Undone(j \o new, r2, len) = Undone(j, r, len)
<1> USE DEF Covered
<1> DEFINE jj == j \o new
<1>0. /\ Len(j) \in Nat /\ Len(new) \in Nat
      /\ jj \in Seq(Undo)
      /\ Len(jj) = Len(j) + Len(new)
      /\ \A i \in 1 .. Len(jj) : jj[i] = IF i <= Len(j) THEN j[i] ELSE new[i - Len(j)]
  BY LenProperties, ConcatProperties
<1> HIDE DEF jj
<1> SUFFICES ASSUME NEW id \in Ids
             PROVE  UndoneRow(jj, r2, id, len) = UndoneRow(j, r, id, len)
  BY DEF Undone, jj
<1> DEFINE U  == UndoIndices(j, id, len)
           UU == UndoIndices(jj, id, len)
<1>1. U \subseteq UU
  BY <1>0 DEF UndoIndices
<1>2. CASE U # {}
  <2>1. /\ Oldest(U) \in U
        /\ \A k \in U : Oldest(U) <= k
        /\ Oldest(U) \in Nat /\ Oldest(U) <= Len(j)
    BY <1>2, OldestUndo, <1>0
  <2>2. UU # {}
    BY <1>1, <1>2
  <2>3. /\ Oldest(UU) \in UU
        /\ \A k \in UU : Oldest(UU) <= k
        /\ Oldest(UU) \in Nat /\ Oldest(UU) <= Len(jj) /\ len < Oldest(UU)
    BY <2>2, OldestUndo, <1>0
  <2>4. Oldest(UU) <= Oldest(U)
    BY <2>1, <2>3, <1>1
  <2>5. Oldest(UU) \in U
    BY <2>1, <2>3, <2>4, <1>0 DEF UndoIndices
  <2>6. Oldest(UU) = Oldest(U)
    BY <2>1, <2>3, <2>4, <2>5
  <2>7. jj[Oldest(UU)] = j[Oldest(U)]
    BY <2>6, <2>1, <2>3, <1>0
  <2> QED BY <2>2, <2>7, <1>2 DEF UndoneRow
<1>3. CASE U = {} /\ UU # {}
  <2> DEFINE o == Oldest(UU)
  <2>1. /\ o \in UU /\ o \in Nat /\ o <= Len(jj) /\ len < o /\ jj[o].id = id
    BY <1>3, OldestUndo, <1>0
  <2>2. ~(o <= Len(j))
    BY <2>1, <1>3, <1>0 DEF UndoIndices
  <2>3. o - Len(j) \in 1 .. Len(new) /\ jj[o] = new[o - Len(j)]
    BY <2>1, <2>2, <1>0
  <2>4. jj[o].val = r[id].val /\ jj[o].js = r[id].js
    BY <2>3, <2>1
  <2>5. r[id] = [val |-> r[id].val, js |-> r[id].js]
    BY DEF Row
  <2> QED BY <2>4, <2>5, <1>3 DEF UndoneRow
<1>4. CASE U = {} /\ UU = {}
  <2>1. ~ \E i \in 1 .. Len(new) : new[i].id = id
    <3> SUFFICES ASSUME NEW i \in 1 .. Len(new), new[i].id = id PROVE FALSE
      OBVIOUS
    <3>0. i \in Nat /\ 1 <= i /\ i <= Len(new)
      BY <1>0
    <3>1. Len(j) + i \in (len + 1) .. Len(jj)
      BY <1>0, <3>0
    <3>2. Len(j) + i \in 1 .. Len(jj) /\ ~(Len(j) + i <= Len(j)) /\ (Len(j) + i) - Len(j) = i
      BY <1>0, <3>0
    <3>3. jj[Len(j) + i] = new[i]
      BY <1>0, <3>2
    <3> QED BY <3>1, <3>3, <1>4 DEF UndoIndices
  <2>2. r2[id] = r[id]
    BY <2>1, <1>4
  <2> QED BY <2>2, <1>4 DEF UndoneRow
<1> QED BY <1>2, <1>3, <1>4

\* Undoing to a length and then further is undoing all the way at once.
LEMMA UndoneTwice ==
    ASSUME NEW j \in Seq(Undo), NEW r \in [Ids -> Row],
           NEW b \in Nat, b <= Len(j), NEW len \in Nat, len <= b
    PROVE  Undone(SubSeq(j, 1, b), Undone(j, r, b), len) = Undone(j, r, len)
<1> DEFINE jj == SubSeq(j, 1, b)
           rr == Undone(j, r, b)
<1>0. /\ Len(j) \in Nat
      /\ jj \in Seq(Undo)
      /\ Len(jj) = b
      /\ \A i \in 1 .. b : jj[i] = j[i]
  BY PrefixProperties, LenProperties
<1>00. rr \in [Ids -> Row]
  BY UndoneType
<1> SUFFICES ASSUME NEW id \in Ids
             PROVE  UndoneRow(jj, rr, id, len) = UndoneRow(j, r, id, len)
  BY DEF Undone
<1>000. rr[id] = UndoneRow(j, r, id, b)
  BY DEF Undone
<1> HIDE DEF jj, rr
<1> DEFINE U  == UndoIndices(j, id, len)
           UU == UndoIndices(jj, id, len)
           UB == UndoIndices(j, id, b)
<1>1. UU \subseteq U /\ UB \subseteq U /\ \A i \in U : i \in UU \/ i \in UB
  BY <1>0 DEF UndoIndices
<1>2. CASE UU # {}
  <2>1. /\ Oldest(UU) \in UU /\ \A k \in UU : Oldest(UU) <= k
        /\ Oldest(UU) \in Nat /\ Oldest(UU) <= b /\ len < Oldest(UU)
    BY <1>2, OldestUndo, <1>0
  <2>2. U # {}
    BY <1>1, <1>2
  <2>3. /\ Oldest(U) \in U /\ \A k \in U : Oldest(U) <= k
        /\ Oldest(U) \in Nat /\ len < Oldest(U)
    BY <2>2, OldestUndo, <1>0
  <2>4. Oldest(U) <= Oldest(UU)
    BY <2>1, <2>3, <1>1
  <2>5. Oldest(U) \in UU
    BY <2>1, <2>3, <2>4, <1>0 DEF UndoIndices
  <2>6. Oldest(U) = Oldest(UU)
    BY <2>1, <2>3, <2>4, <2>5
  <2>7. jj[Oldest(UU)] = j[Oldest(U)]
    BY <2>6, <2>1, <1>0
  <2> QED BY <2>2, <2>7, <1>2 DEF UndoneRow
<1>3. CASE UU = {}
  <2>1. U = UB
    BY <1>3, <1>1
  <2> QED BY <2>1, <1>3, <1>000 DEF UndoneRow
<1> QED BY <1>2, <1>3

-----------------------------------------------------------------------------
(* Opening, committing or reverting a checkpoint shifts the levels by one  *)
(* and leaves the scopes and journal lengths of the others alone.          *)

LEMMA LevelTypes ==
    ASSUME TypeOK
    PROVE  /\ Len(checkpoints) \in Nat
           /\ Len(journal) \in Nat
           /\ \A k \in 1 .. Len(checkpoints) : checkpoints[k] \in Checkpoint
           /\ \A i \in 1 .. Len(journal) : journal[i] \in Undo
           /\ \A k \in Levels : k \in Nat /\ ScopeAt(k) \in Nat /\ BaseAt(k) \in Nat
<1>1. /\ Len(checkpoints) \in Nat /\ Len(journal) \in Nat
      /\ \A k \in 1 .. Len(checkpoints) : checkpoints[k] \in Checkpoint
      /\ \A i \in 1 .. Len(journal) : journal[i] \in Undo
  BY LenProperties, ElementOfSeq DEF TypeOK
<1>2. ASSUME NEW k \in Levels PROVE k \in Nat /\ ScopeAt(k) \in Nat /\ BaseAt(k) \in Nat
  <2>1. k \in Nat /\ k <= Len(checkpoints)
    BY <1>1 DEF Levels
  <2>2. CASE k = Len(checkpoints)
    BY <2>1, <2>2, <1>1 DEF TypeOK, ScopeAt, BaseAt, Checkpoint
  <2>3. CASE k # Len(checkpoints)
    <3>1. k + 1 \in 1 .. Len(checkpoints) /\ (k # 0 => k \in 1 .. Len(checkpoints))
      BY <2>1, <2>3, <1>1
    <3> QED BY <2>1, <2>3, <3>1, <1>1 DEF ScopeAt, BaseAt, Checkpoint
  <2> QED BY <2>2, <2>3
<1> QED BY <1>1, <1>2

LEMMA LevelsPushed ==
    ASSUME TypeOK, OpenCheckpoint
    PROVE  /\ checkpoints' \in Seq(Checkpoint)
           /\ Len(checkpoints') = Len(checkpoints) + 1
           /\ Levels' = Levels \cup {Len(checkpoints) + 1}
           /\ \A k \in Levels : ScopeAt(k)' = ScopeAt(k) /\ BaseAt(k)' = BaseAt(k)
           /\ \A k \in Nat : k = Len(checkpoints) + 1 =>
                  ScopeAt(k)' = clock + 1 /\ BaseAt(k)' = Len(journal)
           /\ checkpoints'[Len(checkpoints) + 1].scope = clock + 1
           /\ \A k \in 1 .. Len(checkpoints) : checkpoints'[k] = checkpoints[k]
<1> DEFINE n == Len(checkpoints)
           c == [scope |-> clock + 1, parent |-> scope, len |-> Len(journal)]
<1>0. n \in Nat /\ Len(journal) \in Nat /\ checkpoints \in Seq(Checkpoint)
  BY LevelTypes DEF TypeOK
<1>1. c \in Checkpoint
  BY <1>0 DEF TypeOK, Checkpoint
<1>2. checkpoints' = Append(checkpoints, c)
  BY DEF OpenCheckpoint
<1>3. /\ checkpoints' \in Seq(Checkpoint)
      /\ Len(checkpoints') = n + 1
      /\ checkpoints'[n + 1] = c
      /\ \A k \in 1 .. n : checkpoints'[k] = checkpoints[k]
  BY <1>0, <1>1, <1>2, AppendProperties
<1>4. Levels' = Levels \cup {n + 1}
  BY <1>0, <1>3 DEF Levels
<1>5. ASSUME NEW k \in Levels PROVE ScopeAt(k)' = ScopeAt(k) /\ BaseAt(k)' = BaseAt(k)
  <2>1. k \in Nat /\ k <= n
    BY <1>0 DEF Levels
  <2>2. BaseAt(k)' = BaseAt(k)
    BY <2>1, <1>0, <1>3 DEF BaseAt
  <2>3. CASE k = n
    BY <2>2, <2>3, <1>3, <1>0 DEF ScopeAt
  <2>4. CASE k # n
    BY <2>1, <2>2, <2>4, <1>3, <1>0 DEF ScopeAt
  <2> QED BY <2>3, <2>4
<1>6. ASSUME NEW k \in Nat, k = n + 1
      PROVE  ScopeAt(k)' = clock + 1 /\ BaseAt(k)' = Len(journal)
  BY <1>3, <1>0, <1>6 DEF ScopeAt, BaseAt, OpenCheckpoint
<1> QED BY <1>3, <1>4, <1>5, <1>6

LEMMA LevelsPopped ==
    ASSUME TypeOK, checkpoints # <<>>, checkpoints' = Popped, scope' = Top.parent
    PROVE  /\ Len(checkpoints) > 0
           /\ checkpoints' \in Seq(Checkpoint)
           /\ Len(checkpoints') = Len(checkpoints) - 1
           /\ Levels' = Levels \ {Len(checkpoints)}
           /\ Len(checkpoints) \in Levels
           /\ BaseAt(Len(checkpoints)) = Top.len
           /\ Top.len \in Nat
           /\ Top.parent \in Nat
           /\ \A k \in Levels' : ScopeAt(k)' = ScopeAt(k) /\ BaseAt(k)' = BaseAt(k)
           /\ \A k \in 1 .. Len(checkpoints') : checkpoints'[k] = checkpoints[k]
<1> DEFINE n == Len(checkpoints)
<1>0. /\ n \in Nat /\ n > 0 /\ checkpoints \in Seq(Checkpoint)
      /\ \A k \in 1 .. n : checkpoints[k] \in Checkpoint
  BY LevelTypes, EmptySeq DEF TypeOK
<1>1. /\ checkpoints' \in Seq(Checkpoint)
      /\ Len(checkpoints') = n - 1
      /\ \A k \in 1 .. n - 1 : checkpoints'[k] = checkpoints[k]
  <2>1. n - 1 \in Nat /\ n - 1 <= n
    BY <1>0
  <2> QED BY <2>1, <1>0, PrefixProperties DEF Popped
<1>2. /\ Levels' = Levels \ {n} /\ n \in Levels
      /\ Levels' = 0 .. n - 1
  BY <1>0, <1>1 DEF Levels
<1>3. BaseAt(n) = Top.len /\ Top.len \in Nat /\ Top.parent \in Nat
  BY <1>0, SMTT(30) DEF BaseAt, Top, Checkpoint
<1>4. ASSUME NEW k \in Levels' PROVE ScopeAt(k)' = ScopeAt(k) /\ BaseAt(k)' = BaseAt(k)
  <2>1. k \in Nat /\ k <= n - 1
    BY <1>0, <1>2
  <2>2. BaseAt(k)' = BaseAt(k)
    BY <2>1, <1>0, <1>1 DEF BaseAt
  <2>3. CASE k = n - 1
    BY <2>2, <2>3, <1>1, <1>0 DEF ScopeAt, Top
  <2>4. CASE k # n - 1
    BY <2>1, <2>2, <2>4, <1>1, <1>0 DEF ScopeAt
  <2> QED BY <2>3, <2>4
<1> QED BY <1>0, <1>1, <1>2, <1>3, <1>4

-----------------------------------------------------------------------------
(* What a write appends to the journal.                                    *)

\* One record for each row of W that the scope s holds no record of, with
\* the row's value and stamp before the write.
Records(new, s, W) ==
    /\ new \in Seq(Undo)
    /\ Len(new) \in Nat
    /\ \A i \in 1 .. Len(new) :
          /\ new[i].id \in W
          /\ rows[new[i].id].js # s
          /\ new[i].val = rows[new[i].id].val
          /\ new[i].js = rows[new[i].id].js
    /\ \A id \in W : rows[id].js # s => \E i \in 1 .. Len(new) : new[i].id = id

LEMMA Recorded ==
    ASSUME TypeOK, NEW s \in Nat, NEW W \in SUBSET Ids,
           NEW q \in Orderings(NeedsUndo(s, W))
    PROVE  Records(UndoRecords(q), s, W)
<1> DEFINE S == NeedsUndo(s, W)
           n == Cardinality(S)
<1>1. n \in Nat
  <2>1. IsFiniteSet(S)
    BY UndoConstants, FS_Subset DEF NeedsUndo
  <2> QED BY <2>1, FS_CardinalityType
<1>2. q \in [1 .. n -> S] /\ \A x \in S : \E i \in 1 .. n : q[i] = x
  BY DEF Orderings
<1> HIDE DEF n
<1>3. Len(q) = n
  BY <1>1, <1>2
<1>4. \A i \in 1 .. n : q[i] \in Ids /\ q[i] \in W /\ rows[q[i]].js # s /\ rows[q[i]] \in Row
  BY <1>2 DEF TypeOK, NeedsUndo
<1>5. UndoRecords(q) =
        [i \in 1 .. n |-> [id |-> q[i], val |-> rows[q[i]].val, js |-> rows[q[i]].js]]
  BY <1>3 DEF UndoRecords
<1>6. UndoRecords(q) \in [1 .. n -> Undo]
  BY <1>4, <1>5 DEF Undo, Row
<1>7. UndoRecords(q) \in Seq(Undo) /\ Len(UndoRecords(q)) = n
  BY <1>1, <1>6
<1>8. ASSUME NEW i \in 1 .. n
      PROVE  LET u == UndoRecords(q)[i]
             IN  /\ u.id = q[i]
                 /\ u.id \in W /\ rows[u.id].js # s
                 /\ u.val = rows[u.id].val /\ u.js = rows[u.id].js
  BY <1>4, <1>5
<1>9. ASSUME NEW id \in W, rows[id].js # s
      PROVE  \E i \in 1 .. n : UndoRecords(q)[i].id = id
  BY <1>2, <1>8, <1>9 DEF NeedsUndo
<1> QED BY <1>1, <1>7, <1>8, <1>9 DEF Records

-----------------------------------------------------------------------------
(* The inductive invariant.                                                *)

LEMMA RootLevel ==
    ASSUME checkpoints = <<>>
    PROVE  /\ Len(checkpoints) = 0
           /\ Levels = {0}
           /\ ScopeAt(0) = scope
           /\ BaseAt(0) = 0
<1>1. Len(checkpoints) = 0
  BY EmptySeq
<1> QED BY <1>1 DEF Levels, ScopeAt, BaseAt

LEMMA InitEstablishes == Init => UndoInv
<1> SUFFICES ASSUME Init PROVE UndoInv
  OBVIOUS
<1> USE DEF Init
<1>1. Len(journal) = 0 /\ Len(checkpoints) = 0
  BY EmptySeq
<1>2. TypeOK
  BY UndoConstants, EmptySeq DEF TypeOK, FreshRows, Row, None
<1>3. Levels = {0} /\ BaseAt(0) = 0
  BY RootLevel
<1>4. PhaseShape /\ ScopeChain
  BY <1>1, <1>3 DEF PhaseShape, ScopeChain
<1>5. StampsIssued
  BY <1>1 DEF StampsIssued, FreshRows, None
<1>6. StampMeansUndo /\ SavedStampMeansUndo
  BY DEF StampMeansUndo, SavedStampMeansUndo
<1> QED BY <1>2, <1>4, <1>5, <1>6 DEF UndoInv

\* A fresh root: the stamp just issued is on no row and no record.
LEMMA RootMoves ==
    ASSUME UndoInv, UNCHANGED <<rows, journal, checkpoints, snapshots>>,
           checkpoints = <<>>,
           clock' \in Nat, clock < clock', scope' = clock',
           phase' = "open", session' \in BOOLEAN
    PROVE  UndoInv'
<1> USE DEF UndoInv
<1>0. /\ Len(checkpoints) = 0 /\ Levels' = {0} /\ ScopeAt(0)' = scope' /\ BaseAt(0)' = 0
      /\ Len(journal) \in Nat
  BY RootLevel, LevelTypes DEF Levels, ScopeAt, BaseAt
<1>1. TypeOK'
  BY DEF TypeOK
<1>2. PhaseShape'
  BY DEF PhaseShape
<1>3. ScopeChain'
  BY <1>0 DEF ScopeChain, TypeOK
<1>4. StampsIssued'
  <2>1. ASSUME NEW id \in Ids PROVE rows'[id].js <= clock'
    BY DEF StampsIssued, TypeOK, Row
  <2>2. ASSUME NEW i \in 1 .. Len(journal) PROVE journal[i].js <= clock'
    BY LevelTypes DEF StampsIssued, TypeOK, Undo
  <2>3. ASSUME NEW s \in snapshots, NEW id \in Ids PROVE s[id].js <= clock'
    <3>1. s[id].js <= clock /\ s[id].js \in Nat
      BY DEF StampsIssued, TypeOK, Row
    <3> QED BY <3>1 DEF TypeOK
  <2> QED BY <2>1, <2>2, <2>3 DEF StampsIssued
<1>5. StampMeansUndo'
  BY <1>0 DEF StampMeansUndo, StampsIssued, TypeOK, Row
<1>6. SavedStampMeansUndo'
  <2>1. ASSUME NEW m \in 1 .. Len(journal) PROVE journal[m].js # clock'
    BY LevelTypes DEF StampsIssued, TypeOK, Undo
  <2> QED BY <1>0, <2>1 DEF SavedStampMeansUndo
<1> QED BY <1>1, <1>2, <1>3, <1>4, <1>5, <1>6

LEMMA CheckpointPreserves == UndoInv /\ OpenCheckpoint => UndoInv'
<1> SUFFICES ASSUME UndoInv, OpenCheckpoint PROVE UndoInv'
  OBVIOUS
<1> USE DEF UndoInv
<1> DEFINE n == Len(checkpoints)
<1>0. /\ checkpoints' \in Seq(Checkpoint)
      /\ Len(checkpoints') = n + 1
      /\ Levels' = Levels \cup {n + 1}
      /\ \A k \in Levels : ScopeAt(k)' = ScopeAt(k) /\ BaseAt(k)' = BaseAt(k)
      /\ \A k \in Nat : k = n + 1 => ScopeAt(k)' = clock + 1 /\ BaseAt(k)' = Len(journal)
      /\ checkpoints'[n + 1].scope = clock + 1
      /\ \A k \in 1 .. n : checkpoints'[k] = checkpoints[k]
  BY LevelsPushed
<1>00. /\ n \in Nat /\ Len(journal) \in Nat /\ clock \in Nat
       /\ \A k \in Levels : k \in Nat /\ k <= n /\ ScopeAt(k) \in Nat /\ BaseAt(k) \in Nat
       /\ \A k \in 1 .. n : k \in Levels
  BY LevelTypes DEF TypeOK, Levels
<1>000. /\ session /\ phase = "open" /\ phase' = "open" /\ clock' = clock + 1
        /\ rows' = rows /\ journal' = journal /\ snapshots' = snapshots
        /\ session' = session /\ scope' = clock + 1
  BY DEF OpenCheckpoint, PhaseShape
<1> HIDE DEF n
<1>1. TypeOK'
  BY <1>0, <1>00, <1>000 DEF TypeOK
<1>2. PhaseShape'
  BY <1>000 DEF PhaseShape
<1>3. ScopeChain'
  <2>1. ASSUME NEW k \in Levels' PROVE 0 < ScopeAt(k)' /\ ScopeAt(k)' <= clock'
    <3>1. CASE k \in Levels
      BY <3>1, <1>0, <1>00, <1>000 DEF ScopeChain
    <3>2. CASE k = n + 1
      BY <3>2, <1>0, <1>00, <1>000
    <3> QED BY <3>1, <3>2, <1>0
  <2>2. ASSUME NEW k \in Levels', NEW m \in Levels', k < m
        PROVE  ScopeAt(k)' < ScopeAt(m)'
    <3>1. k \in Levels
      BY <2>2, <1>0, <1>00
    <3>2. CASE m \in Levels
      BY <2>2, <3>1, <3>2, <1>0 DEF ScopeChain
    <3>3. CASE m = n + 1
      <4>1. ScopeAt(k) <= clock
        BY <3>1, <1>000 DEF ScopeChain
      <4> QED BY <3>1, <3>3, <4>1, <1>0, <1>00
    <3> QED BY <3>2, <3>3, <1>0
  <2>3. ASSUME NEW k \in 1 .. Len(checkpoints') PROVE checkpoints'[k].scope = ScopeAt(k)'
    <3>1. CASE k \in 1 .. n
      BY <3>1, <1>0, <1>00 DEF ScopeChain, n
    <3>2. CASE k = n + 1
      BY <3>2, <1>0, <1>00
    <3> QED BY <3>1, <3>2, <1>0, <1>00
  <2>4. ASSUME NEW k \in Levels' PROVE BaseAt(k)' <= Len(journal')
    <3>1. CASE k \in Levels
      BY <3>1, <1>0, <1>00, <1>000 DEF ScopeChain
    <3>2. CASE k = n + 1
      BY <3>2, <1>0, <1>00, <1>000
    <3> QED BY <3>1, <3>2, <1>0
  <2>5. ASSUME NEW k \in Levels', NEW m \in Levels', k <= m
        PROVE  BaseAt(k)' <= BaseAt(m)'
    <3>1. CASE m \in Levels
      <4>1. k \in Levels
        BY <2>5, <3>1, <1>0, <1>00
      <4> QED BY <2>5, <3>1, <4>1, <1>0 DEF ScopeChain
    <3>2. CASE m = n + 1
      BY <3>2, <2>4, <1>0, <1>00, <1>000
    <3> QED BY <3>1, <3>2, <1>0
  <2> QED BY <2>1, <2>2, <2>3, <2>4, <2>5 DEF ScopeChain
<1>4. StampsIssued'
  <2>1. ASSUME NEW id \in Ids PROVE rows'[id].js <= clock'
    BY <1>000 DEF StampsIssued, TypeOK, Row
  <2>2. ASSUME NEW i \in 1 .. Len(journal) PROVE journal[i].js <= clock'
    BY <1>000, LevelTypes DEF StampsIssued, TypeOK, Undo
  <2>3. ASSUME NEW s \in snapshots, NEW id \in Ids PROVE s[id].js <= clock'
    <3>1. s[id].js <= clock /\ s[id].js \in Nat
      BY DEF StampsIssued, TypeOK, Row
    <3> QED BY <3>1, <1>000, <1>00
  <2> QED BY <2>1, <2>2, <2>3, <1>000 DEF StampsIssued
<1>5. StampMeansUndo'
  <2> SUFFICES ASSUME NEW k \in Levels', NEW id \in Ids, rows'[id].js = ScopeAt(k)'
               PROVE  UndoIndices(journal', id, BaseAt(k)') # {}
    BY DEF StampMeansUndo
  <2>1. k \in Levels
    BY <1>0, <1>00, <1>000 DEF StampsIssued, TypeOK, Row
  <2> QED BY <2>1, <1>0, <1>000 DEF StampMeansUndo
<1>6. SavedStampMeansUndo'
  <2> SUFFICES ASSUME NEW k \in Levels', NEW m \in 1 .. Len(journal'), journal'[m].js = ScopeAt(k)'
               PROVE  \E i \in (BaseAt(k)' + 1) .. (m - 1) : journal'[i].id = journal'[m].id
    BY DEF SavedStampMeansUndo
  <2>0. journal[m].js <= clock /\ journal[m].js \in Nat
    BY <1>000, LevelTypes DEF StampsIssued, Undo
  <2>1. k \in Levels
    BY <2>0, <1>0, <1>00, <1>000
  <2> QED BY <2>1, <1>0, <1>000 DEF SavedStampMeansUndo
<1> QED BY <1>1, <1>2, <1>3, <1>4, <1>5, <1>6

LEMMA CommitPreserves == UndoInv /\ CommitCheckpoint => UndoInv'
<1> SUFFICES ASSUME UndoInv, CommitCheckpoint PROVE UndoInv'
  OBVIOUS
<1> USE DEF UndoInv
<1> DEFINE n == Len(checkpoints)
<1>1. /\ checkpoints # <<>> /\ scope' = Top.parent /\ checkpoints' = Popped
      /\ UNCHANGED <<rows, journal, clock, phase, session, snapshots>>
      /\ session /\ phase = "open"
  BY DEF CommitCheckpoint, PhaseShape
<1>2. /\ checkpoints' \in Seq(Checkpoint)
      /\ Len(checkpoints') = n - 1
      /\ Levels' \subseteq Levels
      /\ Top.parent \in Nat
      /\ \A k \in Levels' : ScopeAt(k)' = ScopeAt(k) /\ BaseAt(k)' = BaseAt(k)
      /\ \A k \in 1 .. Len(checkpoints') : checkpoints'[k] = checkpoints[k]
  BY <1>1, LevelsPopped
<1>3. n \in Nat /\ Len(journal) \in Nat
  BY LevelTypes
<1> HIDE DEF n
<1>4. TypeOK'
  BY <1>1, <1>2 DEF TypeOK
<1>5. PhaseShape'
  BY <1>1 DEF PhaseShape
<1>6. ScopeChain'
  <2>1. \A k \in 1 .. Len(checkpoints') : k \in 1 .. n /\ k \in Levels'
    BY <1>2, <1>3 DEF Levels
  <2>2. \A k \in 1 .. Len(checkpoints') : checkpoints'[k].scope = ScopeAt(k)'
    BY <2>1, <1>2 DEF ScopeChain, n
  <2> QED BY <2>2, <1>1, <1>2 DEF ScopeChain
<1>7. StampsIssued'
  BY <1>1 DEF StampsIssued
<1>8. StampMeansUndo'
  BY <1>1, <1>2 DEF StampMeansUndo
<1>9. SavedStampMeansUndo'
  BY <1>1, <1>2 DEF SavedStampMeansUndo
<1> QED BY <1>4, <1>5, <1>6, <1>7, <1>8, <1>9

LEMMA RevertPreserves == UndoInv /\ RevertToCheckpoint => UndoInv'
<1> SUFFICES ASSUME UndoInv, RevertToCheckpoint PROVE UndoInv'
  OBVIOUS
<1> USE DEF UndoInv
<1> DEFINE n == Len(checkpoints)
           b == Top.len
<1>1. /\ checkpoints # <<>> /\ scope' = Top.parent /\ checkpoints' = Popped
      /\ rows' = Undone(journal, rows, b)
      /\ journal' = SubSeq(journal, 1, b)
      /\ UNCHANGED <<clock, phase, session, snapshots>>
      /\ session /\ phase = "open"
  BY DEF RevertToCheckpoint, PhaseShape
<1>2. /\ checkpoints' \in Seq(Checkpoint)
      /\ Len(checkpoints') = n - 1
      /\ Levels' \subseteq Levels
      /\ n \in Levels /\ BaseAt(n) = b /\ b \in Nat
      /\ Top.parent \in Nat
      /\ \A k \in Levels' : ScopeAt(k)' = ScopeAt(k) /\ BaseAt(k)' = BaseAt(k)
      /\ \A k \in 1 .. Len(checkpoints') : checkpoints'[k] = checkpoints[k]
  BY <1>1, LevelsPopped
<1>3. /\ n \in Nat /\ Len(journal) \in Nat
      /\ \A k \in Levels : k \in Nat /\ ScopeAt(k) \in Nat /\ BaseAt(k) \in Nat
      /\ \A i \in 1 .. Len(journal) : journal[i] \in Undo
      /\ journal \in Seq(Undo) /\ rows \in [Ids -> Row] /\ clock \in Nat
  BY LevelTypes DEF TypeOK
<1>4. /\ b <= Len(journal)
      /\ \A k \in Levels' : BaseAt(k) <= b
  <2>1. \A k \in Levels : k <= n
    BY <1>3 DEF Levels, n
  <2> QED BY <2>1, <1>2 DEF ScopeChain
<1>5. /\ journal' \in Seq(Undo) /\ Len(journal') = b
      /\ \A i \in 1 .. b : journal'[i] = journal[i]
  BY <1>1, <1>2, <1>3, <1>4, PrefixProperties
<1>6. rows' \in [Ids -> Row]
  BY <1>1, <1>2, <1>3, UndoneType
<1> HIDE DEF n, b
<1>7. ASSUME NEW id \in Ids
      PROVE  \/ rows'[id] = rows[id] /\ UndoIndices(journal, id, b) = {}
             \/ \E o \in 1 .. Len(journal) :
                   /\ b < o /\ journal[o].id = id
                   /\ rows'[id] = [val |-> journal[o].val, js |-> journal[o].js]
                   /\ \A i \in UndoIndices(journal, id, b) : o <= i
  <2>1. rows'[id] = UndoneRow(journal, rows, id, b)
    BY <1>1 DEF Undone
  <2>2. CASE UndoIndices(journal, id, b) = {}
    BY <2>1, <2>2 DEF UndoneRow
  <2>3. CASE UndoIndices(journal, id, b) # {}
    <3> DEFINE o == Oldest(UndoIndices(journal, id, b))
    <3>1. /\ o \in Nat /\ b < o /\ o <= Len(journal) /\ journal[o].id = id
          /\ \A i \in UndoIndices(journal, id, b) : o <= i
      BY <2>3, <1>2, <1>3, OldestUndo
    <3>2. rows'[id] = [val |-> journal[o].val, js |-> journal[o].js]
      BY <2>1, <2>3 DEF UndoneRow
    <3>3. o \in 1 .. Len(journal)
      BY <3>1, <1>2, <1>3
    <3> HIDE DEF o
    <3> QED BY <3>1, <3>2, <3>3
  <2> QED BY <2>2, <2>3
<1>8. TypeOK'
  BY <1>1, <1>2, <1>5, <1>6 DEF TypeOK
<1>9. PhaseShape'
  BY <1>1 DEF PhaseShape
<1>10. ScopeChain'
  <2>1. \A k \in 1 .. Len(checkpoints') : k \in 1 .. n /\ k \in Levels'
    BY <1>2, <1>3 DEF Levels
  <2>2. \A k \in 1 .. Len(checkpoints') : checkpoints'[k].scope = ScopeAt(k)'
    BY <2>1, <1>2 DEF ScopeChain, n
  <2>3. \A k \in Levels' : BaseAt(k)' <= Len(journal')
    BY <1>2, <1>4, <1>5
  <2> QED BY <2>2, <2>3, <1>1, <1>2 DEF ScopeChain
<1>11. StampsIssued'
  <2>1. ASSUME NEW id \in Ids PROVE rows'[id].js <= clock'
    <3>1. \/ rows'[id].js = rows[id].js
          \/ \E o \in 1 .. Len(journal) : rows'[id].js = journal[o].js
      <4>1. CASE rows'[id] = rows[id]
        BY <4>1
      <4>2. CASE rows'[id] # rows[id]
        <5>1. PICK o \in 1 .. Len(journal) :
                rows'[id] = [val |-> journal[o].val, js |-> journal[o].js]
          BY <4>2, <1>7
        <5>2. rows'[id].js = journal[o].js
          BY <5>1
        <5> QED BY <5>2
      <4> QED BY <4>1, <4>2
    <3> QED BY <3>1, <1>1 DEF StampsIssued
  <2>2. \A i \in 1 .. Len(journal') : journal'[i].js <= clock'
    BY <1>1, <1>2, <1>3, <1>4, <1>5 DEF StampsIssued
  <2> QED BY <2>1, <2>2, <1>1 DEF StampsIssued
<1>12. StampMeansUndo'
  <2> SUFFICES ASSUME NEW k \in Levels', NEW id \in Ids, rows'[id].js = ScopeAt(k)'
               PROVE  UndoIndices(journal', id, BaseAt(k)') # {}
    BY DEF StampMeansUndo
  <2>0. k \in Levels /\ ScopeAt(k)' = ScopeAt(k) /\ BaseAt(k)' = BaseAt(k) /\ BaseAt(k) <= b
        /\ BaseAt(k) \in Nat
    BY <1>2, <1>3, <1>4
  <2>1. PICK i \in (BaseAt(k) + 1) .. Len(journal) : journal[i].id = id /\ i <= b
    <3>1. CASE rows'[id] = rows[id] /\ UndoIndices(journal, id, b) = {}
      <4>1. UndoIndices(journal, id, BaseAt(k)) # {}
        BY <3>1, <2>0, <1>1 DEF StampMeansUndo
      <4>2. PICK i \in (BaseAt(k) + 1) .. Len(journal) : journal[i].id = id
        BY <4>1 DEF UndoIndices
      <4>3. ~(b < i)
        BY <3>1, <4>2, <1>2, <1>3, <2>0 DEF UndoIndices
      <4> QED BY <4>2, <4>3, <1>2, <1>3, <2>0
    <3>2. CASE \E o \in 1 .. Len(journal) :
                   /\ b < o /\ journal[o].id = id
                   /\ rows'[id] = [val |-> journal[o].val, js |-> journal[o].js]
                   /\ \A i \in UndoIndices(journal, id, b) : o <= i
      <4>1. PICK o \in 1 .. Len(journal) :
                   /\ b < o /\ journal[o].id = id
                   /\ rows'[id] = [val |-> journal[o].val, js |-> journal[o].js]
                   /\ \A i \in UndoIndices(journal, id, b) : o <= i
        BY <3>2
      <4>2. journal[o].js = ScopeAt(k)
        BY <4>1, <2>0
      <4>3. PICK i \in (BaseAt(k) + 1) .. (o - 1) : journal[i].id = journal[o].id
        BY <4>2, <2>0, <1>1 DEF SavedStampMeansUndo
      <4>4. i \in Nat /\ i < o /\ i \in (BaseAt(k) + 1) .. Len(journal) /\ journal[i].id = id
        BY <4>1, <4>3, <2>0, <1>3
      <4>5. ~(b < i)
        BY <4>1, <4>4, <1>2, <1>3 DEF UndoIndices
      <4> QED BY <4>4, <4>5, <1>2
    <3> QED BY <3>1, <3>2, <1>7
  <2>2. i \in (BaseAt(k) + 1) .. Len(journal') /\ journal'[i].id = id
    BY <2>1, <2>0, <1>2, <1>3, <1>5
  <2> QED BY <2>2, <2>0 DEF UndoIndices
<1>13. SavedStampMeansUndo'
  <2> SUFFICES ASSUME NEW k \in Levels', NEW m \in 1 .. Len(journal'), journal'[m].js = ScopeAt(k)'
               PROVE  \E i \in (BaseAt(k)' + 1) .. (m - 1) : journal'[i].id = journal'[m].id
    BY DEF SavedStampMeansUndo
  <2>0. k \in Levels /\ ScopeAt(k)' = ScopeAt(k) /\ BaseAt(k)' = BaseAt(k) /\ BaseAt(k) \in Nat
    BY <1>2, <1>3
  <2>1. m \in 1 .. Len(journal) /\ m <= b /\ m \in 1 .. b /\ journal'[m] = journal[m]
    BY <1>2, <1>3, <1>4, <1>5
  <2>2. PICK i \in (BaseAt(k) + 1) .. (m - 1) : journal[i].id = journal[m].id
    BY <2>0, <2>1, <1>1 DEF SavedStampMeansUndo
  <2>3. i \in 1 .. b
    BY <2>0, <2>1, <2>2, <1>2
  <2> QED BY <2>0, <2>1, <2>2, <2>3, <1>5
<1> QED BY <1>8, <1>9, <1>10, <1>11, <1>12, <1>13

\* A write in the scope s, with the clock at t: s is the innermost open scope
\* or a stamp above every open one.
LEMMA WritePreserves ==
    ASSUME UndoInv, phase # "idle",
           NEW W \in SUBSET Ids, NEW f \in [W -> Vals], NEW s \in Nat,
           WriteIn(s, W, f),
           \/ s = scope /\ clock' = clock
           \/ s = clock + 1 /\ clock' = clock + 1,
           UNCHANGED <<scope, phase, session, checkpoints, snapshots>>
    PROVE  UndoInv'
<1> USE DEF UndoInv
<1>1. PICK q \in Orderings(NeedsUndo(s, W)) :
        /\ journal' = journal \o UndoRecords(q)
        /\ rows' = [id \in Ids |->
              IF id \in W THEN [val |-> f[id], js |-> s] ELSE rows[id]]
  BY DEF WriteIn
<1> DEFINE new == UndoRecords(q)
           L == Len(journal)
<1>2. /\ new \in Seq(Undo) /\ Len(new) \in Nat
      /\ \A i \in 1 .. Len(new) : /\ new[i].id \in W /\ rows[new[i].id].js # s
                                   /\ new[i].val = rows[new[i].id].val
                                   /\ new[i].js = rows[new[i].id].js
      /\ \A id \in W : rows[id].js # s => \E i \in 1 .. Len(new) : new[i].id = id
  <2>1. TypeOK
    OBVIOUS
  <2>2. Records(UndoRecords(q), s, W)
    BY <2>1, Recorded
  <2> QED BY <2>2 DEF Records
<1>3. /\ L \in Nat /\ journal \in Seq(Undo) /\ rows \in [Ids -> Row] /\ clock \in Nat
      /\ \A k \in Levels : k \in Nat /\ ScopeAt(k) \in Nat /\ BaseAt(k) \in Nat
      /\ Len(checkpoints) \in Nat /\ clock' \in Nat /\ clock <= clock'
  BY LevelTypes DEF TypeOK
<1>4. /\ journal' \in Seq(Undo) /\ Len(journal') = L + Len(new)
      /\ \A i \in 1 .. L : journal'[i] = journal[i]
      /\ \A i \in 1 .. Len(new) : journal'[L + i] = new[i]
  <2>1. /\ journal' \in Seq(Undo) /\ Len(journal') = L + Len(new)
        /\ \A i \in 1 .. L + Len(new) : journal'[i] = IF i <= L THEN journal[i] ELSE new[i - L]
    BY <1>1, <1>2, <1>3, ConcatProperties
  <2>2. ASSUME NEW i \in 1 .. L PROVE journal'[i] = journal[i]
    BY <2>1, <1>2, <1>3
  <2>3. ASSUME NEW i \in 1 .. Len(new) PROVE journal'[L + i] = new[i]
    <3>1. L + i \in 1 .. L + Len(new) /\ ~(L + i <= L) /\ (L + i) - L = i
      BY <1>2, <1>3
    <3> QED BY <2>1, <3>1
  <2> QED BY <2>1, <2>2, <2>3
<1>5. /\ Levels' = Levels
      /\ \A k \in Levels : ScopeAt(k)' = ScopeAt(k) /\ BaseAt(k)' = BaseAt(k)
      /\ Len(checkpoints) \in Levels
      /\ ScopeAt(Len(checkpoints)) = scope
      /\ \A k \in Levels : ScopeAt(k) <= clock /\ BaseAt(k) <= L
  <2>1. \A k \in Levels : ScopeAt(k)' = ScopeAt(k) /\ BaseAt(k)' = BaseAt(k)
    BY DEF ScopeAt, BaseAt
  <2>2. Levels' = Levels /\ Len(checkpoints) \in Levels
    BY <1>3 DEF Levels
  <2>3. ScopeAt(Len(checkpoints)) = scope
    BY DEF ScopeAt
  <2>4. \A k \in Levels : ScopeAt(k) <= clock /\ BaseAt(k) <= L
    BY DEF ScopeChain
  <2> QED BY <2>1, <2>2, <2>3, <2>4
<1> HIDE DEF new, L
<1>6. rows' \in [Ids -> Row]
  BY <1>1, <1>3 DEF Row
<1>7. TypeOK'
  BY <1>3, <1>4, <1>6 DEF TypeOK
<1>8. PhaseShape'
  BY DEF PhaseShape
<1>9. ScopeChain'
  <2>1. \A k \in Levels : BaseAt(k) <= Len(journal')
    BY <1>2, <1>3, <1>4, <1>5
  <2>2. \A k \in Levels : ScopeAt(k) <= clock'
    BY <1>3, <1>5
  <2>3. \A k \in 1 .. Len(checkpoints) : k \in Levels
    BY <1>3 DEF Levels
  <2> QED BY <2>1, <2>2, <2>3, <1>5 DEF ScopeChain
<1>10. s <= clock'
  BY <1>3, <1>5
<1>11. StampsIssued'
  <2>1. ASSUME NEW id \in Ids PROVE rows'[id].js <= clock'
    <3>1. rows[id].js <= clock /\ rows[id].js \in Nat
      BY <1>3 DEF StampsIssued, Row
    <3> QED BY <3>1, <1>1, <1>3, <1>10
  <2>2. ASSUME NEW i \in 1 .. Len(journal') PROVE journal'[i].js <= clock'
    <3>1. CASE i \in 1 .. L
      <4>1. journal[i].js <= clock /\ journal[i].js \in Nat
        BY <3>1, LevelTypes DEF StampsIssued, Undo, L
      <4> QED BY <3>1, <4>1, <1>3, <1>4
    <3>2. CASE i \notin 1 .. L
      <4>1. i - L \in 1 .. Len(new) /\ i = L + (i - L)
        BY <3>2, <1>2, <1>3, <1>4
      <4>2. journal'[i] = new[i - L]
        BY <4>1, <1>4
      <4>3. journal'[i].js = rows[new[i - L].id].js /\ new[i - L].id \in Ids
        BY <4>1, <4>2, <1>2
      <4>4. rows[new[i - L].id].js <= clock /\ rows[new[i - L].id].js \in Nat
        BY <4>3, <1>3 DEF StampsIssued, Row
      <4> QED BY <4>3, <4>4, <1>3
    <3> QED BY <3>1, <3>2
  <2>3. ASSUME NEW x \in snapshots, NEW id \in Ids PROVE x[id].js <= clock'
    <3>1. x[id].js <= clock /\ x[id].js \in Nat
      BY DEF StampsIssued, TypeOK, Row
    <3> QED BY <3>1, <1>3
  <2> QED BY <2>1, <2>2, <2>3 DEF StampsIssued
<1>12. \A k \in Levels : \A id \in Ids :
          UndoIndices(journal, id, BaseAt(k)) \subseteq UndoIndices(journal', id, BaseAt(k))
  BY <1>2, <1>3, <1>4 DEF UndoIndices, L
<1>13. StampMeansUndo'
  <2> SUFFICES ASSUME NEW k \in Levels, NEW id \in Ids, rows'[id].js = ScopeAt(k)
               PROVE  UndoIndices(journal', id, BaseAt(k)) # {}
    BY <1>5 DEF StampMeansUndo
  <2>1. CASE rows[id].js = ScopeAt(k)
    BY <2>1, <1>12 DEF StampMeansUndo
  <2>2. CASE rows[id].js # ScopeAt(k)
    <3>1. id \in W /\ ScopeAt(k) = s /\ rows[id].js # s
      BY <2>2, <1>1
    <3>2. PICK i \in 1 .. Len(new) : new[i].id = id
      BY <3>1, <1>2
    <3>3. journal'[L + i].id = id
      BY <3>2, <1>4
    <3>4. BaseAt(k) \in Nat /\ BaseAt(k) <= L
      BY <1>3, <1>5
    <3>5. L + i \in (BaseAt(k) + 1) .. Len(journal')
      BY <3>4, <1>2, <1>3, <1>4
    <3> QED BY <3>3, <3>5 DEF UndoIndices
  <2> QED BY <2>1, <2>2
<1>14. SavedStampMeansUndo'
  <2> SUFFICES ASSUME NEW k \in Levels, NEW m \in 1 .. Len(journal'), journal'[m].js = ScopeAt(k)
               PROVE  \E i \in (BaseAt(k) + 1) .. (m - 1) : journal'[i].id = journal'[m].id
    BY <1>5 DEF SavedStampMeansUndo
  <2>1. CASE m \in 1 .. L
    <3>1. PICK i \in (BaseAt(k) + 1) .. (m - 1) : journal[i].id = journal[m].id
      BY <2>1, <1>4 DEF SavedStampMeansUndo, L
    <3>2. i \in 1 .. L
      BY <2>1, <3>1, <1>3
    <3> QED BY <2>1, <3>1, <3>2, <1>4
  <2>2. CASE m \notin 1 .. L
    <3>1. m - L \in 1 .. Len(new) /\ m = L + (m - L)
      BY <2>2, <1>2, <1>3, <1>4
    <3> DEFINE id == new[m - L].id
    <3>2. journal'[m].id = id /\ id \in Ids /\ rows[id].js = ScopeAt(k)
      BY <3>1, <1>2, <1>4
    <3>3. PICK i \in (BaseAt(k) + 1) .. L : journal[i].id = id
      BY <3>2 DEF StampMeansUndo, UndoIndices, L
    <3>4. i \in (BaseAt(k) + 1) .. (m - 1) /\ i \in 1 .. L
      BY <3>1, <3>3, <1>2, <1>3
    <3> QED BY <3>2, <3>3, <3>4, <1>4
  <2> QED BY <2>1, <2>2
<1> QED BY <1>7, <1>8, <1>9, <1>11, <1>13, <1>14

\* Between attempts the journal is empty: only the stamps need care.
LEMMA IdlePreserves ==
    ASSUME UndoInv, rows' \in [Ids -> Row], clock' \in Nat, snapshots' \in SUBSET [Ids -> Row],
           phase' = "idle", journal' = <<>>, scope' = None,
           checkpoints' = <<>>, session' = FALSE,
           \A id \in Ids : rows'[id].js <= clock',
           \A s \in snapshots' : \A id \in Ids : s[id].js <= clock'
    PROVE  UndoInv'
<1>1. Len(journal') = 0 /\ Len(checkpoints') = 0
  BY EmptySeq
<1>2. TypeOK'
  BY EmptySeq DEF TypeOK, None
<1>3. Levels' = {0} /\ BaseAt(0)' = 0
  BY <1>1 DEF Levels, BaseAt
<1>4. PhaseShape' /\ ScopeChain'
  BY <1>1, <1>3 DEF PhaseShape, ScopeChain
<1>5. StampsIssued'
  BY <1>1 DEF StampsIssued
<1>6. StampMeansUndo' /\ SavedStampMeansUndo'
  BY DEF StampMeansUndo, SavedStampMeansUndo
<1> QED BY <1>2, <1>4, <1>5, <1>6 DEF UndoInv

LEMMA DiscardPreserves == UndoInv /\ DiscardAttempt => UndoInv'
<1> SUFFICES ASSUME UndoInv, DiscardAttempt PROVE UndoInv'
  OBVIOUS
<1>1. /\ journal \in Seq(Undo) /\ rows \in [Ids -> Row] /\ clock \in Nat
      /\ Len(journal) \in Nat /\ snapshots \in SUBSET [Ids -> Row]
      /\ checkpoints = <<>> /\ session = FALSE
  BY LevelTypes DEF UndoInv, TypeOK, PhaseShape, DiscardAttempt
<1>2. /\ rows' = Undone(journal, rows, 0) /\ clock' = clock /\ snapshots' = snapshots
      /\ phase' = "idle" /\ journal' = <<>> /\ scope' = None
      /\ checkpoints' = checkpoints /\ session' = session
  BY DEF DiscardAttempt, Finish
<1>3. rows' \in [Ids -> Row]
  BY <1>1, <1>2, UndoneType
<1>4. ASSUME NEW id \in Ids PROVE rows'[id].js <= clock
  <2>1. rows'[id] = UndoneRow(journal, rows, id, 0)
    BY <1>2 DEF Undone
  <2>2. CASE UndoIndices(journal, id, 0) = {}
    BY <2>1, <2>2 DEF UndoneRow, UndoInv, StampsIssued
  <2>3. CASE UndoIndices(journal, id, 0) # {}
    <3> DEFINE o == Oldest(UndoIndices(journal, id, 0))
    <3>1. o \in Nat /\ 0 < o /\ o <= Len(journal)
      BY <2>3, <1>1, OldestUndo
    <3>2. rows'[id].js = journal[o].js
      BY <2>1, <2>3 DEF UndoneRow
    <3>3. o \in 1 .. Len(journal)
      BY <3>1, <1>1
    <3> HIDE DEF o
    <3> QED BY <3>2, <3>3 DEF UndoInv, StampsIssued
  <2> QED BY <2>2, <2>3
<1>5. \A s \in snapshots : \A id \in Ids : s[id].js <= clock
  BY DEF UndoInv, StampsIssued
<1> QED BY <1>1, <1>2, <1>3, <1>4, <1>5, IdlePreserves

\* The steps between attempts, and the one that keeps an attempt.
LEMMA BranchStepPreserves ==
    UndoInv /\ (RetainAttempt \/ TakeSnapshot \/ RestoreBranch \/ DiscardAccepted) => UndoInv'
<1> SUFFICES ASSUME UndoInv,
                    RetainAttempt \/ TakeSnapshot \/ RestoreBranch \/ DiscardAccepted
             PROVE  UndoInv'
  OBVIOUS
<1>1. /\ rows \in [Ids -> Row] /\ clock \in Nat /\ snapshots \in SUBSET [Ids -> Row]
      /\ session \in BOOLEAN
  BY DEF UndoInv, TypeOK
<1>2. /\ \A id \in Ids : rows[id].js <= clock
      /\ \A s \in snapshots : \A id \in Ids : s[id].js <= clock
  BY DEF UndoInv, StampsIssued
<1>3. /\ checkpoints = <<>> /\ session = FALSE
      /\ phase = "idle" => journal = <<>> /\ scope = None
  BY <1>1 DEF UndoInv, PhaseShape, RetainAttempt, TakeSnapshot, RestoreBranch, DiscardAccepted
<1>4. CASE RetainAttempt
  BY <1>1, <1>2, <1>3, <1>4, IdlePreserves DEF RetainAttempt, Finish
<1>5. CASE TakeSnapshot
  <2>1. /\ UNCHANGED <<rows, journal, clock, scope, phase, session, checkpoints>>
        /\ phase = "idle" /\ snapshots' = snapshots \cup {rows}
    BY <1>5 DEF TakeSnapshot
  <2> QED BY <2>1, <1>1, <1>2, <1>3, IdlePreserves
<1>6. CASE RestoreBranch
  <2>1. PICK x \in snapshots : rows' = x /\ snapshots' \in {snapshots, snapshots \ {x}}
    BY <1>6 DEF RestoreBranch
  <2>2. /\ phase' = "idle" /\ journal' = <<>> /\ scope' = None
        /\ UNCHANGED <<session, checkpoints, clock>>
    BY <1>6 DEF RestoreBranch, Finish
  <2>3. snapshots' \subseteq snapshots
    BY <2>1
  <2>4. rows' \in [Ids -> Row] /\ \A id \in Ids : rows'[id].js <= clock
    BY <2>1, <1>1, <1>2
  <2> QED BY <2>2, <2>3, <2>4, <1>1, <1>2, <1>3, IdlePreserves
<1>7. CASE DiscardAccepted
  <2>1. rows' = FreshRows /\ clock' = 0 /\ snapshots' = {}
        /\ phase = "idle" /\ UNCHANGED <<journal, scope, phase, session, checkpoints>>
    BY <1>7 DEF DiscardAccepted
  <2>2. rows' \in [Ids -> Row] /\ \A id \in Ids : rows'[id].js <= 0
    BY <2>1, UndoConstants DEF FreshRows, Row, None
  <2> QED BY <2>1, <2>2, <1>3, IdlePreserves
<1> QED BY <1>4, <1>5, <1>6, <1>7

\* The clock may run ahead of every stamp in use.
LEMMA TickPreserves ==
    ASSUME UndoInv, clock' \in Nat, clock <= clock', phase' \in {"open", "sealed"},
           phase # "idle", session => phase' = "open",
           UNCHANGED <<rows, journal, scope, session, checkpoints, snapshots>>
    PROVE  UndoInv'
<1> USE DEF UndoInv
<1>0. /\ Levels' = Levels
      /\ \A k \in Levels : ScopeAt(k)' = ScopeAt(k) /\ BaseAt(k)' = BaseAt(k)
      /\ \A k \in Levels : ScopeAt(k) \in Nat
      /\ clock \in Nat /\ Len(journal) \in Nat /\ Len(checkpoints) \in Nat
  BY LevelTypes DEF Levels, ScopeAt, BaseAt, TypeOK
<1>1. TypeOK'
  BY DEF TypeOK
<1>2. PhaseShape'
  BY DEF PhaseShape
<1>3. ScopeChain'
  <2>1. \A k \in Levels : 0 < ScopeAt(k) /\ ScopeAt(k) <= clock'
    BY <1>0 DEF ScopeChain
  <2>2. \A k \in 1 .. Len(checkpoints) : k \in Levels
    BY <1>0 DEF Levels
  <2> QED BY <2>1, <2>2, <1>0 DEF ScopeChain
<1>4. StampsIssued'
  <2>1. ASSUME NEW id \in Ids PROVE rows[id].js <= clock'
    BY <1>0 DEF StampsIssued, TypeOK, Row
  <2>2. ASSUME NEW i \in 1 .. Len(journal) PROVE journal[i].js <= clock'
    BY <1>0, LevelTypes DEF StampsIssued, TypeOK, Undo
  <2>3. ASSUME NEW s \in snapshots, NEW id \in Ids PROVE s[id].js <= clock'
    <3>1. s[id].js <= clock /\ s[id].js \in Nat
      BY DEF StampsIssued, TypeOK, Row
    <3> QED BY <3>1, <1>0
  <2> QED BY <2>1, <2>2, <2>3 DEF StampsIssued
<1>5. StampMeansUndo'
  BY <1>0 DEF StampMeansUndo
<1>6. SavedStampMeansUndo'
  BY <1>0 DEF SavedStampMeansUndo
<1> QED BY <1>1, <1>2, <1>3, <1>4, <1>5, <1>6

LEMMA NextPreserves == UndoInv /\ [Next]_ujVars => UndoInv'
<1> SUFFICES ASSUME UndoInv, [Next]_ujVars PROVE UndoInv'
  OBVIOUS
<1>0. clock \in Nat /\ scope \in Nat /\ session \in BOOLEAN
  BY DEF UndoInv, TypeOK
<1>1. CASE BeginAttempt \/ OpenSession \/ CloseSession
  <2>1. checkpoints = <<>>
    BY <1>1 DEF BeginAttempt, OpenSession, CloseSession, UndoInv, PhaseShape
  <2>2. UNCHANGED <<rows, journal, checkpoints, snapshots>>
    BY <1>1 DEF BeginAttempt, OpenSession, CloseSession
  <2>3. clock' \in Nat /\ clock < clock' /\ scope' = clock'
    BY <1>0, <1>1 DEF BeginAttempt, OpenSession, CloseSession
  <2>4. phase' = "open" /\ session' \in BOOLEAN
    BY <1>0, <1>1, Zenon DEF BeginAttempt, OpenSession, CloseSession, UndoInv, PhaseShape
  <2> QED BY <2>1, <2>2, <2>3, <2>4, RootMoves
<1>2. CASE OpenCheckpoint
  BY <1>2, CheckpointPreserves
<1>3. CASE CommitCheckpoint
  BY <1>3, CommitPreserves
<1>4. CASE RevertToCheckpoint
  BY <1>4, RevertPreserves
<1>5. ASSUME NEW W \in SUBSET Ids, NEW f \in [W -> Vals], Write(W, f)
      PROVE  UndoInv'
  <2>1. /\ phase # "idle" /\ WriteIn(scope, W, f) /\ clock' = clock
        /\ UNCHANGED <<scope, phase, session, checkpoints, snapshots>>
    BY <1>5 DEF Write
  <2> QED BY <2>1, <1>0, WritePreserves
<1>6. ASSUME NEW W \in SUBSET Ids, NEW f \in [W -> Vals], ScopedWrite(W, f)
      PROVE  UndoInv'
  <2>1. /\ phase # "idle" /\ WriteIn(clock + 1, W, f) /\ clock' = clock + 1
        /\ UNCHANGED <<scope, phase, session, checkpoints, snapshots>>
    BY <1>6 DEF ScopedWrite, UndoInv, PhaseShape
  <2> DEFINE t == clock + 1
  <2>2. t \in Nat /\ t = clock + 1 /\ WriteIn(t, W, f)
    BY <1>0, <2>1
  <2> HIDE DEF t
  <2> QED BY <2>1, <2>2, WritePreserves
<1>7. CASE ScopedFailure \/ SealAttempt
  BY <1>0, <1>7, TickPreserves DEF ScopedFailure, SealAttempt, UndoInv, PhaseShape
<1>8. CASE RetainAttempt \/ TakeSnapshot \/ RestoreBranch \/ DiscardAccepted
  BY <1>8, BranchStepPreserves
<1>9. CASE DiscardAttempt
  BY <1>9, DiscardPreserves
<1>10. CASE UNCHANGED ujVars
  BY <1>10 DEF ujVars, UndoInv, TypeOK, PhaseShape, ScopeChain, StampsIssued,
       StampMeansUndo, SavedStampMeansUndo, Levels, ScopeAt, BaseAt
<1> QED BY <1>1, <1>2, <1>3, <1>4, <1>5, <1>6, <1>7, <1>8, <1>9, <1>10 DEF Next

\* Journaling a row once per scope is safe: in every reachable state of
\* world_state.zig's begin, checkpoint, write, revert, retain, discard,
\* snapshot and restore operations, for any rows, values and clock limit, a
\* row whose stamp is that of an open scope has an undo record above that
\* scope's journal length, so prepareAccountMutation and writeResolvedStorage
\* may skip the record.
THEOREM UndoInvariant == Spec => []UndoInv
<1>1. Init => UndoInv
  BY InitEstablishes
<1>2. UndoInv /\ [Next]_ujVars => UndoInv'
  BY NextPreserves
<1> QED BY <1>1, <1>2, PTL DEF Spec

-----------------------------------------------------------------------------
(* The refinement.  Copy(k) is what the checkpoint of level k would restore *)

Copy(k) == ValsOf(Undone(journal, rows, BaseAt(k)))

LEMMA UndoneNone ==
    ASSUME NEW j \in Seq(Undo), NEW r \in [Ids -> Row]
    PROVE  Undone(j, r, Len(j)) = r
<1>1. Len(j) \in Nat
  BY LenProperties
<1>2. ASSUME NEW id \in Ids PROVE UndoneRow(j, r, id, Len(j)) = r[id]
  BY <1>1 DEF UndoneRow, UndoIndices
<1> QED BY <1>2 DEF Undone

LEMMA SavedShape ==
    ASSUME TypeOK, phase # "idle"
    PROVE  /\ Len(checkpoints) \in Nat
           /\ SavedCopies = [k \in 1 .. Len(checkpoints) + 1 |-> Copy(k - 1)]
           /\ Len(SavedCopies) = Len(checkpoints) + 1
           /\ \A k \in Levels : k + 1 \in 1 .. Len(SavedCopies) /\ SavedCopies[k + 1] = Copy(k)
           /\ SavedCopies # <<>>
<1>1. Len(checkpoints) \in Nat
  BY LevelTypes
<1>2. SavedCopies = [k \in 1 .. Len(checkpoints) + 1 |-> Copy(k - 1)]
  BY DEF SavedCopies, Copy
<1>3. Len(SavedCopies) = Len(checkpoints) + 1
  BY <1>1, <1>2
<1>4. ASSUME NEW k \in Levels
      PROVE  k + 1 \in 1 .. Len(SavedCopies) /\ SavedCopies[k + 1] = Copy(k)
  <2>1. k \in Nat /\ k <= Len(checkpoints)
    BY <1>1 DEF Levels
  <2>2. k + 1 \in 1 .. Len(checkpoints) + 1 /\ (k + 1) - 1 = k
    BY <2>1, <1>1
  <2> QED BY <2>2, <1>2, <1>3
<1>5. SavedCopies # <<>>
  BY <1>1, <1>3, EmptySeq
<1> QED BY <1>1, <1>2, <1>3, <1>4, <1>5

\* Two states with the same copies at the same levels keep the same stack.
LEMMA SavedSame ==
    ASSUME TypeOK, TypeOK', phase # "idle", phase' # "idle",
           Len(checkpoints') = Len(checkpoints),
           \A k \in Levels : Copy(k)' = Copy(k)
    PROVE  SavedCopies' = SavedCopies
<1>1. /\ Len(checkpoints) \in Nat
      /\ SavedCopies = [k \in 1 .. Len(checkpoints) + 1 |-> Copy(k - 1)]
  BY SavedShape
<1>2. SavedCopies' = [k \in 1 .. Len(checkpoints) + 1 |-> Copy(k - 1)']
  BY DEF SavedCopies, Copy
<1>3. ASSUME NEW k \in 1 .. Len(checkpoints) + 1 PROVE Copy(k - 1)' = Copy(k - 1)
  <2>1. k - 1 \in Levels
    BY <1>1 DEF Levels
  <2> DEFINE m == k - 1
  <2>2. m \in Levels
    BY <2>1
  <2> HIDE DEF m
  <2>3. Copy(m)' = Copy(m)
    BY <2>2
  <2> QED BY <2>3 DEF m
<1> QED BY <1>1, <1>2, <1>3

\* A write leaves what every open level would restore alone.
LEMMA WriteKeepsCopies ==
    ASSUME UndoInv, phase # "idle",
           NEW W \in SUBSET Ids, NEW f \in [W -> Vals], NEW s \in Nat,
           WriteIn(s, W, f), s = scope \/ s = clock + 1,
           rows' \in [Ids -> Row], checkpoints' = checkpoints
    PROVE  \A k \in Levels : Copy(k)' = Copy(k)
<1> USE DEF UndoInv
<1>1. PICK q \in Orderings(NeedsUndo(s, W)) :
        /\ journal' = journal \o UndoRecords(q)
        /\ rows' = [id \in Ids |->
              IF id \in W THEN [val |-> f[id], js |-> s] ELSE rows[id]]
  BY DEF WriteIn
<1>2. Records(UndoRecords(q), s, W)
  <2>1. TypeOK
    OBVIOUS
  <2> QED BY <2>1, Recorded
<1> SUFFICES ASSUME NEW k \in Levels PROVE Copy(k)' = Copy(k)
  OBVIOUS
<1>3. /\ journal \in Seq(Undo) /\ rows \in [Ids -> Row] /\ clock \in Nat
      /\ Len(journal) \in Nat /\ Len(checkpoints) \in Nat
      /\ \A m \in Levels : m \in Nat /\ BaseAt(m) \in Nat
      /\ BaseAt(k) <= Len(journal) /\ BaseAt(k)' = BaseAt(k)
  BY LevelTypes DEF TypeOK, ScopeChain, BaseAt
<1>4. ASSUME NEW id \in Ids
      PROVE  \/ rows'[id] = rows[id]
             \/ UndoIndices(journal, id, BaseAt(k)) # {}
             \/ \E i \in 1 .. Len(UndoRecords(q)) : UndoRecords(q)[i].id = id
  <2>1. CASE id \notin W
    BY <2>1, <1>1
  <2>2. CASE id \in W /\ rows[id].js # s
    BY <2>2, <1>2 DEF Records
  <2>3. CASE id \in W /\ rows[id].js = s
    <3>1. s = scope
      BY <2>3, <1>3 DEF StampsIssued, TypeOK, Row
    <3>2. Len(checkpoints) \in Levels /\ ScopeAt(Len(checkpoints)) = scope
          /\ k <= Len(checkpoints)
      BY <1>3 DEF Levels, ScopeAt
    <3>3. UndoIndices(journal, id, BaseAt(Len(checkpoints))) # {}
      BY <2>3, <3>1, <3>2 DEF StampMeansUndo
    <3>4. BaseAt(k) <= BaseAt(Len(checkpoints)) /\ BaseAt(Len(checkpoints)) \in Nat
      BY <3>2, <1>3 DEF ScopeChain
    <3>5. UndoIndices(journal, id, BaseAt(Len(checkpoints)))
             \subseteq UndoIndices(journal, id, BaseAt(k))
      BY <3>4, <1>3 DEF UndoIndices
    <3> QED BY <3>3, <3>5
  <2> QED BY <2>1, <2>2, <2>3
<1> DEFINE new == UndoRecords(q)
           b == BaseAt(k)
           r2 == rows'
<1>5. /\ new \in Seq(Undo)
      /\ \A i \in 1 .. Len(new) : /\ new[i].val = rows[new[i].id].val
                                   /\ new[i].js = rows[new[i].id].js
      /\ \A id \in Ids : \/ r2[id] = rows[id]
                         \/ UndoIndices(journal, id, b) # {}
                         \/ \E i \in 1 .. Len(new) : new[i].id = id
      /\ b \in Nat /\ b <= Len(journal) /\ r2 \in [Ids -> Row]
  BY <1>2, <1>3, <1>4 DEF Records
<1>6. journal' = journal \o new /\ rows' = r2 /\ BaseAt(k)' = b /\ BaseAt(k) = b
  BY <1>1, <1>3
<1> HIDE DEF new, b, r2
<1>7. Covered(journal, new, rows, r2, b)
  BY <1>5 DEF Covered
<1>8. Undone(journal \o new, r2, b) = Undone(journal, rows, b)
  BY <1>3, <1>5, <1>7, UndoneAppend
<1> QED BY <1>6, <1>8 DEF Copy, ValsOf

LEMMA WriteRefines ==
    ASSUME UndoInv, UndoInv', phase # "idle",
           NEW W \in SUBSET Ids, NEW f \in [W -> Vals], NEW s \in Nat,
           WriteIn(s, W, f), s = scope \/ s = clock + 1,
           UNCHANGED <<scope, phase, session, checkpoints, snapshots>>
    PROVE  Abstract!BSWrite
<1>1. TypeOK /\ TypeOK' /\ phase' # "idle"
  BY DEF UndoInv
<1>2. \A k \in Levels : Copy(k)' = Copy(k)
  BY <1>1, WriteKeepsCopies DEF TypeOK
<1>3. SavedCopies' = SavedCopies
  BY <1>1, <1>2, SavedSame
<1>4. SavedCopies # <<>>
  BY <1>1, SavedShape
<1>5. ValsOf(rows)' \in [Ids -> Vals]
  BY <1>1 DEF TypeOK, ValsOf, Row
<1> QED BY <1>3, <1>4, <1>5 DEF Abstract!BSWrite, Abstract!Active, Abstract!Mapping

LEMMA BeginRefines == ASSUME UndoInv, UndoInv', BeginAttempt PROVE Abstract!BSBegin
<1>1. /\ journal = <<>> /\ checkpoints = <<>> /\ journal \in Seq(Undo)
      /\ rows \in [Ids -> Row] /\ TypeOK'
  BY DEF BeginAttempt, UndoInv, TypeOK, PhaseShape
<1>2. Undone(journal, rows, 0) = rows
  <2>1. Len(journal) = 0
    BY <1>1, EmptySeq
  <2> QED BY <2>1, <1>1, UndoneNone
<1>3. SavedCopies = <<>>
  BY DEF BeginAttempt, SavedCopies
<1>4. /\ phase' # "idle" /\ UNCHANGED <<rows, journal, checkpoints, snapshots>>
  BY DEF BeginAttempt
<1>5. Len(checkpoints') = 0 /\ BaseAt(0)' = 0
  BY <1>1, <1>4, EmptySeq DEF BaseAt
<1>6. SavedCopies' = [k \in 1 .. 1 |-> Copy(k - 1)']
  BY <1>4, <1>5 DEF SavedCopies, Copy
<1>7. ASSUME NEW k \in 1 .. 1 PROVE Copy(k - 1)' = ValsOf(rows)
  <2>1. k - 1 = 0
    OBVIOUS
  <2>2. Copy(0)' = ValsOf(rows)
    BY <1>2, <1>4, <1>5 DEF Copy, ValsOf
  <2> QED BY <2>1, <2>2 DEF Copy, BaseAt
<1>8. SavedCopies' = <<ValsOf(rows)>>
  BY <1>6, <1>7
<1> QED BY <1>3, <1>4, <1>8 DEF Abstract!BSBegin, Abstract!Active, ValsOf

\* The levels below the innermost one, when a checkpoint closes.
LEMMA SavedPopped ==
    ASSUME TypeOK, TypeOK', phase # "idle", phase' # "idle",
           checkpoints # <<>>, checkpoints' = Popped, scope' = Top.parent,
           \A k \in Levels' : Copy(k)' = Copy(k)
    PROVE  /\ Len(SavedCopies) > 1
           /\ SavedCopies[Len(SavedCopies)] = ValsOf(Undone(journal, rows, Top.len))
           /\ SavedCopies' = SubSeq(SavedCopies, 1, Len(SavedCopies) - 1)
<1> DEFINE n == Len(checkpoints)
<1>1. /\ n \in Nat /\ n > 0 /\ Len(checkpoints') = n - 1
      /\ n \in Levels /\ BaseAt(n) = Top.len
  BY LevelTypes, LevelsPopped
<1>2. /\ SavedCopies = [k \in 1 .. n + 1 |-> Copy(k - 1)]
      /\ Len(SavedCopies) = n + 1
      /\ SavedCopies[n + 1] = Copy(n)
  BY <1>1, SavedShape
<1>3. SavedCopies' = [k \in 1 .. (n - 1) + 1 |-> Copy(k - 1)']
  BY <1>1 DEF SavedCopies, Copy
<1>4. ASSUME NEW k \in 1 .. n PROVE Copy(k - 1)' = Copy(k - 1)
  <2>1. k - 1 \in Levels'
    BY <1>1 DEF Levels
  <2> DEFINE m == k - 1
  <2>2. m \in Levels'
    BY <2>1
  <2> HIDE DEF m
  <2>3. Copy(m)' = Copy(m)
    BY <2>2
  <2> QED BY <2>3 DEF m
<1> HIDE DEF n
<1>5. SavedCopies' = [k \in 1 .. n |-> Copy(k - 1)]
  BY <1>1, <1>3, <1>4
<1>6. SubSeq(SavedCopies, 1, n) = [k \in 1 .. n |-> SavedCopies[k]]
  BY <1>1, <1>2
<1>7. \A k \in 1 .. n : SavedCopies[k] = Copy(k - 1)
  BY <1>1, <1>2
<1>8. SavedCopies' = SubSeq(SavedCopies, 1, n)
  BY <1>5, <1>6, <1>7
<1>9. Copy(n) = ValsOf(Undone(journal, rows, Top.len))
  BY <1>1 DEF Copy
<1>10. Len(SavedCopies) - 1 = n /\ Len(SavedCopies) > 1
  BY <1>1, <1>2
<1> QED BY <1>2, <1>8, <1>9, <1>10

LEMMA CommitRefines == ASSUME UndoInv, UndoInv', CommitCheckpoint PROVE Abstract!BSCommit
<1>1. /\ TypeOK /\ TypeOK' /\ phase # "idle" /\ phase' # "idle"
      /\ checkpoints # <<>> /\ checkpoints' = Popped /\ scope' = Top.parent
      /\ UNCHANGED <<rows, journal, snapshots>>
  BY DEF UndoInv, PhaseShape, CommitCheckpoint
<1>2. \A k \in Levels' : Copy(k)' = Copy(k)
  <2>1. \A k \in Levels' : BaseAt(k)' = BaseAt(k)
    BY <1>1, LevelsPopped
  <2> QED BY <2>1, <1>1 DEF Copy, ValsOf
<1>3. /\ Len(SavedCopies) > 1
      /\ SavedCopies' = SubSeq(SavedCopies, 1, Len(SavedCopies) - 1)
  BY <1>1, <1>2, SavedPopped
<1> QED BY <1>1, <1>3 DEF Abstract!BSCommit, ValsOf

LEMMA RevertRefines == ASSUME UndoInv, UndoInv', RevertToCheckpoint PROVE Abstract!BSRevert
<1>1. /\ TypeOK /\ TypeOK' /\ phase # "idle" /\ phase' # "idle"
      /\ checkpoints # <<>> /\ checkpoints' = Popped /\ scope' = Top.parent
      /\ rows' = Undone(journal, rows, Top.len)
      /\ journal' = SubSeq(journal, 1, Top.len)
      /\ snapshots' = snapshots
  BY DEF UndoInv, PhaseShape, RevertToCheckpoint
<1>2. /\ Levels' \subseteq Levels /\ Len(checkpoints) \in Levels
      /\ BaseAt(Len(checkpoints)) = Top.len /\ Top.len \in Nat
      /\ \A k \in Levels' : BaseAt(k)' = BaseAt(k)
  BY <1>1, LevelsPopped
<1>3. ASSUME NEW k \in Levels' PROVE Copy(k)' = Copy(k)
  <2> DEFINE b == BaseAt(k)
  <2>1. k \in Levels /\ k <= Len(checkpoints)
    BY <1>1, <1>2, LevelTypes DEF Levels
  <2>2. b \in Nat /\ b <= Top.len /\ Top.len <= Len(journal)
    BY <2>1, <1>1, <1>2, LevelTypes DEF UndoInv, ScopeChain
  <2>3. journal \in Seq(Undo) /\ rows \in [Ids -> Row] /\ BaseAt(k)' = b /\ BaseAt(k) = b
    BY <1>1, <1>2 DEF TypeOK
  <2> HIDE DEF b
  <2>4. Undone(SubSeq(journal, 1, Top.len), Undone(journal, rows, Top.len), b)
           = Undone(journal, rows, b)
    BY <2>2, <2>3, <1>2, UndoneTwice
  <2> QED BY <2>3, <2>4, <1>1 DEF Copy, ValsOf
<1>4. /\ Len(SavedCopies) > 1
      /\ SavedCopies[Len(SavedCopies)] = ValsOf(Undone(journal, rows, Top.len))
      /\ SavedCopies' = SubSeq(SavedCopies, 1, Len(SavedCopies) - 1)
  BY <1>1, <1>3, SavedPopped
<1>5. ValsOf(rows)' = ValsOf(Undone(journal, rows, Top.len))
  BY <1>1 DEF ValsOf
<1> QED BY <1>1, <1>4, <1>5 DEF Abstract!BSRevert

LEMMA CheckpointRefines == ASSUME UndoInv, UndoInv', OpenCheckpoint PROVE Abstract!BSCheckpoint
<1> DEFINE n == Len(checkpoints)
<1>1. /\ TypeOK /\ phase # "idle" /\ phase' # "idle"
      /\ UNCHANGED <<rows, journal, snapshots>>
      /\ journal \in Seq(Undo) /\ rows \in [Ids -> Row]
  BY DEF UndoInv, PhaseShape, OpenCheckpoint, TypeOK
<1>2. /\ Len(checkpoints') = n + 1
      /\ \A k \in Levels : BaseAt(k)' = BaseAt(k)
      /\ \A k \in Nat : k = n + 1 => BaseAt(k)' = Len(journal)
  BY <1>1, LevelsPushed
<1>3. /\ n \in Nat
      /\ SavedCopies = [k \in 1 .. n + 1 |-> Copy(k - 1)]
      /\ Len(SavedCopies) = n + 1
      /\ SavedCopies # <<>>
  BY <1>1, SavedShape
<1>4. SavedCopies' = [k \in 1 .. (n + 1) + 1 |-> Copy(k - 1)']
  BY <1>1, <1>2 DEF SavedCopies, Copy
<1>5. ASSUME NEW k \in 1 .. n + 1 PROVE Copy(k - 1)' = SavedCopies[k]
  <2>1. k - 1 \in Levels
    BY <1>3 DEF Levels
  <2> DEFINE m == k - 1
  <2>2. m \in Levels
    BY <2>1
  <2> HIDE DEF m
  <2>3. Copy(m)' = Copy(m)
    BY <2>2, <1>1, <1>2 DEF Copy, ValsOf
  <2> QED BY <2>3, <1>3 DEF m
<1>6. ASSUME NEW k \in Nat, k = n + 1 PROVE Copy(k)' = ValsOf(rows)
  <2>1. BaseAt(k)' = Len(journal)
    BY <1>2, <1>6
  <2>2. Undone(journal, rows, Len(journal)) = rows
    BY <1>1, UndoneNone
  <2> QED BY <2>1, <2>2, <1>1 DEF Copy, ValsOf
<1>7. ASSUME NEW k \in Nat, k = n + 2 PROVE Copy(k - 1)' = ValsOf(rows)
  <2> DEFINE m == k - 1
  <2>1. m \in Nat /\ m = n + 1
    BY <1>3, <1>7
  <2> HIDE DEF m
  <2>2. Copy(m)' = ValsOf(rows)
    BY <2>1, <1>6
  <2> QED BY <2>2 DEF m
<1> HIDE DEF n
<1>8. SavedCopies' = [k \in 1 .. n + 2 |-> IF k <= n + 1 THEN SavedCopies[k] ELSE ValsOf(rows)]
  <2>1. (n + 1) + 1 = n + 2
    BY <1>3
  <2>2. ASSUME NEW k \in 1 .. n + 2
        PROVE  Copy(k - 1)' = IF k <= n + 1 THEN SavedCopies[k] ELSE ValsOf(rows)
    <3>1. CASE k <= n + 1
      BY <3>1, <1>3, <1>5
    <3>2. CASE ~(k <= n + 1)
      <4>1. k \in Nat /\ k = n + 2
        BY <3>2, <1>3
      <4> QED BY <4>1, <3>2, <1>7
    <3> QED BY <3>1, <3>2
  <2> QED BY <2>1, <2>2, <1>4
<1>9. SavedCopies' = Append(SavedCopies, ValsOf(rows))
  <2>1. \A k \in 1 .. n + 1 : SavedCopies[k] = Copy(k - 1)
    BY <1>3
  <2> QED BY <1>3, <1>8
<1> QED BY <1>1, <1>3, <1>9 DEF Abstract!BSCheckpoint, Abstract!Active, ValsOf

\* With no checkpoint open the stack holds one copy, that of the whole attempt.
LEMMA RootCopy ==
    ASSUME UndoInv, phase # "idle", checkpoints = <<>>
    PROVE  /\ Len(SavedCopies) = 1
           /\ SavedCopies[1] = ValsOf(Undone(journal, rows, 0))
<1>1. /\ TypeOK /\ Len(checkpoints) = 0 /\ 0 \in Levels /\ BaseAt(0) = 0
  BY RootLevel DEF UndoInv
<1>2. Len(SavedCopies) = 1 /\ SavedCopies[0 + 1] = Copy(0)
  BY <1>1, SavedShape
<1> QED BY <1>1, <1>2 DEF Copy

LEMMA NextRefines == UndoInv /\ UndoInv' /\ [Next]_ujVars => [Abstract!BSNext]_(Abstract!bsVars)
<1> SUFFICES ASSUME UndoInv, UndoInv', [Next]_ujVars
             PROVE  Abstract!BSNext \/ UNCHANGED Abstract!bsVars
  OBVIOUS
<1>0. TypeOK /\ TypeOK' /\ PhaseShape /\ clock \in Nat /\ scope \in Nat
  BY DEF UndoInv, TypeOK
<1>1. CASE BeginAttempt
  BY <1>1, BeginRefines DEF Abstract!BSNext
<1>2. CASE OpenSession \/ CloseSession \/ ScopedFailure \/ SealAttempt
  <2>1. /\ phase # "idle" /\ phase' # "idle"
        /\ UNCHANGED <<rows, journal, checkpoints, snapshots>>
    BY <1>0, <1>2 DEF OpenSession, CloseSession, ScopedFailure, SealAttempt, PhaseShape
  <2>2. \A k \in Levels : Copy(k)' = Copy(k)
    BY <2>1 DEF Copy, ValsOf, BaseAt
  <2>3. SavedCopies' = SavedCopies
    BY <2>1, <2>2, <1>0, SavedSame
  <2> QED BY <2>1, <2>3 DEF Abstract!bsVars, ValsOf
<1>3. CASE OpenCheckpoint
  BY <1>3, CheckpointRefines DEF Abstract!BSNext
<1>4. CASE CommitCheckpoint
  BY <1>4, CommitRefines DEF Abstract!BSNext
<1>5. CASE RevertToCheckpoint
  BY <1>5, RevertRefines DEF Abstract!BSNext
<1>6. ASSUME NEW W \in SUBSET Ids, NEW f \in [W -> Vals], Write(W, f)
      PROVE  Abstract!BSWrite
  <2>1. /\ phase # "idle" /\ WriteIn(scope, W, f)
        /\ UNCHANGED <<scope, phase, session, checkpoints, snapshots>>
    BY <1>6 DEF Write
  <2> QED BY <2>1, <1>0, WriteRefines
<1>7. ASSUME NEW W \in SUBSET Ids, NEW f \in [W -> Vals], ScopedWrite(W, f)
      PROVE  Abstract!BSWrite
  <2> DEFINE t == clock + 1
  <2>1. /\ phase # "idle" /\ WriteIn(t, W, f) /\ t = clock + 1 /\ t \in Nat
        /\ UNCHANGED <<scope, phase, session, checkpoints, snapshots>>
    BY <1>0, <1>7 DEF ScopedWrite, PhaseShape
  <2> HIDE DEF t
  <2> QED BY <2>1, WriteRefines
<1>8. CASE RetainAttempt
  <2>1. /\ phase # "idle" /\ phase' = "idle" /\ checkpoints = <<>>
        /\ UNCHANGED <<rows, snapshots>>
    BY <1>0, <1>8 DEF RetainAttempt, Finish, PhaseShape
  <2>2. Len(SavedCopies) = 1 /\ SavedCopies' = <<>>
    BY <2>1, RootCopy DEF SavedCopies
  <2>3. Abstract!BSRetain
    BY <2>1, <2>2 DEF Abstract!BSRetain, ValsOf
  <2> QED BY <2>3 DEF Abstract!BSNext
<1>9. CASE DiscardAttempt
  <2>1. /\ phase # "idle" /\ phase' = "idle" /\ checkpoints = <<>>
        /\ rows' = Undone(journal, rows, 0) /\ snapshots' = snapshots
    BY <1>0, <1>9 DEF DiscardAttempt, Finish, PhaseShape
  <2>2. /\ Len(SavedCopies) = 1 /\ SavedCopies' = <<>>
        /\ ValsOf(rows)' = SavedCopies[1]
    BY <2>1, RootCopy DEF SavedCopies, ValsOf
  <2>3. Abstract!BSDiscard
    BY <2>1, <2>2 DEF Abstract!BSDiscard
  <2> QED BY <2>3 DEF Abstract!BSNext
<1>10. CASE TakeSnapshot
  <2>1. /\ SavedCopies = <<>> /\ SavedCopies' = <<>> /\ rows' = rows
        /\ snapshots' = snapshots \cup {rows}
    BY <1>10 DEF TakeSnapshot, SavedCopies
  <2>2. {ValsOf(s) : s \in snapshots'} = {ValsOf(s) : s \in snapshots} \cup {ValsOf(rows)}
    BY <2>1
  <2>3. Abstract!BSSnapshot
    BY <2>1, <2>2 DEF Abstract!BSSnapshot, Abstract!Active, ValsOf
  <2> QED BY <2>3 DEF Abstract!BSNext
<1>11. CASE RestoreBranch
  <2>1. PICK x \in snapshots : rows' = x /\ snapshots' \in {snapshots, snapshots \ {x}}
    BY <1>11 DEF RestoreBranch
  <2>2. phase' = "idle" /\ checkpoints = <<>>
    BY <1>0, <1>11 DEF RestoreBranch, Finish, PhaseShape
  <2>3. Len(SavedCopies) <= 1
    <3>1. CASE phase = "idle"
      <4>1. SavedCopies = <<>>
        BY <3>1 DEF SavedCopies
      <4> QED BY <4>1
    <3>2. CASE phase # "idle"
      <4>1. Len(SavedCopies) = 1
        BY <3>2, <2>2, RootCopy
      <4> QED BY <4>1
    <3> QED BY <3>1, <3>2
  <2>4. /\ ValsOf(rows)' \in {ValsOf(s) : s \in snapshots} /\ SavedCopies' = <<>>
        /\ {ValsOf(s) : s \in snapshots'} \in SUBSET {ValsOf(s) : s \in snapshots}
    BY <2>1, <2>2 DEF ValsOf, SavedCopies
  <2>5. Abstract!BSRestore
    BY <2>3, <2>4 DEF Abstract!BSRestore, ValsOf
  <2> QED BY <2>5 DEF Abstract!BSNext
<1>12. CASE DiscardAccepted
  <2>1. /\ SavedCopies = <<>> /\ SavedCopies' = <<>> /\ rows' = FreshRows /\ snapshots' = {}
    BY <1>12 DEF DiscardAccepted, SavedCopies
  <2>2. ValsOf(rows)' = Parent
    BY <2>1, UndoConstants DEF ValsOf, FreshRows
  <2>3. Abstract!BSReset
    BY <2>1, <2>2 DEF Abstract!BSReset, Abstract!Active
  <2> QED BY <2>3 DEF Abstract!BSNext
<1>13. CASE UNCHANGED ujVars
  BY <1>13 DEF ujVars, Abstract!bsVars, ValsOf, SavedCopies, Undone, UndoneRow, UndoIndices, BaseAt
<1> QED BY <1>1, <1>2, <1>3, <1>4, <1>5, <1>6, <1>7, <1>8, <1>9, <1>10, <1>11, <1>12, <1>13
        DEF Next, Abstract!BSNext

LEMMA InitRefines == Init => Abstract!BSInit
<1> SUFFICES ASSUME Init PROVE Abstract!BSInit
  OBVIOUS
<1>1. ValsOf(rows) = Parent
  BY UndoConstants DEF Init, ValsOf, FreshRows
<1>2. SavedCopies = <<>> /\ {ValsOf(s) : s \in snapshots} = {}
  BY DEF Init, SavedCopies
<1> QED BY <1>1, <1>2 DEF Abstract!BSInit

\* The journal of world_state.zig implements full copies: for any number of
\* rows, scopes and transactions, revertToCheckpoint, discardAttempt and
\* restoreBranch give back exactly the values that were current when the
\* checkpoint was opened, the attempt begun or the branch snapshot taken.
THEOREM JournalRefinement == Spec => ImplementsBranchStore
<1>1. Init => Abstract!BSInit
  BY InitRefines
<1>2. UndoInv /\ UndoInv' /\ [Next]_ujVars => [Abstract!BSNext]_(Abstract!bsVars)
  BY NextRefines
<1> QED BY <1>1, <1>2, UndoInvariant, PTL DEF Spec, ImplementsBranchStore, Abstract!BSSpec
=============================================================================
