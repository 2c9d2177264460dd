---------------------------- MODULE FrotzProofs ----------------------------
(***************************************************************************)
(* What holds of the Z-machine's two memories for games of every size.     *)
(*                                                                         *)
(* Undo: for every memory, every exact code of differences and every       *)
(* number of slots, the chain of differences is unbroken (UndoOK is        *)
(* inductive), and so the blocks implement the stack of snapshots ZUndo.   *)
(*                                                                         *)
(* Routines: the array of words of FrotzStack is always whole, and is the  *)
(* stack of frames of ZStack.  The array is read here from its bottom: a   *)
(* frame is known by how many words lie up to its four, those included.    *)
(* The invariant says that there is a row of frames (Stack), whose first   *)
(* is the bottom: each has its four words, with the place of the one       *)
(* before among them, and room for its locals, and all words between are   *)
(* what games store.                                                       *)
(***************************************************************************)
EXTENDS FrotzUndo, FrotzStack, SetInduction, SequenceTheorems, FiniteSetTheorems, TLAPS

Blocks == [diff : Diffs, regs : Regs]
Snapshots == [mem : Memories, regs : Regs]

-----------------------------------------------------------------------------
(* The pieces of a list.                                                   *)

\* The first n elements, as save_undo and restore_undo keep.
LEMMA UptoKeeps ==
  ASSUME NEW S, NEW s \in Seq(S), NEW n \in 0 .. Len(s)
  PROVE  /\ Upto(s, n) \in Seq(S)
         /\ Len(Upto(s, n)) = n
         /\ \A i \in 1 .. n : Upto(s, n)[i] = s[i]
<1>1. \A i \in 1 .. n : s[i] \in S
  OBVIOUS
<1>2. /\ SubSeq(s, 1, n) \in Seq(S)
      /\ Len(SubSeq(s, 1, n)) = IF 1 <= n THEN n - 1 + 1 ELSE 0
      /\ \A i \in 1 .. n - 1 + 1 : SubSeq(s, 1, n)[i] = s[1 + i - 1]
  BY <1>1, SubSeqProperties
<1>3. QED
  BY <1>2 DEF Upto

\* All but the first n elements, which free_undo frees.
LEMMA BehindKeeps ==
  ASSUME NEW S, NEW s \in Seq(S), NEW n \in 0 .. Len(s)
  PROVE  /\ Behind(s, n) \in Seq(S)
         /\ Len(Behind(s, n)) = Len(s) - n
         /\ \A i \in 1 .. Len(s) - n : Behind(s, n)[i] = s[n + i]
<1>1. \A i \in n + 1 .. Len(s) : s[i] \in S
  OBVIOUS
<1>2. /\ SubSeq(s, n + 1, Len(s)) \in Seq(S)
      /\ Len(SubSeq(s, n + 1, Len(s))) = IF n + 1 <= Len(s) THEN Len(s) - (n + 1) + 1 ELSE 0
      /\ \A i \in 1 .. Len(s) - (n + 1) + 1 : SubSeq(s, n + 1, Len(s))[i] = s[(n + 1) + i - 1]
  BY <1>1, SubSeqProperties
<1>3. \A i \in 1 .. Len(s) - n : SubSeq(s, n + 1, Len(s))[i] = s[n + i]
  BY <1>2
<1>4. QED
  BY <1>2, <1>3 DEF Behind

\* Freeing twice is freeing more.
LEMMA BehindBehind ==
  ASSUME NEW S, NEW s \in Seq(S), NEW n \in 0 .. Len(s), NEW k \in 0 .. Len(s) - n
  PROVE  /\ Len(Behind(Behind(s, n), k)) = Len(s) - (n + k)
         /\ \A i \in 1 .. Len(s) - (n + k) : Behind(Behind(s, n), k)[i] = s[(n + k) + i]
         /\ Behind(Behind(s, n), k) \in Seq(S)
<1>1. /\ Behind(s, n) \in Seq(S) /\ Len(Behind(s, n)) = Len(s) - n
      /\ \A i \in 1 .. Len(s) - n : Behind(s, n)[i] = s[n + i]
  BY BehindKeeps
<1>2. k \in 0 .. Len(Behind(s, n))
  BY <1>1
<1>3. /\ Behind(Behind(s, n), k) \in Seq(S)
      /\ Len(Behind(Behind(s, n), k)) = Len(Behind(s, n)) - k
      /\ \A i \in 1 .. Len(Behind(s, n)) - k : Behind(Behind(s, n), k)[i] = Behind(s, n)[k + i]
  BY <1>1, <1>2, BehindKeeps
<1>4. ASSUME NEW i \in 1 .. Len(s) - (n + k)
      PROVE  Behind(Behind(s, n), k)[i] = s[(n + k) + i]
  <2>1. i \in 1 .. Len(Behind(s, n)) - k /\ k + i \in 1 .. Len(s) - n
    BY <1>1
  <2>2. Behind(Behind(s, n), k)[i] = Behind(s, n)[k + i]
    BY <1>3, <2>1
  <2>3. Behind(s, n)[k + i] = s[n + (k + i)]
    BY <1>1, <2>1
  <2>4. n + (k + i) = (n + k) + i
    BY <2>1
  <2>5. QED
    BY <2>2, <2>3, <2>4
<1>5. Len(Behind(s, n)) - k = Len(s) - (n + k)
  BY <1>1
<1>6. QED
  BY <1>3, <1>4, <1>5

-----------------------------------------------------------------------------
(* The blocks save_undo keeps.                                             *)

\* However many blocks save_undo frees, those it keeps are the last ones up to
\* curr_undo, and there is a slot for another.
LEMMA KeptBlocks ==
  ASSUME UndoOK, undo_slots # 0,
         NEW freed \in Nat, freed = 0 \/ freed < Len(Room)
  PROVE  \E d \in 0 .. curr_undo :
           /\ Behind(Room, freed) \in Seq(Blocks)
           /\ Len(Behind(Room, freed)) = curr_undo - d
           /\ \A i \in 1 .. curr_undo - d : Behind(Room, freed)[i] = undo[d + i]
           /\ curr_undo - d < undo_slots
<1> DEFINE kept == Upto(undo, curr_undo)
<1>1. /\ undo \in Seq(Blocks) /\ curr_undo \in 0 .. Len(undo)
      /\ undo_slots \in Nat /\ Len(undo) <= undo_slots
  BY UndoAssumption DEF UndoOK, TypeOK, Chain, Blocks
<1>2. /\ kept \in Seq(Blocks) /\ Len(kept) = curr_undo
      /\ \A i \in 1 .. curr_undo : kept[i] = undo[i]
  BY <1>1, UptoKeeps
<1>3. CASE curr_undo = undo_slots
  <2>1. Room = Behind(kept, 1)
    BY <1>2, <1>3 DEF Room
  <2>2. 1 \in 0 .. Len(kept)
    BY <1>1, <1>2, <1>3
  <2>3. Len(Room) = curr_undo - 1
    BY <1>2, <2>1, <2>2, BehindKeeps
  <2>4. freed \in 0 .. Len(kept) - 1
    BY <1>1, <1>2, <1>3, <2>3
  <2>5. /\ Len(Behind(Room, freed)) = Len(kept) - (1 + freed)
        /\ \A i \in 1 .. Len(kept) - (1 + freed) : Behind(Room, freed)[i] = kept[(1 + freed) + i]
        /\ Behind(Room, freed) \in Seq(Blocks)
    <3>1. /\ Len(Behind(Behind(kept, 1), freed)) = Len(kept) - (1 + freed)
          /\ \A i \in 1 .. Len(kept) - (1 + freed) :
               Behind(Behind(kept, 1), freed)[i] = kept[(1 + freed) + i]
          /\ Behind(Behind(kept, 1), freed) \in Seq(Blocks)
      BY <1>2, <2>2, <2>4, BehindBehind
    <3>2. QED
      BY <2>1, <3>1, Zenon
  <2>6. PICK d : d = 1 + freed /\ d \in 0 .. curr_undo
    BY <1>2, <2>4
  <2>7. ASSUME NEW i \in 1 .. curr_undo - d
        PROVE  Behind(Room, freed)[i] = undo[d + i]
    <3>1. d + i \in 1 .. curr_undo
      BY <1>1, <2>6
    <3>2. Behind(Room, freed)[i] = kept[d + i]
      BY <1>2, <2>5, <2>6
    <3>3. QED
      BY <1>2, <3>1, <3>2
  <2>8. curr_undo - d < undo_slots
    BY <1>1, <1>3, <2>6
  <2>9. QED
    BY <1>2, <2>5, <2>6, <2>7, <2>8
<1>4. CASE curr_undo # undo_slots
  <2>1. Room = kept
    BY <1>2, <1>4 DEF Room
  <2>2. freed \in 0 .. Len(kept)
    BY <1>2, <2>1
  <2>3. /\ Behind(Room, freed) \in Seq(Blocks)
        /\ Len(Behind(Room, freed)) = curr_undo - freed
        /\ \A i \in 1 .. curr_undo - freed : Behind(Room, freed)[i] = kept[freed + i]
    BY <1>2, <2>1, <2>2, BehindKeeps
  <2>4. ASSUME NEW i \in 1 .. curr_undo - freed
        PROVE  Behind(Room, freed)[i] = undo[freed + i]
    <3>1. freed + i \in 1 .. curr_undo
      BY <1>1, <2>2
    <3>2. QED
      BY <1>2, <2>3, <3>1
  <2>5. curr_undo - freed < undo_slots /\ freed \in 0 .. curr_undo
    BY <1>1, <1>2, <1>4, <2>2
  <2>6. QED
    BY <2>3, <2>4, <2>5
<1>5. QED
  BY <1>3, <1>4

\* What save_undo leaves: the last snapshots, and their blocks, and one more.
LEMMA Saved ==
  ASSUME UndoOK, NEW freed \in Nat, SaveUndo(freed)
  PROVE  \E d \in 0 .. curr_undo :
           LET k == curr_undo - d
           IN  /\ k < undo_slots
               /\ undo' \in Seq(Blocks) /\ Len(undo') = k + 1
               /\ \A i \in 1 .. k : undo'[i] = undo[d + i]
               /\ undo'[k + 1] = Block
               /\ saved' \in Seq(Snapshots) /\ Len(saved') = k + 1
               /\ \A i \in 1 .. k : saved'[i] = saved[d + i]
               /\ saved'[k + 1] = Snapshot
               /\ saved' = Append(SubSeq(saved, d + 1, Len(saved)), Snapshot)
<1>1. PICK d \in 0 .. curr_undo :
           /\ Behind(Room, freed) \in Seq(Blocks)
           /\ Len(Behind(Room, freed)) = curr_undo - d
           /\ \A i \in 1 .. curr_undo - d : Behind(Room, freed)[i] = undo[d + i]
           /\ curr_undo - d < undo_slots
  BY KeptBlocks DEF SaveUndo
<1>2. PICK k : k = curr_undo - d
  OBVIOUS
<1>3. /\ curr_undo \in Nat /\ saved \in Seq(Snapshots) /\ Len(saved) = curr_undo
      /\ zmp \in Memories /\ prev_zmp \in Memories /\ regs \in Regs
  BY DEF UndoOK, TypeOK, Chain, Snapshots
<1>4. k \in Nat /\ d \in 0 .. Len(saved) /\ Len(saved) - d = k
  BY <1>1, <1>2, <1>3
<1>5. Block \in Blocks /\ Snapshot \in Snapshots
  BY <1>3, UndoAssumption DEF Block, Snapshot, Blocks, Snapshots
<1>6. undo' = Append(Behind(Room, freed), Block)
  BY DEF SaveUndo
<1>7. /\ undo' \in Seq(Blocks) /\ Len(undo') = k + 1
      /\ \A i \in 1 .. k : undo'[i] = Behind(Room, freed)[i]
      /\ undo'[k + 1] = Block
  BY <1>1, <1>2, <1>5, <1>6, AppendProperties
<1>8. \A i \in 1 .. k : undo'[i] = undo[d + i]
  BY <1>1, <1>2, <1>7
<1>9. Len(saved) + 1 - Len(undo') = d
  BY <1>1, <1>3, <1>4, <1>7
<1>10. saved' = Append(Behind(saved, d), Snapshot)
  BY <1>9 DEF SaveUndo
<1>11. /\ Behind(saved, d) \in Seq(Snapshots) /\ Len(Behind(saved, d)) = k
       /\ \A i \in 1 .. k : Behind(saved, d)[i] = saved[d + i]
  BY <1>3, <1>4, BehindKeeps
<1>12. /\ saved' \in Seq(Snapshots) /\ Len(saved') = k + 1
       /\ \A i \in 1 .. k : saved'[i] = Behind(saved, d)[i]
       /\ saved'[k + 1] = Snapshot
  BY <1>5, <1>10, <1>11, AppendProperties
<1>13. \A i \in 1 .. k : saved'[i] = saved[d + i]
  BY <1>11, <1>12
<1>14. saved' = Append(SubSeq(saved, d + 1, Len(saved)), Snapshot)
  BY <1>10 DEF Behind
<1>15. k < undo_slots
  BY <1>1, <1>2
<1>16. QED
  BY <1>2, <1>7, <1>8, <1>12, <1>13, <1>14, <1>15

-----------------------------------------------------------------------------
(* The invariant.                                                          *)

\* The chain with one more block, and its oldest part gone, is a chain.
LEMMA SaveKeepsChain ==
  ASSUME UndoOK, NEW freed \in Nat, SaveUndo(freed)
  PROVE  UndoOK'
<1>1. PICK d \in 0 .. curr_undo :
           LET k == curr_undo - d
           IN  /\ k < undo_slots
               /\ undo' \in Seq(Blocks) /\ Len(undo') = k + 1
               /\ \A i \in 1 .. k : undo'[i] = undo[d + i]
               /\ undo'[k + 1] = Block
               /\ saved' \in Seq(Snapshots) /\ Len(saved') = k + 1
               /\ \A i \in 1 .. k : saved'[i] = saved[d + i]
               /\ saved'[k + 1] = Snapshot
  BY Saved
<1>2. PICK k : k = curr_undo - d
  OBVIOUS
<1>3. /\ k < undo_slots
      /\ undo' \in Seq(Blocks) /\ Len(undo') = k + 1
      /\ \A i \in 1 .. k : undo'[i] = undo[d + i]
      /\ undo'[k + 1] = Block
      /\ saved' \in Seq(Snapshots) /\ Len(saved') = k + 1
      /\ \A i \in 1 .. k : saved'[i] = saved[d + i]
      /\ saved'[k + 1] = Snapshot
  BY <1>1, <1>2
<1>4. /\ curr_undo \in Nat /\ undo_slots \in Nat /\ k \in Nat
      /\ zmp \in Memories /\ prev_zmp \in Memories /\ regs \in Regs
  BY <1>2, UndoAssumption DEF UndoOK, TypeOK
<1>5. /\ zmp' = zmp /\ regs' = regs /\ undo_slots' = undo_slots
      /\ prev_zmp' = zmp /\ success' = 1 /\ curr_undo' = k + 1
  BY <1>3 DEF SaveUndo
<1>6. TypeOK'
  BY <1>3, <1>4, <1>5 DEF UndoOK, TypeOK, Blocks, Snapshots
<1>7. Block.diff = MemDiff(zmp, prev_zmp) /\ Block.regs = regs
  BY DEF Block
<1>8. Snapshot.mem = zmp /\ Snapshot.regs = regs
  BY DEF Snapshot
<1>9. MemUndiff(MemDiff(zmp, prev_zmp), zmp) = prev_zmp
  BY <1>4, UndoAssumption
<1>10. ASSUME NEW i \in 1 .. curr_undo'
       PROVE  /\ undo'[i].regs = saved'[i].regs
              /\ Before(i)' \in Memories
              /\ i > 1 => Before(i)' = saved'[i - 1].mem
  <2>1. Before(i)' = MemUndiff(undo'[i].diff, saved'[i].mem)
    BY DEF Before
  <2>2. CASE i = k + 1
    <3>1. Before(i)' = prev_zmp /\ undo'[i].regs = saved'[i].regs
      BY <1>3, <1>7, <1>8, <1>9, <2>1, <2>2
    <3>2. ASSUME i > 1 PROVE prev_zmp = saved'[i - 1].mem
      <4>1. k \in 1 .. k /\ i - 1 = k /\ d + k = curr_undo /\ curr_undo > 0
        BY <1>2, <1>4, <2>2, <3>2
      <4>2. saved'[k] = saved[curr_undo]
        BY <1>3, <4>1
      <4>3. prev_zmp = saved[curr_undo].mem
        BY <4>1 DEF UndoOK, Chain
      <4>4. QED
        BY <4>1, <4>2, <4>3
    <3>3. QED
      BY <1>4, <3>1, <3>2
  <2>3. CASE i \in 1 .. k
    <3>1. undo'[i] = undo[d + i] /\ saved'[i] = saved[d + i]
      BY <1>3, <2>3
    <3>2. d + i \in 1 .. curr_undo
      BY <1>2, <1>4, <2>3
    <3>3. Before(i)' = Before(d + i)
      BY <2>1, <3>1 DEF Before
    <3>4. /\ undo[d + i].regs = saved[d + i].regs
          /\ Before(d + i) \in Memories
          /\ d + i > 1 => Before(d + i) = saved[(d + i) - 1].mem
      BY <3>2 DEF UndoOK, Chain
    <3>5. ASSUME i > 1 PROVE Before(d + i) = saved'[i - 1].mem
      <4>1. i - 1 \in 1 .. k /\ d + (i - 1) = (d + i) - 1 /\ d + i > 1
        BY <1>4, <2>3, <3>5
      <4>2. saved'[i - 1] = saved[d + (i - 1)]
        BY <1>3, <4>1
      <4>3. QED
        BY <3>4, <4>1, <4>2
    <3>6. QED
      BY <3>1, <3>3, <3>4, <3>5
  <2>4. QED
    BY <1>4, <1>5, <2>2, <2>3
<1>11. prev_zmp' = saved'[curr_undo'].mem
  BY <1>3, <1>5, <1>8
<1>12. Len(saved') = curr_undo' /\ Len(undo') <= undo_slots'
  BY <1>3, <1>4, <1>5
<1>13. Chain'
  BY <1>10, <1>11, <1>12 DEF Chain
<1>14. QED
  BY <1>6, <1>13 DEF UndoOK

\* Undoing one difference in place gives the memory of the snapshot before.
LEMMA RestoreKeepsChain ==
  ASSUME UndoOK, RestoreUndo
  PROVE  UndoOK'
<1>1. /\ curr_undo \in 0 .. Len(undo) /\ curr_undo # 0 /\ Len(undo) \in Nat
      /\ undo \in Seq(Blocks) /\ saved \in Seq(Snapshots) /\ Len(saved) = curr_undo
      /\ zmp \in Memories /\ prev_zmp \in Memories
  BY DEF RestoreUndo, UndoOK, TypeOK, Chain, Blocks, Snapshots
<1>2. /\ curr_undo \in 1 .. curr_undo /\ curr_undo \in 1 .. Len(undo)
      /\ curr_undo - 1 \in 0 .. Len(undo) /\ curr_undo - 1 \in 0 .. Len(saved)
      /\ curr_undo \in Nat /\ curr_undo > 0
  BY <1>1
<1>3. /\ zmp' = RestartHeader(prev_zmp) /\ regs' = undo[curr_undo].regs
      /\ prev_zmp' = MemUndiff(undo[curr_undo].diff, prev_zmp)
      /\ curr_undo' = curr_undo - 1 /\ success' = 2
      /\ saved' = Upto(saved, curr_undo - 1)
      /\ undo' = undo /\ undo_slots' = undo_slots
  BY <1>1 DEF RestoreUndo, Unrolled
<1>4. /\ saved' \in Seq(Snapshots) /\ Len(saved') = curr_undo - 1
      /\ \A i \in 1 .. curr_undo - 1 : saved'[i] = saved[i]
  BY <1>1, <1>2, <1>3, UptoKeeps
<1>5. prev_zmp = saved[curr_undo].mem
  BY <1>2 DEF UndoOK, Chain
<1>6. prev_zmp' = Before(curr_undo)
  BY <1>3, <1>5 DEF Before
<1>7. /\ Before(curr_undo) \in Memories
      /\ curr_undo > 1 => Before(curr_undo) = saved[curr_undo - 1].mem
  BY <1>2 DEF UndoOK, Chain
<1>8. zmp' \in Memories
  <2>1. zmp[Flags] \in Bytes
    BY <1>1, UndoAssumption DEF Memories
  <2>2. QED
    BY <1>1, <1>3, <2>1 DEF RestartHeader, Memories
<1>9. undo[curr_undo] \in Blocks
  BY <1>1, <1>2
<1>10. regs' \in Regs
  BY <1>3, <1>9 DEF Blocks
<1>11. TypeOK'
  <2>1. prev_zmp' \in Memories /\ curr_undo' \in 0 .. Len(undo')
    BY <1>2, <1>3, <1>6, <1>7
  <2>2. undo_slots' \in {UndoSlots, 0} /\ success' \in {-1, 0, 1, 2}
    BY <1>3 DEF UndoOK, TypeOK
  <2>3. undo' \in Seq(Blocks)
    BY <1>1, <1>3
  <2>4. QED
    BY <1>4, <1>8, <1>10, <2>1, <2>2, <2>3 DEF TypeOK, Blocks, Snapshots
<1>12. curr_undo' > 0 => prev_zmp' = saved'[curr_undo'].mem
  <2>1. SUFFICES ASSUME curr_undo - 1 > 0
                 PROVE  Before(curr_undo) = saved'[curr_undo - 1].mem
    BY <1>3, <1>6
  <2>2. curr_undo > 1 /\ curr_undo - 1 \in 1 .. curr_undo - 1
    BY <1>2, <2>1
  <2>3. QED
    BY <1>4, <1>7, <2>2
<1>13. ASSUME NEW i \in 1 .. curr_undo'
       PROVE  /\ undo'[i].regs = saved'[i].regs
              /\ Before(i)' \in Memories
              /\ i > 1 => Before(i)' = saved'[i - 1].mem
  <2>1. i \in 1 .. curr_undo - 1 /\ i \in 1 .. curr_undo
    BY <1>2, <1>3
  <2>2. saved'[i] = saved[i] /\ undo'[i] = undo[i]
    BY <1>3, <1>4, <2>1
  <2>3. Before(i)' = Before(i)
    BY <2>2 DEF Before
  <2>4. /\ undo[i].regs = saved[i].regs
        /\ Before(i) \in Memories
        /\ i > 1 => Before(i) = saved[i - 1].mem
    BY <2>1 DEF UndoOK, Chain
  <2>5. i > 1 => saved'[i - 1] = saved[i - 1]
    BY <1>2, <1>4, <2>1
  <2>6. QED
    BY <2>2, <2>3, <2>4, <2>5
<1>14. Len(saved') = curr_undo' /\ Len(undo') <= undo_slots'
  BY <1>3, <1>4 DEF UndoOK, Chain
<1>15. Chain'
  BY <1>12, <1>13, <1>14 DEF Chain
<1>16. QED
  BY <1>11, <1>15 DEF UndoOK

\* Every other step leaves the chain alone.
LEMMA OtherStepsKeepChain ==
  ASSUME UndoOK,
         zmp' \in Memories, regs' \in Regs, success' \in {-1, 0, 1, 2},
         UNCHANGED <<prev_zmp, undo, curr_undo, undo_slots, saved>>
  PROVE  UndoOK'
<1>1. TypeOK'
  BY DEF UndoOK, TypeOK
<1>2. Chain'
  BY DEF UndoOK, Chain, Before
<1>3. QED
  BY <1>1, <1>2 DEF UndoOK

\* UndoOK is inductive.
LEMMA NextKeepsUndoOK ==
  ASSUME UndoOK, [Next]_vars
  PROVE  UndoOK'
<1>1. /\ zmp \in [Cells -> Bytes] /\ regs \in Regs /\ success \in {-1, 0, 1, 2}
      /\ undo_slots \in Nat
  BY UndoAssumption DEF UndoOK, TypeOK, Memories
<1>2. ASSUME NEW addr \in Touched, NEW value \in Bytes, Storeb(addr, value)
      PROVE  UndoOK'
  <2>1. zmp' \in Memories
    BY <1>1, <1>2, UndoAssumption DEF Storeb, Memories
  <2>2. QED
    BY <1>1, <1>2, <2>1, OtherStepsKeepChain DEF Storeb
<1>3. ASSUME NEW m \in Stories, Restart(m)
      PROVE  UndoOK'
  <2>1. m \in [Cells -> Bytes] /\ zmp[Flags] \in Bytes
    BY <1>1, UndoAssumption DEF Memories
  <2>2. zmp' \in Memories
    BY <1>3, <2>1 DEF Restart, RestartHeader, Memories
  <2>3. QED
    BY <1>1, <1>3, <2>2, OtherStepsKeepChain DEF Restart
<1>4. ASSUME NEW freed \in 0 .. UndoSlots, SaveUndo(freed)
      PROVE  UndoOK'
  <2>1. freed \in Nat
    BY UndoAssumption
  <2>2. QED
    BY <1>4, <2>1, SaveKeepsChain
<1>5. CASE SaveUndoFails
  <2>1. TypeOK'
    BY <1>1, <1>5 DEF SaveUndoFails, UndoOK, TypeOK, Memories
  <2>2. Chain'
    BY <1>1, <1>5 DEF SaveUndoFails, Chain
  <2>3. QED
    BY <2>1, <2>2 DEF UndoOK
<1>6. CASE RestoreUndo
  BY <1>6, RestoreKeepsChain
<1>7. CASE NoUndo
  BY <1>1, <1>7, OtherStepsKeepChain DEF NoUndo, Memories
<1>8. CASE NoSave
  BY <1>1, <1>8, OtherStepsKeepChain DEF NoSave, Memories
<1>9. CASE UNCHANGED vars
  BY <1>1, <1>9, OtherStepsKeepChain DEF vars, Memories
<1>10. QED
  BY <1>2, <1>3, <1>4, <1>5, <1>6, <1>7, <1>8, <1>9 DEF Next

\* At the start there is nothing to undo and nothing in the chain.
LEMMA InitIsUndoOK == Init => UndoOK
<1>1. SUFFICES ASSUME Init PROVE UndoOK
  OBVIOUS
<1>2. /\ undo = <<>> /\ saved = <<>> /\ curr_undo = 0
      /\ undo_slots \in {UndoSlots, 0} /\ UndoSlots \in Nat
  BY <1>1, UndoAssumption DEF Init
<1>3. TypeOK
  BY <1>1, <1>2, UndoAssumption DEF Init, TypeOK
<1>4. Chain
  BY <1>2 DEF Chain
<1>5. QED
  BY <1>3, <1>4 DEF UndoOK

-----------------------------------------------------------------------------
(* The theorems.                                                           *)

\* Whatever is saved, undone, restarted and freed, the differences lead from
\* prev_zmp through all the snapshots that can still be undone.
THEOREM UndoOKInvariant == Spec => []UndoOK
<1>1. UndoOK /\ [Next]_vars => UndoOK'
  BY NextKeepsUndoOK
<1>2. QED
  BY <1>1, InitIsUndoOK, PTL DEF Spec

\* One step of the interpreter is a step of the stack of snapshots.
LEMMA StepIsZStep ==
  ASSUME UndoOK, [Next]_vars
  PROVE  [Z!Next]_(Z!vars)
<1>1. /\ zmp \in [Cells -> Bytes] /\ regs \in Regs /\ undo_slots \in Nat
      /\ Len(saved) = curr_undo /\ saved \in Seq(Snapshots) /\ curr_undo \in Nat
  BY UndoAssumption DEF UndoOK, TypeOK, Chain, Memories, Snapshots
<1>2. ASSUME NEW addr \in Touched, NEW value \in Bytes, Storeb(addr, value)
      PROVE  Z!Play
  <2>1. zmp' \in [Cells -> Bytes]
    BY <1>1, <1>2, UndoAssumption DEF Storeb
  <2>2. QED
    BY <1>2, <2>1 DEF Storeb, Z!Play, Z!Memories
<1>3. ASSUME NEW m \in Stories, Restart(m)
      PROVE  Z!Play
  <2>1. m \in [Cells -> Bytes] /\ zmp[Flags] \in Bytes
    BY <1>1, UndoAssumption DEF Memories
  <2>2. zmp' \in [Cells -> Bytes]
    BY <1>3, <2>1 DEF Restart, RestartHeader
  <2>3. QED
    BY <1>3, <2>2 DEF Restart, Z!Play, Z!Memories
<1>4. ASSUME NEW freed \in 0 .. UndoSlots, SaveUndo(freed)
      PROVE  Z!Save
  <2>1. freed \in Nat
    BY UndoAssumption
  <2>2. PICK d \in 0 .. curr_undo : saved' = Append(SubSeq(saved, d + 1, Len(saved)), Snapshot)
    BY <1>4, <2>1, Saved
  <2>3. d \in 0 .. Len(saved)
    BY <1>1
  <2>4. saved' = Append(SubSeq(saved, d + 1, Len(saved)), [mem |-> zmp, regs |-> regs])
    BY <2>2 DEF Snapshot
  <2>5. QED
    BY <1>4, <2>3, <2>4 DEF SaveUndo, Z!Save
<1>5. CASE SaveUndoFails
  BY <1>5 DEF SaveUndoFails, Z!Fail, Z!Next
<1>6. ASSUME RestoreUndo
      PROVE  Z!Restore
  <2>1. curr_undo # 0 /\ curr_undo > 0 /\ curr_undo \in 1 .. curr_undo
    BY <1>1, <1>6 DEF RestoreUndo
  <2>2. saved # <<>>
    BY <1>1, <2>1
  <2>3. prev_zmp = saved[Len(saved)].mem
    BY <1>1, <2>1 DEF UndoOK, Chain
  <2>4. undo[curr_undo].regs = saved[Len(saved)].regs
    BY <1>1, <2>1 DEF UndoOK, Chain
  <2>5. zmp' = [saved[Len(saved)].mem EXCEPT ![Flags] = zmp[Flags]]
    BY <1>6, <2>3 DEF RestoreUndo, RestartHeader
  <2>6. saved' = SubSeq(saved, 1, Len(saved) - 1)
    BY <1>6 DEF RestoreUndo, Upto
  <2>7. QED
    BY <1>6, <2>2, <2>4, <2>5, <2>6 DEF RestoreUndo, Z!Restore
<1>7. CASE NoUndo
  <2>1. saved = <<>>
    <3>1. curr_undo = 0
      BY <1>1, <1>7 DEF NoUndo, UndoOK, TypeOK, Chain
    <3>2. QED
      BY <1>1, <3>1, EmptySeq
  <2>2. Z!Nothing
    BY <1>7, <2>1 DEF NoUndo, Z!Nothing
  <2>3. QED
    BY <2>2 DEF Z!Next
<1>8. CASE NoSave
  <2>1. saved = <<>>
    <3>1. curr_undo = 0
      BY <1>1, <1>8 DEF NoSave, UndoOK, TypeOK, Chain
    <3>2. QED
      BY <1>1, <3>1, EmptySeq
  <2>2. Z!Nothing
    BY <1>8, <2>1 DEF NoSave, Z!Nothing
  <2>3. QED
    BY <2>2 DEF Z!Next
<1>9. CASE UNCHANGED vars
  BY <1>9 DEF vars, Z!vars
<1>10. QED
  BY <1>2, <1>3, <1>4, <1>5, <1>6, <1>7, <1>8, <1>9 DEF Next, Z!Next

\* The blocks of differences are the stack of snapshots that the Z-machine
\* promises: an undo brings back the game that was saved, and not its flags.
THEOREM ImplementsZUndo == Spec => IsUndo
<1>1. Init => Z!Init
  BY UndoAssumption DEF Init, Z!Init, Z!Memories, Memories
<1>2. UndoOK /\ [Next]_vars => [Z!Next]_(Z!vars)
  BY StepIsZStep
<1>3. QED
  BY <1>1, <1>2, UndoOKInvariant, PTL DEF Spec, IsUndo, Z!Spec

-----------------------------------------------------------------------------
(* Routines and the stack.                                                 *)

Held == Values \cup 0 .. StackSize \div 4
Words == {w \in Nat : w < 65536}
LowWords == 0 .. 511
HighWords == 0 .. 1024
Codes == {p \in Nat : p <= 524288}       \* program counters
KindWords == {w \in Nat : w < 12288}     \* the words with kind and counts of a frame

KindIn(s, n) == s[n] \div 4096
LocalsIn(s, n) == IF n = 0 THEN 0 ELSE (s[n] \div 256) % 16
ReturnIn(s, n) == 512 * s[n - 3] + s[n - 2]
TopIn(s, d, k) == IF k = Len(d) THEN Len(s) ELSE d[k + 1] - 4

\* The four words of a frame above one at g.
FrameIn(s, n, g) ==
  /\ s[n] \in KindWords
  /\ s[n - 1] = StackSize - g - 1
  /\ s[n - 2] \in LowWords /\ s[n - 3] \in HighWords
  /\ ReturnIn(s, n) \in Codes
  /\ KindIn(s, n) = 0 =>
       /\ ReturnIn(s, n) \in DOMAIN Variable
       /\ Variable[ReturnIn(s, n)] \in 1 .. 15 => Variable[ReturnIn(s, n)] <= LocalsIn(s, g)

Frames(s, d) == \A k \in 2 .. Len(d) : FrameIn(s, d[k], d[k - 1])
Apart(s, d) ==
  /\ \A k \in 1 .. Len(d) : d[k] >= 4 * (k - 1)
  /\ \A k \in 1 .. Len(d) : \A j \in 1 .. k - 1 : d[j] + LocalsIn(s, d[j]) + 4 <= d[k]
  /\ d[Len(d)] + LocalsIn(s, d[Len(d)]) <= Len(s)
Plain(s, d) == \A k \in 1 .. Len(d) : \A i \in d[k] + 1 .. TopIn(s, d, k) : s[i] \in Held

Stack(s, d) ==
  /\ s \in Seq(Words) /\ Len(s) <= StackSize
  /\ d \in Seq(Nat) /\ Len(d) >= 1 /\ d[1] = 0
  /\ Frames(s, d) /\ Apart(s, d) /\ Plain(s, d)

LoopsIn(s, d, k) == Cardinality({i \in 2 .. k : KindIn(s, d[i]) = 2})

DecOf(s, d, h, k, locals, evals) ==
  [ret |-> IF k = 1 THEN 0 ELSE ReturnIn(s, d[k]),
   kind |-> IF k = 1 THEN 1 ELSE KindIn(s, d[k]),
   argc |-> IF k = 1 THEN 0 ELSE s[d[k]] % 256,
   locals |-> locals, evals |-> evals,
   waiting |-> IF k > 1 /\ KindIn(s, d[k]) = 2 THEN h[LoopsIn(s, d, k)] ELSE <<>>]
LocalsOf(s, d, k) == SubSeq(s, d[k] + 1, d[k] + LocalsIn(s, d[k]))
EvalsOf(s, d, k) == SubSeq(s, d[k] + LocalsIn(s, d[k]) + 1, TopIn(s, d, k))
DecIn(s, d, h, k) == DecOf(s, d, h, k, LocalsOf(s, d, k), EvalsOf(s, d, k))
DecodedIn(s, d, h) == [k \in 1 .. Len(d) |-> DecIn(s, d, h, k)]

-----------------------------------------------------------------------------
(* Words.                                                                  *)

\* The word with the kind of a call and the counts of its arguments and locals.
CountsWord(a, b, kd) == a + 256 * b + 4096 * kd
HasParts(w, a, b, kd) ==
  w \in KindWords /\ w \div 4096 = kd /\ (w \div 256) % 16 = b /\ w % 256 = a

\* What a frame says of its kind, locals and arguments is what was packed.
LEMMA PackedParts ==
  ASSUME NEW a \in 0 .. 7, NEW b \in 0 .. 15, NEW kd \in 0 .. 2
  PROVE  HasParts(CountsWord(a, b, kd), a, b, kd)
<1>1. PICK w : w = a + 256 * b + 4096 * kd
  OBVIOUS
<1>2. w \in KindWords /\ w \div 4096 = kd /\ (w \div 256) % 16 = b /\ w % 256 = a
  BY <1>1, SMT DEF KindWords
<1> QED BY <1>1, <1>2, SMT DEF HasParts, CountsWord

\* The two words of an address in code are that address.
LEMMA AddressParts ==
  ASSUME NEW p \in Codes
  PROVE  /\ p \div 512 \in HighWords /\ p % 512 \in LowWords
         /\ 512 * (p \div 512) + (p % 512) = p
<1>1. p \in Nat /\ p <= 524288
  BY SMT DEF Codes
<1>2. p \div 512 \in HighWords
  <2>1. p \div 512 \in Int /\ p \div 512 <= 1024 /\ p \div 512 >= 0
    BY <1>1, SMT
  <2> QED BY <2>1, SMT DEF HighWords
<1>3. p % 512 \in LowWords
  BY <1>1, SMT DEF LowWords
<1>4. 512 * (p \div 512) + (p % 512) = p
  BY <1>1, SMT
<1> QED BY <1>2, <1>3, <1>4, SMT

\* The parts of a word are small.
LEMMA PartsAreSmall ==
  ASSUME NEW x \in KindWords
  PROVE  x \div 4096 \in 0 .. 2 /\ (x \div 256) % 16 \in 0 .. 15 /\ x % 256 \in 0 .. 255
<1>1. x \in Nat /\ x < 12288
  BY SMT DEF KindWords
<1>2. x \div 4096 \in 0 .. 2
  BY <1>1, SMT
<1>3. (x \div 256) % 16 \in 0 .. 15
  BY <1>1, SMT
<1>4. x % 256 \in 0 .. 255
  BY <1>1, SMT
<1> QED BY <1>2, <1>3, <1>4, SMT

\* What games hold are words.
LEMMA HeldAreWords == Held \subseteq Words /\ StackSize \in Nat /\ StackSize <= 65536
<1>1. StackSize \in Nat /\ StackSize <= 65536 /\ Values \subseteq Words
  BY StackAssumption, SMT DEF Words
<1>2. PICK q \in Nat : q = StackSize \div 4 /\ q <= 20000
  BY <1>1, SMT
<1>3. 0 .. q \subseteq Words
  BY <1>2, SMT DEF Words
<1>4. Held = Values \cup 0 .. q
  BY <1>2, SMT DEF Held
<1> QED BY <1>1, <1>3, <1>4, SMT

\* A frame that ends at b leaves the locals of one at a below its four words.
LEMMA Between ==
  ASSUME NEW a \in Nat, NEW b \in Nat, NEW l \in Nat, NEW m \in Nat, a + l + 4 <= b, b <= m
  PROVE  b - 4 \in Nat /\ b - 4 <= m /\ a <= m /\ a + l <= b - 4
OBVIOUS

-----------------------------------------------------------------------------
(* Rows of frames.                                                         *)

\* Where the frames of a row are.
LEMMA Places ==
  ASSUME NEW s, NEW d, Stack(s, d), NEW k \in 1 .. Len(d)
  PROVE  /\ d[k] \in Nat /\ LocalsIn(s, d[k]) \in 0 .. 15
         /\ k = 1 => d[k] = 0
         /\ k > 1 => d[k] >= 4 /\ s[d[k]] \in KindWords
         /\ d[k] <= Len(s) /\ d[k] + LocalsIn(s, d[k]) <= TopIn(s, d, k)
         /\ TopIn(s, d, k) \in Nat /\ TopIn(s, d, k) <= Len(s)
         /\ Len(s) \in Nat /\ Len(s) <= StackSize /\ StackSize \in Nat
<1>1. /\ Len(s) \in Nat /\ Len(s) <= StackSize /\ StackSize \in Nat
      /\ Len(d) \in Nat /\ \A j \in 1 .. Len(d) : d[j] \in Nat
  BY HeldAreWords DEF Stack
<1>2. \A j \in 2 .. Len(d) : d[j] >= 4 /\ s[d[j]] \in KindWords
  <2> TAKE j \in 2 .. Len(d)
  <2>1. j \in 1 .. Len(d) /\ j \in Nat /\ j >= 2
    BY <1>1
  <2>2. FrameIn(s, d[j], d[j - 1]) /\ d[j] >= 4 * (j - 1)
    BY <2>1, Zenon DEF Stack, Frames, Apart
  <2>3. s[d[j]] \in KindWords
    BY <2>2, Zenon DEF FrameIn
  <2>4. PICK a \in Nat : a = d[j]
    BY <1>1, <2>1
  <2>5. a >= 4 * (j - 1)
    BY <2>2, <2>4, Zenon
  <2>6. a >= 4
    BY <2>1, <2>5
  <2> QED BY <2>3, <2>4, <2>6, Zenon
<1>3. \A j \in 1 .. Len(d) : LocalsIn(s, d[j]) \in 0 .. 15
  <2> TAKE j \in 1 .. Len(d)
  <2>1. CASE j = 1
    BY <2>1 DEF Stack, LocalsIn
  <2>2. CASE j # 1
    <3>1. s[d[j]] \in KindWords /\ d[j] # 0
      BY <1>1, <1>2, <2>2
    <3>2. (s[d[j]] \div 256) % 16 \in 0 .. 15
      BY <3>1, PartsAreSmall
    <3> QED BY <3>1, <3>2 DEF LocalsIn
  <2> QED BY <2>1, <2>2
<1>4. \A j \in 1 .. Len(d) : \A i \in 1 .. j - 1 : d[i] + LocalsIn(s, d[i]) + 4 <= d[j]
  BY DEF Stack, Apart
<1>5. d[Len(d)] + LocalsIn(s, d[Len(d)]) <= Len(s) /\ Len(d) \in 1 .. Len(d)
  BY <1>1 DEF Stack, Apart
<1>6. k # Len(d) => /\ d[k + 1] \in Nat /\ d[k + 1] <= Len(s)
                    /\ d[k] + LocalsIn(s, d[k]) + 4 <= d[k + 1]
  <2> SUFFICES ASSUME k # Len(d)
               PROVE  /\ d[k + 1] \in Nat /\ d[k + 1] <= Len(s)
                      /\ d[k] + LocalsIn(s, d[k]) + 4 <= d[k + 1]
    OBVIOUS
  <2>1. k + 1 \in 1 .. Len(d) /\ k \in 1 .. (k + 1) - 1
    BY <1>1
  <2>2. d[k + 1] \in Nat /\ d[k] + LocalsIn(s, d[k]) + 4 <= d[k + 1]
    BY <1>1, <1>4, <2>1
  <2>3. d[k + 1] <= d[Len(d)]
    <3>1. CASE k + 1 = Len(d)
      BY <3>1, <2>2
    <3>2. CASE k + 1 # Len(d)
      <4>1. k + 1 \in 1 .. Len(d) - 1
        BY <1>1, <2>1, <3>2
      <4>2. d[k + 1] + LocalsIn(s, d[k + 1]) + 4 <= d[Len(d)]
        BY <1>4, <1>5, <4>1
      <4>3. PICK x \in Nat, y \in Nat, l \in 0 .. 15 :
              x = d[k + 1] /\ y = d[Len(d)] /\ l = LocalsIn(s, d[k + 1])
        BY <1>1, <1>3, <1>5, <2>1
      <4>4. x + l + 4 <= y
        BY <4>2, <4>3, Zenon
      <4>5. x <= y
        BY <4>4
      <4> QED BY <4>3, <4>5, Zenon
    <3> QED BY <3>1, <3>2
  <2>4. PICK x \in Nat, y \in Nat, l \in 0 .. 15 :
          x = d[k + 1] /\ y = d[Len(d)] /\ l = LocalsIn(s, d[Len(d)])
    BY <1>1, <1>3, <1>5, <2>2
  <2>5. x <= y /\ y + l <= Len(s)
    BY <1>5, <2>3, <2>4, Zenon
  <2>6. x <= Len(s)
    BY <1>1, <2>5
  <2> QED BY <2>2, <2>4, <2>6
<1>7. /\ d[k] \in Nat /\ LocalsIn(s, d[k]) \in 0 .. 15
      /\ k > 1 => d[k] >= 4 /\ s[d[k]] \in KindWords
  BY <1>1, <1>2, <1>3
<1>7a. \A x \in 0 .. 15 : x \in Nat
  OBVIOUS
<1> PICK a \in Nat, l \in Nat, m \in Nat : a = d[k] /\ l = LocalsIn(s, d[k]) /\ m = Len(s)
  BY <1>1, <1>7, <1>7a, Zenon
<1>8. /\ d[k] <= Len(s) /\ d[k] + LocalsIn(s, d[k]) <= TopIn(s, d, k)
      /\ TopIn(s, d, k) \in Nat /\ TopIn(s, d, k) <= Len(s)
  <2>1. CASE k = Len(d)
    BY <1>1, <1>5, <1>7, <2>1 DEF TopIn
  <2>2. CASE k # Len(d)
    <3>1. PICK b \in Nat : b = d[k + 1] /\ b <= m /\ a + l + 4 <= b
      BY <1>6, <2>2
    <3>2. TopIn(s, d, k) = b - 4
      BY <2>2, <3>1 DEF TopIn
    <3>3. b <= m /\ a + l + 4 <= b
      BY <3>1, Zenon
    <3>4. b - 4 \in Nat /\ b - 4 <= m /\ a <= m /\ a + l <= b - 4
      BY <3>3, Between, Zenon
    <3> QED BY <3>2, <3>4, Zenon
  <2> QED BY <2>1, <2>2
<1> QED BY <1>1, <1>7, <1>8 DEF Stack

\* Frames lie one above the other.
LEMMA OneAbove ==
  ASSUME NEW s, NEW d, Stack(s, d), NEW j \in 1 .. Len(d), NEW k \in 1 .. j - 1
  PROVE  /\ d[k] + LocalsIn(s, d[k]) + 4 <= d[j] /\ d[k] < d[j]
         /\ TopIn(s, d, k) = d[k + 1] - 4 /\ TopIn(s, d, k) < d[j]
<1>1. Len(d) \in Nat /\ k \in 1 .. Len(d) /\ k + 1 \in 1 .. Len(d) /\ k # Len(d)
  BY DEF Stack
<1>2. /\ d[k] \in Nat /\ d[j] \in Nat /\ d[k + 1] \in Nat
      /\ LocalsIn(s, d[k]) \in 0 .. 15 /\ LocalsIn(s, d[k + 1]) \in 0 .. 15
  BY <1>1, Places
<1>3. d[k] + LocalsIn(s, d[k]) + 4 <= d[j]
  BY <1>1 DEF Stack, Apart
<1>4. k + 1 # j => d[k + 1] + LocalsIn(s, d[k + 1]) + 4 <= d[j]
  <2> SUFFICES ASSUME k + 1 # j PROVE d[k + 1] + LocalsIn(s, d[k + 1]) + 4 <= d[j]
    OBVIOUS
  <2>1. k + 1 \in 1 .. j - 1
    BY <1>1
  <2> QED BY <1>1, <2>1 DEF Stack, Apart
<1>5. TopIn(s, d, k) = d[k + 1] - 4
  BY <1>1 DEF TopIn
<1>6. PICK a \in Nat, b \in Nat, c \in Nat, l \in 0 .. 15, m \in 0 .. 15 :
        /\ a = d[k] /\ b = d[j] /\ c = d[k + 1]
        /\ l = LocalsIn(s, d[k]) /\ m = LocalsIn(s, d[k + 1])
  BY <1>2
<1>7. a + l + 4 <= b /\ (k + 1 # j => c + m + 4 <= b) /\ (k + 1 = j => c = b)
  BY <1>3, <1>4, <1>6, Zenon
<1>8. a < b /\ c - 4 < b
  BY <1>7
<1> QED BY <1>3, <1>5, <1>6, <1>8, Zenon

\* Words that are the same up to m.
SameTo(s, t, m) == m \in Nat /\ \A i \in 1 .. m : t[i] = s[i]

\* Words that are the same up to some place have the same frames up to there.
LEMMA SameFrames ==
  ASSUME NEW s, NEW t, NEW m, SameTo(s, t, m), NEW n \in Nat, n <= m
  PROVE  /\ LocalsIn(t, n) = LocalsIn(s, n)
         /\ n > 0 => KindIn(t, n) = KindIn(s, n) /\ t[n] = s[n]
         /\ n >= 4 => /\ ReturnIn(t, n) = ReturnIn(s, n)
                      /\ \A g \in Nat : g <= m /\ FrameIn(s, n, g) => FrameIn(t, n, g)
<1> USE DEF SameTo
<1>1. n > 0 => t[n] = s[n]
  OBVIOUS
<1>2. n > 0 => LocalsIn(t, n) = LocalsIn(s, n) /\ KindIn(t, n) = KindIn(s, n)
  BY <1>1 DEF LocalsIn, KindIn
<1>3. n >= 4 => t[n - 1] = s[n - 1] /\ t[n - 2] = s[n - 2] /\ t[n - 3] = s[n - 3]
  <2> SUFFICES ASSUME n >= 4 PROVE t[n - 1] = s[n - 1] /\ t[n - 2] = s[n - 2] /\ t[n - 3] = s[n - 3]
    OBVIOUS
  <2>1. n - 1 \in 1 .. m /\ n - 2 \in 1 .. m /\ n - 3 \in 1 .. m
    OBVIOUS
  <2> QED BY <2>1
<1>4. n >= 4 => ReturnIn(t, n) = ReturnIn(s, n)
  BY <1>3, Zenon DEF ReturnIn
<1>5. ASSUME n >= 4, NEW g \in Nat, g <= m, FrameIn(s, n, g) PROVE FrameIn(t, n, g)
  <2>1. LocalsIn(t, g) = LocalsIn(s, g)
    <3>1. CASE g = 0
      BY <3>1 DEF LocalsIn
    <3>2. CASE g # 0
      <4>1. t[g] = s[g]
        BY <1>5, <3>2
      <4> QED BY <3>2, <4>1 DEF LocalsIn
    <3> QED BY <3>1, <3>2
  <2>2. n > 0
    BY <1>5
  <2> QED BY <1>1, <1>2, <1>3, <1>4, <1>5, <2>1, <2>2, Zenon DEF FrameIn
<1>6. LocalsIn(t, n) = LocalsIn(s, n)
  <2>1. CASE n = 0
    BY <2>1 DEF LocalsIn
  <2>2. CASE n # 0
    BY <1>2, <2>2
  <2> QED BY <2>1, <2>2
<1> QED BY <1>1, <1>2, <1>4, <1>5, <1>6

\* The frames up to one of them stay a row when the words above it change, as
\* long as it keeps its locals.
LEMMA RowIsKept ==
  ASSUME NEW s, NEW d, Stack(s, d), NEW j \in 1 .. Len(d),
         NEW t \in Seq(Words), Len(t) <= StackSize, Len(t) >= d[j] + LocalsIn(s, d[j]),
         \A i \in 1 .. d[j] : t[i] = s[i],
         \A i \in d[j] + 1 .. Len(t) : t[i] \in Held
  PROVE  Stack(t, SubSeq(d, 1, j))
<1>1. PICK e : e = SubSeq(d, 1, j)
  OBVIOUS
<1>2. /\ e \in Seq(Nat) /\ Len(e) = j /\ \A k \in 1 .. j : e[k] = d[k]
      /\ Len(d) \in Nat /\ \A k \in 1 .. j : k \in 1 .. Len(d)
      /\ j \in 1 .. j /\ 1 \in 1 .. j
  BY <1>1, SMTT(20) DEF Stack
<1>3. /\ d[j] \in Nat
      /\ \A k \in 1 .. j : d[k] \in Nat /\ d[k] <= d[j]
      /\ \A k \in 2 .. j : d[k] >= 4
  <2>1. \A k \in 1 .. j : d[k] \in Nat /\ (k > 1 => d[k] >= 4)
    BY <1>2, Places
  <2>2. \A k \in 1 .. j - 1 : d[k] < d[j]
    BY OneAbove
  <2>3. \A k \in 1 .. j : d[k] <= d[j]
    <3> TAKE k \in 1 .. j
    <3>1. PICK x \in Nat, y \in Nat : x = d[k] /\ y = d[j]
      BY <1>2, <2>1
    <3>2. k = j \/ k \in 1 .. j - 1
      BY <1>2
    <3>3. x = y \/ x < y
      BY <2>2, <3>1, <3>2, Zenon
    <3>4. x <= y
      BY <3>3
    <3> QED BY <3>1, <3>4, Zenon
  <2>4. \A k \in 2 .. j : k \in 1 .. j /\ k > 1
    OBVIOUS
  <2> QED BY <1>2, <2>1, <2>3, <2>4, Zenon
<1>4. \A k \in 1 .. j : LocalsIn(t, d[k]) = LocalsIn(s, d[k])
  BY <1>3, SameFrames DEF SameTo
<1>5. Frames(t, e)
  <2> SUFFICES ASSUME NEW k \in 2 .. Len(e) PROVE FrameIn(t, e[k], e[k - 1])
    BY DEF Frames
  <2>1. k \in 2 .. j /\ k \in 1 .. j /\ k - 1 \in 1 .. j /\ k \in 2 .. Len(d)
    BY <1>2
  <2>2. FrameIn(s, d[k], d[k - 1])
    BY <2>1 DEF Stack, Frames
  <2>3. d[k] \in Nat /\ d[k - 1] \in Nat /\ d[k] <= d[j] /\ d[k - 1] <= d[j] /\ d[k] >= 4
    BY <1>3, <2>1
  <2>4. FrameIn(t, d[k], d[k - 1])
    <3>1. SameTo(s, t, d[j])
      BY <1>3 DEF SameTo
    <3> QED BY <2>2, <2>3, <3>1, SameFrames
  <2> QED BY <1>2, <2>1, <2>4
<1>6. Apart(t, e)
  <2>1. \A k \in 1 .. Len(e) : e[k] >= 4 * (k - 1)
    BY <1>2 DEF Stack, Apart
  <2>2. ASSUME NEW k \in 1 .. Len(e), NEW i \in 1 .. k - 1
        PROVE  e[i] + LocalsIn(t, e[i]) + 4 <= e[k]
    <3>1. k \in 1 .. j /\ i \in 1 .. j /\ k \in 1 .. Len(d)
      BY <1>2
    <3>2. d[i] + LocalsIn(s, d[i]) + 4 <= d[k]
      BY <3>1 DEF Stack, Apart
    <3> QED BY <1>2, <1>4, <3>1, <3>2
  <2>3. e[Len(e)] + LocalsIn(t, e[Len(e)]) <= Len(t)
    <3>1. e[Len(e)] = d[j] /\ LocalsIn(t, d[j]) = LocalsIn(s, d[j])
      BY <1>2, <1>4
    <3>2. PICK a \in Nat, l \in 0 .. 15, m \in Nat : a = d[j] /\ l = LocalsIn(s, d[j]) /\ m = Len(t)
      BY Places
    <3>3. m >= a + l
      BY <3>2, Zenon
    <3>4. a + l <= m
      BY <3>3
    <3> QED BY <3>1, <3>2, <3>4, Zenon
  <2> QED BY <2>1, <2>2, <2>3 DEF Apart
<1>7. Plain(t, e)
  <2> SUFFICES ASSUME NEW k \in 1 .. Len(e), NEW i \in e[k] + 1 .. TopIn(t, e, k)
               PROVE  t[i] \in Held
    BY DEF Plain
  <2>1. k \in 1 .. j /\ e[k] = d[k] /\ k \in 1 .. Len(d)
    BY <1>2
  <2>2. CASE k = j
    <3>1. TopIn(t, e, k) = Len(t)
      BY <1>2, <2>2 DEF TopIn
    <3> QED BY <2>1, <2>2, <3>1
  <2>3. CASE k # j
    <3>1. k \in 1 .. j - 1 /\ k + 1 \in 1 .. j
      BY <2>1, <2>3
    <3>2. TopIn(t, e, k) = TopIn(s, d, k) /\ TopIn(s, d, k) < d[j]
      <4>1. TopIn(t, e, k) = d[k + 1] - 4
        BY <1>2, <3>1, <2>3 DEF TopIn
      <4> QED BY <3>1, <4>1, OneAbove
    <3>3. i \in d[k] + 1 .. TopIn(s, d, k) /\ i \in 1 .. d[j]
      <4>1. d[k] \in Nat /\ TopIn(s, d, k) \in Nat /\ d[j] \in Nat
        BY <2>1, Places
      <4>2. i \in d[k] + 1 .. TopIn(s, d, k)
        BY <2>1, <3>2
      <4> QED BY <3>2, <4>1, <4>2
    <3>4. s[i] \in Held
      BY <2>1, <3>3 DEF Stack, Plain
    <3> QED BY <3>3, <3>4
  <2> QED BY <2>2, <2>3
<1>8. Len(e) >= 1 /\ e[1] = 0
  <2>1. d[1] = 0
    BY DEF Stack
  <2>2. e[1] = d[1] /\ j \in Nat /\ j >= 1
    <3>1. j \in Nat /\ j >= 1
      BY <1>2
    <3>2. 1 \in 1 .. j /\ (\A k \in 1 .. j : e[k] = d[k])
      BY <1>2, Zenon
    <3> QED BY <3>1, <3>2, Zenon
  <2>3. Len(e) = j
    BY <1>2, Zenon
  <2>4. e[1] = 0
    BY <2>1, <2>2, Zenon
  <2>5. Len(e) >= 1
    BY <2>2, <2>3
  <2> QED BY <2>4, <2>5, Zenon
<1>9. Stack(t, e)
  BY <1>2, <1>5, <1>6, <1>7, <1>8 DEF Stack
<1> QED BY <1>1, <1>9

-----------------------------------------------------------------------------
(* Direct calls among the frames.                                          *)

\* They are counted by a natural.
LEMMA LoopsAreFinite ==
  ASSUME NEW s, NEW d, NEW k \in Nat
  PROVE  /\ IsFiniteSet({i \in 2 .. k : KindIn(s, d[i]) = 2})
         /\ LoopsIn(s, d, k) \in Nat
         /\ k = 1 => LoopsIn(s, d, k) = 0
<1>1. IsFiniteSet(2 .. k)
  BY FS_Interval
<1>2. IsFiniteSet({i \in 2 .. k : KindIn(s, d[i]) = 2})
  BY <1>1, FS_Subset
<1>3. k = 1 => {i \in 2 .. k : KindIn(s, d[i]) = 2} = {}
  OBVIOUS
<1> QED BY <1>2, <1>3, FS_CardinalityType, FS_EmptySet DEF LoopsIn

\* The next frame counts if it is of a direct call.
LEMMA LoopsStep ==
  ASSUME NEW s, NEW d, NEW k \in Nat, k >= 1
  PROVE  LoopsIn(s, d, k + 1) = IF KindIn(s, d[k + 1]) = 2 THEN LoopsIn(s, d, k) + 1 ELSE LoopsIn(s, d, k)
<1> DEFINE L(n) == {i \in 2 .. n : KindIn(s, d[i]) = 2}
<1>1. IsFiniteSet(L(k)) /\ k + 1 \notin L(k)
  <2>1. IsFiniteSet(L(k))
    BY LoopsAreFinite, Zenon
  <2>2. k + 1 \notin 2 .. k
    OBVIOUS
  <2> QED BY <2>1, <2>2, Zenon
<1>2. CASE KindIn(s, d[k + 1]) = 2
  <2>1. L(k + 1) = L(k) \cup {k + 1}
    <3>1. \A i : i \in 2 .. k + 1 <=> (i \in 2 .. k \/ i = k + 1)
      OBVIOUS
    <3> QED BY <1>2, <3>1
  <2>2. Cardinality(L(k + 1)) = Cardinality(L(k)) + 1
    <3> HIDE DEF L
    <3> QED BY <1>1, <2>1, FS_AddElement
  <2> QED BY <1>2, <2>2 DEF LoopsIn
<1>3. CASE KindIn(s, d[k + 1]) # 2
  <2>1. L(k + 1) = L(k)
    <3>1. \A i : i \in 2 .. k + 1 <=> (i \in 2 .. k \/ i = k + 1)
      OBVIOUS
    <3> QED BY <1>3, <3>1
  <2> QED BY <1>3, <2>1 DEF LoopsIn
<1> QED BY <1>2, <1>3

\* Frames of other calls do not count.
LEMMA LoopsFlat ==
  ASSUME NEW s, NEW d, NEW j \in Nat, NEW m \in Nat, j <= m,
         \A i \in j + 1 .. m : KindIn(s, d[i]) # 2
  PROVE  LoopsIn(s, d, m) = LoopsIn(s, d, j)
<1>1. \A i : i \in 2 .. m <=> (i \in 2 .. j \/ (i \in j + 1 .. m /\ i \in 2 .. m))
  OBVIOUS
<1>2. {i \in 2 .. m : KindIn(s, d[i]) = 2} = {i \in 2 .. j : KindIn(s, d[i]) = 2}
  BY <1>1
<1> QED BY <1>2 DEF LoopsIn

\* Fewer frames have no more of them, and such a frame has at least one.
LEMMA LoopsGrow ==
  ASSUME NEW s, NEW d, NEW j \in Nat, NEW k \in Nat, k <= j
  PROVE  /\ LoopsIn(s, d, k) <= LoopsIn(s, d, j)
         /\ k >= 2 /\ KindIn(s, d[k]) = 2 => LoopsIn(s, d, k) >= 1
<1>1. PICK K, J : /\ K = {i \in 2 .. k : KindIn(s, d[i]) = 2}
                   /\ J = {i \in 2 .. j : KindIn(s, d[i]) = 2}
  OBVIOUS
<1>2. LoopsIn(s, d, k) <= LoopsIn(s, d, j)
  <2>1. K \in SUBSET J
    BY <1>1
  <2>2. IsFiniteSet(J)
    BY <1>1, LoopsAreFinite
  <2>3. Cardinality(K) <= Cardinality(J)
    BY <2>1, <2>2, FS_Subset
  <2> QED BY <1>1, <2>3, Zenon DEF LoopsIn
<1>3. ASSUME k >= 2, KindIn(s, d[k]) = 2 PROVE LoopsIn(s, d, k) >= 1
  <2>1. k - 1 \in Nat /\ k - 1 >= 1 /\ (k - 1) + 1 = k
    BY <1>3
  <2>2. LoopsIn(s, d, k) = LoopsIn(s, d, k - 1) + 1
    BY <1>3, <2>1, LoopsStep
  <2>3. LoopsIn(s, d, k - 1) \in Nat
    BY <2>1, LoopsAreFinite
  <2> QED BY <2>2, <2>3
<1> QED BY <1>2, <1>3

\* Frames of the same kinds count the same.
LEMMA LoopsSame ==
  ASSUME NEW s, NEW d, NEW t, NEW e, NEW k \in Nat,
         \A i \in 2 .. k : KindIn(t, e[i]) = KindIn(s, d[i])
  PROVE  LoopsIn(t, e, k) = LoopsIn(s, d, k)
<1>1. {i \in 2 .. k : KindIn(t, e[i]) = 2} = {i \in 2 .. k : KindIn(s, d[i]) = 2}
  OBVIOUS
<1> QED BY <1>1 DEF LoopsIn

-----------------------------------------------------------------------------
(* What the frames are decoded to.                                         *)

\* Rows of words that agree have the same parts.
LEMMA SamePart ==
  ASSUME NEW s, NEW t, NEW a \in Int, NEW b \in Int, NEW S,
         \A i \in a .. b : s[i] \in S /\ t[i] = s[i]
  PROVE  SubSeq(t, a, b) = SubSeq(s, a, b)
<1>1. /\ SubSeq(s, a, b) \in Seq(S)
      /\ Len(SubSeq(s, a, b)) = IF a <= b THEN b - a + 1 ELSE 0
      /\ \A i \in 1 .. b - a + 1 : SubSeq(s, a, b)[i] = s[a + i - 1]
  BY SubSeqProperties
<1>2. /\ SubSeq(t, a, b) \in Seq(S)
      /\ Len(SubSeq(t, a, b)) = IF a <= b THEN b - a + 1 ELSE 0
      /\ \A i \in 1 .. b - a + 1 : SubSeq(t, a, b)[i] = t[a + i - 1]
  BY SubSeqProperties
<1>3. \A i \in 1 .. Len(SubSeq(t, a, b)) : SubSeq(t, a, b)[i] = SubSeq(s, a, b)[i]
  <2> TAKE i \in 1 .. Len(SubSeq(t, a, b))
  <2>1. i \in 1 .. b - a + 1 /\ a + i - 1 \in a .. b
    BY <1>2
  <2> QED BY <1>1, <1>2, <2>1
<1> QED BY <1>1, <1>2, <1>3, SeqEqual

\* Words and rows that agree up to the frame j, and what those of its frames
\* that are of direct calls keep.
Agree(s, d, h, j, t, e, g) ==
  /\ \A i \in 1 .. d[j] : t[i] = s[i]
  /\ \A i \in 1 .. LoopsIn(s, d, j) : g[i] = h[i]
  /\ \A k \in 1 .. j : e[k] = d[k]
  /\ Len(e) >= j /\ Len(e) \in Nat

\* The frames below one whose words above change are decoded as before, and
\* that one is but for its locals and its values.
LEMMA SameDecoded ==
  ASSUME NEW s, NEW d, Stack(s, d), NEW j \in 1 .. Len(d), NEW t, NEW h, NEW g,
         NEW e, Agree(s, d, h, j, t, e, g)
  PROVE  /\ \A k \in 1 .. j : LoopsIn(t, e, k) = LoopsIn(s, d, k)
         /\ \A k \in 1 .. j : \A l, v : DecOf(t, e, g, k, l, v) = DecOf(s, d, h, k, l, v)
         /\ \A k \in 1 .. j - 1 : DecIn(t, e, g, k) = DecIn(s, d, h, k)
<1> USE DEF Agree
<1>1. /\ Len(d) \in Nat /\ j \in Nat /\ j >= 1 /\ \A k \in 1 .. j : k \in 1 .. Len(d) /\ k \in Nat
      /\ d[j] \in Nat
      /\ \A k \in 1 .. j : d[k] \in Nat /\ d[k] <= d[j]
      /\ \A k \in 2 .. j : d[k] >= 4 /\ k \in 1 .. j
  <2>1. \A k \in 1 .. j : k \in 1 .. Len(d) /\ d[k] \in Nat /\ (k > 1 => d[k] >= 4)
    BY Places DEF Stack
  <2>2. \A k \in 1 .. j - 1 : d[k] < d[j]
    BY OneAbove
  <2>3. Len(d) \in Nat /\ j \in Nat /\ j >= 1 /\ j \in 1 .. j
    BY DEF Stack
  <2>4. \A k \in 1 .. j : d[k] <= d[j]
    <3> TAKE k \in 1 .. j
    <3>1. PICK x \in Nat, y \in Nat : x = d[k] /\ y = d[j]
      BY <2>1, <2>3
    <3>2. k = j \/ k \in 1 .. j - 1
      BY <2>3
    <3>3. x = y \/ x < y
      BY <2>2, <3>1, <3>2, Zenon
    <3>4. x <= y
      BY <3>3
    <3> QED BY <3>1, <3>4, Zenon
  <2>5. /\ \A k \in 2 .. j : k \in 1 .. j /\ k > 1
        /\ \A k \in 1 .. j : k \in Nat
    BY <2>3
  <2> QED BY <2>1, <2>3, <2>4, <2>5, Zenon
<1>2. \A k \in 2 .. j : /\ KindIn(t, e[k]) = KindIn(s, d[k]) /\ t[e[k]] = s[d[k]]
                        /\ ReturnIn(t, e[k]) = ReturnIn(s, d[k])
  <2> TAKE k \in 2 .. j
  <2>1. /\ KindIn(t, d[k]) = KindIn(s, d[k]) /\ t[d[k]] = s[d[k]]
        /\ ReturnIn(t, d[k]) = ReturnIn(s, d[k])
    <3>1. d[k] \in Nat /\ d[k] <= d[j] /\ d[k] >= 4 /\ d[k] > 0
      BY <1>1
    <3> QED BY <1>1, <3>1, SameFrames DEF SameTo
  <2> QED BY <1>1, <2>1
<1>3. ASSUME NEW k \in 1 .. j PROVE LoopsIn(t, e, k) = LoopsIn(s, d, k)
  <2>1. \A i \in 2 .. k : KindIn(t, e[i]) = KindIn(s, d[i])
    BY <1>1, <1>2
  <2> QED BY <1>1, <2>1, LoopsSame
<1>4. ASSUME NEW k \in 1 .. j, NEW l, NEW v PROVE DecOf(t, e, g, k, l, v) = DecOf(s, d, h, k, l, v)
  <2>1. CASE k = 1
    BY <2>1 DEF DecOf
  <2>2. CASE k # 1
    <3>1. k \in 2 .. j /\ k > 1 /\ k \in Nat
      BY <1>1, <2>2
    <3>2. KindIn(s, d[k]) = 2 => LoopsIn(s, d, k) \in 1 .. LoopsIn(s, d, j)
      <4>1. LoopsIn(s, d, k) \in Nat /\ LoopsIn(s, d, j) \in Nat
        BY <1>1, <3>1, LoopsAreFinite
      <4>2. k <= j /\ k >= 2
        BY <3>1
      <4>3. /\ LoopsIn(s, d, k) <= LoopsIn(s, d, j)
            /\ KindIn(s, d[k]) = 2 => LoopsIn(s, d, k) >= 1
        BY <1>1, <3>1, <4>2, LoopsGrow
      <4> QED BY <4>1, <4>3
    <3>3. KindIn(s, d[k]) = 2 => g[LoopsIn(t, e, k)] = h[LoopsIn(s, d, k)]
      BY <1>3, <3>2
    <3> QED BY <1>2, <2>2, <3>1, <3>3, ZenonT(30) DEF DecOf
  <2> QED BY <2>1, <2>2
<1>5. ASSUME NEW k \in 1 .. j - 1 PROVE DecIn(t, e, g, k) = DecIn(s, d, h, k)
  <2>1. k \in 1 .. j /\ k + 1 \in 1 .. j /\ k # Len(e) /\ e[k] = d[k] /\ e[k + 1] = d[k + 1]
    BY <1>1
  <2>2. LocalsIn(t, d[k]) = LocalsIn(s, d[k])
    <3>1. PICK m \in Nat, n \in Nat : m = d[j] /\ n = d[k] /\ n <= m
      BY <1>1, <2>1
    <3>2. \A i \in 1 .. m : t[i] = s[i]
      BY <3>1
    <3>3. LocalsIn(t, n) = LocalsIn(s, n)
      <4>1. n # 0 => t[n] = s[n]
        BY <3>1, <3>2
      <4> QED BY <4>1, Zenon DEF LocalsIn
    <3> QED BY <3>1, <3>3, Zenon
  <2>3. TopIn(t, e, k) = TopIn(s, d, k) /\ TopIn(s, d, k) < d[j]
    <3>1. TopIn(t, e, k) = d[k + 1] - 4
      BY <2>1 DEF TopIn
    <3> QED BY <3>1, OneAbove
  <2>4. PICK a \in Nat, l \in 0 .. 15, b \in Nat : a = d[k] /\ l = LocalsIn(s, d[k]) /\ b = TopIn(s, d, k)
    BY <1>1, <2>1, Places
  <2>5. a + l <= b /\ b < d[j] /\ b <= Len(s) /\ Len(s) \in Nat
    BY <1>1, <2>1, <2>3, <2>4, Places, Zenon
  <2>6. \A i \in a + 1 .. a + l : s[i] \in Words /\ t[i] = s[i]
    <3>1. \A i \in a + 1 .. a + l : i \in 1 .. d[j] /\ i \in 1 .. Len(s)
      BY <1>1, <2>5
    <3> QED BY <3>1 DEF Stack
  <2>7. \A i \in a + l + 1 .. b : s[i] \in Words /\ t[i] = s[i]
    <3>1. \A i \in a + l + 1 .. b : i \in 1 .. d[j] /\ i \in 1 .. Len(s)
      <4>1. PICK y \in Nat, m \in Nat : y = d[j] /\ m = Len(s)
        BY <1>1, <2>5
      <4>2. b < y /\ b <= m
        BY <2>5, <4>1, Zenon
      <4>3. \A i \in a + l + 1 .. b : i \in 1 .. y /\ i \in 1 .. m
        BY <4>2
      <4> QED BY <4>1, <4>3, Zenon
    <3> QED BY <3>1 DEF Stack
  <2>8. SubSeq(t, a + 1, a + l) = SubSeq(s, a + 1, a + l) /\ SubSeq(t, a + l + 1, b) = SubSeq(s, a + l + 1, b)
    BY <2>6, <2>7, SamePart
  <2>9. LocalsOf(t, e, k) = LocalsOf(s, d, k) /\ EvalsOf(t, e, k) = EvalsOf(s, d, k)
    BY <2>1, <2>2, <2>3, <2>4, <2>8, Zenon DEF LocalsOf, EvalsOf
  <2> QED BY <1>4, <2>1, <2>9 DEF DecIn
<1> QED BY <1>3, <1>4, <1>5

-----------------------------------------------------------------------------
(* Rows that are whole again after a change.                               *)

\* The first part of a row.
LEMMA FirstPart ==
  ASSUME NEW S, NEW F, NEW n \in Nat, \A k \in 1 .. n : F[k] \in S
  PROVE  /\ SubSeq(F, 1, n) \in Seq(S) /\ Len(SubSeq(F, 1, n)) = n
         /\ \A k \in 1 .. n : SubSeq(F, 1, n)[k] = F[k]
<1>1. /\ SubSeq(F, 1, n) \in Seq(S)
      /\ Len(SubSeq(F, 1, n)) = IF 1 <= n THEN n - 1 + 1 ELSE 0
      /\ \A k \in 1 .. n - 1 + 1 : SubSeq(F, 1, n)[k] = F[1 + k - 1]
  BY SubSeqProperties
<1> QED BY <1>1

\* G is F up to n, but for its member n.
LastOther(F, a, G, n) ==
  /\ F = [k \in 1 .. a |-> F[k]] /\ G = [k \in 1 .. n |-> G[k]]
  /\ \A k \in 1 .. n - 1 : G[k] = F[k]

\* A row whose members below its last are those of another is the other's
\* first part with that last one.
LEMMA RowLast ==
  ASSUME NEW a \in Nat, NEW n \in 1 .. a, NEW F, NEW G, LastOther(F, a, G, n)
  PROVE  /\ G = Append(SubSeq(F, 1, n - 1), G[n])
         /\ G[n] = F[n] => G = SubSeq(F, 1, n)
<1> DEFINE S == {F[k] : k \in 1 .. a} \cup {G[n]}
<1>0. G = [k \in 1 .. n |-> G[k]] /\ \A k \in 1 .. n - 1 : G[k] = F[k]
  BY DEF LastOther
<1>1. (\A k \in 1 .. a : F[k] \in S) /\ G[n] \in S /\ n \in Nat /\ n >= 1
  OBVIOUS
<1>2. G \in Seq(S) /\ Len(G) = n
  <2>1. \A k \in 1 .. n : G[k] \in S
    <3> TAKE k \in 1 .. n
    <3>1. CASE k = n
      BY <1>1, <3>1
    <3>2. CASE k # n
      <4>1. k \in 1 .. n - 1 /\ k \in 1 .. a
        BY <3>2
      <4> QED BY <1>0, <1>1, <4>1
    <3> QED BY <3>1, <3>2
  <2> HIDE DEF S
  <2>2. G \in [1 .. n -> S]
    BY <1>0, <2>1
  <2> QED BY <1>1, <2>2
<1> HIDE DEF S
<1> PICK U : U = SubSeq(F, 1, n - 1)
  OBVIOUS
<1>3. U \in Seq(S) /\ Len(U) = n - 1 /\ \A k \in 1 .. n - 1 : U[k] = F[k]
  <2>1. \A k \in 1 .. n - 1 : F[k] \in S
    BY <1>1
  <2>2. PICK m \in Nat : m = n - 1
    BY <1>1
  <2>3. /\ SubSeq(F, 1, m) \in Seq(S) /\ Len(SubSeq(F, 1, m)) = m
        /\ \A k \in 1 .. m : SubSeq(F, 1, m)[k] = F[k]
    BY <2>1, <2>2, FirstPart
  <2> QED BY <2>2, <2>3
<1>4. G = Append(U, G[n])
  <2>1. /\ Append(U, G[n]) \in Seq(S) /\ Len(Append(U, G[n])) = n
        /\ \A k \in 1 .. n - 1 : Append(U, G[n])[k] = U[k]
        /\ Append(U, G[n])[n] = G[n]
    BY <1>1, <1>3, AppendProperties
  <2>2. \A k \in 1 .. n : G[k] = Append(U, G[n])[k]
    <3> TAKE k \in 1 .. n
    <3>1. k = n \/ k \in 1 .. n - 1
      OBVIOUS
    <3> QED BY <1>0, <1>3, <2>1, <3>1
  <2> QED BY <1>2, <2>1, <2>2, SeqEqual
<1>5. ASSUME G[n] = F[n] PROVE G = SubSeq(F, 1, n)
  <2>1. \A k \in 1 .. n : F[k] \in S
    BY <1>1
  <2>2. PICK V : V = SubSeq(F, 1, n)
    OBVIOUS
  <2>3. V \in Seq(S) /\ Len(V) = n /\ \A k \in 1 .. n : V[k] = F[k]
    BY <1>1, <2>1, <2>2, FirstPart
  <2>4. \A k \in 1 .. n : G[k] = V[k]
    <3> TAKE k \in 1 .. n
    <3>1. k = n \/ k \in 1 .. n - 1
      OBVIOUS
    <3> QED BY <1>0, <1>5, <2>3, <3>1
  <2> QED BY <1>2, <2>2, <2>3, <2>4, SeqEqual
<1> QED BY <1>4, <1>5

\* The words above the frame j change, and that frame is the last: x is what
\* it is decoded to, with l locals.
Change(s, d, h, j, t, e, g, l, x) ==
  /\ t \in Seq(Words) /\ Len(t) <= StackSize /\ Len(t) >= d[j] + LocalsIn(s, d[j])
  /\ \A i \in 1 .. d[j] : t[i] = s[i]
  /\ \A i \in d[j] + 1 .. Len(t) : t[i] \in Held
  /\ \A i \in 1 .. LoopsIn(s, d, j) : g[i] = h[i]
  /\ e = SubSeq(d, 1, j) /\ l \in Nat /\ l = LocalsIn(s, d[j])
  /\ x = DecOf(s, d, h, j, SubSeq(t, d[j] + 1, d[j] + l), SubSeq(t, d[j] + l + 1, Len(t)))

\* What such words are.
LEMMA Changed ==
  ASSUME NEW s, NEW d, Stack(s, d), NEW j \in 1 .. Len(d), NEW h, NEW g,
         NEW t, NEW e, NEW l, NEW x, Change(s, d, h, j, t, e, g, l, x)
  PROVE  /\ Stack(t, e) /\ Len(e) = j /\ e[j] = d[j] /\ LoopsIn(t, e, j) = LoopsIn(s, d, j)
         /\ LocalsIn(t, d[j]) = l
         /\ DecodedIn(t, e, g) = Append(SubSeq(DecodedIn(s, d, h), 1, j - 1), x)
         /\ x = DecIn(s, d, h, j) => DecodedIn(t, e, g) = SubSeq(DecodedIn(s, d, h), 1, j)
<1>0. /\ t \in Seq(Words) /\ Len(t) <= StackSize /\ Len(t) >= d[j] + LocalsIn(s, d[j])
      /\ \A i \in 1 .. d[j] : t[i] = s[i]
      /\ \A i \in d[j] + 1 .. Len(t) : t[i] \in Held
      /\ \A i \in 1 .. LoopsIn(s, d, j) : g[i] = h[i]
      /\ e = SubSeq(d, 1, j) /\ l \in Nat /\ l = LocalsIn(s, d[j])
  BY DEF Change
<1>0a. x = DecOf(s, d, h, j, SubSeq(t, d[j] + 1, d[j] + l), SubSeq(t, d[j] + l + 1, Len(t)))
  BY DEF Change
<1>1. Stack(t, e)
  BY <1>0, RowIsKept
<1>2. /\ Len(e) = j /\ \A k \in 1 .. j : e[k] = d[k]
      /\ j \in Nat /\ j >= 1 /\ Len(d) \in Nat /\ d[j] \in Nat
  <2>1. d \in Seq(Nat)
    BY DEF Stack
  <2> QED BY <1>0, <2>1
<1>3. Agree(s, d, h, j, t, e, g)
  BY <1>0, <1>2 DEF Agree
<1>4. /\ \A k \in 1 .. j : LoopsIn(t, e, k) = LoopsIn(s, d, k)
      /\ \A k \in 1 .. j : \A a, v : DecOf(t, e, g, k, a, v) = DecOf(s, d, h, k, a, v)
      /\ \A k \in 1 .. j - 1 : DecIn(t, e, g, k) = DecIn(s, d, h, k)
  BY <1>3, SameDecoded
<1>5. LocalsIn(t, d[j]) = l
  <2>1. d[j] # 0 => d[j] \in 1 .. d[j]
    BY <1>2
  <2>2. d[j] # 0 => t[d[j]] = s[d[j]]
    BY <1>0, <2>1, Zenon
  <2> QED BY <1>0, <2>2, Zenon DEF LocalsIn
<1>6. DecIn(t, e, g, j) = x
  <2>1. j \in 1 .. j /\ e[j] = d[j] /\ TopIn(t, e, j) = Len(t)
    BY <1>2 DEF TopIn
  <2>2. LocalsOf(t, e, j) = SubSeq(t, d[j] + 1, d[j] + l)
    BY <1>5, <2>1, Zenon DEF LocalsOf
  <2>3. EvalsOf(t, e, j) = SubSeq(t, d[j] + l + 1, Len(t))
    BY <1>5, <2>1, Zenon DEF EvalsOf
  <2> QED BY <1>0a, <1>4, <2>1, <2>2, <2>3, Zenon DEF DecIn
<1>7. PICK F, G : F = DecodedIn(s, d, h) /\ G = DecodedIn(t, e, g)
  OBVIOUS
<1>8. /\ F = [k \in 1 .. Len(d) |-> F[k]] /\ G = [k \in 1 .. j |-> G[k]]
      /\ \A k \in 1 .. j - 1 : G[k] = F[k]
      /\ G[j] = x /\ F[j] = DecIn(s, d, h, j)
  <2>1. F = [k \in 1 .. Len(d) |-> DecIn(s, d, h, k)]
    BY <1>7 DEF DecodedIn
  <2>2. G = [k \in 1 .. j |-> DecIn(t, e, g, k)]
    BY <1>2, <1>7 DEF DecodedIn
  <2>3. \A k \in 1 .. j - 1 : k \in 1 .. j /\ k \in 1 .. Len(d)
    BY <1>2
  <2>4. \A k \in 1 .. j - 1 : G[k] = F[k]
    BY <1>4, <2>1, <2>2, <2>3
  <2>5. j \in 1 .. j /\ j \in 1 .. Len(d)
    BY <1>2
  <2>6. G[j] = x /\ F[j] = DecIn(s, d, h, j)
    BY <1>6, <2>1, <2>2, <2>5
  <2>7. F = [k \in 1 .. Len(d) |-> F[k]]
    BY <2>1
  <2>8. G = [k \in 1 .. j |-> G[k]]
    BY <2>2
  <2> QED BY <2>4, <2>6, <2>7, <2>8
<1>9. /\ G = Append(SubSeq(F, 1, j - 1), x)
      /\ x = F[j] => G = SubSeq(F, 1, j)
  <2>1. LastOther(F, Len(d), G, j)
    BY <1>8, Zenon DEF LastOther
  <2>2. /\ G = Append(SubSeq(F, 1, j - 1), G[j])
        /\ G[j] = F[j] => G = SubSeq(F, 1, j)
    <3>1. PICK a \in Nat, n \in Nat : a = Len(d) /\ n = j /\ n \in 1 .. a
      BY <1>2
    <3>2. LastOther(F, a, G, n)
      BY <2>1, <3>1
    <3>3. /\ G = Append(SubSeq(F, 1, n - 1), G[n])
          /\ G[n] = F[n] => G = SubSeq(F, 1, n)
      BY <3>1, <3>2, RowLast
    <3> QED BY <3>1, <3>3
  <2> QED BY <1>8, <2>2, Zenon
<1>10. j \in 1 .. j
  BY <1>2
<1> QED BY <1>1, <1>2, <1>4, <1>5, <1>7, <1>8, <1>9, <1>10, Zenon

\* A part with one more word.
LEMMA PartAppend ==
  ASSUME NEW s, NEW t, NEW a \in Int, NEW b \in Int, NEW c \in Int, c = b + 1, a <= c, NEW S, NEW value \in S,
         \A i \in a .. b : s[i] \in S /\ t[i] = s[i], t[c] = value
  PROVE  SubSeq(t, a, c) = Append(SubSeq(s, a, b), value)
<1>1. \A i \in a .. c : t[i] \in S
  <2> TAKE i \in a .. c
  <2>1. i \in a .. b \/ i = c
    OBVIOUS
  <2> QED BY <2>1
<1>2. PICK A, B : A = SubSeq(s, a, b) /\ B = SubSeq(t, a, c)
  OBVIOUS
<1>3. /\ A \in Seq(S) /\ Len(A) = IF a <= b THEN b - a + 1 ELSE 0
      /\ \A i \in 1 .. b - a + 1 : A[i] = s[a + i - 1]
  BY <1>2, SubSeqProperties
<1>4. /\ B \in Seq(S) /\ Len(B) = b - a + 2
      /\ \A i \in 1 .. b - a + 2 : B[i] = t[a + i - 1]
  <2>1. /\ SubSeq(t, a, c) \in Seq(S) /\ Len(SubSeq(t, a, c)) = IF a <= c THEN c - a + 1 ELSE 0
        /\ \A i \in 1 .. c - a + 1 : SubSeq(t, a, c)[i] = t[a + i - 1]
    BY <1>1, SubSeqProperties
  <2> QED BY <1>2, <2>1
<1>5. Len(A) = b - a + 1 /\ Len(A) \in Nat
  BY <1>3
<1>6. /\ Append(A, value) \in Seq(S) /\ Len(Append(A, value)) = b - a + 2
      /\ \A i \in 1 .. b - a + 1 : Append(A, value)[i] = A[i]
      /\ Append(A, value)[b - a + 2] = value
  BY <1>3, <1>5, AppendProperties
<1>7. \A i \in 1 .. Len(B) : B[i] = Append(A, value)[i]
  <2> TAKE i \in 1 .. Len(B)
  <2>1. CASE i \in 1 .. b - a + 1
    <3>1. a + i - 1 \in a .. b
      BY <2>1
    <3>2. B[i] = t[a + i - 1] /\ A[i] = s[a + i - 1]
      BY <1>3, <1>4, <2>1
    <3> QED BY <1>6, <2>1, <3>1, <3>2
  <2>2. CASE i = b - a + 2
    <3>1. a + i - 1 = c
      BY <2>2
    <3> QED BY <1>4, <1>6, <2>2, <3>1
  <2>3. Len(B) = b - a + 2
    BY <1>4
  <2>4. i \in 1 .. b - a + 1 \/ i = b - a + 2
    BY <2>3
  <2> QED BY <2>1, <2>2, <2>4
<1>8. B = Append(A, value)
  BY <1>4, <1>6, <1>7, SeqEqual
<1> QED BY <1>2, <1>8

\* The k-th word from a on is another, of those to b.
OneOther(s, t, a, b, k, S, value) ==
  /\ a \in Int /\ b \in Int /\ k \in 1 .. b - a + 1 /\ value \in S /\ t[a + k - 1] = value
  /\ \A i \in a .. b : s[i] \in S /\ (i # a + k - 1 => t[i] = s[i])

\* A part with one word changed.
LEMMA PartExcept ==
  ASSUME NEW s, NEW t, NEW a, NEW b, NEW k, NEW S, NEW value, OneOther(s, t, a, b, k, S, value)
  PROVE  SubSeq(t, a, b) = [SubSeq(s, a, b) EXCEPT ![k] = value]
<1> USE DEF OneOther
<1>0. a <= b
  OBVIOUS
<1>1. \A i \in a .. b : t[i] \in S
  OBVIOUS
<1>2. PICK A, B : A = SubSeq(s, a, b) /\ B = SubSeq(t, a, b)
  OBVIOUS
<1>3. /\ A \in Seq(S) /\ Len(A) = b - a + 1
      /\ \A i \in 1 .. b - a + 1 : A[i] = s[a + i - 1]
  BY <1>0, <1>2, SubSeqProperties
<1>4. /\ B \in Seq(S) /\ Len(B) = b - a + 1
      /\ \A i \in 1 .. b - a + 1 : B[i] = t[a + i - 1]
  BY <1>0, <1>1, <1>2, SubSeqProperties
<1>5. PICK C : C = [A EXCEPT ![k] = value]
  OBVIOUS
<1>6. /\ C \in Seq(S) /\ Len(C) = b - a + 1
      /\ \A i \in 1 .. b - a + 1 : C[i] = IF i = k THEN value ELSE A[i]
  BY <1>3, <1>5, ExceptSeq
<1>7. \A i \in 1 .. Len(B) : B[i] = C[i]
  <2> TAKE i \in 1 .. Len(B)
  <2>1. i \in 1 .. b - a + 1 /\ a + i - 1 \in a .. b /\ (i # k => a + i - 1 # a + k - 1)
    BY <1>4
  <2> QED BY <1>3, <1>4, <1>6, <2>1
<1>8. B = C
  BY <1>4, <1>6, <1>7, SeqEqual
<1> QED BY <1>2, <1>5, <1>8

\* Storing a value in a frame as decoded.
LEMMA DecStored ==
  ASSUME NEW s, NEW d, NEW h, NEW k, NEW lo, NEW ev, NEW v, NEW value
  PROVE  ZS!Stored(DecOf(s, d, h, k, lo, ev), v, value) =
           IF v = 0 THEN DecOf(s, d, h, k, lo, Append(ev, value))
           ELSE IF v \in DOMAIN lo THEN DecOf(s, d, h, k, [lo EXCEPT ![v] = value], ev)
           ELSE DecOf(s, d, h, k, lo, ev)
<1> DEFINE r == IF k = 1 THEN 0 ELSE ReturnIn(s, d[k])
           c == IF k = 1 THEN 1 ELSE KindIn(s, d[k])
           n == IF k = 1 THEN 0 ELSE s[d[k]] % 256
           w == IF k > 1 /\ KindIn(s, d[k]) = 2 THEN h[LoopsIn(s, d, k)] ELSE <<>>
<1>1. \A l, u : DecOf(s, d, h, k, l, u) =
        [ret |-> r, kind |-> c, argc |-> n, locals |-> l, evals |-> u, waiting |-> w]
  BY Zenon DEF DecOf
<1> HIDE DEF r, c, n, w
<1>2. PICK x, y, z :
        x = Append(ev, value) /\ y = [lo EXCEPT ![v] = value] /\ z = DecOf(s, d, h, k, lo, ev)
  OBVIOUS
<1>3. z = [ret |-> r, kind |-> c, argc |-> n, locals |-> lo, evals |-> ev, waiting |-> w]
  BY <1>1, <1>2
<1>4. z.locals = lo /\ z.evals = ev
  BY <1>3
<1>5. /\ [z EXCEPT !.evals = x] =
           [ret |-> r, kind |-> c, argc |-> n, locals |-> lo, evals |-> x, waiting |-> w]
      /\ [z EXCEPT !.locals = y] =
           [ret |-> r, kind |-> c, argc |-> n, locals |-> y, evals |-> ev, waiting |-> w]
  BY <1>3
<1>6. ZS!Stored(z, v, value) = IF v = 0 THEN [z EXCEPT !.evals = x]
                               ELSE IF v \in DOMAIN lo THEN [z EXCEPT !.locals = y] ELSE z
  BY <1>2, <1>4 DEF ZS!Stored
<1>7. CASE v = 0
  <2>1. ZS!Stored(z, v, value) = [z EXCEPT !.evals = x]
    BY <1>6, <1>7, Zenon
  <2>2. DecOf(s, d, h, k, lo, x) = [z EXCEPT !.evals = x]
    BY <1>1, <1>5, Zenon
  <2>3. ZS!Stored(z, v, value) = DecOf(s, d, h, k, lo, x)
    BY <2>1, <2>2, Zenon
  <2> QED BY <1>2, <1>7, <2>3
<1>8. CASE v # 0 /\ v \in DOMAIN lo
  <2>1. ZS!Stored(z, v, value) = [z EXCEPT !.locals = y]
    BY <1>6, <1>8, Zenon
  <2>2. DecOf(s, d, h, k, y, ev) = [z EXCEPT !.locals = y]
    BY <1>1, <1>5, Zenon
  <2>3. ZS!Stored(z, v, value) = DecOf(s, d, h, k, y, ev)
    BY <2>1, <2>2, Zenon
  <2> QED BY <1>2, <1>8, <2>3
<1>9. CASE v # 0 /\ v \notin DOMAIN lo
  BY <1>2, <1>6, <1>9, Zenon
<1> QED BY <1>7, <1>8, <1>9, Zenon

\* What is known of the frame on top.
LEMMA TopFrame ==
  ASSUME NEW s, NEW d, Stack(s, d), NEW h
  PROVE  /\ Len(d) \in Nat /\ Len(d) >= 1 /\ Len(d) \in 1 .. Len(d)
         /\ SubSeq(d, 1, Len(d)) = d
         /\ d[Len(d)] \in Nat /\ LocalsIn(s, d[Len(d)]) \in 0 .. 15
         /\ d[Len(d)] + LocalsIn(s, d[Len(d)]) <= Len(s)
         /\ s \in Seq(Words) /\ Len(s) \in Nat /\ Len(s) <= StackSize /\ StackSize \in Nat
         /\ \A i \in d[Len(d)] + 1 .. Len(s) : s[i] \in Held
         /\ DecodedIn(s, d, h)[Len(d)] =
              DecOf(s, d, h, Len(d),
                    SubSeq(s, d[Len(d)] + 1, d[Len(d)] + LocalsIn(s, d[Len(d)])),
                    SubSeq(s, d[Len(d)] + LocalsIn(s, d[Len(d)]) + 1, Len(s)))
         /\ DecodedIn(s, d, h)[Len(d)] = DecIn(s, d, h, Len(d))
<1> PICK n, l : n = Len(d) /\ l = LocalsIn(s, d[n])
  OBVIOUS
<1>1. n = Len(d) /\ n \in Nat /\ n >= 1 /\ n \in 1 .. n
  BY DEF Stack
<1>2. TopIn(s, d, n) = Len(s)
  BY <1>1, Zenon DEF TopIn
<1>3. /\ d[n] \in Nat /\ LocalsIn(s, d[n]) \in 0 .. 15
      /\ d[n] + LocalsIn(s, d[n]) <= Len(s)
      /\ Len(s) \in Nat /\ Len(s) <= StackSize /\ StackSize \in Nat
  BY <1>1, <1>2, Places
<1>4. SubSeq(d, 1, n) = d /\ s \in Seq(Words)
  <2>1. d \in Seq(Nat) /\ s \in Seq(Words)
    BY Zenon DEF Stack
  <2>2. SubSeq(d, 1, Len(d)) = d
    BY <2>1, SubSeqFull
  <2> QED BY <1>1, <2>1, <2>2
<1>5. \A i \in d[n] + 1 .. Len(s) : s[i] \in Held
  BY <1>1, <1>2, Zenon DEF Stack, Plain
<1>6. DecodedIn(s, d, h)[n] = DecIn(s, d, h, n)
  BY <1>1, Zenon DEF DecodedIn
<1>7. DecIn(s, d, h, n) = DecOf(s, d, h, n, SubSeq(s, d[n] + 1, d[n] + LocalsIn(s, d[n])),
                                SubSeq(s, d[n] + LocalsIn(s, d[n]) + 1, Len(s)))
  BY <1>2, Zenon DEF DecIn, LocalsOf, EvalsOf
<1> QED BY <1>1, <1>3, <1>4, <1>5, <1>6, <1>7, Zenon

\* With the words t the frame on top is x, and the others are as they were.
TopBecomes(s, d, h, t, x) ==
  /\ Stack(t, d) /\ LoopsIn(t, d, Len(d)) = LoopsIn(s, d, Len(d))
  /\ LocalsIn(t, d[Len(d)]) = LocalsIn(s, d[Len(d)])
  /\ DecodedIn(t, d, h) = Append(SubSeq(DecodedIn(s, d, h), 1, Len(d) - 1), x)

\* One more word, above the others.
LEMMA AppendWord ==
  \A w \in Seq(Words), b \in Words :
    /\ Append(w, b) \in Seq(Words) /\ Len(Append(w, b)) = Len(w) + 1
    /\ \A i \in 1 .. Len(w) : Append(w, b)[i] = w[i]
    /\ Append(w, b)[Len(w) + 1] = b
OBVIOUS

\* A value stored in a variable of the frame on top.
LEMMA StoreTop ==
  ASSUME NEW s, NEW d, Stack(s, d), NEW h, NEW value \in Held, NEW v \in 0 .. 255,
         v \in 1 .. 15 => v <= LocalsIn(s, d[Len(d)]),
         v = 0 => Len(s) < StackSize
  PROVE  TopBecomes(s, d, h, Stored(s, StackSize - d[Len(d)], v, value),
                    ZS!Stored(DecodedIn(s, d, h)[Len(d)], v, value))
<1> DEFINE F == DecodedIn(s, d, h)
<1>0. PICK n \in Nat, a \in Nat, l \in Nat, m \in Nat :
        n = Len(d) /\ a = d[n] /\ l = LocalsIn(s, a) /\ m = Len(s)
  <2>1. \A k \in 0 .. 15 : k \in Nat
    OBVIOUS
  <2> QED BY <2>1, TopFrame, Zenon
<1>1. PICK t : t = Stored(s, StackSize - a, v, value)
  OBVIOUS
<1>2. /\ n \in 1 .. Len(d) /\ SubSeq(d, 1, n) = d /\ l <= 15 /\ a + l <= m
      /\ s \in Seq(Words) /\ Len(s) = m /\ m <= StackSize /\ StackSize \in Nat
      /\ \A i \in a + 1 .. m : s[i] \in Held
      /\ F[n] = DecOf(s, d, h, n, SubSeq(s, a + 1, a + l), SubSeq(s, a + l + 1, m))
  <2>1. \A k \in 0 .. 15 : k <= 15
    OBVIOUS
  <2> QED BY <1>0, <2>1, TopFrame, Zenon
<1> HIDE DEF F
<1>3. value \in Words /\ \A i \in 1 .. m : s[i] \in Words
  BY <1>2, HeldAreWords
<1>4. PICK x, lo, ev : /\ lo = SubSeq(s, a + 1, a + l) /\ ev = SubSeq(s, a + l + 1, m)
                     /\ x = DecOf(s, d, h, n, SubSeq(t, a + 1, a + l), SubSeq(t, a + l + 1, Len(t)))
  OBVIOUS
<1>5. /\ t \in Seq(Words) /\ Len(t) <= StackSize /\ Len(t) >= a + l
      /\ \A i \in 1 .. a : t[i] = s[i]
      /\ \A i \in a + 1 .. Len(t) : t[i] \in Held
      /\ x = IF v = 0 THEN DecOf(s, d, h, n, lo, Append(ev, value))
             ELSE IF v \in DOMAIN lo THEN DecOf(s, d, h, n, [lo EXCEPT ![v] = value], ev)
             ELSE DecOf(s, d, h, n, lo, ev)
  <2>1. CASE v = 0
    <3>1. t = Append(s, value)
      BY <1>1, <2>1, Zenon DEF Stored
    <3>2. /\ t \in Seq(Words) /\ Len(t) = m + 1
          /\ \A i \in 1 .. m : t[i] = s[i]
          /\ t[m + 1] = value
      <4>1. s \in Seq(Words) /\ value \in Words /\ Len(s) = m
        BY <1>2, <1>3
      <4> QED BY <3>1, <4>1, AppendWord, Zenon
    <3>3. \A i \in a + 1 .. m + 1 : t[i] \in Held
      <4> TAKE i \in a + 1 .. m + 1
      <4>1. i = m + 1 \/ (i \in a + 1 .. m /\ i \in 1 .. m)
        OBVIOUS
      <4> QED BY <1>2, <3>2, <4>1
    <3>4. SubSeq(t, a + 1, a + l) = SubSeq(s, a + 1, a + l)
      <4>1. \A i \in a + 1 .. a + l : s[i] \in Words /\ t[i] = s[i]
        BY <1>2, <1>3, <3>2
      <4> QED BY <4>1, SamePart
    <3>5. SubSeq(t, a + l + 1, m + 1) = Append(SubSeq(s, a + l + 1, m), value)
      <4>1. PICK b \in Int, c \in Int : b = a + l + 1 /\ c = m + 1 /\ b <= c
        BY <1>2
      <4>2. \A i \in b .. m : s[i] \in Words /\ t[i] = s[i]
        BY <1>2, <1>3, <3>2, <4>1
      <4>3. t[c] = value
        BY <3>2, <4>1
      <4>4. SubSeq(t, b, c) = Append(SubSeq(s, b, m), value)
        BY <1>3, <4>1, <4>2, <4>3, PartAppend
      <4> QED BY <4>1, <4>4, Zenon
    <3>6. x = DecOf(s, d, h, n, lo, Append(ev, value))
      BY <1>4, <3>2, <3>4, <3>5, Zenon
    <3>7. Len(t) <= StackSize /\ Len(t) >= a + l /\ \A i \in 1 .. a : t[i] = s[i]
      <4>1. m < StackSize /\ \A i \in 1 .. a : i \in 1 .. m
        BY <1>0, <1>2, <2>1
      <4> QED BY <1>2, <3>2, <4>1
    <3> QED BY <2>1, <3>2, <3>3, <3>6, <3>7, Zenon
  <2>2. CASE v \in 1 .. 15
    <3>1. v \in 1 .. l /\ a + v \in 1 .. m /\ a + v \in a + 1 .. a + l
          /\ StackSize - ((StackSize - a) - v) = a + v
      <4>1. v <= LocalsIn(s, d[Len(d)])
        BY <2>2
      <4>2. v <= l
        BY <1>0, <4>1, Zenon
      <4> QED BY <1>2, <2>2, <4>2
    <3>2. t = [s EXCEPT ![a + v] = value]
      <4>1. v # 0 /\ v < 16
        BY <2>2
      <4> QED BY <1>1, <3>1, <4>1, Zenon DEF Stored
    <3>3. /\ t \in Seq(Words) /\ Len(t) = m
          /\ \A i \in 1 .. m : t[i] = IF i = a + v THEN value ELSE s[i]
      BY <1>2, <1>3, <3>1, <3>2, ExceptSeq
    <3>4. \A i \in a + 1 .. m : t[i] \in Held
      <4>1. \A i \in a + 1 .. m : i \in 1 .. m
        OBVIOUS
      <4> QED BY <1>2, <3>3, <4>1
    <3>5. SubSeq(t, a + 1, a + l) = [lo EXCEPT ![v] = value]
      <4>1. PICK b \in Int, c \in Int : b = a + 1 /\ c = a + l
        OBVIOUS
      <4>2. \A i \in b .. c : s[i] \in Words /\ (i # b + v - 1 => t[i] = s[i])
        BY <1>2, <1>3, <3>3, <4>1
      <4>3. v \in 1 .. c - b + 1 /\ t[b + v - 1] = value
        <5>1. v \in Nat /\ v >= 1 /\ v <= l /\ b + v - 1 = a + v
          BY <3>1, <4>1
        <5>2. t[a + v] = value
          BY <3>1, <3>3
        <5> QED BY <4>1, <5>1, <5>2
      <4>4. SubSeq(t, b, c) = [SubSeq(s, b, c) EXCEPT ![v] = value]
        <5>1. OneOther(s, t, b, c, v, Words, value)
          BY <1>3, <4>2, <4>3, Zenon DEF OneOther
        <5> QED BY <5>1, PartExcept
      <4> QED BY <1>4, <4>1, <4>4, Zenon
    <3>6. SubSeq(t, a + l + 1, m) = ev
      <4>1. PICK b \in Int : b = a + l + 1
        OBVIOUS
      <4>2. \A i \in b .. m : s[i] \in Words /\ t[i] = s[i]
        BY <1>2, <1>3, <3>1, <3>3, <4>1
      <4>3. SubSeq(t, b, m) = SubSeq(s, b, m)
        BY <4>2, SamePart
      <4> QED BY <1>4, <4>1, <4>3, Zenon
    <3>7. v # 0 /\ v \in DOMAIN lo
      <4>1. Len(lo) = l /\ lo \in Seq(Words)
        <5>1. \A i \in a + 1 .. a + l : s[i] \in Words
          BY <1>2, <1>3
        <5> QED BY <1>4, <5>1, SubSeqProperties
      <4> QED BY <2>2, <3>1, <4>1
    <3>8. x = DecOf(s, d, h, n, [lo EXCEPT ![v] = value], ev)
      BY <1>4, <3>3, <3>5, <3>6, Zenon
    <3>9. Len(t) <= StackSize /\ Len(t) >= a + l /\ \A i \in 1 .. a : t[i] = s[i]
      <4>1. \A i \in 1 .. a : i \in 1 .. m /\ i # a + v
        BY <1>2, <2>2
      <4> QED BY <1>2, <3>3, <4>1
    <3> QED BY <3>3, <3>4, <3>7, <3>8, <3>9, Zenon
  <2>3. CASE v >= 16
    <3>1. t = s
      <4>1. v # 0 /\ ~ (v < 16)
        BY <2>3
      <4> QED BY <1>1, <4>1, Zenon DEF Stored
    <3>2. v # 0 /\ v \notin DOMAIN lo
      <4>1. Len(lo) = l /\ lo \in Seq(Words)
        <5>1. \A i \in a + 1 .. a + l : s[i] \in Words
          BY <1>2, <1>3
        <5> QED BY <1>4, <5>1, SubSeqProperties
      <4>2. DOMAIN lo = 1 .. l
        BY <4>1
      <4> QED BY <1>2, <2>3, <4>2
    <3>3. Len(t) = m /\ Len(t) <= StackSize /\ Len(t) >= a + l
      BY <1>2, <3>1
    <3>4. x = DecOf(s, d, h, n, lo, ev)
      BY <1>4, <3>1, <3>3, Zenon
    <3> QED BY <1>2, <3>1, <3>2, <3>3, <3>4, Zenon
  <2>4. v = 0 \/ v \in 1 .. 15 \/ v >= 16
    OBVIOUS
  <2> QED BY <2>1, <2>2, <2>3, <2>4
<1>6. x = ZS!Stored(F[n], v, value)
  <2>1. F[n] = DecOf(s, d, h, n, lo, ev)
    BY <1>2, <1>4, Zenon
  <2>2. x = ZS!Stored(DecOf(s, d, h, n, lo, ev), v, value)
    <3>1. ZS!Stored(DecOf(s, d, h, n, lo, ev), v, value) =
            IF v = 0 THEN DecOf(s, d, h, n, lo, Append(ev, value))
            ELSE IF v \in DOMAIN lo THEN DecOf(s, d, h, n, [lo EXCEPT ![v] = value], ev)
            ELSE DecOf(s, d, h, n, lo, ev)
      BY DecStored, SMT
    <3>2. x = IF v = 0 THEN DecOf(s, d, h, n, lo, Append(ev, value))
              ELSE IF v \in DOMAIN lo THEN DecOf(s, d, h, n, [lo EXCEPT ![v] = value], ev)
              ELSE DecOf(s, d, h, n, lo, ev)
      BY <1>5
    <3> QED BY <3>1, <3>2
  <2> QED BY <2>1, <2>2, Zenon
<1>7. /\ Stack(t, d) /\ LoopsIn(t, d, n) = LoopsIn(s, d, n) /\ LocalsIn(t, a) = l
      /\ DecodedIn(t, d, h) = Append(SubSeq(F, 1, n - 1), x)
  <2>1. Change(s, d, h, n, t, d, h, l, x)
    BY <1>0, <1>2, <1>4, <1>5, Zenon DEF Change
  <2>2. /\ Stack(t, d) /\ LoopsIn(t, d, n) = LoopsIn(s, d, n) /\ LocalsIn(t, d[n]) = l
        /\ DecodedIn(t, d, h) = Append(SubSeq(DecodedIn(s, d, h), 1, n - 1), x)
    BY <1>2, <2>1, Changed
  <2> QED BY <1>0, <2>2, Zenon DEF F
<1> QED BY <1>0, <1>1, <1>6, <1>7, Zenon DEF F, TopBecomes

\* A sequence without the last of its members.
LEMMA DropLast ==
  ASSUME NEW S, NEW A \in Seq(S), NEW x \in S
  PROVE  SubSeq(Append(A, x), 1, Len(Append(A, x)) - 1) = A /\ Append(A, x) # <<>>
<1>0. PICK B : B = Append(A, x)
  OBVIOUS
<1>1. /\ B \in Seq(S) /\ B # <<>> /\ Len(B) = Len(A) + 1
      /\ \A i \in 1 .. Len(A) : B[i] = A[i]
  BY <1>0, AppendProperties
<1>2. PICK n \in Nat : n = Len(A)
  OBVIOUS
<1>3. \A i \in 1 .. n : B[i] \in S
  BY <1>1, <1>2
<1>4. PICK C : C = SubSeq(B, 1, n)
  OBVIOUS
<1>5. C \in Seq(S) /\ Len(C) = n /\ \A i \in 1 .. n : C[i] = B[i]
  <2>1. /\ SubSeq(B, 1, n) \in Seq(S) /\ Len(SubSeq(B, 1, n)) = n
        /\ \A i \in 1 .. n : SubSeq(B, 1, n)[i] = B[i]
    BY <1>3, FirstPart
  <2> QED BY <1>4, <2>1, Zenon
<1>6. C = A
  BY <1>1, <1>2, <1>5, SeqEqual
<1>7. Len(B) - 1 = n
  BY <1>1, <1>2
<1> QED BY <1>0, <1>1, <1>4, <1>6, <1>7, Zenon

\* A value taken from the frame on top.
LEMMA TakeTop ==
  ASSUME NEW s, NEW d, Stack(s, d), NEW h,
         Len(s) > d[Len(d)] + LocalsIn(s, d[Len(d)])
  PROVE  /\ TopBecomes(s, d, h, SubSeq(s, 1, Len(s) - 1), ZS!Pop(DecodedIn(s, d, h)[Len(d)]))
         /\ DecodedIn(s, d, h)[Len(d)].evals # <<>> /\ s[Len(s)] \in Held
<1> DEFINE F == DecodedIn(s, d, h)
<1>0. PICK n \in Nat, a \in Nat, l \in Nat, m \in Nat :
        n = Len(d) /\ a = d[n] /\ l = LocalsIn(s, a) /\ m = Len(s)
  <2>1. \A k \in 0 .. 15 : k \in Nat
    OBVIOUS
  <2> QED BY <2>1, TopFrame, Zenon
<1>1. PICK t : t = SubSeq(s, 1, m - 1)
  OBVIOUS
<1>2. /\ n \in 1 .. Len(d) /\ SubSeq(d, 1, n) = d /\ l <= 15 /\ m > a + l
      /\ s \in Seq(Words) /\ Len(s) = m /\ m <= StackSize /\ StackSize \in Nat
      /\ \A i \in a + 1 .. m : s[i] \in Held
      /\ F[n] = DecOf(s, d, h, n, SubSeq(s, a + 1, a + l), SubSeq(s, a + l + 1, m))
  <2>1. \A k \in 0 .. 15 : k <= 15
    OBVIOUS
  <2> QED BY <1>0, <2>1, TopFrame, Zenon
<1> HIDE DEF F
<1>3. \A i \in 1 .. m : s[i] \in Words
  BY <1>2
<1>4. PICK x, lo, ev, e1 : /\ lo = SubSeq(s, a + 1, a + l) /\ ev = SubSeq(s, a + l + 1, m)
                           /\ e1 = SubSeq(s, a + l + 1, m - 1)
                           /\ x = DecOf(s, d, h, n, SubSeq(t, a + 1, a + l),
                                        SubSeq(t, a + l + 1, Len(t)))
  OBVIOUS
<1>5. /\ t \in Seq(Words) /\ Len(t) = m - 1 /\ \A i \in 1 .. m - 1 : t[i] = s[i]
  <2>1. PICK c \in Nat : c = m - 1
    BY <1>2
  <2>2. t = SubSeq(s, 1, c) /\ \A i \in 1 .. c : s[i] \in Words
    BY <1>1, <1>3, <2>1
  <2> QED BY <2>1, <2>2, FirstPart
<1>6. x = DecOf(s, d, h, n, lo, e1)
  <2>1. PICK b \in Int, c \in Int, b1 \in Int, c1 \in Int :
          b = a + 1 /\ c = a + l /\ b1 = a + l + 1 /\ c1 = m - 1
    OBVIOUS
  <2>2. \A i \in b .. c : s[i] \in Words /\ t[i] = s[i]
    BY <1>2, <1>3, <1>5, <2>1
  <2>3. \A i \in b1 .. c1 : s[i] \in Words /\ t[i] = s[i]
    BY <1>2, <1>3, <1>5, <2>1
  <2>4. SubSeq(t, b, c) = SubSeq(s, b, c) /\ SubSeq(t, b1, c1) = SubSeq(s, b1, c1)
    BY <2>2, <2>3, SamePart
  <2> QED BY <1>4, <1>5, <2>1, <2>4, Zenon
<1>7. ev = Append(e1, s[m]) /\ SubSeq(ev, 1, Len(ev) - 1) = e1 /\ ev # <<>>
  <2>1. PICK b \in Int, c \in Int : b = a + l + 1 /\ c = m - 1 /\ m = c + 1 /\ b <= m
    BY <1>2
  <2>2. \A i \in b .. c : s[i] \in Words /\ s[i] = s[i]
    BY <1>2, <1>3, <2>1
  <2>3. s[m] \in Words
    BY <1>2, <1>3
  <2>4. SubSeq(s, b, m) = Append(SubSeq(s, b, c), s[m])
    BY <2>1, <2>2, <2>3, PartAppend
  <2>5. e1 \in Seq(Words)
    BY <1>4, <2>1, <2>2, SubSeqProperties
  <2>6. ev = Append(e1, s[m])
    BY <1>4, <2>1, <2>4, Zenon
  <2> QED BY <2>3, <2>5, <2>6, DropLast
<1>8. x = ZS!Pop(F[n]) /\ F[n].evals # <<>>
  <2> DEFINE r == IF n = 1 THEN 0 ELSE ReturnIn(s, d[n])
             c == IF n = 1 THEN 1 ELSE KindIn(s, d[n])
             ac == IF n = 1 THEN 0 ELSE s[d[n]] % 256
             w == IF n > 1 /\ KindIn(s, d[n]) = 2 THEN h[LoopsIn(s, d, n)] ELSE <<>>
  <2>1. \A u, v : DecOf(s, d, h, n, u, v) =
          [ret |-> r, kind |-> c, argc |-> ac, locals |-> u, evals |-> v, waiting |-> w]
    BY Zenon DEF DecOf
  <2> HIDE DEF r, c, ac, w
  <2>2. PICK z : z = F[n]
    OBVIOUS
  <2>3. z = [ret |-> r, kind |-> c, argc |-> ac, locals |-> lo, evals |-> ev, waiting |-> w]
    BY <1>2, <1>4, <2>1, <2>2, Zenon
  <2>4. z.evals = ev
    BY <2>3
  <2>5. [z EXCEPT !.evals = e1] =
          [ret |-> r, kind |-> c, argc |-> ac, locals |-> lo, evals |-> e1, waiting |-> w]
    BY <2>3
  <2>6. ZS!Pop(z) = [z EXCEPT !.evals = SubSeq(z.evals, 1, Len(z.evals) - 1)]
    BY DEF ZS!Pop
  <2>7. ZS!Pop(z) = [z EXCEPT !.evals = e1]
    BY <1>7, <2>4, <2>6
  <2>8. x = [z EXCEPT !.evals = e1]
    BY <1>6, <2>1, <2>5, Zenon
  <2> QED BY <1>7, <2>2, <2>4, <2>7, <2>8
<1>9. /\ Stack(t, d) /\ LoopsIn(t, d, n) = LoopsIn(s, d, n) /\ LocalsIn(t, a) = l
      /\ DecodedIn(t, d, h) = Append(SubSeq(F, 1, n - 1), x)
  <2>1. Change(s, d, h, n, t, d, h, l, x)
    <3>1. Len(t) <= StackSize /\ Len(t) >= a + l
      BY <1>2, <1>5
    <3>2. \A i \in 1 .. a : t[i] = s[i]
      BY <1>2, <1>5
    <3>3. \A i \in a + 1 .. Len(t) : t[i] \in Held
      <4>1. \A i \in a + 1 .. m - 1 : i \in 1 .. m - 1 /\ i \in a + 1 .. m
        OBVIOUS
      <4> QED BY <1>2, <1>5, <4>1
    <3> QED BY <1>0, <1>2, <1>4, <1>5, <3>1, <3>2, <3>3, Zenon DEF Change
  <2>2. /\ Stack(t, d) /\ LoopsIn(t, d, n) = LoopsIn(s, d, n) /\ LocalsIn(t, d[n]) = l
        /\ DecodedIn(t, d, h) = Append(SubSeq(DecodedIn(s, d, h), 1, n - 1), x)
    BY <1>2, <2>1, Changed
  <2> QED BY <1>0, <2>2, Zenon DEF F
<1>10. s[m] \in Held
  BY <1>2
<1> QED BY <1>0, <1>1, <1>8, <1>9, <1>10, Zenon DEF F, TopBecomes

\* The words t and the row e are those up to the frame j.
CutTo(s, d, h, g, j, t, e) ==
  /\ Stack(t, e) /\ LoopsIn(t, e, j) = LoopsIn(s, d, j)
  /\ Len(e) = j /\ e[j] = d[j] /\ Len(t) = TopIn(s, d, j)
  /\ LocalsIn(t, d[j]) = LocalsIn(s, d[j])
  /\ DecodedIn(t, e, g) = SubSeq(DecodedIn(s, d, h), 1, j)

\* All above the frame j goes.
LEMMA CutFrames ==
  ASSUME NEW s, NEW d, Stack(s, d), NEW h, NEW g, NEW j \in 1 .. Len(d),
         \A i \in 1 .. LoopsIn(s, d, j) : g[i] = h[i]
  PROVE  CutTo(s, d, h, g, j, SubSeq(s, 1, TopIn(s, d, j)), SubSeq(d, 1, j))
<1>0. PICK a \in Nat, l \in Nat, m \in Nat :
        a = d[j] /\ l = LocalsIn(s, a) /\ m = TopIn(s, d, j)
  <2>1. \A k \in 0 .. 15 : k \in Nat
    OBVIOUS
  <2> QED BY <2>1, Places, Zenon
<1>1. PICK t, e, x : /\ t = SubSeq(s, 1, m) /\ e = SubSeq(d, 1, j)
                     /\ x = DecOf(s, d, h, j, SubSeq(t, a + 1, a + l), SubSeq(t, a + l + 1, Len(t)))
  OBVIOUS
<1>2. /\ a + l <= m /\ m <= Len(s) /\ Len(s) <= StackSize /\ StackSize \in Nat /\ Len(s) \in Nat
      /\ s \in Seq(Words)
  BY <1>0, Places, Zenon DEF Stack
<1>3. \A i \in 1 .. m : s[i] \in Words
  BY <1>2
<1>4. t \in Seq(Words) /\ Len(t) = m /\ \A i \in 1 .. m : t[i] = s[i]
  BY <1>1, <1>3, FirstPart
<1>5. Change(s, d, h, j, t, e, g, l, x)
  <2>1. Len(t) <= StackSize /\ Len(t) >= a + l
    BY <1>2, <1>4
  <2>2. \A i \in 1 .. a : t[i] = s[i]
    BY <1>2, <1>4
  <2>3. \A i \in a + 1 .. Len(t) : t[i] \in Held
    <3>1. \A i \in d[j] + 1 .. TopIn(s, d, j) : s[i] \in Held
      BY Zenon DEF Stack, Plain
    <3>2. \A i \in a + 1 .. m : s[i] \in Held
      BY <1>0, <3>1, Zenon
    <3>3. \A i \in a + 1 .. m : i \in 1 .. m
      OBVIOUS
    <3> QED BY <1>4, <3>2, <3>3
  <2> QED BY <1>0, <1>1, <1>4, <2>1, <2>2, <2>3, Zenon DEF Change
<1>6. x = DecIn(s, d, h, j)
  <2>1. PICK b \in Int, c \in Int, b1 \in Int : b = a + 1 /\ c = a + l /\ b1 = a + l + 1
    OBVIOUS
  <2>2. \A i \in b .. c : s[i] \in Words /\ t[i] = s[i]
    BY <1>2, <1>3, <1>4, <2>1
  <2>3. \A i \in b1 .. m : s[i] \in Words /\ t[i] = s[i]
    BY <1>2, <1>3, <1>4, <2>1
  <2>4. SubSeq(t, b, c) = SubSeq(s, b, c)
    BY <2>2, SamePart, SMTT(20)
  <2>4a. SubSeq(t, b1, m) = SubSeq(s, b1, m)
    BY <2>3, SamePart
  <2> QED BY <1>0, <1>1, <1>4, <2>1, <2>4, <2>4a, Zenon DEF DecIn, LocalsOf, EvalsOf
<1>7. /\ Stack(t, e) /\ Len(e) = j /\ e[j] = d[j] /\ LoopsIn(t, e, j) = LoopsIn(s, d, j)
      /\ LocalsIn(t, d[j]) = l
      /\ DecodedIn(t, e, g) = SubSeq(DecodedIn(s, d, h), 1, j)
  BY <1>5, <1>6, Changed
<1> QED BY <1>0, <1>1, <1>4, <1>7, Zenon DEF CutTo

-----------------------------------------------------------------------------
(* Calls.                                                                  *)

\* G is F, which has n members, and one more.
OneMore(F, G, n) ==
  /\ F = [k \in 1 .. n |-> F[k]] /\ G = [k \in 1 .. n + 1 |-> G[k]]
  /\ \A k \in 1 .. n : G[k] = F[k]

\* A row with one more member.
LEMMA RowMore ==
  ASSUME NEW n \in Nat, NEW F, NEW G, OneMore(F, G, n)
  PROVE  G = Append(F, G[n + 1])
<1>0. /\ F = [k \in 1 .. n |-> F[k]] /\ G = [k \in 1 .. n + 1 |-> G[k]]
      /\ \A k \in 1 .. n : G[k] = F[k]
  BY Zenon DEF OneMore
<1> DEFINE S == {F[k] : k \in 1 .. n} \cup {G[n + 1]}
<1>1. (\A k \in 1 .. n : F[k] \in S) /\ G[n + 1] \in S
  OBVIOUS
<1>2. \A k \in 1 .. n + 1 : G[k] \in S
  <2> TAKE k \in 1 .. n + 1
  <2>1. k \in 1 .. n \/ k = n + 1
    OBVIOUS
  <2> QED BY <1>0, <1>1, <2>1
<1> HIDE DEF S
<1>3. F \in [1 .. n -> S] /\ G \in [1 .. n + 1 -> S]
  BY <1>0, <1>1, <1>2
<1>4. F \in Seq(S) /\ G \in Seq(S) /\ Len(F) = n /\ Len(G) = n + 1
  BY <1>3
<1>5. PICK x, A : x = G[n + 1] /\ A = Append(F, x)
  OBVIOUS
<1>6. /\ A \in Seq(S) /\ Len(A) = n + 1
      /\ \A k \in 1 .. n : A[k] = F[k]
      /\ A[n + 1] = x
  BY <1>1, <1>4, <1>5, AppendProperties
<1>7. \A k \in 1 .. Len(G) : G[k] = A[k]
  <2> TAKE k \in 1 .. Len(G)
  <2>1. k \in 1 .. n \/ k = n + 1
    BY <1>4
  <2> QED BY <1>0, <1>5, <1>6, <2>1
<1>8. G = A
  BY <1>4, <1>6, <1>7, SeqEqual
<1> QED BY <1>5, <1>8, Zenon

\* The locals of a routine that is called.
LocalsFrom(args, count) == [i \in 1 .. count |-> IF i <= Len(args) THEN args[i] ELSE 0]

High(p) == p \div 512
Low(p) == p % 512
Counts(args, kind, count) == CountsWord(Len(args), count, kind)

\* The words of a stack once a routine is called from p.
Called(s, d, p, args, kind, count) ==
  (s \o <<High(p), Low(p), StackSize - d[Len(d)] - 1, Counts(args, kind, count)>>)
    \o LocalsFrom(args, count)

\* What a call needs.
Callable(s, d, p, args, kind, count) ==
  /\ p \in Codes /\ args \in Seq(Values) /\ Len(args) <= 7 /\ kind \in 0 .. 2 /\ count \in 0 .. 15
  /\ Len(s) + 4 + count <= StackSize
  /\ kind = 0 => /\ p \in DOMAIN Variable
                 /\ Variable[p] \in 1 .. 15 => Variable[p] <= LocalsIn(s, d[Len(d)])

\* The words t of a stack whose new frame is at c.
NewWords(s, d, p, args, kind, count, t, c) ==
  /\ t \in Seq(Words) /\ Len(t) = c + count
  /\ \A i \in 1 .. Len(s) : t[i] = s[i]
  /\ t[c - 1] = StackSize - d[Len(d)] - 1
  /\ \A i \in 1 .. count : t[c + i] = LocalsFrom(args, count)[i]
  /\ LocalsFrom(args, count) \in Seq(Values) /\ Len(LocalsFrom(args, count)) = count
  /\ t[c] \in KindWords /\ KindIn(t, c) = kind /\ LocalsIn(t, c) = count /\ t[c] % 256 = Len(args)
  /\ t[c - 3] \in HighWords /\ t[c - 2] \in LowWords /\ ReturnIn(t, c) = p

\* The words of a call.
LEMMA CalledWords ==
  ASSUME NEW s, NEW d, Stack(s, d), NEW p, NEW args, NEW kind, NEW count,
         Callable(s, d, p, args, kind, count)
  PROVE  NewWords(s, d, p, args, kind, count, Called(s, d, p, args, kind, count), Len(s) + 4)
<1>1. PICK n, a, m : n = Len(d) /\ a = d[n] /\ m = Len(s)
  OBVIOUS
<1>2. /\ a \in Nat /\ m \in Nat /\ a <= m /\ m <= StackSize /\ StackSize \in Nat
      /\ s \in Seq(Words)
  <2>1. /\ d[n] + LocalsIn(s, d[n]) <= Len(s) /\ d[n] \in Nat /\ LocalsIn(s, d[n]) \in 0 .. 15
        /\ Len(s) \in Nat
    BY <1>1, TopFrame, Zenon
  <2>2. PICK l \in 0 .. 15, b \in Nat : l = LocalsIn(s, d[n]) /\ b = d[n]
    BY <2>1, Zenon
  <2>3. b + l <= m /\ m \in Nat
    BY <1>1, <2>1, <2>2, Zenon
  <2>4. b <= m
    BY <2>3
  <2> QED BY <1>1, <2>2, <2>4, TopFrame, Zenon
<1>3. /\ p \in Codes /\ args \in Seq(Values) /\ Len(args) <= 7 /\ kind \in 0 .. 2 /\ count \in 0 .. 15
      /\ m + 4 + count <= StackSize
  BY <1>1, Zenon DEF Callable
<1>4. PICK A, B, C, D :
        A = High(p) /\ B = Low(p) /\ C = StackSize - a - 1 /\ D = Counts(args, kind, count)
  OBVIOUS
<1>5. A \in HighWords /\ B \in LowWords /\ 512 * A + B = p
  BY <1>3, <1>4, AddressParts DEF High, Low
<1>6. /\ D \in KindWords /\ D \div 4096 = kind /\ (D \div 256) % 16 = count /\ D % 256 = Len(args)
  <2>0. Len(args) \in 0 .. 7
    <3>1. Len(args) \in Nat /\ Len(args) <= 7
      BY <1>3
    <3>2. \A x \in Nat : x <= 7 => x \in 0 .. 7
      OBVIOUS
    <3> QED BY <3>1, <3>2, Zenon
  <2>1. HasParts(D, Len(args), count, kind)
    BY <1>3, <1>4, <2>0, PackedParts, Zenon DEF Counts
  <2> QED BY <2>1, SMT DEF HasParts
<1>7. A \in Words /\ B \in Words /\ C \in Words /\ D \in Words
  <2>1. StackSize <= 65536
    BY HeldAreWords
  <2>2. A \in Words /\ B \in Words
    BY <1>5, SMT DEF HighWords, LowWords, Words
  <2>3. C \in Words
    BY <1>2, <1>3, <1>4, <2>1, SMT DEF Words
  <2>4. D \in Words
    BY <1>6, SMT DEF KindWords, Words
  <2> QED BY <2>2, <2>3, <2>4
<1>8. PICK L : L = LocalsFrom(args, count)
  OBVIOUS
<1>9. L \in Seq(Values) /\ Len(L) = count
  <2>1. \A i \in 1 .. count : (IF i <= Len(args) THEN args[i] ELSE 0) \in Values
    <3>1. 0 \in Values
      BY StackAssumption, SMT
    <3> QED BY <1>3, <3>1
  <2>2. L \in [1 .. count -> Values]
    BY <1>8, <2>1 DEF LocalsFrom
  <2> QED BY <1>3, <2>2
<1>10. L \in Seq(Words)
  BY <1>9, HeldAreWords, SeqMonotonic DEF Held
<1>11. PICK four : four = <<A, B, C, D>>
  OBVIOUS
<1>12. four \in Seq(Words) /\ Len(four) = 4
       /\ four[1] = A /\ four[2] = B /\ four[3] = C /\ four[4] = D
  BY <1>7, <1>11
<1>13. PICK u, t : u = s \o four /\ t = u \o L
  OBVIOUS
<1>14. /\ u \in Seq(Words) /\ Len(u) = m + 4
       /\ \A i \in 1 .. m + 4 : u[i] = IF i <= m THEN s[i] ELSE four[i - m]
  <2>1. /\ s \o four \in Seq(Words) /\ Len(s \o four) = Len(s) + Len(four)
        /\ \A i \in 1 .. Len(s) + Len(four) :
             (s \o four)[i] = IF i <= Len(s) THEN s[i] ELSE four[i - Len(s)]
    BY <1>2, <1>12, ConcatProperties
  <2> QED BY <1>1, <1>12, <1>13, <2>1
<1>15. /\ t \in Seq(Words) /\ Len(t) = m + 4 + count
       /\ \A i \in 1 .. m + 4 + count : t[i] = IF i <= m + 4 THEN u[i] ELSE L[i - (m + 4)]
  <2>1. L \in Seq(Words) /\ Len(L) = count
    BY <1>9, <1>10
  <2>2. /\ u \o L \in Seq(Words) /\ Len(u \o L) = Len(u) + Len(L)
        /\ \A i \in 1 .. Len(u) + Len(L) :
             (u \o L)[i] = IF i <= Len(u) THEN u[i] ELSE L[i - Len(u)]
    BY <1>14, <2>1, ConcatProperties
  <2> QED BY <1>13, <1>14, <2>1, <2>2
<1>16. \A i \in 1 .. m : t[i] = s[i]
  <2>1. \A i \in 1 .. m : i \in 1 .. m + 4 /\ i \in 1 .. m + 4 + count /\ i <= m + 4 /\ i <= m
    BY <1>2, <1>3
  <2> QED BY <1>14, <1>15, <2>1
<1>17. t[m + 1] = A /\ t[m + 2] = B /\ t[m + 3] = C /\ t[m + 4] = D
  <2> DEFINE P(i) == i \in 1 .. m + 4 /\ i \in 1 .. m + 4 + count /\ i <= m + 4 /\ ~ (i <= m)
  <2>1. /\ P(m + 1) /\ P(m + 2) /\ P(m + 3) /\ P(m + 4)
        /\ (m + 1) - m = 1 /\ (m + 2) - m = 2 /\ (m + 3) - m = 3 /\ (m + 4) - m = 4
    BY <1>2, <1>3
  <2>2. ASSUME NEW i, P(i) PROVE t[i] = four[i - m]
    BY <1>14, <1>15, <2>2
  <2> HIDE DEF P
  <2> QED BY <1>12, <2>1, <2>2
<1>18. \A i \in 1 .. count : t[m + 4 + i] = L[i]
  <2> TAKE i \in 1 .. count
  <2>1. PICK x : x = m + 4 + i
    OBVIOUS
  <2>2. x \in 1 .. m + 4 + count /\ ~ (x <= m + 4) /\ x - (m + 4) = i
    BY <1>2, <1>3, <2>1
  <2> QED BY <1>15, <2>1, <2>2
<1>19. t = Called(s, d, p, args, kind, count)
  <2>1. four = <<High(p), Low(p), StackSize - d[Len(d)] - 1, Counts(args, kind, count)>>
    BY <1>1, <1>4, <1>11
  <2> QED BY <1>8, <1>13, <2>1, Zenon DEF Called
<1>20. t[m + 3] = StackSize - a - 1
  BY <1>4, <1>17, Zenon
<1>21. /\ t[m + 4] \in KindWords /\ t[m + 4] % 256 = Len(args)
       /\ t[m + 1] \in HighWords /\ t[m + 2] \in LowWords
  <2>1. t[m + 4] \in KindWords
    BY <1>6, <1>17
  <2>2. t[m + 4] % 256 = Len(args)
    BY <1>6, <1>17
  <2>3. t[m + 1] \in HighWords /\ t[m + 2] \in LowWords
    BY <1>5, <1>17, Zenon
  <2> QED BY <2>1, <2>2, <2>3
<1>22. KindIn(t, m + 4) = kind /\ LocalsIn(t, m + 4) = count /\ ReturnIn(t, m + 4) = p
  <2>1. m + 4 # 0 /\ (m + 4) - 3 = m + 1 /\ (m + 4) - 2 = m + 2
    BY <1>2
  <2> QED BY <1>5, <1>6, <1>17, <2>1 DEF KindIn, LocalsIn, ReturnIn
<1>23. NewWords(s, d, p, args, kind, count, t, m + 4)
  <2>1. (m + 4) - 1 = m + 3 /\ (m + 4) - 3 = m + 1 /\ (m + 4) - 2 = m + 2
    BY <1>2
  <2> QED BY <1>1, <1>8, <1>9, <1>15, <1>16, <1>18, <1>20, <1>21, <1>22, <2>1, Zenon DEF NewWords
<1> QED BY <1>1, <1>19, <1>23, Zenon

\* With its words, a routine that is called is one more frame.
LEMMA CallStack ==
  ASSUME NEW s, NEW d, Stack(s, d), NEW p, NEW args, NEW kind, NEW count,
         Callable(s, d, p, args, kind, count)
  PROVE  Stack(Called(s, d, p, args, kind, count), Append(d, Len(s) + 4))
<1>0. PICK n \in Nat, a \in Nat, l \in Nat, m \in Nat :
        n = Len(d) /\ a = d[n] /\ l = LocalsIn(s, a) /\ m = Len(s)
  <2>1. \A k \in 0 .. 15 : k \in Nat
    OBVIOUS
  <2> QED BY <2>1, TopFrame, Zenon
<1>1. PICK t, e, c : /\ t = Called(s, d, p, args, kind, count) /\ c = m + 4 /\ e = Append(d, c)
  OBVIOUS
<1>2. /\ n >= 1 /\ a + l <= m /\ m <= StackSize /\ StackSize \in Nat /\ Len(d) = n /\ Len(s) = m
      /\ c \in Nat /\ c = m + 4
  <2>1. c \in Nat
    BY <1>1
  <2> QED BY <1>0, <1>1, <2>1, TopFrame, Zenon
<1>2a. NewWords(s, d, p, args, kind, count, t, c)
  BY <1>0, <1>1, CalledWords, Zenon
<1>3. /\ t \in Seq(Words) /\ Len(t) = c + count
      /\ \A i \in 1 .. m : t[i] = s[i]
      /\ \A i \in 1 .. count : t[c + i] = LocalsFrom(args, count)[i]
      /\ LocalsFrom(args, count) \in Seq(Values) /\ Len(LocalsFrom(args, count)) = count
  BY <1>0, <1>2a, Zenon DEF NewWords
<1>3b. SameTo(s, t, m)
  BY <1>3 DEF SameTo
<1>4. /\ t[c - 1] = StackSize - a - 1
      /\ t[c] \in KindWords /\ KindIn(t, c) = kind /\ LocalsIn(t, c) = count
      /\ t[c - 3] \in HighWords /\ t[c - 2] \in LowWords /\ ReturnIn(t, c) = p
  BY <1>0, <1>2a, Zenon DEF NewWords
<1>5. /\ p \in Codes /\ kind \in 0 .. 2 /\ count \in 0 .. 15 /\ c + count <= StackSize
      /\ kind = 0 => p \in DOMAIN Variable /\ (Variable[p] \in 1 .. 15 => Variable[p] <= l)
  BY <1>0, <1>1, Zenon DEF Callable
<1>6. /\ e \in Seq(Nat) /\ Len(e) = n + 1 /\ e[n + 1] = c
      /\ \A k \in 1 .. n : e[k] = d[k]
  <2>1. d \in Seq(Nat)
    BY DEF Stack
  <2> QED BY <1>1, <1>2, <2>1, AppendProperties
<1>7. /\ \A k \in 1 .. n : k \in 1 .. Len(d) /\ d[k] \in Nat /\ d[k] <= m
      /\ \A k \in 1 .. n : LocalsIn(t, d[k]) = LocalsIn(s, d[k])
  <2>1. \A k \in 1 .. n : k \in 1 .. Len(d) /\ d[k] \in Nat /\ d[k] <= m
    BY <1>2, Places
  <2>2. \A k \in 1 .. n : LocalsIn(t, d[k]) = LocalsIn(s, d[k])
    BY <1>3b, <2>1, SameFrames
  <2> QED BY <2>1, <2>2
<1>8. Frames(t, e)
  <2> SUFFICES ASSUME NEW k \in 2 .. Len(e) PROVE FrameIn(t, e[k], e[k - 1])
    BY DEF Frames
  <2>1. CASE k = n + 1
    <3>1. k - 1 = n /\ n \in 1 .. n
      BY <1>2, <2>1
    <3>2. e[k] = c /\ e[k - 1] = a
      BY <1>0, <1>6, <2>1, <3>1
    <3>4. LocalsIn(t, a) = l
      BY <1>0, <1>7, <3>1
    <3>5. FrameIn(t, c, a)
      BY <1>4, <1>5, <3>4, Zenon DEF FrameIn
    <3> QED BY <3>2, <3>5, Zenon
  <2>2. CASE k # n + 1
    <3>1. k \in 2 .. n /\ k \in 1 .. n /\ k - 1 \in 1 .. n /\ k \in 2 .. Len(d)
      BY <1>2, <1>6, <2>2
    <3>2. FrameIn(s, d[k], d[k - 1])
      BY <3>1 DEF Stack, Frames
    <3>2b. d[k] >= 4
      BY <1>2, <3>1, Places
    <3>3. d[k] \in Nat /\ d[k - 1] \in Nat /\ d[k] <= m /\ d[k - 1] <= m
      BY <1>7, <3>1
    <3>4. FrameIn(t, d[k], d[k - 1])
      BY <1>3b, <3>2, <3>2b, <3>3, SameFrames
    <3> QED BY <1>6, <3>1, <3>4
  <2> QED BY <2>1, <2>2
<1>9. Apart(t, e)
  <2>1. ASSUME NEW k \in 1 .. Len(e) PROVE e[k] >= 4 * (k - 1)
    <3>1. CASE k \in 1 .. n
      BY <1>6, <1>7, <3>1 DEF Stack, Apart
    <3>2. CASE k = n + 1
      <4>1. a >= 4 * (n - 1)
        BY <1>0, <1>2 DEF Stack, Apart
      <4> QED BY <1>2, <1>6, <3>2, <4>1
    <3> QED BY <1>6, <3>1, <3>2
  <2>2. ASSUME NEW k \in 1 .. Len(e), NEW i \in 1 .. k - 1
        PROVE  e[i] + LocalsIn(t, e[i]) + 4 <= e[k]
    <3>1. i \in 1 .. n
      BY <1>6
    <3>2. CASE k \in 1 .. n
      <4>1. d[i] + LocalsIn(s, d[i]) + 4 <= d[k]
        BY <1>2, <3>2 DEF Stack, Apart
      <4> QED BY <1>6, <1>7, <3>1, <3>2, <4>1
    <3>3. CASE k = n + 1
      <4>1. i \in 1 .. Len(d)
        BY <1>2, <3>1
      <4>2. /\ d[i] \in Nat /\ LocalsIn(s, d[i]) \in 0 .. 15
            /\ d[i] + LocalsIn(s, d[i]) <= TopIn(s, d, i) /\ TopIn(s, d, i) <= Len(s)
            /\ TopIn(s, d, i) \in Nat
        BY <4>1, Places
      <4>2a. \A x \in 0 .. 15 : x \in Nat
        OBVIOUS
      <4>3. PICK x \in Nat, y \in Nat, z \in Nat :
              x = d[i] /\ y = LocalsIn(s, d[i]) /\ z = TopIn(s, d, i)
        BY <4>2, <4>2a, Zenon
      <4>4. x + y <= z /\ z <= m
        BY <1>0, <4>2, <4>3, Zenon
      <4>5. x + y + 4 <= c
        BY <1>2, <4>4
      <4>6. e[i] = x /\ LocalsIn(t, x) = y /\ e[k] = c
        BY <1>6, <1>7, <3>1, <3>3, <4>3
      <4> QED BY <4>5, <4>6
    <3> QED BY <1>6, <3>2, <3>3
  <2>3. e[Len(e)] + LocalsIn(t, e[Len(e)]) <= Len(t)
    BY <1>2, <1>3, <1>4, <1>5, <1>6
  <2> QED BY <2>1, <2>2, <2>3 DEF Apart
<1>10. Plain(t, e)
  <2> SUFFICES ASSUME NEW k \in 1 .. Len(e), NEW i \in e[k] + 1 .. TopIn(t, e, k)
               PROVE  t[i] \in Held
    BY DEF Plain
  <2>1. CASE k = n + 1
    <3>1. TopIn(t, e, k) = c + count /\ e[k] = c
      BY <1>3, <1>6, <2>1 DEF TopIn
    <3>2. PICK x \in Int : x = i - c
      BY <1>2, <1>5, <3>1
    <3>3. x \in 1 .. count /\ i = c + x
      BY <1>2, <1>5, <3>1, <3>2
    <3>4. t[i] = LocalsFrom(args, count)[x]
      BY <1>3, <3>3
    <3>5. LocalsFrom(args, count)[x] \in Values
      BY <1>3, <3>3
    <3> QED BY <3>4, <3>5 DEF Held
  <2>2. CASE k # n + 1
    <3>1. k \in 1 .. n /\ e[k] = d[k] /\ k + 1 \in 1 .. n + 1 /\ k # Len(e)
      BY <1>6, <2>2
    <3>2. TopIn(t, e, k) = TopIn(s, d, k)
      <4>1. TopIn(t, e, k) = e[k + 1] - 4
        BY <3>1 DEF TopIn
      <4>2. CASE k = n
        BY <1>2, <1>6, <4>1, <4>2 DEF TopIn
      <4>3. CASE k # n
        <5>1. k + 1 \in 1 .. n
          BY <3>1, <4>3
        <5> QED BY <1>2, <1>6, <4>1, <4>3, <5>1 DEF TopIn
      <4> QED BY <4>2, <4>3
    <3>3. i \in d[k] + 1 .. TopIn(s, d, k)
      BY <3>1, <3>2, Zenon
    <3>4. s[i] \in Held
      BY <1>7, <3>1, <3>3 DEF Stack, Plain
    <3>5. TopIn(s, d, k) \in Nat /\ TopIn(s, d, k) <= m /\ d[k] \in Nat
      BY <1>0, <1>7, <3>1, Places
    <3>6. i \in 1 .. m
      BY <3>3, <3>5
    <3> QED BY <1>3, <3>4, <3>6
  <2> QED BY <2>1, <2>2
<1>11. Len(t) <= StackSize /\ Len(e) >= 1 /\ e[1] = 0
  <2>1. d[1] = 0 /\ 1 \in 1 .. n
    BY <1>2 DEF Stack
  <2> QED BY <1>3, <1>5, <1>6, <2>1
<1>12. Stack(t, e)
  BY <1>3, <1>6, <1>8, <1>9, <1>10, <1>11, Zenon DEF Stack
<1> QED BY <1>0, <1>1, <1>12, Zenon

\* With the words t and the row e there is one more frame, x, of a call of some kind.
OneMoreFrame(s, d, h, g, t, e, kind, x) ==
  /\ Len(e) = Len(d) + 1 /\ e[Len(e)] = Len(s) + 4
  /\ LoopsIn(t, e, Len(e)) = LoopsIn(s, d, Len(d)) + (IF kind = 2 THEN 1 ELSE 0)
  /\ DecodedIn(t, e, g) = Append(DecodedIn(s, d, h), x)

\* The direct calls g keep what the l ones of h keep, and wait is that of one more.
Keeps(h, g, l, kind, wait) ==
  /\ \A i \in 1 .. l : g[i] = h[i]
  /\ wait = IF kind = 2 THEN g[l + 1] ELSE <<>>

\* It is decoded to the frame that a call makes.
LEMMA CallFrames ==
  ASSUME NEW s, NEW d, Stack(s, d), NEW p, NEW args, NEW kind, NEW count,
         Callable(s, d, p, args, kind, count), NEW h, NEW g, NEW wait,
         Keeps(h, g, LoopsIn(s, d, Len(d)), kind, wait)
  PROVE  OneMoreFrame(s, d, h, g, Called(s, d, p, args, kind, count), Append(d, Len(s) + 4),
                      kind, ZS!Frame(p, kind, args, count, wait))
<1>00. /\ \A i \in 1 .. LoopsIn(s, d, Len(d)) : g[i] = h[i]
       /\ wait = IF kind = 2 THEN g[LoopsIn(s, d, Len(d)) + 1] ELSE <<>>
  BY DEF Keeps
<1>0. PICK n \in Nat, a \in Nat, l \in Nat, m \in Nat :
        n = Len(d) /\ a = d[n] /\ l = LocalsIn(s, a) /\ m = Len(s)
  <2>1. \A k \in 0 .. 15 : k \in Nat
    OBVIOUS
  <2> QED BY <2>1, TopFrame, Zenon
<1>1. PICK t, e, c, L :
        /\ t = Called(s, d, p, args, kind, count) /\ c = m + 4 /\ e = Append(d, c)
        /\ L = LocalsFrom(args, count)
  OBVIOUS
<1>2. /\ n >= 1 /\ a + l <= m /\ Len(d) = n /\ Len(s) = m /\ c \in Nat /\ c = m + 4 /\ s \in Seq(Words)
  <2>1. c \in Nat
    BY <1>1
  <2> QED BY <1>0, <1>1, <2>1, TopFrame, Zenon
<1>3. NewWords(s, d, p, args, kind, count, t, c)
  BY <1>0, <1>1, CalledWords, Zenon
<1>4. /\ t \in Seq(Words) /\ Len(t) = c + count
      /\ \A i \in 1 .. m : t[i] = s[i]
      /\ \A i \in 1 .. count : t[c + i] = L[i]
      /\ L \in Seq(Values) /\ Len(L) = count
      /\ KindIn(t, c) = kind /\ LocalsIn(t, c) = count /\ t[c] % 256 = Len(args) /\ ReturnIn(t, c) = p
  BY <1>0, <1>1, <1>3, Zenon DEF NewWords
<1>5. /\ e \in Seq(Nat) /\ Len(e) = n + 1 /\ e[n + 1] = c
      /\ \A k \in 1 .. n : e[k] = d[k]
  <2>1. d \in Seq(Nat)
    BY DEF Stack
  <2> QED BY <1>1, <1>2, <2>1, AppendProperties
<1>6. /\ \A k \in 1 .. n : LoopsIn(t, e, k) = LoopsIn(s, d, k)
      /\ \A k \in 1 .. n : \A u, v : DecOf(t, e, g, k, u, v) = DecOf(s, d, h, k, u, v)
      /\ \A k \in 1 .. n - 1 : DecIn(t, e, g, k) = DecIn(s, d, h, k)
  <2>1. Agree(s, d, h, n, t, e, g)
    <3>1. \A i \in 1 .. a : t[i] = s[i]
      BY <1>2, <1>4
    <3>2. Len(e) \in Nat /\ Len(e) >= n
      BY <1>5
    <3> QED BY <1>0, <1>00, <1>5, <3>1, <3>2, Zenon DEF Agree
  <2>2. n \in 1 .. Len(d)
    BY <1>2
  <2> QED BY <2>1, <2>2, SameDecoded
<1>7. LoopsIn(t, e, n + 1) = LoopsIn(s, d, n) + (IF kind = 2 THEN 1 ELSE 0)
  <2>1. LoopsIn(t, e, n + 1) = IF KindIn(t, e[n + 1]) = 2 THEN LoopsIn(t, e, n) + 1 ELSE LoopsIn(t, e, n)
    BY <1>2, LoopsStep
  <2>2. LoopsIn(t, e, n) = LoopsIn(s, d, n) /\ KindIn(t, e[n + 1]) = kind
    BY <1>2, <1>4, <1>5, <1>6
  <2>3. LoopsIn(s, d, n) \in Nat
    BY LoopsAreFinite
  <2> QED BY <2>1, <2>2, <2>3
<1>8. DecIn(t, e, g, n) = DecIn(s, d, h, n)
  <2>1. n \in 1 .. n /\ n # Len(e) /\ c - 4 = m
    BY <1>2, <1>5
  <2>2. e[n] = a /\ LocalsIn(t, a) = l
    <3>1. a # 0 => t[a] = s[a]
      BY <1>2, <1>4
    <3>2. LocalsIn(t, a) = l
      BY <1>0, <3>1, Zenon DEF LocalsIn
    <3> QED BY <1>0, <1>5, <2>1, <3>2, Zenon
  <2>3. TopIn(t, e, n) = m /\ TopIn(s, d, n) = m
    BY <1>0, <1>5, <2>1, Zenon DEF TopIn
  <2>4. PICK b \in Int, b1 \in Int, c1 \in Int : b = a + 1 /\ b1 = a + l /\ c1 = a + l + 1
    OBVIOUS
  <2>5. \A i \in 1 .. m : s[i] \in Words /\ t[i] = s[i]
    BY <1>2, <1>4
  <2>6. \A i \in b .. b1 : s[i] \in Words /\ t[i] = s[i]
    <3>1. \A i \in b .. b1 : i \in 1 .. m
      BY <1>2, <2>4
    <3> QED BY <2>5, <3>1, Zenon
  <2>7. \A i \in c1 .. m : s[i] \in Words /\ t[i] = s[i]
    <3>1. \A i \in c1 .. m : i \in 1 .. m
      BY <1>2, <2>4
    <3> QED BY <2>5, <3>1, Zenon
  <2>8. SubSeq(t, b, b1) = SubSeq(s, b, b1)
    BY <2>6, SamePart
  <2>9. SubSeq(t, c1, m) = SubSeq(s, c1, m)
    BY <2>7, SamePart
  <2>10. LocalsOf(t, e, n) = LocalsOf(s, d, n) /\ EvalsOf(t, e, n) = EvalsOf(s, d, n)
    BY <1>0, <2>2, <2>3, <2>4, <2>8, <2>9, Zenon DEF LocalsOf, EvalsOf
  <2> QED BY <1>6, <2>1, <2>10, ZenonT(30) DEF DecIn
<1>9. DecIn(t, e, g, n + 1) = ZS!Frame(p, kind, args, count, wait)
  <2>1. n + 1 # 1 /\ n + 1 > 1
    BY <1>2
  <2>2. LocalsOf(t, e, n + 1) = L
    <3>0. count \in Nat
      BY <1>4
    <3>1. PICK b \in Int, b1 \in Int : b = c + 1 /\ b1 = c + count /\ count \in Nat /\ b1 - b + 1 = count
      BY <1>2, <3>0
    <3>2. \A i \in b .. b1 : t[i] \in Words
      BY <1>2, <1>4, <3>1
    <3>3. /\ SubSeq(t, b, b1) \in Seq(Words)
          /\ Len(SubSeq(t, b, b1)) = IF b <= b1 THEN b1 - b + 1 ELSE 0
          /\ \A i \in 1 .. b1 - b + 1 : SubSeq(t, b, b1)[i] = t[b + i - 1]
      BY <3>2, SubSeqProperties
    <3>4. PICK M : M = SubSeq(t, b, b1)
      OBVIOUS
    <3>4a. \A i \in 1 .. count : b + i - 1 = c + i
      BY <1>2, <3>1
    <3>4b. M \in Seq(Words) /\ \A i \in 1 .. count : M[i] = t[c + i]
      BY <3>1, <3>3, <3>4, <3>4a, Zenon
    <3>4c. Len(M) = count
      <4>1. Len(M) = IF b <= b1 THEN b1 - b + 1 ELSE 0
        BY <3>3, <3>4
      <4>2. b <= b1 <=> count > 0
        BY <1>2, <3>1
      <4> QED BY <3>1, <4>1, <4>2
    <3>5. M \in Seq(Words) /\ Len(M) = count /\ \A i \in 1 .. count : M[i] = t[c + i]
      BY <3>4b, <3>4c
    <3>6. L \in Seq(Words)
      BY <1>4, HeldAreWords, SeqMonotonic DEF Held
    <3>7. M = L
      BY <1>4, <3>5, <3>6, SeqEqual
    <3> QED BY <1>4, <1>5, <3>1, <3>4, <3>7, Zenon DEF LocalsOf
  <2>3. EvalsOf(t, e, n + 1) = <<>>
    <3>1. PICK b \in Int, b1 \in Int : b = c + count + 1 /\ b1 = c + count /\ b1 < b
      BY <1>2, <1>4
    <3>2. SubSeq(t, b, b1) = <<>>
      BY <3>1, SubSeqEmpty
    <3>3. TopIn(t, e, n + 1) = c + count
      BY <1>4, <1>5, Zenon DEF TopIn
    <3> QED BY <1>4, <1>5, <3>1, <3>2, <3>3, Zenon DEF EvalsOf
  <2>4. kind = 2 => g[LoopsIn(t, e, n + 1)] = wait
    BY <1>00, <1>2, <1>7
  <2>5. DecOf(t, e, g, n + 1, L, <<>>) =
          [ret |-> p, kind |-> kind, argc |-> Len(args), locals |-> L, evals |-> <<>>, waiting |-> wait]
    <3>1. /\ ReturnIn(t, e[n + 1]) = p /\ KindIn(t, e[n + 1]) = kind
          /\ t[e[n + 1]] % 256 = Len(args)
      BY <1>4, <1>5
    <3>2. kind # 2 => wait = <<>>
      BY <1>00
    <3> QED BY <2>1, <2>4, <3>1, <3>2, Zenon DEF DecOf
  <2>6. ZS!Frame(p, kind, args, count, wait) =
          [ret |-> p, kind |-> kind, argc |-> Len(args), locals |-> L, evals |-> <<>>, waiting |-> wait]
    BY <1>1, Zenon DEF ZS!Frame, LocalsFrom
  <2> QED BY <2>2, <2>3, <2>5, <2>6, Zenon DEF DecIn
<1>10. PICK F, G : F = DecodedIn(s, d, h) /\ G = DecodedIn(t, e, g)
  OBVIOUS
<1>11. G = Append(F, G[n + 1]) /\ G[n + 1] = ZS!Frame(p, kind, args, count, wait)
  <2>1. F = [k \in 1 .. n |-> DecIn(s, d, h, k)]
    BY <1>2, <1>10, Zenon DEF DecodedIn
  <2>2. G = [k \in 1 .. n + 1 |-> DecIn(t, e, g, k)]
    BY <1>5, <1>10, Zenon DEF DecodedIn
  <2>3. \A k \in 1 .. n : G[k] = F[k]
    <3> TAKE k \in 1 .. n
    <3>1. k \in 1 .. n + 1 /\ (k \in 1 .. n - 1 \/ k = n)
      OBVIOUS
    <3>2. DecIn(t, e, g, k) = DecIn(s, d, h, k)
      BY <1>6, <1>8, <3>1
    <3> QED BY <2>1, <2>2, <3>1, <3>2
  <2>4. F = [k \in 1 .. n |-> F[k]]
    BY <2>1
  <2>5. G = [k \in 1 .. n + 1 |-> G[k]]
    BY <2>2
  <2>6. G = Append(F, G[n + 1])
    <3>1. OneMore(F, G, n)
      BY <2>3, <2>4, <2>5, Zenon DEF OneMore
    <3> QED BY <3>1, RowMore
  <2>7. n + 1 \in 1 .. n + 1
    BY <1>2
  <2>8. G[n + 1] = DecIn(t, e, g, n + 1)
    BY <2>2, <2>7
  <2> QED BY <1>9, <2>6, <2>8, Zenon
<1> QED BY <1>0, <1>1, <1>5, <1>7, <1>10, <1>11, Zenon DEF OneMoreFrame

-----------------------------------------------------------------------------
(* The array, from its indices.                                            *)

\* What the frame j says, at its index.
LEMMA PartsAt ==
  ASSUME NEW d, Stack(stack, d), NEW j \in 1 .. Len(d), NEW f, f = StackSize - d[j]
  PROVE  /\ Locals(f) = LocalsIn(stack, d[j]) /\ (f = StackSize <=> j = 1)
         /\ j > 1 => /\ Kind(f) = KindIn(stack, d[j]) /\ ReturnTo(f) = ReturnIn(stack, d[j])
                     /\ Args(f) = stack[d[j]] % 256 /\ Caller(f) = StackSize - d[j - 1]
<1>1. PICK a \in Nat : a = d[j]
  BY Places
<1>2. StackSize \in Nat /\ (a = 0 <=> j = 1) /\ (j > 1 => a >= 4)
  BY <1>1, Places
<1>3. StackSize - f = a /\ (f = StackSize <=> a = 0) /\ f = StackSize - a
  BY <1>1, <1>2
<1>4. At(f) = stack[a]
  BY <1>3, Zenon DEF At
<1>5. Locals(f) = LocalsIn(stack, a)
  <2>1. CASE a = 0
    BY <1>3, <2>1 DEF Locals, LocalsIn
  <2>2. CASE a # 0
    BY <1>3, <1>4, <2>2 DEF Locals, LocalsIn
  <2> QED BY <2>1, <2>2
<1>6. ASSUME j > 1
      PROVE  /\ Kind(f) = KindIn(stack, a) /\ ReturnTo(f) = ReturnIn(stack, a)
             /\ Args(f) = stack[a] % 256 /\ Caller(f) = StackSize - d[j - 1]
  <2>1. Kind(f) = KindIn(stack, a) /\ Args(f) = stack[a] % 256
    BY <1>4 DEF Kind, KindIn, Args
  <2>2. StackSize - (f + 1) = a - 1 /\ StackSize - (f + 2) = a - 2 /\ StackSize - (f + 3) = a - 3
    BY <1>2, <1>3
  <2>3. ReturnTo(f) = ReturnIn(stack, a)
    BY <2>2 DEF ReturnTo, ReturnIn, At
  <2>4. stack[a - 1] = StackSize - d[j - 1] - 1
    <3>1. j \in 2 .. Len(d)
      BY <1>6
    <3>2. FrameIn(stack, d[j], d[j - 1])
      BY <3>1 DEF Stack, Frames
    <3> QED BY <1>1, <3>2, Zenon DEF FrameIn
  <2>5. d[j - 1] \in Nat
    <3>1. j - 1 \in 1 .. Len(d)
      BY <1>6
    <3> QED BY <3>1, Places
  <2>6. Caller(f) = StackSize - d[j - 1]
    <3>1. Caller(f) = 1 + stack[a - 1]
      BY <2>2, Zenon DEF Caller, At
    <3> QED BY <1>2, <2>4, <2>5, <3>1
  <2> QED BY <2>1, <2>3, <2>6
<1> QED BY <1>1, <1>3, <1>2, <1>5, <1>6

\* Some of it, of the index itself.
LEMMA PartsOf ==
  ASSUME NEW d, Stack(stack, d), NEW j \in 1 .. Len(d)
  PROVE  /\ Locals(StackSize - d[j]) = LocalsIn(stack, d[j])
         /\ j > 1 => Kind(StackSize - d[j]) = KindIn(stack, d[j])
<1>1. PICK f : f = StackSize - d[j]
  OBVIOUS
<1> QED BY <1>1, PartsAt

\* The frames above a frame f, as they are found.
Up(f, n) == CHOOSE up : up = [k \in 0 .. n |-> IF k = 0 THEN f ELSE Caller(up[k - 1])]

\* They are those of the row, from the last down.
LEMMA UpIs ==
  ASSUME NEW d, Stack(stack, d), NEW n \in Nat, n < Len(d)
  PROVE  Up(StackSize - d[Len(d)], n) = [k \in 0 .. n |-> StackSize - d[Len(d) - k]]
<1> DEFINE f == StackSize - d[Len(d)]
           Step(up, k) == IF k = 0 THEN f ELSE Caller(up[k - 1])
           w == [k \in 0 .. n |-> StackSize - d[Len(d) - k]]
           up == CHOOSE u : u = [k \in 0 .. n |-> Step(u, k)]
<1>1. Len(d) \in Nat
  BY TopFrame
<1>2. \A k \in 0 .. n : w[k] = Step(w, k)
  <2> TAKE k \in 0 .. n
  <2>1. CASE k = 0
    BY <1>1, <2>1
  <2>2. CASE k # 0
    <3>0. PICK j : j = Len(d) - (k - 1)
      OBVIOUS
    <3>1. j \in 1 .. Len(d) /\ j > 1 /\ j - 1 = Len(d) - k
      BY <1>1, <2>2, <3>0
    <3>2. Caller(StackSize - d[j]) = StackSize - d[j - 1]
      BY <3>1, PartsAt
    <3>3. k - 1 \in 0 .. n
      BY <2>2
    <3> QED BY <2>2, <3>0, <3>1, <3>2, <3>3
  <2> QED BY <2>1, <2>2
<1>3. w = [k \in 0 .. n |-> Step(w, k)]
  <2> HIDE DEF Step
  <2> QED BY <1>2
<1>4. up = [k \in 0 .. n |-> Step(up, k)]
  <2> HIDE DEF Step, w
  <2> QED BY <1>3
<1>5. Up(f, n) = up
  BY Zenon DEF Up
<1> HIDE DEF up, w
<1> DEFINE S == {k \in Nat : k <= n => up[k] = w[k]}
<1>6. 0 \in S
  <2>1. 0 \in 0 .. n
    OBVIOUS
  <2>2. up[0] = Step(up, 0) /\ w[0] = Step(w, 0)
    BY <1>2, <1>4, <2>1
  <2> QED BY <2>2
<1>7. ASSUME NEW k \in Nat, k \in S PROVE k + 1 \in S
  <2> SUFFICES ASSUME k + 1 <= n PROVE up[k + 1] = w[k + 1]
    OBVIOUS
  <2>1. k + 1 \in 0 .. n /\ k <= n /\ (k + 1) - 1 = k /\ k + 1 # 0
    OBVIOUS
  <2>2. up[k + 1] = Step(up, k + 1) /\ w[k + 1] = Step(w, k + 1)
    BY <1>2, <1>4, <2>1
  <2>3. up[k] = w[k]
    BY <1>7, <2>1
  <2>4. Step(up, k + 1) = Caller(up[k]) /\ Step(w, k + 1) = Caller(w[k])
    BY <2>1
  <2> QED BY <2>2, <2>3, <2>4
<1>8. Nat \subseteq S
  <2> HIDE DEF S
  <2> QED BY <1>6, <1>7, NatSetInduction
<1>9. \A k \in 0 .. n : up[k] = w[k]
  BY <1>8
<1>10. up = [k \in 0 .. n |-> up[k]] /\ w = [k \in 0 .. n |-> w[k]]
  <2>1. up = [k \in 0 .. n |-> up[k]]
    <3> HIDE DEF Step
    <3> QED BY <1>4
  <2>2. w = [k \in 0 .. n |-> w[k]]
    BY DEF w
  <2> QED BY <2>1, <2>2
<1>11. up = w
  BY <1>9, <1>10
<1> QED BY <1>5, <1>11 DEF w

\* The chain is the row.
LEMMA ChainIs ==
  ASSUME NEW d, Stack(stack, d), Len(d) = frame_count + 1, frame_count \in Nat,
         fp = StackSize - d[Len(d)]
  PROVE  FrameChain = [k \in 1 .. Len(d) |-> StackSize - d[k]]
<1>1. PICK n, u : n = frame_count /\ u = Up(fp, n) /\ n \in Nat /\ Len(d) = n + 1
  OBVIOUS
<1>2. FrameChain = [k \in 1 .. n + 1 |-> u[n + 1 - k]]
  <2>1. FrameChain = [k \in 1 .. frame_count + 1 |-> Up(fp, frame_count)[frame_count + 1 - k]]
    BY Zenon DEF FrameChain, Up
  <2> QED BY <1>1, <2>1, Zenon
<1>3. u = [k \in 0 .. n |-> StackSize - d[Len(d) - k]]
  BY <1>1, UpIs
<1>4. \A k \in 1 .. n + 1 : u[n + 1 - k] = StackSize - d[k]
  <2> TAKE k \in 1 .. n + 1
  <2>1. n + 1 - k \in 0 .. n /\ Len(d) - (n + 1 - k) = k
    BY <1>1
  <2> QED BY <1>3, <2>1
<1> QED BY <1>1, <1>2, <1>4

\* Going n frames up leads n down the row.
LEMMA UnwoundIs ==
  ASSUME NEW d, Stack(stack, d), NEW n \in Nat, n < Len(d)
  PROVE  Unwound(StackSize - d[Len(d)], n) = StackSize - d[Len(d) - n]
<1>1. PICK f : f = StackSize - d[Len(d)]
  OBVIOUS
<1>2. Unwound(f, n) = Up(f, n)[n]
  BY Zenon DEF Unwound, Up
<1>3. Up(f, n) = [k \in 0 .. n |-> StackSize - d[Len(d) - k]]
  BY <1>1, UpIs
<1> QED BY <1>1, <1>2, <1>3

-----------------------------------------------------------------------------
(* The invariant.                                                          *)

StackAt(s, d, f, count, p, z, h) ==
  /\ Stack(s, d) /\ count \in Nat /\ Len(d) = count + 1 /\ f = StackSize - d[Len(d)]
  /\ z \in Seq(Values) /\ h \in Seq(Seq(Values)) /\ Len(h) = LoopsIn(s, d, Len(d))
  /\ p \in Codes

\* The row d is that of the state.
StackOf(d) == StackAt(stack, d, fp, frame_count, pc, zargs, host)

StackInv == \E d : StackOf(d)

Decoded(d) == DecodedIn(stack, d, host)

\* What the operators of the array are, in a row.
LEMMA InRow ==
  ASSUME NEW d, StackOf(d)
  PROVE  /\ Stack(stack, d) /\ frame_count \in Nat /\ Len(d) = frame_count + 1
         /\ fp = StackSize - d[Len(d)]
         /\ zargs \in Seq(Values) /\ host \in Seq(Seq(Values))
         /\ Len(host) = LoopsIn(stack, d, Len(d)) /\ pc \in Codes
         /\ Locals(fp) = LocalsIn(stack, d[Len(d)])
         /\ Evals = Len(stack) - d[Len(d)] - LocalsIn(stack, d[Len(d)])
         /\ InRoutine <=> Len(d) > 1
         /\ sp = StackSize - Len(stack) /\ sp \in Nat
<1>1. /\ Stack(stack, d) /\ frame_count \in Nat /\ Len(d) = frame_count + 1
      /\ fp = StackSize - d[Len(d)]
      /\ zargs \in Seq(Values) /\ host \in Seq(Seq(Values))
      /\ Len(host) = LoopsIn(stack, d, Len(d)) /\ pc \in Codes
  BY Zenon DEF StackOf, StackAt
<1>2. PICK n : n = Len(d)
  OBVIOUS
<1>3. n \in 1 .. Len(d) /\ n \in Nat /\ n >= 1
  BY <1>1, <1>2
<1>4. Locals(fp) = LocalsIn(stack, d[n]) /\ (fp = StackSize <=> n = 1)
  BY <1>1, <1>2, <1>3, PartsAt
<1>5. PICK a \in Nat, l \in Nat, m \in Nat :
        a = d[n] /\ l = LocalsIn(stack, d[n]) /\ m = Len(stack)
  <2>1. \A k \in 0 .. 15 : k \in Nat
    OBVIOUS
  <2> QED BY <1>1, <1>2, <2>1, TopFrame, Zenon
<1>6. StackSize \in Nat /\ m <= StackSize
  BY <1>1, <1>5, TopFrame
<1>7. sp = StackSize - m /\ sp \in Nat
  BY <1>5, <1>6 DEF sp
<1>8. Evals = m - a - l
  <2>1. Evals = fp - sp - l /\ fp = StackSize - a
    BY <1>1, <1>2, <1>4, <1>5, Zenon DEF Evals
  <2> QED BY <1>6, <1>7, <2>1
<1>9. InRoutine <=> n > 1
  BY <1>3, <1>4 DEF InRoutine
<1> QED BY <1>1, <1>2, <1>4, <1>5, <1>7, <1>8, <1>9, Zenon

\* At first there is the bottom.
LEMMA AtFirst ==
  ASSUME StackInit PROVE StackOf(<<0>>)
<1>1. PICK d : d = <<0>>
  OBVIOUS
<1>2. d \in Seq(Nat) /\ Len(d) = 1 /\ d[1] = 0
  BY <1>1
<1>3. PICK s : s = <<>>
  OBVIOUS
<1>4. s \in Seq(Words) /\ Len(s) = 0
  BY <1>3
<1>5. Frames(s, d)
  BY <1>2 DEF Frames
<1>6. LocalsIn(s, 0) = 0
  BY DEF LocalsIn
<1>7. Apart(s, d)
  BY <1>2, <1>4, <1>6 DEF Apart
<1>8. Plain(s, d)
  <2>1. TopIn(s, d, 1) = 0
    BY <1>2, <1>4 DEF TopIn
  <2> QED BY <1>2, <2>1 DEF Plain
<1>9. Stack(s, d)
  BY <1>2, <1>4, <1>5, <1>7, <1>8, HeldAreWords DEF Stack
<1>10. LoopsIn(s, d, 1) = 0
  BY LoopsAreFinite
<1>11. pc \in Codes
  <2>1. pc \in DOMAIN Variable
    BY DEF StackInit
  <2>2. pc \in Nat /\ pc < 524288
    BY <2>1, StackAssumption, SMT
  <2> QED BY <2>2, SMT DEF Codes
<1>12. /\ stack = s /\ fp = StackSize /\ frame_count = 0
       /\ zargs \in Seq(Values) /\ host \in Seq(Seq(Values)) /\ Len(host) = 0
  BY <1>3 DEF StackInit
<1>13. StackSize = StackSize - d[Len(d)] /\ frame_count \in Nat /\ Len(d) = frame_count + 1
  BY <1>2, <1>12, HeldAreWords
<1>14. StackOf(d)
  <2>1. Len(d) = 1
    BY <1>2
  <2> QED BY <1>9, <1>10, <1>11, <1>12, <1>13, <2>1, Zenon DEF StackOf, StackAt
<1> QED BY <1>1, <1>14, Zenon

\* Direct calls are counted alike along the chain and along the row.
LEMMA LoopsAre ==
  ASSUME NEW d, Stack(stack, d), NEW chain, chain = [k \in 1 .. Len(d) |-> StackSize - d[k]],
         NEW k \in 1 .. Len(d)
  PROVE  Loops(chain, k) = LoopsIn(stack, d, k)
<1>1. \A i \in 2 .. k : Kind(chain[i]) = KindIn(stack, d[i])
  <2> TAKE i \in 2 .. k
  <2>1. i \in 1 .. Len(d) /\ i > 1
    BY TopFrame
  <2>2. chain[i] = StackSize - d[i]
    BY <2>1
  <2> QED BY <2>1, <2>2, PartsAt
<1>2. {i \in 2 .. k : Kind(chain[i]) = 2} = {i \in 2 .. k : KindIn(stack, d[i]) = 2}
  BY <1>1
<1> QED BY <1>2 DEF Loops, LoopsIn

\* The invariant is enough.
LEMMA InvIsOK ==
  ASSUME StackInv PROVE ChainOK
<1>1. PICK d : StackOf(d)
  BY Zenon DEF StackInv
<1>2. PICK n, chain : n = Len(d) /\ chain = [k \in 1 .. n |-> StackSize - d[k]]
  OBVIOUS
<1>3. /\ Stack(stack, d) /\ frame_count \in Nat /\ n = frame_count + 1
      /\ fp = StackSize - d[n] /\ Len(host) = LoopsIn(stack, d, n)
      /\ Evals = Len(stack) - d[n] - LocalsIn(stack, d[n])
      /\ sp = StackSize - Len(stack) /\ sp \in Nat
  BY <1>1, <1>2, InRow, Zenon
<1>4. FrameChain = chain
  BY <1>2, <1>3, ChainIs
<1>5. n \in Nat /\ n >= 1 /\ Len(chain) = n
  BY <1>2, <1>3
<1>6. /\ stack \in Seq(Words) /\ Len(stack) \in Nat /\ Len(stack) <= StackSize /\ StackSize \in Nat
      /\ d[n] \in Nat /\ LocalsIn(stack, d[n]) \in 0 .. 15
      /\ d[n] + LocalsIn(stack, d[n]) <= Len(stack)
  BY <1>2, <1>3, TopFrame, Zenon
<1>7. \A i \in DOMAIN stack : stack[i] \in Nat /\ stack[i] < 65536
  <2>1. \A i \in DOMAIN stack : stack[i] \in Words
    BY <1>6
  <2> QED BY <2>1, SMT DEF Words
<1>8. sp \in 0 .. StackSize /\ Evals >= 0
  <2>1. PICK a \in Nat, l \in 0 .. 15, m \in Nat :
          a = d[n] /\ l = LocalsIn(stack, d[n]) /\ m = Len(stack)
    BY <1>6
  <2>2. a + l <= m /\ m <= StackSize /\ sp = StackSize - m /\ Evals = m - a - l
    BY <1>3, <1>6, <2>1, Zenon
  <2> QED BY <1>6, <2>2
<1>9. chain[1] = StackSize
  <2>1. d[1] = 0 /\ 1 \in 1 .. n
    BY <1>3, <1>5 DEF Stack
  <2> QED BY <1>2, <1>6, <2>1
<1>10. ASSUME NEW k \in 1 .. frame_count PROVE chain[k] >= chain[k + 1] + 4 + Locals(chain[k])
  <2>1. k \in 1 .. n /\ k + 1 \in 1 .. n /\ k \in 1 .. (k + 1) - 1
    BY <1>3
  <2>2. d[k] \in Nat /\ d[k + 1] \in Nat /\ LocalsIn(stack, d[k]) \in 0 .. 15
    BY <1>2, <1>3, <2>1, Places
  <2>3. d[k] + LocalsIn(stack, d[k]) + 4 <= d[k + 1]
    BY <1>2, <1>3, <2>1, OneAbove
  <2>4. chain[k] = StackSize - d[k] /\ chain[k + 1] = StackSize - d[k + 1]
    BY <1>2, <2>1
  <2>5. Locals(chain[k]) = LocalsIn(stack, d[k])
    <3>1. k \in 1 .. Len(d)
      BY <1>2, <2>1, Zenon
    <3> QED BY <1>3, <2>4, <3>1, PartsOf, Zenon
  <2>6. PICK x \in Nat, y \in Nat, l \in 0 .. 15 :
          x = d[k] /\ y = d[k + 1] /\ l = LocalsIn(stack, d[k])
    BY <2>2
  <2>7. x + l + 4 <= y
    BY <2>3, <2>6, Zenon
  <2>8. StackSize - x >= (StackSize - y) + 4 + l
    BY <1>6, <2>7
  <2> QED BY <2>4, <2>5, <2>6, <2>8
<1>11. Loops(chain, Len(chain)) = Len(host)
  <2>1. n \in 1 .. Len(d)
    BY <1>2, <1>5
  <2> QED BY <1>2, <1>3, <1>5, <2>1, LoopsAre
<1> QED BY <1>3, <1>4, <1>7, <1>8, <1>9, <1>10, <1>11 DEF ChainOK

\* The frames as the specification decodes them.
Shown == LET chain == FrameChain IN [k \in 1 .. Len(chain) |-> FrameAt(chain, k)]

\* They are the frames of the row.
LEMMA ShownAre ==
  ASSUME NEW d, StackOf(d)
  PROVE  Shown = Decoded(d)
<1>1. PICK n, chain : n = Len(d) /\ chain = [k \in 1 .. n |-> StackSize - d[k]]
  OBVIOUS
<1>2. /\ Stack(stack, d) /\ frame_count \in Nat /\ n = frame_count + 1
      /\ fp = StackSize - d[n] /\ sp = StackSize - Len(stack)
  BY <1>1, InRow, Zenon
<1>3. FrameChain = chain
  BY <1>1, <1>2, ChainIs
<1>4. n \in Nat /\ n >= 1 /\ Len(chain) = n
  BY <1>1, <1>2
<1>5. ASSUME NEW k \in 1 .. n PROVE FrameAt(chain, k) = DecIn(stack, d, host, k)
  <2>0. k \in 1 .. Len(d) /\ k \in Nat
    BY <1>1, <1>4
  <2>0a. PICK a \in Nat, l \in Nat, b \in Nat :
           a = d[k] /\ l = LocalsIn(stack, d[k]) /\ b = TopIn(stack, d, k)
    <3>1. \A x \in 0 .. 15 : x \in Nat
      OBVIOUS
    <3> QED BY <1>2, <2>0, <3>1, Places, Zenon
  <2>1. PICK f, top :
          /\ f = chain[k] /\ top = IF k = Len(chain) THEN sp ELSE chain[k + 1] + 4
          /\ a = d[k] /\ l = LocalsIn(stack, d[k]) /\ b = TopIn(stack, d, k)
    BY <2>0a
  <2>2. f = StackSize - a /\ StackSize \in Nat
    BY <1>1, <1>2, <2>0, <2>1, Places
  <2>3. Locals(f) = l
    BY <1>2, <2>0, <2>1, <2>2, PartsAt
  <2>4. k > 1 => /\ Kind(f) = KindIn(stack, d[k]) /\ ReturnTo(f) = ReturnIn(stack, d[k])
                 /\ Args(f) = stack[d[k]] % 256
    BY <1>2, <2>0, <2>1, <2>2, PartsAt
  <2>5. Loops(chain, k) = LoopsIn(stack, d, k)
    BY <1>1, <1>2, <2>0, LoopsAre
  <2>6. StackSize - top = b
    <3>1. CASE k = n
      <4>1. top = sp /\ b = Len(stack)
        BY <1>1, <1>4, <2>1, <3>1, Zenon DEF TopIn
      <4>2. Len(stack) \in Nat
        BY <1>2, TopFrame
      <4> QED BY <1>2, <2>2, <4>1, <4>2
    <3>2. CASE k # n
      <4>1. k + 1 \in 1 .. n /\ k + 1 \in 1 .. Len(d)
        BY <1>1, <1>4, <3>2
      <4>2. d[k + 1] \in Nat
        BY <1>2, <4>1, Places
      <4>3. top = chain[k + 1] + 4 /\ b = d[k + 1] - 4
        BY <1>1, <1>4, <2>1, <3>2, Zenon DEF TopIn
      <4>4. chain[k + 1] = StackSize - d[k + 1]
        BY <1>1, <4>1
      <4> QED BY <2>2, <4>2, <4>3, <4>4
    <3> QED BY <3>1, <3>2
  <2>7. /\ StackSize - (f - 1) = a + 1 /\ StackSize - (f - l) = a + l
        /\ StackSize - (f - l - 1) = a + l + 1
    BY <2>2
  <2>8. Down(f - 1, f - Locals(f)) = LocalsOf(stack, d, k)
    BY <2>1, <2>3, <2>7, Zenon DEF Down, LocalsOf
  <2>9. Down(f - Locals(f) - 1, top) = EvalsOf(stack, d, k)
    BY <2>1, <2>3, <2>6, <2>7, Zenon DEF Down, EvalsOf
  <2>10. PICK lo, ev : lo = LocalsOf(stack, d, k) /\ ev = EvalsOf(stack, d, k)
    OBVIOUS
  <2>11. FrameAt(chain, k) =
           [ret |-> IF k = 1 THEN 0 ELSE ReturnTo(f), kind |-> IF k = 1 THEN 1 ELSE Kind(f),
            argc |-> IF k = 1 THEN 0 ELSE Args(f), locals |-> lo, evals |-> ev,
            waiting |-> IF k > 1 /\ Kind(f) = 2 THEN host[Loops(chain, k)] ELSE <<>>]
    BY <2>1, <2>8, <2>9, <2>10, Zenon DEF FrameAt
  <2>12. DecIn(stack, d, host, k) =
           [ret |-> IF k = 1 THEN 0 ELSE ReturnIn(stack, d[k]),
            kind |-> IF k = 1 THEN 1 ELSE KindIn(stack, d[k]),
            argc |-> IF k = 1 THEN 0 ELSE stack[d[k]] % 256, locals |-> lo, evals |-> ev,
            waiting |-> IF k > 1 /\ KindIn(stack, d[k]) = 2
                        THEN host[LoopsIn(stack, d, k)] ELSE <<>>]
    BY <2>10, Zenon DEF DecIn, DecOf
  <2>13. CASE k = 1
    <3>1. ~ (k > 1)
      BY <2>13
    <3> QED BY <2>11, <2>12, <2>13, <3>1
  <2>14. CASE k # 1
    <3>1. k > 1
      BY <2>0, <2>14
    <3> QED BY <2>4, <2>5, <2>11, <2>12, <2>14, <3>1
  <2> QED BY <2>13, <2>14
<1>6. Shown = [k \in 1 .. n |-> FrameAt(chain, k)]
  BY <1>3, <1>4, Zenon DEF Shown
<1>7. Decoded(d) = [k \in 1 .. n |-> DecIn(stack, d, host, k)]
  BY <1>1, Zenon DEF Decoded, DecodedIn
<1> QED BY <1>5, <1>6, <1>7

-----------------------------------------------------------------------------
(* Steps.                                                                  *)

\* A value is stored in a variable of the current frame.
LEMMA StoreStep ==
  ASSUME NEW d, StackOf(d), NEW v \in 0 .. 255, Writable(v), NEW value \in Held, NEW p \in Codes
  PROVE  LET t == Stored(stack, fp, v, value)
             n == Len(d)
         IN  /\ StackAt(t, d, fp, frame_count, p, zargs, host)
             /\ DecodedIn(t, d, host) =
                  Append(SubSeq(Decoded(d), 1, n - 1), ZS!Stored(Decoded(d)[n], v, value))
<1>1. PICK n, t : n = Len(d) /\ t = Stored(stack, fp, v, value)
  OBVIOUS
<1>2. /\ Stack(stack, d) /\ fp = StackSize - d[n] /\ Locals(fp) = LocalsIn(stack, d[n])
      /\ Len(host) = LoopsIn(stack, d, n)
      /\ sp = StackSize - Len(stack)
  BY <1>1, InRow, Zenon
<1>3. v \in 1 .. 15 => v <= LocalsIn(stack, d[n])
  <2>1. PICK l \in 0 .. 15 : l = LocalsIn(stack, d[n])
    BY <1>1, <1>2, TopFrame
  <2>2. (v = 0 /\ sp > 0) \/ v \in 1 .. l \/ v >= 16
    BY <1>2, <2>1, Zenon DEF Writable
  <2> QED BY <2>1, <2>2
<1>4. v = 0 => Len(stack) < StackSize
  <2>1. v = 0 => sp > 0
    BY DEF Writable
  <2>2. Len(stack) \in Nat /\ StackSize \in Nat
    BY <1>2, TopFrame
  <2> QED BY <1>2, <2>1, <2>2
<1>5. /\ Stack(t, d) /\ LoopsIn(t, d, n) = LoopsIn(stack, d, n)
      /\ DecodedIn(t, d, host) =
           Append(SubSeq(Decoded(d), 1, n - 1), ZS!Stored(Decoded(d)[n], v, value))
  <2>1. t = Stored(stack, StackSize - d[n], v, value)
    BY <1>1, <1>2, Zenon
  <2>2. /\ v \in 1 .. 15 => v <= LocalsIn(stack, d[Len(d)])
        /\ v = 0 => Len(stack) < StackSize
    BY <1>1, <1>3, <1>4, Zenon
  <2>3. TopBecomes(stack, d, host, Stored(stack, StackSize - d[Len(d)], v, value),
                   ZS!Stored(DecodedIn(stack, d, host)[Len(d)], v, value))
    BY <1>2, <2>2, StoreTop
  <2> QED BY <1>1, <2>1, <2>3, Zenon DEF Decoded, TopBecomes
<1>6. StackAt(t, d, fp, frame_count, p, zargs, host)
  BY <1>1, <1>2, <1>5, InRow, Zenon DEF StackAt
<1> QED BY <1>1, <1>5, <1>6, Zenon

\* A value is taken from the current frame.
LEMMA TakeStep ==
  ASSUME NEW d, StackOf(d), Evals > 0
  PROVE  /\ StackAt(SubSeq(stack, 1, Len(stack) - 1), d, fp, frame_count, pc, zargs, host)
         /\ DecodedIn(SubSeq(stack, 1, Len(stack) - 1), d, host) =
              Append(SubSeq(Decoded(d), 1, Len(d) - 1), ZS!Pop(Decoded(d)[Len(d)]))
         /\ Decoded(d)[Len(d)].evals # <<>> /\ At(sp) \in Held
<1>1. /\ Stack(stack, d) /\ Evals = Len(stack) - d[Len(d)] - LocalsIn(stack, d[Len(d)])
      /\ sp = StackSize - Len(stack)
  BY InRow, Zenon
<1>2. Len(stack) > d[Len(d)] + LocalsIn(stack, d[Len(d)]) /\ StackSize - sp = Len(stack)
  <2>1. PICK a \in Nat, l \in 0 .. 15, m \in Nat :
          a = d[Len(d)] /\ l = LocalsIn(stack, d[Len(d)]) /\ m = Len(stack)
    BY <1>1, TopFrame
  <2>2. m - a - l > 0 /\ sp = StackSize - m
    BY <1>1, <2>1, Zenon
  <2>3. m > a + l /\ StackSize - sp = m
    BY <1>1, <2>2, TopFrame
  <2> QED BY <2>1, <2>3, Zenon
<1>3. /\ TopBecomes(stack, d, host, SubSeq(stack, 1, Len(stack) - 1),
                    ZS!Pop(DecodedIn(stack, d, host)[Len(d)]))
      /\ DecodedIn(stack, d, host)[Len(d)].evals # <<>> /\ stack[Len(stack)] \in Held
  BY <1>1, <1>2, TakeTop
<1>4. At(sp) \in Held
  BY <1>2, <1>3, Zenon DEF At
<1>5. PICK t : t = SubSeq(stack, 1, Len(stack) - 1)
  OBVIOUS
<1>6. StackAt(t, d, fp, frame_count, pc, zargs, host)
  BY <1>3, <1>5, InRow, Zenon DEF StackAt, TopBecomes
<1> QED BY <1>3, <1>4, <1>5, <1>6, Zenon DEF TopBecomes, Decoded

\* A routine can be called: the words become t, h is what the direct calls keep and
\* wait what this one does.
Calls(args, kind, count, wait, h, t) ==
  /\ args \in Seq(Values) /\ Len(args) <= 7 /\ kind \in 0 .. 2 /\ count \in 0 .. MaxLocals
  /\ sp >= 4 /\ sp - 4 >= count
  /\ kind = 0 => pc \in DOMAIN Variable /\ Writable(Variable[pc])
  /\ h = IF kind = 2 THEN Append(host, zargs) ELSE host
  /\ wait = IF kind = 2 THEN zargs ELSE <<>>
  /\ t = stack \o Packed(pc, args, kind, count)
            \o [i \in 1 .. count |-> IF i <= Len(args) THEN args[i] ELSE 0]

\* What it leads to, with the operands z.
CalledTo(d, e, args, kind, count, wait, z, h, t) ==
  /\ StackAt(t, e, sp - 4, frame_count + 1, pc, z, h)
  /\ DecodedIn(t, e, h) = Append(Decoded(d), ZS!Frame(pc, kind, args, count, wait))

\* A call leads to a row of one frame more.
LEMMA CallStep ==
  ASSUME NEW d, StackOf(d), NEW args, NEW kind, NEW count, NEW z \in Seq(Values),
         NEW wait, NEW h, NEW t, Calls(args, kind, count, wait, h, t)
  PROVE  CalledTo(d, Append(d, Len(stack) + 4), args, kind, count, wait, z, h, t)
<1>. /\ args \in Seq(Values) /\ Len(args) <= 7 /\ kind \in 0 .. 2 /\ count \in 0 .. MaxLocals
     /\ sp >= 4 /\ sp - 4 >= count
     /\ kind = 0 => pc \in DOMAIN Variable /\ Writable(Variable[pc])
  BY Zenon DEF Calls
<1>0. h = IF kind = 2 THEN Append(host, zargs) ELSE host
  BY Zenon DEF Calls
<1>0a. t = stack \o Packed(pc, args, kind, count)
              \o [i \in 1 .. count |-> IF i <= Len(args) THEN args[i] ELSE 0]
  BY Zenon DEF Calls
<1>1. PICK n, e, m : n = Len(d) /\ e = Append(d, Len(stack) + 4) /\ m = Len(stack)
  OBVIOUS
<1>2. /\ Stack(stack, d) /\ frame_count \in Nat /\ n = frame_count + 1 /\ fp = StackSize - d[n]
      /\ zargs \in Seq(Values) /\ host \in Seq(Seq(Values)) /\ Len(host) = LoopsIn(stack, d, n)
      /\ pc \in Codes /\ Locals(fp) = LocalsIn(stack, d[n]) /\ sp = StackSize - m
  BY <1>1, InRow, Zenon
<1>3. m \in Nat /\ StackSize \in Nat
  BY <1>1, <1>2, TopFrame
<1>4. count \in 0 .. 15 /\ count \in Nat
  <2>1. MaxLocals \in 0 .. 15
    BY StackAssumption, SMT
  <2> QED BY <2>1
<1>5. Callable(stack, d, pc, args, kind, count)
  <2>1. m + 4 + count <= StackSize
    BY <1>2, <1>3, <1>4
  <2>2. ASSUME kind = 0
        PROVE  pc \in DOMAIN Variable /\ (Variable[pc] \in 1 .. 15 => Variable[pc] <= LocalsIn(stack, d[n]))
    <3>1. PICK l \in 0 .. 15 : l = LocalsIn(stack, d[n])
      BY <1>1, <1>2, TopFrame
    <3>1a. PICK v : v = Variable[pc]
      OBVIOUS
    <3>2. (v = 0 /\ sp > 0) \/ v \in 1 .. l \/ v >= 16
      BY <1>2, <2>2, <3>1, <3>1a, Zenon DEF Writable
    <3>3. v \in 1 .. 15 => v <= l
      BY <3>2
    <3> QED BY <2>2, <3>1, <3>1a, <3>3
  <2> QED BY <1>1, <1>2, <1>4, <2>1, <2>2, Zenon DEF Callable
<1>6. t = Called(stack, d, pc, args, kind, count)
  <2>1. Packed(pc, args, kind, count) = <<High(pc), Low(pc), StackSize - d[n] - 1, Counts(args, kind, count)>>
    BY <1>2, Zenon DEF Packed, High, Low, Counts, CountsWord
  <2> QED BY <1>0a, <1>1, <2>1, Zenon DEF Called, LocalsFrom
<1>7. wait = IF kind = 2 THEN zargs ELSE <<>>
  BY Zenon DEF Calls
<1>8. /\ h \in Seq(Seq(Values)) /\ Len(h) = LoopsIn(stack, d, n) + (IF kind = 2 THEN 1 ELSE 0)
      /\ \A i \in 1 .. LoopsIn(stack, d, n) : h[i] = host[i]
      /\ wait = IF kind = 2 THEN h[LoopsIn(stack, d, n) + 1] ELSE <<>>
  <2>1. CASE kind = 2
    <3>1. h = Append(host, zargs)
      BY <1>0, <2>1
    <3>2. /\ Append(host, zargs) \in Seq(Seq(Values)) /\ Len(Append(host, zargs)) = Len(host) + 1
          /\ \A i \in 1 .. Len(host) : Append(host, zargs)[i] = host[i]
          /\ Append(host, zargs)[Len(host) + 1] = zargs
      BY <1>2, AppendProperties
    <3> QED BY <1>2, <1>7, <2>1, <3>1, <3>2
  <2>2. CASE kind # 2
    BY <1>0, <1>2, <1>7, <2>2
  <2> QED BY <2>1, <2>2
<1>9. Stack(t, e)
  BY <1>1, <1>2, <1>5, <1>6, CallStack, Zenon
<1>10. OneMoreFrame(stack, d, host, h, t, e, kind, ZS!Frame(pc, kind, args, count, wait))
  <2>1. Keeps(host, h, LoopsIn(stack, d, Len(d)), kind, wait)
    BY <1>1, <1>8 DEF Keeps
  <2> QED BY <1>1, <1>2, <1>5, <1>6, <2>1, CallFrames, Zenon
<1>11. StackAt(t, e, sp - 4, frame_count + 1, pc, z, h)
  <2>1. /\ Len(e) = n + 1 /\ e[Len(e)] = m + 4
        /\ LoopsIn(t, e, Len(e)) = LoopsIn(stack, d, n) + (IF kind = 2 THEN 1 ELSE 0)
    BY <1>1, <1>10, Zenon DEF OneMoreFrame
  <2>2. /\ frame_count + 1 \in Nat /\ Len(e) = (frame_count + 1) + 1
        /\ sp - 4 = StackSize - e[Len(e)]
    BY <1>2, <1>3, <2>1
  <2> QED BY <1>2, <1>8, <1>9, <2>1, <2>2, Zenon DEF StackAt
<1> QED BY <1>1, <1>10, <1>11, Zenon DEF OneMoreFrame, Decoded, CalledTo

\* What a frame below the last says of its return.
LEMMA ReturnParts ==
  ASSUME NEW s, NEW d, Stack(s, d), NEW j \in Nat, j >= 1, j + 1 <= Len(d)
  PROVE  /\ j \in 1 .. Len(d) /\ j + 1 \in 1 .. Len(d)
         /\ TopIn(s, d, j) = d[j + 1] - 4 /\ TopIn(s, d, j) < StackSize
         /\ KindIn(s, d[j + 1]) \in 0 .. 2 /\ ReturnIn(s, d[j + 1]) \in Codes
         /\ KindIn(s, d[j + 1]) = 0 =>
              /\ ReturnIn(s, d[j + 1]) + 1 \in Codes
              /\ Variable[ReturnIn(s, d[j + 1])] \in 0 .. 255
              /\ Variable[ReturnIn(s, d[j + 1])] \in 1 .. 15 =>
                   Variable[ReturnIn(s, d[j + 1])] <= LocalsIn(s, d[j])
<1>1. Len(d) \in Nat
  BY TopFrame
<1>2. PICK k : k = j + 1
  OBVIOUS
<1>3. j \in 1 .. Len(d) /\ k \in 1 .. Len(d) /\ k \in 2 .. Len(d) /\ j \in 1 .. k - 1 /\ k - 1 = j /\ k > 1
  BY <1>1, <1>2
<1>4. TopIn(s, d, j) = d[k] - 4 /\ d[k] <= Len(s) /\ s[d[k]] \in KindWords
      /\ d[k] \in Nat /\ Len(s) \in Nat /\ Len(s) <= StackSize /\ StackSize \in Nat
  BY <1>2, <1>3, OneAbove, Places
<1>5. d[k] - 4 < StackSize
  BY <1>4
<1>6. KindIn(s, d[k]) \in 0 .. 2
  BY <1>4, PartsAreSmall, SMT DEF KindIn
<1>7. FrameIn(s, d[k], d[j])
  BY <1>3 DEF Stack, Frames
<1>8. PICK r : r = ReturnIn(s, d[k])
  OBVIOUS
<1>9. /\ r \in Codes
      /\ KindIn(s, d[k]) = 0 =>
           /\ r \in DOMAIN Variable
           /\ Variable[r] \in 1 .. 15 => Variable[r] <= LocalsIn(s, d[j])
  BY <1>7, <1>8, Zenon DEF FrameIn
<1>10. r \in DOMAIN Variable => r + 1 \in Codes /\ Variable[r] \in 0 .. 255
  <2> SUFFICES ASSUME r \in DOMAIN Variable PROVE r + 1 \in Codes /\ Variable[r] \in 0 .. 255
    OBVIOUS
  <2>1. r \in Nat /\ r < 524288
    BY StackAssumption, SMT
  <2>2. r + 1 \in Codes
    BY <2>1, SMT DEF Codes
  <2>3. Variable[r] \in 0 .. 255
    BY StackAssumption, SMT
  <2> QED BY <2>2, <2>3, SMT
<1> QED BY <1>2, <1>3, <1>4, <1>5, <1>6, <1>8, <1>9, <1>10, Zenon

\* What the direct calls keep once the frames above j are gone, all of one loop:
\* h then, and z is what the last frame to go leaves.
Left(s, d, host0, zargs0, j, h, z) ==
  /\ h \in Seq(Seq(Values)) /\ Len(h) = LoopsIn(s, d, j)
  /\ \A i \in 1 .. LoopsIn(s, d, j) : h[i] = host0[i]
  /\ z \in Seq(Values)
  /\ z = IF KindIn(s, d[j + 1]) = 2 THEN host0[LoopsIn(s, d, j + 1)] ELSE zargs0

\* Loops end with their frames.
LEMMA LoopsLeft ==
  ASSUME NEW s, NEW d, Stack(s, d), NEW j \in Nat, j >= 1, j + 1 <= Len(d),
         \A i \in (j + 1) + 1 .. Len(d) : KindIn(s, d[i]) # 2,
         NEW h \in Seq(Seq(Values)), Len(h) = LoopsIn(s, d, Len(d)), NEW z \in Seq(Values)
  PROVE  IF KindIn(s, d[j + 1]) = 2
         THEN Left(s, d, h, z, j, SubSeq(h, 1, Len(h) - 1), h[Len(h)])
         ELSE Left(s, d, h, z, j, h, z)
<1>1. PICK n : n = Len(d)
  OBVIOUS
<1>2. n \in Nat /\ j + 1 <= n /\ j + 1 \in Nat
  BY <1>1, TopFrame
<1>3. LoopsIn(s, d, n) = LoopsIn(s, d, j + 1)
  BY <1>1, <1>2, LoopsFlat
<1>4. PICK l \in Nat : l = LoopsIn(s, d, j)
  BY LoopsAreFinite
<1>5. LoopsIn(s, d, j + 1) = IF KindIn(s, d[j + 1]) = 2 THEN l + 1 ELSE l
  BY <1>4, LoopsStep, SMTT(20)
<1>6. CASE KindIn(s, d[j + 1]) = 2
  <2>1. Len(h) = l + 1 /\ Len(h) - 1 = l /\ LoopsIn(s, d, j + 1) = Len(h)
    BY <1>1, <1>3, <1>4, <1>5, <1>6
  <2>2. \A i \in 1 .. l : h[i] \in Seq(Values)
    BY <2>1
  <2>3. /\ SubSeq(h, 1, l) \in Seq(Seq(Values)) /\ Len(SubSeq(h, 1, l)) = l
        /\ \A i \in 1 .. l : SubSeq(h, 1, l)[i] = h[i]
    BY <2>2, FirstPart
  <2>4. h[Len(h)] \in Seq(Values)
    BY <1>4, <2>1
  <2>5. Left(s, d, h, z, j, SubSeq(h, 1, Len(h) - 1), h[Len(h)])
    BY <1>4, <1>6, <2>1, <2>3, <2>4, SMT DEF Left
  <2> QED BY <1>6, <2>5, Zenon
<1>7. CASE KindIn(s, d[j + 1]) # 2
  <2>1. Len(h) = l
    BY <1>1, <1>3, <1>4, <1>5, <1>7
  <2>2. Left(s, d, h, z, j, h, z)
    BY <1>4, <1>7, <2>1 DEF Left
  <2> QED BY <1>7, <2>2, Zenon
<1> QED BY <1>6, <1>7

\* A first part of a first part.
LEMMA PartOfPart ==
  ASSUME NEW S, NEW F, NEW n \in Nat, n >= 1, \A k \in 1 .. n : F[k] \in S
  PROVE  SubSeq(SubSeq(F, 1, n), 1, n - 1) = SubSeq(F, 1, n - 1) /\ SubSeq(F, 1, n)[n] = F[n]
<1>1. PICK G : G = SubSeq(F, 1, n)
  OBVIOUS
<1>2. Len(G) = n /\ \A k \in 1 .. n : G[k] = F[k]
  BY <1>1, FirstPart
<1>3. PICK m \in Int, a \in Int : m = n - 1 /\ a = 1
  OBVIOUS
<1>4. \A i \in a .. m : F[i] \in S /\ G[i] = F[i]
  BY <1>2, <1>3
<1>5. SubSeq(G, a, m) = SubSeq(F, a, m)
  BY <1>4, SamePart
<1>6. G[n] = F[n]
  BY <1>2
<1> QED BY <1>1, <1>3, <1>5, <1>6, Zenon

\* The words once the frame j + 1 has returned a value, and the frames then.
Back(s, d, j, value) ==
  IF KindIn(s, d[j + 1]) = 0
  THEN Stored(SubSeq(s, 1, TopIn(s, d, j)), StackSize - d[j], Variable[ReturnIn(s, d[j + 1])], value)
  ELSE SubSeq(s, 1, TopIn(s, d, j))
Given(F, j, value) ==
  IF F[j + 1].kind = 0
  THEN Append(SubSeq(F, 1, j - 1), ZS!Stored(F[j], Variable[F[j + 1].ret], value))
  ELSE SubSeq(F, 1, j)

Returned(s, d, h, g, j, value, t, e) ==
  /\ Stack(t, e) /\ Len(e) = j /\ e[j] = d[j] /\ LoopsIn(t, e, j) = LoopsIn(s, d, j)
  /\ DecodedIn(t, e, g) = Given(DecodedIn(s, d, h), j, value)

\* A return leaves the row of the frames below, the value stored in the last.
LEMMA ReturnWords ==
  ASSUME NEW s, NEW d, Stack(s, d), NEW j \in Nat, j >= 1, j + 1 <= Len(d), NEW value \in Held,
         NEW h, NEW g, \A i \in 1 .. LoopsIn(s, d, j) : g[i] = h[i]
  PROVE  Returned(s, d, h, g, j, value, Back(s, d, j, value), SubSeq(d, 1, j))
<1>1. PICK k, v, cut, e, F :
        /\ k = KindIn(s, d[j + 1]) /\ v = Variable[ReturnIn(s, d[j + 1])]
        /\ cut = SubSeq(s, 1, TopIn(s, d, j)) /\ e = SubSeq(d, 1, j) /\ F = DecodedIn(s, d, h)
  OBVIOUS
<1>2. /\ j \in 1 .. Len(d) /\ j + 1 \in 1 .. Len(d) /\ TopIn(s, d, j) < StackSize
      /\ k = 0 => v \in 0 .. 255 /\ (v \in 1 .. 15 => v <= LocalsIn(s, d[j]))
  <2> DEFINE r == ReturnIn(s, d[j + 1])
  <2>1. /\ j \in 1 .. Len(d) /\ j + 1 \in 1 .. Len(d) /\ TopIn(s, d, j) < StackSize
        /\ KindIn(s, d[j + 1]) = 0 =>
             Variable[r] \in 0 .. 255 /\ (Variable[r] \in 1 .. 15 => Variable[r] <= LocalsIn(s, d[j]))
    BY ReturnParts
  <2> QED BY <1>1, <2>1
<1>3. CutTo(s, d, h, g, j, cut, e)
  BY <1>1, <1>2, CutFrames, Zenon
<1>4. /\ Stack(cut, e) /\ LoopsIn(cut, e, j) = LoopsIn(s, d, j)
      /\ Len(e) = j /\ e[j] = d[j] /\ Len(cut) = TopIn(s, d, j)
      /\ LocalsIn(cut, d[j]) = LocalsIn(s, d[j])
      /\ DecodedIn(cut, e, g) = SubSeq(F, 1, j)
  BY <1>1, <1>3, Zenon DEF CutTo
<1>5. F[j + 1].kind = k /\ F[j + 1].ret = ReturnIn(s, d[j + 1])
  <2>1. PICK i : i = j + 1
    OBVIOUS
  <2>2. i \in 1 .. Len(d) /\ i # 1
    BY <1>2, <2>1
  <2>3. F[i] = DecIn(s, d, h, i)
    BY <1>1, <2>2, Zenon DEF DecodedIn
  <2> QED BY <1>1, <2>1, <2>2, <2>3, SMT DEF DecIn, DecOf
<1>6. CASE k = 0
  <2>1. PICK t : t = Stored(cut, StackSize - d[j], v, value)
    OBVIOUS
  <2>2. Back(s, d, j, value) = t
    BY <1>1, <1>6, <2>1, Zenon DEF Back
  <2>3. /\ v \in 0 .. 255 /\ (v \in 1 .. 15 => v <= LocalsIn(cut, e[Len(e)]))
        /\ v = 0 => Len(cut) < StackSize
    BY <1>2, <1>4, <1>6, Zenon
  <2>4. TopBecomes(cut, e, g, Stored(cut, StackSize - e[Len(e)], v, value),
                   ZS!Stored(DecodedIn(cut, e, g)[Len(e)], v, value))
    BY <1>4, <2>3, StoreTop, Zenon
  <2>5. TopBecomes(cut, e, g, t, ZS!Stored(SubSeq(F, 1, j)[j], v, value))
    BY <1>4, <2>1, <2>4, Zenon
  <2>6. SubSeq(SubSeq(F, 1, j), 1, j - 1) = SubSeq(F, 1, j - 1) /\ SubSeq(F, 1, j)[j] = F[j]
    <3>1. \A i \in 1 .. j : F[i] \in {F[x] : x \in 1 .. j}
      OBVIOUS
    <3> QED BY <3>1, PartOfPart
  <2>7. /\ Stack(t, e) /\ LoopsIn(t, e, j) = LoopsIn(s, d, j)
        /\ DecodedIn(t, e, g) = Append(SubSeq(F, 1, j - 1), ZS!Stored(F[j], v, value))
    BY <1>4, <2>5, <2>6, Zenon DEF TopBecomes
  <2>8. Given(F, j, value) = Append(SubSeq(F, 1, j - 1), ZS!Stored(F[j], v, value))
    BY <1>1, <1>5, <1>6, Zenon DEF Given
  <2> QED BY <1>1, <1>4, <2>2, <2>7, <2>8, Zenon DEF Returned
<1>7. CASE k # 0
  <2>1. Back(s, d, j, value) = cut
    BY <1>1, <1>7, Zenon DEF Back
  <2>2. Given(F, j, value) = SubSeq(F, 1, j)
    BY <1>5, <1>7, Zenon DEF Given
  <2> QED BY <1>1, <1>4, <2>1, <2>2, Zenon DEF Returned
<1> QED BY <1>6, <1>7

\* The state once the frame j + 1 of the row d has returned a value: the row is e.
ReturnedTo(d, j, value, e) ==
  LET f == Decoded(d)[j + 1]
  IN  /\ StackAt(stack', e, fp', frame_count', pc', zargs', host')
      /\ DecodedIn(stack', e, host') = Given(Decoded(d), j, value)
      /\ pc' = IF f.kind = 0 THEN f.ret + 1 ELSE f.ret
      /\ zargs' = IF f.kind = 2 THEN f.waiting ELSE zargs

\* A frame returns, and those above it are gone.
LEMMA ReturnStep ==
  ASSUME NEW d, StackOf(d), NEW j \in Nat, j >= 1, j + 1 <= Len(d),
         \A i \in (j + 1) + 1 .. Len(d) : KindIn(stack, d[i]) # 2, NEW value \in Held,
         RetFrom(StackSize - d[j + 1], j - 1, value)
  PROVE  ReturnedTo(d, j, value, SubSeq(d, 1, j))
<1>1. PICK f, k, r, e :
        /\ f = StackSize - d[j + 1] /\ k = KindIn(stack, d[j + 1]) /\ r = ReturnIn(stack, d[j + 1])
        /\ e = SubSeq(d, 1, j)
  OBVIOUS
<1>2. /\ Stack(stack, d) /\ zargs \in Seq(Values) /\ host \in Seq(Seq(Values))
      /\ Len(host) = LoopsIn(stack, d, Len(d))
  BY InRow, Zenon
<1>3. /\ j \in 1 .. Len(d) /\ j + 1 \in 1 .. Len(d)
      /\ TopIn(stack, d, j) = d[j + 1] - 4 /\ r \in Codes /\ (k = 0 => r + 1 \in Codes)
  <2>1. /\ j \in 1 .. Len(d) /\ j + 1 \in 1 .. Len(d)
        /\ TopIn(stack, d, j) = d[j + 1] - 4 /\ ReturnIn(stack, d[j + 1]) \in Codes
        /\ KindIn(stack, d[j + 1]) = 0 => ReturnIn(stack, d[j + 1]) + 1 \in Codes
    BY <1>2, ReturnParts
  <2> QED BY <1>1, <2>1, Zenon
<1>4. Kind(f) = k /\ ReturnTo(f) = r /\ Caller(f) = StackSize - d[j]
  <2>1. PICK i : i = j + 1
    OBVIOUS
  <2>2. i \in 1 .. Len(d) /\ i > 1 /\ i - 1 = j /\ f = StackSize - d[i] /\ d[i] = d[j + 1]
    BY <1>1, <1>3, <2>1
  <2> QED BY <1>1, <1>2, <2>2, PartsAt
<1>5. StackSize - f - 4 = TopIn(stack, d, j)
  <2>1. d[j + 1] \in Nat /\ StackSize \in Nat
    BY <1>2, <1>3, Places
  <2> QED BY <1>1, <1>3, <2>1
<1>6. /\ stack' = Back(stack, d, j, value) /\ fp' = StackSize - d[j] /\ frame_count' = j - 1
      /\ pc' = IF k = 0 THEN r + 1 ELSE r
      /\ IF k = 2 THEN zargs' = host[Len(host)] /\ host' = SubSeq(host, 1, Len(host) - 1)
         ELSE zargs' = zargs /\ host' = host
  <2>1. RetFrom(f, j - 1, value)
    BY <1>1
  <2>2. stack' = IF k = 0 THEN Stored(SubSeq(stack, 1, TopIn(stack, d, j)), StackSize - d[j], Variable[r], value)
                 ELSE SubSeq(stack, 1, TopIn(stack, d, j))
    BY <1>4, <1>5, <2>1, Zenon DEF RetFrom
  <2>3. stack' = Back(stack, d, j, value)
    BY <1>1, <2>2, Zenon DEF Back
  <2>4. /\ fp' = StackSize - d[j] /\ frame_count' = j - 1
        /\ pc' = IF k = 0 THEN r + 1 ELSE r
        /\ IF k = 2 THEN zargs' = host[Len(host)] /\ host' = SubSeq(host, 1, Len(host) - 1)
           ELSE zargs' = zargs /\ host' = host
    BY <1>4, <2>1, Zenon DEF RetFrom
  <2> QED BY <2>3, <2>4, Zenon
<1>7. Left(stack, d, host, zargs, j, host', zargs')
  <2>1. IF k = 2 THEN Left(stack, d, host, zargs, j, SubSeq(host, 1, Len(host) - 1), host[Len(host)])
        ELSE Left(stack, d, host, zargs, j, host, zargs)
    BY <1>1, <1>2, LoopsLeft
  <2> QED BY <1>6, <2>1, Zenon
<1>8. /\ host' \in Seq(Seq(Values)) /\ Len(host') = LoopsIn(stack, d, j)
      /\ \A i \in 1 .. LoopsIn(stack, d, j) : host'[i] = host[i]
      /\ zargs' \in Seq(Values)
      /\ zargs' = IF k = 2 THEN host[LoopsIn(stack, d, j + 1)] ELSE zargs
  BY <1>1, <1>7, Zenon DEF Left
<1>9. Returned(stack, d, host, host', j, value, stack', e)
  <2>1. Returned(stack, d, host, host', j, value, Back(stack, d, j, value), SubSeq(d, 1, j))
    BY <1>2, <1>8, ReturnWords
  <2> QED BY <1>1, <1>6, <2>1, Zenon
<1>10. /\ Stack(stack', e) /\ Len(e) = j /\ e[j] = d[j]
       /\ LoopsIn(stack', e, j) = LoopsIn(stack, d, j)
       /\ DecodedIn(stack', e, host') = Given(Decoded(d), j, value)
  BY <1>9, Zenon DEF Returned, Decoded
<1>11. StackAt(stack', e, fp', frame_count', pc', zargs', host')
  <2>1. frame_count' \in Nat /\ Len(e) = frame_count' + 1
    BY <1>6, <1>10
  <2>2. pc' \in Codes
    BY <1>3, <1>6
  <2> QED BY <1>6, <1>8, <1>10, <2>1, <2>2, Zenon DEF StackAt
<1>12. PICK F : F = Decoded(d)
  OBVIOUS
<1>13. F[j + 1].kind = k /\ F[j + 1].ret = r
       /\ (k = 2 => F[j + 1].waiting = host[LoopsIn(stack, d, j + 1)])
  <2>1. PICK i : i = j + 1
    OBVIOUS
  <2>2. i \in 1 .. Len(d) /\ i # 1 /\ i > 1
    BY <1>3, <2>1
  <2>3. F[i] = DecIn(stack, d, host, i)
    BY <1>12, <2>2, Zenon DEF Decoded, DecodedIn
  <2> QED BY <1>1, <2>1, <2>2, <2>3, SMT DEF DecIn, DecOf
<1>14. pc' = IF F[j + 1].kind = 0 THEN F[j + 1].ret + 1 ELSE F[j + 1].ret
  BY <1>6, <1>13
<1>15. zargs' = IF F[j + 1].kind = 2 THEN F[j + 1].waiting ELSE zargs
  BY <1>8, <1>13
<1> QED BY <1>1, <1>10, <1>11, <1>12, <1>14, <1>15, Zenon DEF ReturnedTo

-----------------------------------------------------------------------------
(* The actions of ZStack, of the frames shown.                             *)

\* Values are stored, or taken.
LEMMA ZSet ==
  ASSUME NEW F, NEW G, Shown = F, Shown' = G, UNCHANGED <<pc, zargs>>,
         NEW v \in 0 .. Len(F[Len(F)].locals), NEW value \in Held,
         G = Append(SubSeq(F, 1, Len(F) - 1), ZS!Stored(F[Len(F)], v, value))
  PROVE  ZS!Set
BY Zenon DEF ZS!Set, ZS!With, ZS!Under, ZS!N, ZS!Current, Shown, Held

\* A value is taken from the last frame.
LEMMA ZTake ==
  ASSUME NEW F, NEW G, Shown = F, Shown' = G, UNCHANGED <<pc, zargs>>, F[Len(F)].evals # <<>>,
         G = Append(SubSeq(F, 1, Len(F) - 1), ZS!Pop(F[Len(F)]))
  PROVE  ZS!Take
BY Zenon DEF ZS!Take, ZS!With, ZS!Under, ZS!N, ZS!Current, Shown

\* The frames are counted.
LEMMA ZCatch ==
  ASSUME NEW F, NEW G, Shown = F, Shown' = G, pc \in DOMAIN Variable, pc' = pc + 1, UNCHANGED zargs,
         G = Append(SubSeq(F, 1, Len(F) - 1), ZS!Stored(F[Len(F)], Variable[pc], Len(F) - 1))
  PROVE  ZS!Catch
BY Zenon DEF ZS!Catch, ZS!With, ZS!Under, ZS!N, ZS!Current, Shown

\* A routine is called, or returns.
LEMMA ZCall ==
  ASSUME NEW kind, NEW args, NEW count, NEW waiting,
         Shown' = Append(Shown, ZS!Frame(pc, kind, args, count, waiting))
  PROVE  ZS!Call(kind, args, count, waiting)
BY Zenon DEF ZS!Call, Shown

\* A frame returns a value to the one below it.
LEMMA ZReturn ==
  ASSUME NEW F, NEW G, Shown = F, Shown' = G, NEW n, NEW value, NEW f, f = F[n + 1],
         pc' = IF f.kind = 0 THEN f.ret + 1 ELSE f.ret,
         f.kind = 0 => G = Append(SubSeq(F, 1, n - 1), ZS!Stored(F[n], Variable[f.ret], value)),
         f.kind # 0 => G = SubSeq(F, 1, n),
         zargs' = IF f.kind = 2 THEN f.waiting ELSE zargs
  PROVE  ZS!Return(n, f, value)
<1>1. Shown' = IF f.kind = 0
               THEN Append(SubSeq(Shown, 1, n - 1), ZS!Stored(Shown[n], Variable[f.ret], value))
               ELSE SubSeq(Shown, 1, n)
  <2>1. CASE f.kind = 0
    <3>1. G = Append(SubSeq(Shown, 1, n - 1), ZS!Stored(Shown[n], Variable[f.ret], value))
      BY <2>1, Zenon
    <3> QED BY <2>1, <3>1, Zenon
  <2>2. CASE f.kind # 0
    <3>1. G = SubSeq(Shown, 1, n)
      BY <2>2, Zenon
    <3> QED BY <2>2, <3>1, Zenon
  <2> QED BY <2>1, <2>2
<1> QED BY <1>1, Zenon DEF ZS!Return, ZS!With, ZS!Under, Shown

-----------------------------------------------------------------------------
(* Every step keeps the invariant and is one of ZStack.                    *)

\* The frames shown after a step.
LEMMA ShownLater == (\A x : StackOf(x) => Shown = Decoded(x))'
<1>1. \A x : StackOf(x) => Shown = Decoded(x)
  BY ShownAre
<1> QED BY <1>1, PTL

\* They are those of the row the step leads to.
LEMMA ShownNext ==
  ASSUME NEW e, StackAt(stack', e, fp', frame_count', pc', zargs', host')
  PROVE  Shown' = DecodedIn(stack', e, host')
<1>2. (\A x : StackOf(x) => Shown = Decoded(x))'
  BY ShownLater
<1>3. StackOf(e)'
  BY Zenon DEF StackOf
<1>4. Shown' = Decoded(e)'
  BY <1>2, <1>3
<1> QED BY <1>4, Zenon DEF Decoded

\* The step leads to the row e, and is one that ZStack takes.
Moves(e) ==
  /\ StackAt(stack', e, fp', frame_count', pc', zargs', host')
  /\ ZS!Next

\* A variable is set.
LEMMA SetMoves ==
  ASSUME NEW d, StackOf(d), ~finished,
         NEW v \in 0 .. MaxLocals, NEW value \in Values, Set(v, value)
  PROVE  Moves(d)
<1>1. PICK n, F : n = Len(d) /\ F = Decoded(d)
  OBVIOUS
<1>2. /\ Stack(stack, d) /\ pc \in Codes /\ Locals(fp) = LocalsIn(stack, d[n])
  BY <1>1, InRow, Zenon
<1>3. PICK l \in 0 .. 15 : l = LocalsIn(stack, d[n])
  BY <1>1, <1>2, TopFrame
<1>4. v \in 0 .. 255 /\ v \in 0 .. l
  <2>1. MaxLocals \in 0 .. 15
    BY StackAssumption, SMT
  <2>2. v < 16 /\ ((v = 0 /\ sp > 0) \/ v \in 1 .. l \/ v >= 16)
    BY <1>2, <1>3, Zenon DEF Set, Writable
  <2> QED BY <2>1, <2>2
<1>5. value \in Held /\ Writable(v)
  BY Zenon DEF Held, Set
<1>6. /\ StackAt(Stored(stack, fp, v, value), d, fp, frame_count, pc, zargs, host)
      /\ DecodedIn(Stored(stack, fp, v, value), d, host) =
           Append(SubSeq(Decoded(d), 1, Len(d) - 1), ZS!Stored(Decoded(d)[Len(d)], v, value))
  BY <1>2, <1>4, <1>5, StoreStep
<1>7. /\ stack' = Stored(stack, fp, v, value)
      /\ UNCHANGED <<fp, frame_count, pc, zargs, host, finished>>
  BY Zenon DEF Set
<1>8. StackAt(stack', d, fp', frame_count', pc', zargs', host')
  BY <1>6, <1>7, Zenon
<1>9. PICK G : G = DecodedIn(stack', d, host')
  OBVIOUS
<1>10. Shown = F /\ Shown' = G
  BY <1>1, <1>8, <1>9, ShownAre, ShownNext, Zenon
<1>11. Len(F) = n /\ n \in Nat /\ Len(F[n].locals) = l
  <2>1. Len(F) = n /\ n \in Nat
    BY <1>1, <1>2, TopFrame DEF Decoded, DecodedIn
  <2>2a. PICK a \in Nat : a = d[n]
    BY <1>1, <1>2, TopFrame
  <2>2. PICK lo, ev : a = d[n] /\ lo = SubSeq(stack, a + 1, a + l) /\ ev = SubSeq(stack, a + l + 1, Len(stack))
    BY <2>2a
  <2>3. F[n] = DecOf(stack, d, host, n, lo, ev)
    BY <1>1, <1>2, <1>3, <2>2, TopFrame, Zenon DEF Decoded
  <2>4. F[n].locals = lo
    BY <2>3 DEF DecOf
  <2>5. a + l <= Len(stack) /\ stack \in Seq(Words)
    BY <1>1, <1>2, <1>3, <2>2, TopFrame, Zenon
  <2>6. Len(lo) = l
    <3>1. PICK b \in Int, c \in Int : b = a + 1 /\ c = a + l /\ c - b + 1 = l /\ (b <= c <=> l > 0)
      OBVIOUS
    <3>2. \A i \in b .. c : stack[i] \in Words
      BY <2>5, <3>1
    <3>3. Len(SubSeq(stack, b, c)) = IF b <= c THEN c - b + 1 ELSE 0
      BY <3>2, SubSeqProperties
    <3>4. lo = SubSeq(stack, b, c)
      BY <2>2, <3>1, Zenon
    <3>5. Len(lo) = IF b <= c THEN c - b + 1 ELSE 0
      BY <3>3, <3>4
    <3> QED BY <3>1, <3>5
  <2> QED BY <2>1, <2>4, <2>6
<1>12. G = Append(SubSeq(F, 1, Len(F) - 1), ZS!Stored(F[Len(F)], v, value))
  BY <1>1, <1>6, <1>7, <1>9, <1>11, Zenon
<1>13. ZS!Set
  <2>1. v \in 0 .. Len(F[Len(F)].locals)
    BY <1>4, <1>11
  <2> QED BY <1>5, <1>7, <1>10, <1>12, <2>1, ZSet
<1> QED BY <1>7, <1>8, <1>13, Zenon DEF Moves, ZS!Next

\* A value is taken.
LEMMA TakeMoves ==
  ASSUME NEW d, StackOf(d), ~finished, Take
  PROVE  Moves(d)
<1>1. PICK n, F : n = Len(d) /\ F = Decoded(d)
  OBVIOUS
<1>2. /\ Evals > 0 /\ stack' = SubSeq(stack, 1, Len(stack) - 1)
      /\ UNCHANGED <<fp, frame_count, pc, zargs, host, finished>>
  BY Zenon DEF Take
<1>3. /\ StackAt(SubSeq(stack, 1, Len(stack) - 1), d, fp, frame_count, pc, zargs, host)
      /\ DecodedIn(SubSeq(stack, 1, Len(stack) - 1), d, host) =
           Append(SubSeq(F, 1, n - 1), ZS!Pop(F[n]))
      /\ F[n].evals # <<>>
  BY <1>1, <1>2, TakeStep, Zenon
<1>4. StackAt(stack', d, fp', frame_count', pc', zargs', host')
  BY <1>2, <1>3, Zenon
<1>5. PICK G : G = DecodedIn(stack', d, host')
  OBVIOUS
<1>6. Shown = F /\ Shown' = G
  BY <1>1, <1>4, <1>5, ShownAre, ShownNext, Zenon
<1>7. Len(F) = n
  <2>1. Stack(stack, d)
    BY InRow, Zenon
  <2> QED BY <1>1, <2>1, TopFrame DEF Decoded, DecodedIn
<1>8. ZS!Take
  BY <1>2, <1>3, <1>5, <1>6, <1>7, ZTake
<1> QED BY <1>2, <1>4, <1>8, Zenon DEF Moves, ZS!Next

\* The game goes on elsewhere: the row is the same.
LEMMA JumpMoves ==
  ASSUME NEW d, StackOf(d), ~finished, NEW p \in DOMAIN Variable, Jump(p)
  PROVE  Moves(d)
<1>1. /\ pc' = p /\ pc' \in DOMAIN Variable
      /\ UNCHANGED <<stack, fp, frame_count, zargs, host, finished>>
  BY Zenon DEF Jump
<1>2. pc' \in Codes
  <2>1. p \in Nat /\ p < 524288
    BY StackAssumption, SMT
  <2> QED BY <1>1, <2>1, SMT DEF Codes
<1>3. StackAt(stack', d, fp', frame_count', pc', zargs', host')
  BY <1>1, <1>2, Zenon DEF StackOf, StackAt
<1>4. Shown' = Shown
  BY <1>1, <1>3, ShownAre, ShownNext, Zenon DEF Decoded
<1>5. ZS!Jump
  BY <1>1, <1>4, Zenon DEF ZS!Jump, Shown
<1> QED BY <1>1, <1>3, <1>5, Zenon DEF Moves, ZS!Next

\* The game ends: the row is the same.
LEMMA OverflowMoves ==
  ASSUME NEW d, StackOf(d), ~finished, Overflow
  PROVE  Moves(d)
<1>1. finished' = TRUE /\ UNCHANGED <<stack, fp, frame_count, pc, zargs, host>>
  BY Zenon DEF Overflow
<1>2. StackAt(stack', d, fp', frame_count', pc', zargs', host')
  BY <1>1, Zenon DEF StackOf
<1>3. Shown' = Shown
  BY <1>1, <1>2, ShownAre, ShownNext, Zenon DEF Decoded
<1> QED BY <1>1, <1>2, <1>3, Zenon DEF Moves, ZS!Next, Shown

\* The operands of calls.
LEMMA ArgumentsAre ==
  ASSUME NEW args \in Arguments
  PROVE  args \in Seq(Values) /\ Len(args) <= 7
<1>1. PICK n \in 0 .. MaxArgs : args \in [1 .. n -> Values]
  BY DEF Arguments
<1>2. MaxArgs \in 0 .. 7
  BY StackAssumption, SMT
<1> QED BY <1>1, <1>2

\* An instruction calls a routine.
LEMMA CallRoutineMoves ==
  ASSUME NEW d, StackOf(d), ~finished, NEW args \in Arguments, NEW kind \in {0, 1},
         NEW count \in 0 .. MaxLocals, CallRoutine(args, kind, count)
  PROVE  Moves(Append(d, Len(stack) + 4))
<1>1. /\ pc \in DOMAIN Variable /\ (kind = 0 => Writable(Variable[pc]))
      /\ zargs' = args /\ host' = host
      /\ sp >= 4 /\ sp - 4 >= count
      /\ fp' = sp - 4 /\ frame_count' = frame_count + 1
      /\ UNCHANGED <<pc, finished>>
  BY Zenon DEF CallRoutine, Call
<1>2. stack' = stack \o Packed(pc, args, kind, count)
                 \o [i \in 1 .. count |-> IF i <= Len(args) THEN args[i] ELSE 0]
  BY Zenon DEF CallRoutine, Call
<1>3. args \in Seq(Values) /\ Len(args) <= 7 /\ kind \in 0 .. 2 /\ kind # 2
  BY ArgumentsAre
<1>4. PICK e : e = Append(d, Len(stack) + 4)
  OBVIOUS
<1>5. /\ StackAt(stack', e, sp - 4, frame_count + 1, pc, args, host)
      /\ DecodedIn(stack', e, host) =
           Append(Decoded(d), ZS!Frame(pc, kind, args, count, <<>>))
  <2>1. host = IF kind = 2 THEN Append(host, zargs) ELSE host
    BY <1>3
  <2>2. <<>> = IF kind = 2 THEN zargs ELSE <<>>
    BY <1>3
  <2>3. Calls(args, kind, count, <<>>, host, stack')
    BY <1>1, <1>2, <1>3, <2>1, <2>2, Zenon DEF Calls
  <2>4. CalledTo(d, Append(d, Len(stack) + 4), args, kind, count, <<>>, args, host, stack')
    BY <1>3, <2>3, CallStep
  <2> QED BY <1>4, <2>4, Zenon DEF CalledTo
<1>6. StackAt(stack', e, fp', frame_count', pc', zargs', host')
  BY <1>1, <1>5, Zenon
<1>7. DecodedIn(stack', e, host') = Append(Decoded(d), ZS!Frame(pc, kind, args, count, <<>>))
  BY <1>1, <1>5, Zenon
<1>8. ZS!Call(kind, zargs', count, <<>>)
  <2>1. Shown' = Append(Shown, ZS!Frame(pc, kind, args, count, <<>>))
    BY <1>6, <1>7, ShownAre, ShownNext, Zenon
  <2> QED BY <1>1, <2>1, ZCall, Zenon
<1> QED BY <1>1, <1>4, <1>6, <1>8, Zenon DEF Moves, ZS!Next

\* The interpreter calls a routine while an instruction waits.
LEMMA DirectCallMoves ==
  ASSUME NEW d, StackOf(d), ~finished, NEW count \in 0 .. MaxLocals, DirectCall(count)
  PROVE  Moves(Append(d, Len(stack) + 4))
<1>1. /\ zargs' = zargs /\ host' = Append(host, zargs)
      /\ sp >= 4 /\ sp - 4 >= count
      /\ fp' = sp - 4 /\ frame_count' = frame_count + 1
      /\ UNCHANGED <<pc, finished>>
  BY Zenon DEF DirectCall, Call
<1>2. PICK args : args = <<>>
  OBVIOUS
<1>3. args \in Seq(Values) /\ Len(args) <= 7 /\ 2 \in 0 .. 2 /\ zargs \in Seq(Values)
  BY <1>2, InRow
<1>4. stack' = stack \o Packed(pc, args, 2, count)
                 \o [i \in 1 .. count |-> IF i <= Len(args) THEN args[i] ELSE 0]
  BY <1>2, Zenon DEF DirectCall, Call
<1>5. PICK e : e = Append(d, Len(stack) + 4)
  OBVIOUS
<1>6. /\ StackAt(stack', e, sp - 4, frame_count + 1, pc, zargs, host')
      /\ DecodedIn(stack', e, host') =
           Append(Decoded(d), ZS!Frame(pc, 2, args, count, zargs))
  <2>1. PICK kind \in 0 .. 2 : kind = 2
    OBVIOUS
  <2>2. host' = IF kind = 2 THEN Append(host, zargs) ELSE host
    BY <1>1, <2>1
  <2>3. kind = 0 => pc \in DOMAIN Variable /\ Writable(Variable[pc])
    BY <2>1
  <2>4. stack' = stack \o Packed(pc, args, kind, count)
                   \o [i \in 1 .. count |-> IF i <= Len(args) THEN args[i] ELSE 0]
    BY <1>4, <2>1, Zenon
  <2>4a. zargs = IF kind = 2 THEN zargs ELSE <<>>
    BY <2>1
  <2>5. Calls(args, kind, count, zargs, host', stack')
    BY <1>1, <1>3, <2>1, <2>2, <2>3, <2>4, <2>4a, Zenon DEF Calls
  <2>6. /\ StackAt(stack', e, sp - 4, frame_count + 1, pc, zargs, host')
        /\ DecodedIn(stack', e, host') =
             Append(Decoded(d), ZS!Frame(pc, kind, args, count, zargs))
    <3>1. CalledTo(d, Append(d, Len(stack) + 4), args, kind, count, zargs, zargs, host', stack')
      BY <1>3, <2>5, CallStep
    <3> QED BY <1>5, <3>1, Zenon DEF CalledTo
  <2> QED BY <2>1, <2>6, Zenon
<1>7. StackAt(stack', e, fp', frame_count', pc', zargs', host')
  BY <1>1, <1>6, Zenon
<1>8. DecodedIn(stack', e, host') = Append(Decoded(d), ZS!Frame(pc, 2, args, count, zargs))
  BY <1>6, Zenon
<1>9. ZS!Call(2, <<>>, count, zargs)
  <2>1. Shown' = Append(Shown, ZS!Frame(pc, 2, args, count, zargs))
    BY <1>7, <1>8, ShownAre, ShownNext, Zenon
  <2> QED BY <1>2, <2>1, ZCall, Zenon
<1> QED BY <1>1, <1>5, <1>7, <1>9, Zenon DEF Moves, ZS!Next

\* The frame count is stored; it fits, as every frame has four words.
LEMMA CatchMoves ==
  ASSUME NEW d, StackOf(d), ~finished, Catch
  PROVE  Moves(d)
<1>1. PICK n, F, v : n = Len(d) /\ F = Decoded(d) /\ v = Variable[pc]
  OBVIOUS
<1>2. /\ pc \in DOMAIN Variable /\ Writable(v) /\ stack' = Stored(stack, fp, v, frame_count)
      /\ pc' = pc + 1 /\ UNCHANGED <<fp, frame_count, zargs, host, finished>>
  BY <1>1, Zenon DEF Catch
<1>3. v \in 0 .. 255 /\ pc' \in Codes
  <2>1. pc \in Nat /\ pc < 524288 /\ v \in 0 .. 255
    BY <1>1, <1>2, StackAssumption, SMT
  <2> QED BY <1>2, <2>1, SMT DEF Codes
<1>4. Stack(stack, d) /\ n = frame_count + 1 /\ frame_count \in Nat
  BY <1>1, InRow, Zenon
<1>5. frame_count \in Held
  <2>1. n \in 1 .. Len(d) /\ d[n] >= 4 * (n - 1)
    BY <1>1, <1>4 DEF Stack, Apart
  <2>2. PICK a \in Nat, m \in Nat : a = d[n] /\ m = Len(stack)
    BY <1>4, <2>1, Places
  <2>3. a <= m /\ m <= StackSize /\ StackSize \in Nat
    BY <1>4, <2>1, <2>2, Places
  <2>4. 4 * frame_count <= StackSize
    BY <1>4, <2>1, <2>2, <2>3
  <2>5. frame_count <= StackSize \div 4 /\ StackSize \div 4 \in Int
    BY <1>4, <2>3, <2>4
  <2>6. frame_count \in 0 .. StackSize \div 4
    BY <1>4, <2>5
  <2> QED BY <2>6, Zenon DEF Held
<1>6. /\ StackAt(stack', d, fp, frame_count, pc', zargs, host)
      /\ DecodedIn(stack', d, host) = Append(SubSeq(F, 1, n - 1), ZS!Stored(F[n], v, frame_count))
  BY <1>1, <1>2, <1>3, <1>5, StoreStep, Zenon
<1>7. StackAt(stack', d, fp', frame_count', pc', zargs', host')
  BY <1>2, <1>6, Zenon
<1>8. PICK G : G = DecodedIn(stack', d, host')
  OBVIOUS
<1>9. Shown = F /\ Shown' = G
  BY <1>1, <1>7, <1>8, ShownAre, ShownNext, Zenon
<1>10. Len(F) = n /\ Len(F) - 1 = frame_count
  <2>1. Len(F) = n
    BY <1>1, <1>4, TopFrame DEF Decoded, DecodedIn
  <2> QED BY <1>4, <2>1
<1>11. G = Append(SubSeq(F, 1, Len(F) - 1), ZS!Stored(F[Len(F)], Variable[pc], Len(F) - 1))
  BY <1>1, <1>2, <1>6, <1>8, <1>10, Zenon
<1>12. ZS!Catch
  BY <1>2, <1>9, <1>11, ZCatch
<1> QED BY <1>2, <1>7, <1>12, Zenon DEF Moves, ZS!Next

\* The frame j + 1 returns a value.
LEMMA ReturnMoves ==
  ASSUME NEW d, StackOf(d), ~finished, NEW j \in Nat, j >= 1, j + 1 <= Len(d),
         \A i \in (j + 1) + 1 .. Len(d) : KindIn(stack, d[i]) # 2, NEW value \in Held,
         RetFrom(StackSize - d[j + 1], j - 1, value)
  PROVE  Moves(SubSeq(d, 1, j))
<1>1. PICK F, f, e : F = Decoded(d) /\ f = F[j + 1] /\ e = SubSeq(d, 1, j)
  OBVIOUS
<1>2. ReturnedTo(d, j, value, e)
  BY <1>1, ReturnStep
<1>3. StackAt(stack', e, fp', frame_count', pc', zargs', host')
  BY <1>2, Zenon DEF ReturnedTo
<1>4. PICK G : G = DecodedIn(stack', e, host')
  OBVIOUS
<1>5. Shown = F /\ Shown' = G
  BY <1>1, <1>3, <1>4, ShownAre, ShownNext, Zenon
<1>6. G = Given(F, j, value)
  BY <1>1, <1>2, <1>4, Zenon DEF ReturnedTo
<1>7. pc' = IF f.kind = 0 THEN f.ret + 1 ELSE f.ret
  BY <1>1, <1>2, Zenon DEF ReturnedTo
<1>8. zargs' = IF f.kind = 2 THEN f.waiting ELSE zargs
  BY <1>1, <1>2, Zenon DEF ReturnedTo
<1>9. f.kind = 0 => G = Append(SubSeq(F, 1, j - 1), ZS!Stored(F[j], Variable[f.ret], value))
  BY <1>1, <1>6, Zenon DEF Given
<1>10. f.kind # 0 => G = SubSeq(F, 1, j)
  BY <1>1, <1>6, Zenon DEF Given
<1>11. ZS!Return(j, f, value)
  BY <1>1, <1>5, <1>7, <1>8, <1>9, <1>10, ZReturn
<1>12. Len(F) = Len(d) /\ j \in 1 .. Len(F) - 1
  <2>1. Stack(stack, d)
    BY InRow, Zenon
  <2>2. Len(F) = Len(d) /\ Len(d) \in Nat
    BY <1>1, <2>1, TopFrame DEF Decoded, DecodedIn
  <2> QED BY <2>2
<1>13. ZS!Return(j, Shown[j + 1], value) /\ j \in 1 .. Len(Shown) - 1
  BY <1>1, <1>5, <1>11, <1>12, Zenon
<1>14. finished' = finished
  BY Zenon DEF RetFrom
<1>15. ZS!Next
  BY <1>13, <1>14, Zenon DEF ZS!Next, ZS!N, Shown, Held
<1> QED BY <1>1, <1>3, <1>15, Zenon DEF Moves

\* The last frame returns.
LEMMA RetMoves ==
  ASSUME NEW d, StackOf(d), ~finished, NEW value \in Held, InRoutine,
         RetFrom(fp, frame_count - 1, value)
  PROVE  \E e : Moves(e)
<1>1. PICK j : j = frame_count
  OBVIOUS
<1>2. frame_count \in Nat /\ Len(d) = frame_count + 1 /\ fp = StackSize - d[Len(d)] /\ Len(d) > 1
  BY InRow
<1>3. j \in Nat /\ j >= 1 /\ j + 1 <= Len(d) /\ j + 1 = Len(d) /\ fp = StackSize - d[j + 1]
  BY <1>1, <1>2
<1>4. \A i \in (j + 1) + 1 .. Len(d) : KindIn(stack, d[i]) # 2
  BY <1>3
<1>5. RetFrom(StackSize - d[j + 1], j - 1, value)
  BY <1>1, <1>3, Zenon
<1> QED BY <1>3, <1>4, <1>5, ReturnMoves

\* A frame that catch named returns, and those above it are left.
LEMMA ThrowMoves ==
  ASSUME NEW d, StackOf(d), ~finished, NEW value \in Values, NEW frame, Throw(value, frame)
  PROVE  \E e : Moves(e)
<1>1. /\ frame \in 1 .. frame_count /\ SameLoop(frame_count - frame)
      /\ RetFrom(Unwound(fp, frame_count - frame), frame - 1, value)
  BY Zenon DEF Throw
<1>2. PICK n : n = Len(d)
  OBVIOUS
<1>3. /\ Stack(stack, d) /\ frame_count \in Nat /\ n = frame_count + 1 /\ fp = StackSize - d[n]
  BY <1>2, InRow, Zenon
<1>4. frame \in Nat /\ frame >= 1 /\ frame + 1 <= n /\ frame_count - frame \in Nat
      /\ frame_count - frame < n /\ n - (frame_count - frame) = frame + 1
  BY <1>1, <1>3
<1>5. Unwound(fp, frame_count - frame) = StackSize - d[frame + 1]
  BY <1>2, <1>3, <1>4, UnwoundIs
<1>6. ASSUME NEW i \in (frame + 1) + 1 .. n PROVE KindIn(stack, d[i]) # 2
  <2>1. PICK k : k = n - i
    OBVIOUS
  <2>2. k \in Nat /\ k < n /\ n - k = i /\ i \in 1 .. n /\ i > 1 /\ k \in 0 .. frame_count - frame - 1
    BY <1>3, <1>4, <2>1
  <2>3. Unwound(fp, k) = StackSize - d[i]
    BY <1>2, <1>3, <2>2, UnwoundIs
  <2>4. Kind(Unwound(fp, k)) # 2
    BY <1>1, <2>2, Zenon DEF SameLoop
  <2>5. Kind(StackSize - d[i]) = KindIn(stack, d[i])
    <3>1. i \in 1 .. Len(d)
      BY <1>2, <2>2, Zenon
    <3> QED BY <1>3, <2>2, <3>1, PartsOf, Zenon
  <2> QED BY <2>3, <2>4, <2>5
<1>7. RetFrom(StackSize - d[frame + 1], frame - 1, value)
  BY <1>1, <1>5, Zenon
<1>8. value \in Held
  BY Zenon DEF Held
<1> QED BY <1>2, <1>4, <1>6, <1>7, <1>8, ReturnMoves

\* Every step.
LEMMA NextMoves ==
  ASSUME StackInv, StackNext
  PROVE  \E e : Moves(e)
<1>1. PICK d : StackOf(d)
  BY Zenon DEF StackInv
<1>2. ~finished
  BY Zenon DEF StackNext
<1>3. ASSUME NEW v \in 0 .. MaxLocals, NEW value \in Values, Set(v, value)
      PROVE  \E e : Moves(e)
  BY <1>1, <1>2, <1>3, SetMoves, Zenon
<1>4. CASE Take
  BY <1>1, <1>2, <1>4, TakeMoves, Zenon
<1>5. ASSUME NEW p \in DOMAIN Variable, Jump(p) PROVE \E e : Moves(e)
  BY <1>1, <1>2, <1>5, JumpMoves, Zenon
<1>6. ASSUME NEW args \in Arguments, NEW kind \in {0, 1}, NEW count \in 0 .. MaxLocals,
             CallRoutine(args, kind, count)
      PROVE  \E e : Moves(e)
  BY <1>1, <1>2, <1>6, CallRoutineMoves, Zenon
<1>7. ASSUME NEW count \in 0 .. MaxLocals, DirectCall(count) PROVE \E e : Moves(e)
  BY <1>1, <1>2, <1>7, DirectCallMoves, Zenon
<1>8. CASE Overflow
  BY <1>1, <1>2, <1>8, OverflowMoves, Zenon
<1>9. ASSUME NEW value \in Values, Ret(value) PROVE \E e : Moves(e)
  <2>1. value \in Held /\ InRoutine /\ RetFrom(fp, frame_count - 1, value)
    BY <1>9, Zenon DEF Ret, Held
  <2> QED BY <1>1, <1>2, <2>1, RetMoves, Zenon
<1>10. CASE RetPopped
  <2>1. InRoutine /\ Evals > 0 /\ RetFrom(fp, frame_count - 1, At(sp))
    BY <1>10, Zenon DEF RetPopped
  <2>2. At(sp) \in Held
    BY <1>1, <2>1, TakeStep, Zenon
  <2> QED BY <1>1, <1>2, <2>1, <2>2, RetMoves, Zenon
<1>11. CASE Catch
  BY <1>1, <1>2, <1>11, CatchMoves, Zenon
<1>12. ASSUME NEW value \in Values, NEW frame \in 1 .. StackSize, Throw(value, frame)
       PROVE  \E e : Moves(e)
  BY <1>1, <1>2, <1>12, ThrowMoves, Zenon
<1> QED BY <1>3, <1>4, <1>5, <1>6, <1>7, <1>8, <1>9, <1>10, <1>11, <1>12, Zenon DEF StackNext

\* The row stays where nothing happens.
LEMMA StaysInv ==
  ASSUME StackInv, UNCHANGED stackVars
  PROVE  StackInv'
BY Zenon DEF StackInv, StackOf, stackVars

\* There is always a row of frames, whatever instructions the game executes and
\* however its routines are called and left (call, ret, direct_call and z_throw in
\* process.c).
THEOREM StackIsARow == StackSpec => []StackInv
<1>1. StackInit => StackInv
  BY AtFirst, Zenon DEF StackInv
<1>2. StackInv /\ [StackNext]_stackVars => StackInv'
  <2>1. ASSUME StackInv, StackNext PROVE StackInv'
    <3>1. PICK e : Moves(e)
      BY <2>1, NextMoves
    <3>2. StackAt(stack', e, fp', frame_count', pc', zargs', host')
      BY <3>1, Zenon DEF Moves
    <3> QED BY <3>2, Zenon DEF StackInv, StackOf
  <2>2. ASSUME StackInv, UNCHANGED stackVars PROVE StackInv'
    BY <2>2, StaysInv, Zenon
  <2> QED BY <2>1, <2>2, Zenon
<1> QED BY <1>1, <1>2, PTL DEF StackSpec

\* The links that call writes and ret follows always lead from fp to the bottom of
\* the stack, frame_count counts them, no frame reaches into another, and the
\* direct calls that wait are those that have a frame.
THEOREM ChainOKAlways == StackSpec => []ChainOK
<1>1. StackInv => ChainOK
  BY InvIsOK
<1> QED BY <1>1, StackIsARow, PTL

\* The first frame is that of no routine.
LEMMA FirstShown ==
  ASSUME StackInit PROVE ZS!Init
<1>1. PICK d : d = <<0>>
  OBVIOUS
<1>2. StackOf(d)
  BY <1>1, AtFirst, Zenon
<1>3. Len(d) = 1 /\ d[1] = 0
  BY <1>1
<1>4. PICK e : e = <<>>
  OBVIOUS
<1>5. /\ stack = e /\ pc \in DOMAIN Variable /\ zargs = <<>> /\ ~finished
  BY <1>4, Zenon DEF StackInit
<1>6. LocalsIn(stack, 0) = 0 /\ SubSeq(stack, 1, 0) = e
  BY <1>4, <1>5, SubSeqEmpty DEF LocalsIn
<1>7. LocalsOf(stack, d, 1) = e /\ EvalsOf(stack, d, 1) = e
  <2>1. 0 + 1 = 1 /\ 0 + 0 = 0 /\ 0 + 0 + 1 = 1 /\ TopIn(stack, d, 1) = 0
    BY <1>3, <1>4, <1>5 DEF TopIn
  <2> QED BY <1>3, <1>6, <2>1, Zenon DEF LocalsOf, EvalsOf
<1>8. DecIn(stack, d, host, 1) = [ret |-> 0, kind |-> 1, argc |-> 0, locals |-> e, evals |-> e, waiting |-> <<>>]
  BY <1>7 DEF DecIn, DecOf
<1>9. ZS!Frame(0, 1, <<>>, 0, <<>>) =
        [ret |-> 0, kind |-> 1, argc |-> 0, locals |-> e, evals |-> e, waiting |-> <<>>]
  <2>1. [i \in 1 .. 0 |-> IF i <= Len(e) THEN e[i] ELSE 0] = e
    BY <1>4
  <2>2. Len(e) = 0
    BY <1>4
  <2> QED BY <1>4, <2>1, <2>2, Zenon DEF ZS!Frame
<1>10. Shown = [k \in 1 .. 1 |-> DecIn(stack, d, host, k)]
  BY <1>2, <1>3, ShownAre, Zenon DEF Decoded, DecodedIn
<1>11. Shown = <<ZS!Frame(0, 1, <<>>, 0, <<>>)>>
  BY <1>8, <1>9, <1>10
<1> QED BY <1>5, <1>11, Zenon DEF ZS!Init, Shown

\* The array of words is the stack of frames that routines are promised: each has
\* its locals and values as it left them when the ones it called have returned, by
\* ret, by z_throw, or to the instruction that waits in direct_call.
THEOREM ImplementsZStack == StackSpec => IsZStack
<1>1. StackInit => ZS!Init
  BY FirstShown
<1>2. StackInv /\ [StackNext]_stackVars => [UNCHANGED stackVars \/ ZS!Next]_(ZS!vars)
  <2>1. ASSUME StackInv, StackNext PROVE ZS!Next
    BY <2>1, NextMoves, Zenon DEF Moves
  <2> QED BY <2>1, Zenon
<1> QED BY <1>1, <1>2, StackIsARow, PTL DEF StackSpec, IsZStack
=============================================================================
