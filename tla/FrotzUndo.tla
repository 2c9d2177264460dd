----------------------------- MODULE FrotzUndo -----------------------------
(***************************************************************************)
(* Undo in the Z-machine interpreter (bearos_frotz/src/fastmem.c): a list  *)
(* of undo blocks, each the difference of the memory it saved to the memory*)
(* of the block before.  prev_zmp is the memory of the block curr_undo, and*)
(* restore_undo undoes the difference in place, so that one wrong byte     *)
(* would spoil every snapshot before it.                                   *)
(*                                                                         *)
(* The module is stated for any code of differences (MemDiff, MemUndiff)   *)
(* that is exact; FrotzDiff is the one the program has.                    *)
(***************************************************************************)
EXTENDS Integers, Sequences

CONSTANTS
  Cells, Bytes,           \* the dynamic memory, z_header.dynamic_size cells
  Flags,                  \* the cell H_FLAGS + 1
  Regs,                   \* the program counter, the stack, sp, fp, frame_count
  UndoSlots,              \* f_setup.undo_slots
  Diffs, MemDiff(_, _), MemUndiff(_, _),
  Stories,                \* bound: the memories a restart or a file restores
  Touched                 \* bound: the cells the game stores to

Memories == [Cells -> Bytes]

ASSUME UndoAssumption ==
  /\ Flags \in Cells /\ UndoSlots \in Nat
  /\ Stories \subseteq Memories /\ Touched \subseteq Cells
  /\ \A a, b \in Memories : MemDiff(a, b) \in Diffs /\ MemUndiff(MemDiff(a, b), a) = b

VARIABLES
  zmp,         \* the dynamic memory
  regs,
  prev_zmp,    \* the memory saved in the block curr_undo
  undo,        \* the blocks from first_undo to last_undo, undo_count of them
  curr_undo,   \* the number of its block, 0 for NULL
  undo_slots,
  success,     \* what save_undo or restore_undo returned
  saved        \* history: the snapshots taken and neither undone nor forgotten

vars == <<zmp, regs, prev_zmp, undo, curr_undo, undo_slots, success, saved>>

-----------------------------------------------------------------------------
\* Mutant of RestartHeader: memory comes back with the flags it was saved with.
RestartAsSaved(m) == m

\* restart_header: the flags in z_header, which storeb keeps equal to the
\* cell's, are written back over the memory that came in.
RestartHeader(m) == [m EXCEPT ![Flags] = zmp[Flags]]

\* storeb, by whatever opcode, and what the opcode does to stack and pc.
\* Among them is the store of the result of save_undo or restore_undo.
Storeb(addr, value) ==
  /\ zmp' = [zmp EXCEPT ![addr] = value]
  /\ regs' \in Regs
  /\ UNCHANGED <<prev_zmp, undo, curr_undo, undo_slots, success, saved>>

\* z_restart, and z_restore from a file: the undo blocks are left alone.
Restart(m) ==
  /\ zmp' = RestartHeader(m)
  /\ regs' \in Regs
  /\ UNCHANGED <<prev_zmp, undo, curr_undo, undo_slots, success, saved>>

Upto(s, n) == SubSeq(s, 1, n)
Behind(s, n) == SubSeq(s, n + 1, Len(s))

\* save_undo before it allocates: the blocks behind curr_undo go, and if the
\* slots are all in use, the oldest one.
Room ==
  LET kept == Upto(undo, curr_undo)
  IN  IF Len(kept) = undo_slots THEN Behind(kept, 1) ELSE kept

Block == [diff |-> MemDiff(zmp, prev_zmp), regs |-> regs]
Snapshot == [mem |-> zmp, regs |-> regs]

\* save_undo, when the new block is allocated once the `freed` oldest are freed.
\* mem_diff leaves in prev_zmp a copy of zmp.
SaveUndo(freed) ==
  /\ undo_slots # 0
  /\ freed = 0 \/ freed < Len(Room)
  /\ undo' = Append(Behind(Room, freed), Block)
  /\ curr_undo' = Len(undo')
  /\ prev_zmp' = zmp
  /\ success' = 1
  /\ saved' = Append(Behind(saved, Len(saved) + 1 - Len(undo')), Snapshot)
  /\ UNCHANGED <<zmp, regs, undo_slots>>

\* save_undo, when no block was left to free and still none could be allocated.
SaveUndoFails ==
  /\ undo_slots # 0
  /\ undo' = <<>> /\ curr_undo' = 0
  /\ prev_zmp' = zmp
  /\ success' = -1
  /\ saved' = <<>>
  /\ UNCHANGED <<zmp, regs, undo_slots>>

\* Mutant of Unrolled: prev_zmp is copied, and the block's difference forgotten.
UnrolledNot == prev_zmp

\* The memory saved before the block curr_undo.
Unrolled == MemUndiff(undo[curr_undo].diff, prev_zmp)

RestoreUndo ==
  /\ undo_slots # 0 /\ curr_undo # 0
  /\ zmp' = RestartHeader(prev_zmp)
  /\ regs' = undo[curr_undo].regs
  /\ prev_zmp' = Unrolled
  /\ curr_undo' = curr_undo - 1
  /\ success' = 2
  /\ saved' = Upto(saved, Len(saved) - 1)
  /\ UNCHANGED <<undo, undo_slots>>

\* Undo is not available, or there is no saved game state.
NoUndo ==
  /\ undo_slots = 0 \/ curr_undo = 0
  /\ success' = IF undo_slots = 0 THEN -1 ELSE 0
  /\ UNCHANGED <<zmp, regs, prev_zmp, undo, curr_undo, undo_slots, saved>>

\* save_undo without undo.
NoSave ==
  /\ undo_slots = 0 /\ success' = -1
  /\ UNCHANGED <<zmp, regs, prev_zmp, undo, curr_undo, undo_slots, saved>>

-----------------------------------------------------------------------------
\* init_undo: without memory for the differences there is no undo at all.
Init ==
  /\ zmp \in Stories /\ regs \in Regs
  /\ prev_zmp = zmp
  /\ undo = <<>> /\ curr_undo = 0
  /\ undo_slots \in {UndoSlots, 0}
  /\ success = 0 /\ saved = <<>>

Next ==
  \/ \E addr \in Touched, value \in Bytes : Storeb(addr, value)
  \/ \E m \in Stories : Restart(m)
  \/ \E freed \in 0 .. UndoSlots : SaveUndo(freed)
  \/ SaveUndoFails
  \/ RestoreUndo
  \/ NoUndo
  \/ NoSave

Spec == Init /\ [][Next]_vars

-----------------------------------------------------------------------------
(* Properties.                                                             *)

TypeOK ==
  /\ zmp \in Memories /\ prev_zmp \in Memories
  /\ regs \in Regs
  /\ undo \in Seq([diff : Diffs, regs : Regs])
  /\ curr_undo \in 0 .. Len(undo)
  /\ undo_slots \in {UndoSlots, 0}
  /\ success \in {-1, 0, 1, 2}
  /\ saved \in Seq([mem : Memories, regs : Regs])

\* The memory before block i, if the memory it saved is what was saved.
Before(i) == MemUndiff(undo[i].diff, saved[i].mem)

\* The chain of differences leads from prev_zmp through every snapshot the
\* list has blocks for, however saves, undos and full lists alternate.
Chain ==
  /\ Len(saved) = curr_undo
  /\ Len(undo) <= undo_slots
  /\ curr_undo > 0 => prev_zmp = saved[curr_undo].mem
  /\ \A i \in 1 .. curr_undo :
       /\ undo[i].regs = saved[i].regs
       /\ Before(i) \in Memories
       /\ i > 1 => Before(i) = saved[i - 1].mem

UndoOK == TypeOK /\ Chain

\* What the blocks restore is what the Z-machine promises: the game as it was
\* at the latest save_undo that was not undone, except for its flags.
Z == INSTANCE ZUndo WITH mem <- zmp
IsUndo == Z!Spec
=============================================================================
