------------------------------- MODULE ZUndo -------------------------------
(***************************************************************************)
(* Undo as the Z-machine promises it to a game: a stack of snapshots.  An  *)
(* interpreter may forget the oldest ones when it saves another, and saving*)
(* may fail, and then nothing is left to undo.  What no undo takes back is *)
(* the cell Flags, where the game and the player set what is transcribed.  *)
(***************************************************************************)
EXTENDS Integers, Sequences

CONSTANTS Cells, Bytes, Flags, Regs

VARIABLES mem, regs,   \* the memory, and the registers with the stack
          saved,       \* the snapshots, the latest last
          success      \* what the last opcode returned

vars == <<mem, regs, saved, success>>

Memories == [Cells -> Bytes]
Snapshots == [mem : Memories, regs : Regs]

Init ==
  /\ mem \in Memories /\ regs \in Regs
  /\ saved = <<>> /\ success = 0

Play ==
  /\ mem' \in Memories /\ regs' \in Regs
  /\ UNCHANGED <<saved, success>>

Save ==
  /\ \E n \in 0 .. Len(saved) :
       saved' = Append(SubSeq(saved, n + 1, Len(saved)), [mem |-> mem, regs |-> regs])
  /\ success' = 1
  /\ UNCHANGED <<mem, regs>>

Fail ==
  /\ saved' = <<>> /\ success' = -1
  /\ UNCHANGED <<mem, regs>>

Restore ==
  /\ saved # <<>>
  /\ mem' = [saved[Len(saved)].mem EXCEPT ![Flags] = mem[Flags]]
  /\ regs' = saved[Len(saved)].regs
  /\ saved' = SubSeq(saved, 1, Len(saved) - 1)
  /\ success' = 2

Nothing ==
  /\ saved = <<>> /\ success' \in {0, -1}
  /\ UNCHANGED <<mem, regs, saved>>

Next == Play \/ Save \/ Fail \/ Restore \/ Nothing

Spec == Init /\ [][Next]_vars
=============================================================================
