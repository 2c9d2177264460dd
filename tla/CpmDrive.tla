------------------------------ MODULE CpmDrive ------------------------------
(***************************************************************************)
(* What the BIOS promises CP/M of its drives: each is an array of sectors, *)
(* addressed by track and sector, that holds what was written to it, and   *)
(* 0xE5 where nothing was.                                                 *)
(*                                                                         *)
(* While the disk of the host has room, only the first transfer of a drive *)
(* after a boot may fail, and then it does nothing.  On a full one         *)
(* transfers fail, and the one sector of each drive that was written last  *)
(* is unsafe, though the transfer succeeded: the next transfer of that     *)
(* drive, or a boot, may lose it.  No other sector is lost that was ever   *)
(* written.                                                                *)
(***************************************************************************)
CONSTANTS Drives,            \* the drives
          Addresses(_),      \* the track and sector pairs of a drive
          Data, Blank,       \* what sectors hold; the sector filled with 0xE5
          Unwritten, Lost    \* nothing was written there; it was, and is lost

VARIABLES image,    \* what each drive holds, per drive and address
          unsafe,   \* the sectors of each drive that may be lost
          used,     \* the drives used since the last boot
          selected, \* the drive and address CP/M has set
          buffer,   \* the sector at the DMA address
          failed,   \* register A after a transfer
          full      \* the disk of the host has no room

vars == <<image, unsafe, used, selected, buffer, failed, full>>

Cells == Data \cup {Unwritten, Lost}
Selections == [drive : Drives, at : UNION {Addresses(d) : d \in Drives}]

Init ==
  /\ \A d \in Drives : image[d] \in [Addresses(d) -> Data \cup {Unwritten}]
  /\ unsafe = [d \in Drives |-> {}] /\ used = {}
  /\ selected \in Selections
  /\ buffer \in Data
  /\ failed \in BOOLEAN /\ full \in BOOLEAN

\* CP/M prepares another transfer.
Prepare ==
  /\ selected' \in Selections
  /\ buffer' \in Data
  /\ UNCHANGED <<image, unsafe, used, failed, full>>

\* A sector holds what it held; where nothing was written 0xE5 may be, and one
\* that is lost may hold anything.
Holds(d, a) ==
  \/ image'[d][a] = image[d][a]
  \/ image[d][a] = Unwritten /\ image'[d][a] = Blank
  \/ image[d][a] = Lost /\ image'[d][a] \in Cells

\* The unsafe sectors are lost, or hold what they held before.
Loses(d, a) == full /\ a \in unsafe[d] /\ image'[d][a] \in Cells

\* No room for 0xE5 in front of a new sector.
Spoils(d, a) == full /\ image[d][a] = Unwritten /\ image'[d][a] = Lost

\* A transfer of drive d: the others are as they were.
Transfers(d) ==
  /\ used' = used \cup {d}
  /\ \A k \in Drives \ {d} : image'[k] = image[k] /\ unsafe'[k] = unsafe[k]
  /\ UNCHANGED <<selected, full>>

InRange == selected.at \in Addresses(selected.drive)

Read ==
  LET d == selected.drive
      a == selected.at
  IN  /\ InRange /\ Transfers(d)
      /\ \A b \in Addresses(d) : Holds(d, b)
      /\ \A b \in unsafe'[d] \ unsafe[d] : d \notin used /\ image[d][b] = Unwritten
      /\ \A b, c \in unsafe'[d] : b = c
      /\ \/ image[d][a] \in Data /\ buffer' = image[d][a]
         \/ image[d][a] = Unwritten /\ buffer' = Blank
         \/ image[d][a] = Lost /\ buffer' \in Data /\ image'[d][a] = buffer'
      /\ ~failed'

Write ==
  LET d == selected.drive
      a == selected.at
  IN  /\ InRange /\ Transfers(d)
      /\ \A b \in Addresses(d) \ {a} : Holds(d, b)
      /\ image'[d][a] = buffer /\ unsafe'[d] = {a}
      /\ ~failed'
      /\ UNCHANGED buffer

\* The drive is not there.
Refuse ==
  /\ selected.drive \notin used
  /\ failed'
  /\ UNCHANGED <<image, unsafe, used, selected, buffer, full>>

Fail ==
  LET d == selected.drive
  IN  /\ full /\ Transfers(d)
      /\ \A a \in Addresses(d) : Holds(d, a) \/ Loses(d, a) \/ Spoils(d, a)
      /\ unsafe'[d] = {}
      /\ failed'
      /\ UNCHANGED buffer

Boot ==
  /\ \A d \in Drives : \A a \in Addresses(d) : Holds(d, a) \/ Loses(d, a)
  /\ unsafe' = [d \in Drives |-> {}] /\ used' = {}
  /\ selected' \in Selections
  /\ buffer' \in Data
  /\ UNCHANGED <<failed, full>>

Next == Prepare \/ Read \/ Write \/ Refuse \/ Fail \/ Boot

Spec == Init /\ [][Next]_vars
=============================================================================
