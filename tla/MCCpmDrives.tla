---------------------------- MODULE MCCpmDrives ----------------------------
(***************************************************************************)
(* The two ways in which CP/M is given files: the BIOS and its drives, the *)
(* BDOS and its file control blocks, one part to a behaviour.  A hard disc *)
(* has two tracks of two sectors, a floppy one sector; two files, two FCBs,*)
(* records of two bytes, extents of two records, and EX counting two       *)
(* extents.                                                                *)
(***************************************************************************)
EXTENDS CpmDisk, CpmFiles

CONSTANTS e5, mark, Parts
MCData == {e5, mark}
MCImages == {<<>>, <<mark>>}

Symmetric == Permutations(Streams) \cup Permutations(Names) \cup Permutations(Addresses)

VARIABLE part
InPart(p) == part = p /\ UNCHANGED part

\* Each part starts with the other at rest: no image, no file.
MCInit ==
  /\ part \in Parts
  /\ DiskInit /\ FilesInit
  /\ part # "disk" => images = [d \in Drives |-> <<>>]
  /\ part # "files" => host = <<>>

DiskPart == InPart("disk") /\ DiskNext /\ UNCHANGED filesVars
FilesPart == InPart("files") /\ FilesNext /\ UNCHANGED diskVars

MCSpec == MCInit /\ [][DiskPart \/ FilesPart]_<<part, diskVars, filesVars>>

-----------------------------------------------------------------------------
\* The caches of both are right: the length of every image that is open, and
\* the table of open files.
DrivesOK == DiskOK /\ TableOK

\* Both are what CP/M is promised: arrays of sectors, and files of records.
DrivesAreKept == IsDrives /\ IsDrive
=============================================================================
