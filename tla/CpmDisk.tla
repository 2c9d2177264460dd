------------------------------ MODULE CpmDisk ------------------------------
(***************************************************************************)
(* The disks of the CP/M emulator (bearos_cpm/src/bios.c): each drive is a *)
(* file of the host, opened when it is first used and made longer as       *)
(* sectors behind its end are written, and the sectors behind its end read *)
(* as 0xE5.  drivelen caches how long each open file is.                   *)
(*                                                                         *)
(* The files are FILEs of the C library: what fwrite takes waits in a      *)
(* buffer until fseek or fclose flushes it, and is dropped if the host has *)
(* no room for it.  Every transfer begins with fseek, so that at most one  *)
(* sector of a drive is pending between transfers.  A flush on a full host *)
(* writes as many whole sectors of the buffer as fit, 128 bytes dividing   *)
(* the blocks of the host.                                                 *)
(*                                                                         *)
(* Lengths and offsets are in sectors.  The guest selects sectors and      *)
(* tracks the disk parameter blocks allow; the BIOS only warns of others.  *)
(***************************************************************************)
EXTENDS Integers, Sequences, FiniteSets

CONSTANTS
  MaxDiscs, NumHDiscs,       \* MAXDISCS and NUMHDISCS
  HdSectors, HdTracks,       \* HDSECTORSPERTRACK, HDTRACKSPERDISC
  FdSectors, FdTracks,       \* SECTORSPERTRACK, TRACKSPERDISC
  Data, Blank, Zero,         \* what sectors hold; one of 0xE5, one of zeros
  Unwritten, Lost,           \* see CpmDrive
  Images,                    \* what the files hold at first
  Used                       \* bound: the drives that are accessed

SectorOffset == 1
TrackOffset == 0

ASSUME DiskAssumption ==
  /\ MaxDiscs \in Nat \ {0} /\ NumHDiscs \in 0 .. MaxDiscs
  /\ {HdSectors, HdTracks, FdSectors, FdTracks} \subseteq Nat \ {0}
  /\ {Blank, Zero} \subseteq Data /\ Unwritten \notin Data /\ Lost \notin Data
  /\ Unwritten # Lost /\ Images \subseteq Seq(Data)
  /\ Used \subseteq 0 .. MaxDiscs - 1 /\ 0 \in Used

VARIABLES
  images,    \* the file of each drive; <<>> for one that does not exist
  pending,   \* the sector that waits in the buffer of each FILE
  open,      \* drives[d] # NULL
  drivelen,  \* drivelen[d]
  drive, track, sector,
  dma,       \* the sector in memory at z80->dma
  A,         \* the register A the last transfer returned
  full       \* whether the host may run out of room

diskVars == <<images, pending, open, drivelen, drive, track, sector, dma, A, full>>
fileVars == <<images, pending, open, drivelen>>

Larger(m, n) == IF m > n THEN m ELSE n

Drives == 0 .. MaxDiscs - 1
Sectors(d) == IF d < NumHDiscs THEN HdSectors ELSE FdSectors
Tracks(d) == IF d < NumHDiscs THEN HdTracks ELSE FdTracks

\* Mutant of Offset: the tracks of every drive are as long as a floppy's.
OffsetOfFloppy(d, t, s) == s - SectorOffset + FdSectors * (t - TrackOffset)

Offset(d, t, s) == s - SectorOffset + Sectors(d) * (t - TrackOffset)

-----------------------------------------------------------------------------
(* Opening the file, and transfers.                                        *)

\* The file with n sectors x from offset k on; a gap in front of them reads as
\* zeros.
Put(file, k, n, x) ==
  IF n = 0 THEN file
  ELSE [i \in 1 .. Larger(Len(file), k + n) |->
          IF i > k /\ i <= k + n THEN x ELSE IF i <= Len(file) THEN file[i] ELSE Zero]

Nothing == [at |-> -1, data |-> Blank]

\* The file once the buffer is flushed.
Flushed(file, p) == IF p.at < 0 THEN file ELSE Put(file, p.at, 1, p.data)

\* realizedisk: the file, its length and what is pending once the drive is
\* open.  An empty file gets a first sector.
Realized(d) ==
  IF open[d] THEN [file |-> images[d], len |-> drivelen[d], pending |-> pending[d]]
  ELSE IF images[d] = <<>> THEN [file |-> <<>>, len |-> 1, pending |-> [at |-> 0, data |-> Blank]]
  ELSE [file |-> images[d], len |-> Len(images[d]), pending |-> Nothing]

\* The drive is left open, with that file, that length and that sector pending.
Leaves(d, file, len, p) ==
  /\ images' = [images EXCEPT ![d] = file]
  /\ pending' = [pending EXCEPT ![d] = p]
  /\ open' = [open EXCEPT ![d] = TRUE]
  /\ drivelen' = [drivelen EXCEPT ![d] = len]

Registers == UNCHANGED <<drive, track, sector, full>>

\* The file cannot be opened or created.
NotOpened ==
  /\ ~open[drive]
  /\ A' = 1
  /\ Registers /\ UNCHANGED <<fileVars, dma>>

\* fseek fails when the buffer cannot be flushed, and the transfer with it.
SeekFails ==
  LET r == Realized(drive)
  IN  /\ full /\ r.pending # Nothing
      /\ Leaves(drive, r.file, r.len, Nothing)
      /\ A' = 1
      /\ Registers /\ UNCHANGED dma

\* rdsector.  Behind the end of the file it does not seek.  The file is shorter
\* than drivelen if a flush failed, and fread fails there.
RdSector ==
  LET r == Realized(drive)
      n == Offset(drive, track, sector)
      file == Flushed(r.file, r.pending)
  IN  /\ IF n >= r.len
         THEN Leaves(drive, r.file, r.len, r.pending) /\ dma' = Blank /\ A' = 0
         ELSE /\ Leaves(drive, file, r.len, Nothing)
              /\ IF n < Len(file) THEN dma' = file[n + 1] /\ A' = 0
                                  ELSE UNCHANGED dma /\ A' = 1
      /\ Registers

\* Mutant of Padded: padding stops one sector early.
PaddedShort(file, len, n) == IF n > len THEN Put(file, len, n - len - 1, Blank) ELSE file

\* The file, blank from the end it should have up to sector n.
Padded(file, len, n) == IF n > len THEN Put(file, len, n - len, Blank) ELSE file

\* Mutant of Grown: the length counts up to the sector, not behind it.
GrownShort(len, n) == Larger(len, n)

Grown(len, n) == Larger(len, n + 1)

\* wrsector: pad the file up to the sector, and write it, into the buffer.
WrSector ==
  LET r == Realized(drive)
      n == Offset(drive, track, sector)
  IN  /\ Leaves(drive, Padded(Flushed(r.file, r.pending), r.len, n), Grown(r.len, n),
                [at |-> n, data |-> dma])
      /\ A' = 0
      /\ Registers /\ UNCHANGED dma

\* wrsector when there is no room for the padding: padded sectors went to the
\* buffer before a flush failed, and kept of them to the host.
PaddingFails(padded, kept) ==
  LET r == Realized(drive)
      n == Offset(drive, track, sector)
  IN  /\ full /\ kept < padded /\ padded <= n - r.len
      /\ Leaves(drive, Put(Flushed(r.file, r.pending), r.len, kept, Blank), r.len + padded,
                Nothing)
      /\ A' = 1
      /\ Registers /\ UNCHANGED dma

-----------------------------------------------------------------------------
(* The calls that set up a transfer.                                       *)

\* seldisc, and the home it ends with.  A drive there is not changes nothing.
\* (The address it returns is HeaderFor of CpmCpu.)
SelDisc(c) ==
  /\ IF c >= MaxDiscs THEN UNCHANGED <<drive, track, sector>>
     ELSE drive' = c /\ track' = 0 /\ sector' = 1
  /\ UNCHANGED <<fileVars, dma, A, full>>

Home ==
  /\ track' = 0 /\ sector' = 1
  /\ UNCHANGED <<fileVars, drive, dma, A, full>>

SetTrack(t) ==
  /\ t < Tracks(drive)
  /\ track' = t
  /\ UNCHANGED <<fileVars, drive, sector, dma, A, full>>

SetSector(s) ==
  /\ s <= Sectors(drive)
  /\ sector' = s
  /\ UNCHANGED <<fileVars, drive, track, dma, A, full>>

\* The guest writes the sector it has in memory, or another buffer is set.
Fill(x) ==
  /\ dma' = x
  /\ UNCHANGED <<fileVars, drive, track, sector, A, full>>

\* boot and warmboot: every file is closed, which may lose what is pending
\* unnoticed, the current drive, or drive A, is selected again, and the buffer is
\* at 0x0080.  (As if the emulator ended and started.)  What drivelen holds of
\* a closed drive is left out: nothing reads it.
Boot(d, lost) ==
  /\ d \in {0, drive}
  /\ lost # {} => full
  /\ images' = [k \in Drives |-> IF k \in lost THEN images[k] ELSE Flushed(images[k], pending[k])]
  /\ pending' = [k \in Drives |-> Nothing]
  /\ open' = [k \in Drives |-> FALSE]
  /\ drive' = d /\ track' = 0 /\ sector' = 1
  /\ dma' \in Data
  /\ drivelen' = [k \in Drives |-> 0]
  /\ UNCHANGED <<A, full>>

-----------------------------------------------------------------------------
(* The specification.                                                      *)

DiskInit ==
  /\ images \in [Drives -> Images \cup {<<>>}]
  /\ \A d \in Drives \ Used : images[d] = <<>>
  /\ \A d \in Used : Len(images[d]) <= Sectors(d) * Tracks(d)
  /\ pending = [d \in Drives |-> Nothing]
  /\ open = [d \in Drives |-> FALSE] /\ drivelen = [d \in Drives |-> 0]
  /\ drive = 0 /\ track = 0 /\ sector = 1
  /\ dma = Blank /\ A = 0 /\ full \in BOOLEAN

Transfer ==
  \/ RdSector \/ WrSector \/ SeekFails \/ NotOpened
  \/ \E padded \in 1 .. Sectors(drive) * Tracks(drive) :
       \E kept \in 0 .. padded - 1 : PaddingFails(padded, kept)
DiskNext ==
  \/ drive \in Used /\ Transfer
  \/ \E c \in 0 .. MaxDiscs : SelDisc(c)
  \/ Home
  \/ \E t \in 0 .. HdTracks + FdTracks : SetTrack(t)
  \/ \E s \in 1 .. HdSectors + FdSectors : SetSector(s)
  \/ \E x \in Data : Fill(x)
  \/ \E d \in Drives : \E lost \in SUBSET {k \in Drives : pending[k] # Nothing} : Boot(d, lost)

DiskSpec == DiskInit /\ [][DiskNext]_diskVars

-----------------------------------------------------------------------------
(* Properties.                                                             *)

\* The variables have their types, and the cached length of every open file
\* (realizedisk, wrsector) is the length it has when the buffer is flushed, or
\* more, if the host was full; what is pending lies within it.
DiskOK ==
  /\ images \in [Drives -> Seq(Data)]
  /\ pending \in [Drives -> [at : Nat, data : Data] \cup {Nothing}]
  /\ open \in [Drives -> BOOLEAN] /\ drivelen \in [Drives -> Nat]
  /\ drive \in Drives
  /\ track \in 0 .. Tracks(drive) - 1 /\ sector \in 1 .. Sectors(drive)
  /\ dma \in Data /\ A \in {0, 1} /\ full \in BOOLEAN
  /\ \A d \in Drives :
       LET n == Len(Flushed(images[d], pending[d]))
       IN  IF open[d] THEN /\ n <= drivelen[d] /\ drivelen[d] > 0
                           /\ ~full => n = drivelen[d]
           ELSE pending[d] = Nothing

SectorAddresses(d) == (0 .. Tracks(d) - 1) \X (1 .. Sectors(d))

\* What a sector of a drive holds for the guest.
Cell(d, n) ==
  IF n = pending[d].at THEN pending[d].data
  ELSE IF n < Len(images[d]) THEN images[d][n + 1]
  ELSE IF open[d] /\ n < drivelen[d] THEN Lost ELSE Unwritten

Image(d) == [a \in SectorAddresses(d) |-> Cell(d, Offset(d, a[1], a[2]))]
Unsafe(d) == {a \in SectorAddresses(d) : Offset(d, a[1], a[2]) = pending[d].at}

\* The files are the drives CP/M is promised: what is read is what was last
\* written there, across files that grow and warm boots, and on a full host only
\* the last sector written to each drive may be lost.  (This is P!Spec, with the
\* steps of other parts looked at first.)
P == INSTANCE CpmDrive WITH
       Addresses <- SectorAddresses,
       image <- [d \in Drives |-> Image(d)],
       unsafe <- [d \in Drives |-> Unsafe(d)],
       used <- {d \in Drives : open[d]},
       selected <- [drive |-> drive, at |-> <<track, sector>>],
       buffer <- dma, failed <- (A = 1)
IsDrives == P!Init /\ [][UNCHANGED diskVars \/ P!Next]_(P!vars)
=============================================================================
