------------------------------ MODULE CpmFiles ------------------------------
(***************************************************************************)
(* The file functions of the CP/M emulator's BDOS (bearos_cpm/src/bdos.c). *)
(* A program names a file by a file control block (FCB) in its memory; the *)
(* BDOS keeps a table from the addresses of FCBs to the FILEs it opened    *)
(* for them, and the position of sequential access in the fields EX, S2    *)
(* and CR of the FCB.                                                      *)
(*                                                                         *)
(* Contents are left out: which record a call transfers and how long the   *)
(* files become is what the fields decide.  The names of files on the host *)
(* are in lower case, as FCB_to_filename makes them.  A host that is       *)
(* refusing may open no file, hold no regular one under a name, or not     *)
(* write: its disk is full, or the FILE is of the library directory, which *)
(* is not modelled otherwise, and can only be read.                        *)
(***************************************************************************)
EXTENDS Integers, Sequences, FiniteSets, FiniteSetsExt, Functions, TLC

CONSTANTS
  Names, Addresses,      \* names of files; addresses of FCBs
  Free,                  \* 0xffff: the address of an unused table entry
  Nobody,                \* the name in memory that holds no FCB
  Closed,                \* a FILE that is not open
  Inodes, Streams,       \* files of the host, FILEs of the C library
  TableSize,             \* entries of stfps
  RecordSize,            \* 128
  ExtentRecords,         \* 128, the records of an extent
  ExtentsOfEx,           \* 32, the extents EX counts before S2 does
  RandomRecords,         \* 65536, the records R0 and R1 count
  Tidy,                  \* whether programs are tidy: see below
  MaxBytes, RefusedBytes, SmallBytes  \* bounds: the length of the only file,
                         \* also if the host may refuse, and of each of several

ASSUME FilesAssumption ==
  /\ {TableSize, RecordSize, ExtentRecords, ExtentsOfEx, RandomRecords,
      SmallBytes} \subseteq Nat \ {0}
  /\ MaxBytes \in Nat /\ MaxBytes >= SmallBytes /\ RefusedBytes \in 0 .. MaxBytes
  /\ Free \notin Addresses /\ Nobody \notin Names /\ Tidy \in BOOLEAN
  /\ Inodes \subseteq Nat /\ IsFiniteSet(Inodes) /\ IsFiniteSet(Streams)
  /\ Closed \notin [file : Inodes, tell : Nat]

VARIABLES
  host,     \* the directory: file names to inodes
  size,     \* bytes of each inode
  stream,   \* each FILE: Closed, or its inode and its position in bytes
  table,    \* stfps[0 .. storedfps - 1]
  fcb,      \* the FCB at each address
  running,  \* the emulator has not exited
  result,   \* what the last call told the program
  refusing  \* whether the host may refuse

filesVars == <<host, size, stream, table, fcb, running, result, refusing>>

\* The directory in which n names the inode.
Linked(h, n, inode) == [m \in DOMAIN h \cup {n} |-> IF m = n THEN inode ELSE h[m]]

Limit(h) ==
  IF Cardinality(DOMAIN h) > 1 THEN SmallBytes ELSE IF refusing THEN RefusedBytes ELSE MaxBytes
Fits(h, s) == \A n \in DOMAIN h : s[h[n]] <= Limit(h)

Records(bytes) == (bytes + RecordSize - 1) \div RecordSize
Positions == 0 .. Records(MaxBytes)

-----------------------------------------------------------------------------
(* The fields of an FCB.                                                   *)

ExtentBytes == RecordSize * ExtentRecords
SeqCR(n) == (n % ExtentBytes) \div RecordSize
SeqExtent(n) == n \div ExtentBytes
SeqEX(n) == SeqExtent(n) % ExtentsOfEx

SeqS2(n) == SeqExtent(n) \div ExtentsOfEx

SeqExt(f) == f.ex + ExtentsOfEx * f.s2
SeqAddress(f) == ExtentBytes * SeqExt(f) + RecordSize * f.cr
RandomAddress(r) == (r % RandomRecords) * RecordSize

\* The FCB with its sequential position at byte n.
At(f, n) == [f EXCEPT !.cr = SeqCR(n), !.ex = SeqEX(n), !.s2 = SeqS2(n)]

RoundedUp(n) == n + RecordSize - 1

\* fixrc: RC counts the records of the current extent.
FixRC(f, bytes) ==
  LET records == Records(bytes)
      full == records - (records % ExtentRecords)
      ext == SeqExt(f) * ExtentRecords
  IN  [f EXCEPT !.rc = CASE ext < full -> ExtentRecords
                         [] ext > full -> 0
                         [] OTHER -> records - full]

Empty == [name |-> Nobody, open |-> FALSE, ex |-> 0, s2 |-> 0, cr |-> 0, rc |-> 0]

\* The program writes the name, EX, S2 and CR into the FCB before a call.
Filled(n, p) == At([Empty EXCEPT !.name = n], p * RecordSize)

-----------------------------------------------------------------------------
(* The table of FILEs.                                                     *)

InUse == {i \in DOMAIN table : table[i].where # Free}
Exact(w, n) == {i \in DOMAIN table : table[i].where = w /\ table[i].name = n}
Named(n) == {i \in InUse : table[i].name = n}

\* lookfp: the entry it finds, 0 for none, and the table it leaves.
Lookup(w, n) ==
  IF Exact(w, n) # {} THEN Min(Exact(w, n))
  ELSE IF Named(n) # {} THEN Min(Named(n)) ELSE 0

Moved(w, n) ==
  LET i == Lookup(w, n) IN IF i = 0 THEN table ELSE [table EXCEPT ![i].where = w]

\* storefp: over the entry of the address, else the last free one, else a new
\* one.
Stored(w, n, f) ==
  LET same == {i \in DOMAIN table : table[i].where = w}
      free == DOMAIN table \ InUse
      i == IF same # {} THEN Min(same)
           ELSE IF free # {} THEN Max(free) ELSE Len(table) + 1
      entry == [fp |-> f, where |-> w, name |-> n]
  IN  IF i > Len(table) THEN Append(table, entry) ELSE [table EXCEPT ![i] = entry]

NoRoom(w) ==
  /\ Len(table) = TableSize
  /\ \A i \in DOMAIN table : table[i].where \notin {w, Free}

\* Mutant of Deleted: closing keeps the entry.
DeletedNot(t, w) == t

\* delfp: the first entry of the address is free.  What else it still holds is
\* left out: nothing reads it.
Unused == [fp |-> Closed, where |-> Free, name |-> Nobody]
Deleted(t, w) == [t EXCEPT ![Min({i \in DOMAIN t : t[i].where = w})] = Unused]

Opens(f) == stream[f] # Closed

-----------------------------------------------------------------------------
(* The calls.  Each begins with a look at the table for the FCB at w; what *)
(* a FILE does that has been closed is undefined, and not modelled.        *)

Succeeds(r) == result' = [ok |-> TRUE, record |-> r]
Fails == result' = [ok |-> FALSE, record |-> 0]

Finds(w, n, i) == i = Lookup(w, n) /\ i # 0 /\ Opens(table[i].fp)

\* A tidy program puts the FCB of n at no address the table has for another
\* name: that file is not closed yet, or its FCB has moved and was not used
\* since.
Vacant(w, n) == Tidy => \A i \in InUse : table[i].where = w => table[i].name = n

\* It does not open a file by two FCBs, and not behind the last extent.
MayOpen(w, n, p, bytes) ==
  /\ Vacant(w, n)
  /\ Tidy => /\ \A v \in Addresses : fcb[v].open => (v = w <=> fcb[v].name = n)
             /\ p \div ExtentRecords <= RoundedUp(bytes) \div ExtentBytes

\* The open flag, and RC.
OpenedFCB(w, n, p, bytes) ==
  fcb' = [fcb EXCEPT ![w] = FixRC([Filled(n, p) EXCEPT !.open = TRUE], bytes)]

\* It erases an FCB that is not open.
Left(f) == IF Tidy THEN Empty ELSE f

\* It calls with the FCB that is open.
MayUse(w) == Tidy => fcb[w].open

Exits == running' = FALSE /\ UNCHANGED <<host, size, stream, table, fcb, result>>

\* open15 and make22 of a name that is in the table: neither opens nor empties.
OpenFound(w, n, p) ==
  \E i \in DOMAIN table :
    LET bytes == size[stream[table[i].fp].file] IN
    /\ Finds(w, n, i)
    /\ MayOpen(w, n, p, bytes)
    /\ table' = Moved(w, n)
    /\ OpenedFCB(w, n, p, bytes)
    /\ Succeeds(0)
    /\ UNCHANGED <<host, size, stream, running>>

\* fopen succeeded: inode holds the file, bytes long.
OpenFile(w, n, p, inode, bytes) ==
  /\ Lookup(w, n) = 0
  /\ MayOpen(w, n, p, bytes)
  /\ IF NoRoom(w) THEN Exits
     ELSE \E f \in Streams :
            /\ ~ Opens(f)
            /\ stream' = [stream EXCEPT ![f] = [file |-> inode, tell |-> 0]]
            /\ table' = Stored(w, n, f)
            /\ host' = Linked(host, n, inode)
            /\ size' = [size EXCEPT ![inode] = bytes]
            /\ Fits(host', size')
            /\ OpenedFCB(w, n, p, bytes)
            /\ Succeeds(0)
            /\ UNCHANGED running

\* fopen fails, in all the places the file is looked for.
NotThere(w, n, p) ==
  /\ Lookup(w, n) = 0
  /\ MayOpen(w, n, p, 0)
  /\ fcb' = [fcb EXCEPT ![w] = Left(Filled(n, p))]
  /\ Fails
  /\ UNCHANGED <<host, size, stream, table, running>>

\* fixrc fails: what was opened is no regular file, and closed again.
NotAFile(w, n, p) ==
  /\ refusing /\ n \notin DOMAIN host
  /\ Lookup(w, n) = 0
  /\ MayOpen(w, n, p, 0)
  /\ IF NoRoom(w) THEN Exits
     ELSE /\ \E f \in Streams : ~ Opens(f) /\ table' = Deleted(Stored(w, n, f), w)
          /\ fcb' = [fcb EXCEPT ![w] = Left([Filled(n, p) EXCEPT !.open = TRUE])]
          /\ Fails
          /\ UNCHANGED <<host, size, stream, running>>

Open(w, n, p) ==
  \/ OpenFound(w, n, p)
  \/ n \in DOMAIN host /\ OpenFile(w, n, p, host[n], size[host[n]])
  \/ (n \notin DOMAIN host \/ refusing) /\ NotThere(w, n, p)
  \/ NotAFile(w, n, p)

NewInodes == Inodes \ (Range(host) \cup {stream[f].file : f \in {g \in Streams : Opens(g)}})

Make(w, n, p) ==
  \/ ~ Tidy /\ OpenFound(w, n, p)
  \/ n \in DOMAIN host /\ OpenFile(w, n, p, host[n], 0)
  \/ n \notin DOMAIN host /\ NewInodes # {} /\ OpenFile(w, n, p, Min(NewInodes), 0)
  \/ refusing /\ NotThere(w, n, p)
  \/ NotAFile(w, n, p)

\* Mutant of KeptBytes: RC counts from the start of the file.
KeptBytesShort(f, bytes) ==
  IF f.rc < SeqCR(bytes) THEN RecordSize * f.rc ELSE bytes

\* close16 lets the program cut the last extent at RC.
KeptBytes(f, bytes) ==
  IF SeqExtent(bytes) = SeqExt(f) /\ f.rc < SeqCR(bytes)
  THEN ExtentBytes * SeqExt(f) + RecordSize * f.rc ELSE bytes

Close(w) ==
  \/ /\ MayUse(w)
     /\ \E i \in DOMAIN table :
          LET n == fcb[w].name
              f == table[i].fp
              inode == stream[f].file
          IN /\ Finds(w, n, i)
             /\ size' = [size EXCEPT ![inode] = KeptBytes(fcb[w], @)]
             /\ table' = Deleted(Moved(w, n), w)
             /\ stream' = [stream EXCEPT ![f] = Closed]
             /\ fcb' = [fcb EXCEPT ![w] = Left([@ EXCEPT !.open = FALSE])]
             /\ Succeeds(0)
             /\ UNCHANGED <<host, running>>
  \/ /\ Lookup(w, fcb[w].name) = 0
     /\ Fails
     /\ UNCHANGED <<host, size, stream, table, fcb, running>>

-----------------------------------------------------------------------------
(* Transfers, from the position of the FCB f.                              *)

\* getfp: without an entry the emulator exits.  The others work on the FILE
\* and leave the FCB they return.
Access(w, Act(_, _, _)) ==
  LET n == fcb[w].name IN
  /\ n # Nobody /\ MayUse(w)
  /\ \/ Lookup(w, n) = 0 /\ Exits
     \/ \E i \in DOMAIN table :
          /\ Finds(w, n, i)
          /\ table' = Moved(w, n)
          /\ Act(w, table[i].fp, stream[table[i].fp].file)
          /\ UNCHANGED <<host, running>>

\* The FCB at byte n, RC and the flag, and FILE f at byte t.
Stands(w, f, bytes, n, t) ==
  /\ fcb' = [fcb EXCEPT ![w] = FixRC(At([@ EXCEPT !.open = TRUE], n), bytes)]
  /\ stream' = [stream EXCEPT ![f].tell = t]

\* The transfer of FCB g fails behind fseek.
Stays(w, f, g) ==
  /\ fcb' = [fcb EXCEPT ![w] = g]
  /\ stream' = [stream EXCEPT ![f].tell = SeqAddress(g)]
  /\ Fails

\* readseq, with the FCB g in memory.  Behind a record that the file cuts short
\* the FCB stands at the next one.
ReadSeq(w, f, inode, g) ==
  LET a == SeqAddress(g)
      t == Min({a + RecordSize, size[inode]})
  IN  /\ IF a < size[inode]
         THEN /\ Stands(w, f, size[inode], RoundedUp(t), t)
              /\ Succeeds(a \div RecordSize)
         ELSE Stays(w, f, g)
      /\ UNCHANGED size

\* writeseq: the record is written; or fwrite fails; or only fflush does, which
\* nobody notices: the FCB moves on, and the FILE and the file do not.
WriteSeq(w, f, inode, g) ==
  LET a == SeqAddress(g)
      t == a + RecordSize
      bytes == Max({t, size[inode]})
  IN  \/ /\ size' = [size EXCEPT ![inode] = bytes]
         /\ Fits(host, size')
         /\ Stands(w, f, bytes, t, t)
         /\ Succeeds(a \div RecordSize)
      \/ refusing /\ Stays(w, f, g) /\ UNCHANGED size
      \/ /\ refusing /\ t <= Limit(host)
         /\ Stands(w, f, size[inode], t, a)
         /\ Succeeds(a \div RecordSize)
         /\ UNCHANGED size

Read(w) == Access(w, LAMBDA v, f, inode : ReadSeq(v, f, inode, fcb[v]))
Write(w) == Access(w, LAMBDA v, f, inode : WriteSeq(v, f, inode, fcb[v]))

\* The FCB of random access to record r.
RandomFCB(w, r) == At([fcb[w] EXCEPT !.open = TRUE], RandomAddress(r))

ReadRandom(w, r) == Access(w, LAMBDA v, f, inode : ReadSeq(v, f, inode, RandomFCB(v, r)))
WriteRandom(w, r) == Access(w, LAMBDA v, f, inode : WriteSeq(v, f, inode, RandomFCB(v, r)))

\* Functions 35 and 36 report where the FILE is; a tidy program does not ask
\* after a read behind the end.
SetRandom(w, f, inode, t) ==
  /\ Tidy /\ ~ refusing => t <= size[inode]
  /\ Stands(w, f, size[inode], RoundedUp(t), t)
  /\ Succeeds(Records(t))
  /\ UNCHANGED size

FileSize(w) == Access(w, LAMBDA v, f, inode : SetRandom(v, f, inode, size[inode]))
Tell(w) == Access(w, LAMBDA v, f, inode : SetRandom(v, f, inode, stream[f].tell))

-----------------------------------------------------------------------------
(* Names, and what programs do to their FCBs.                              *)

MayDrop(n) == Tidy => \A v \in Addresses : ~ (fcb[v].open /\ fcb[v].name = n)

\* The host frees the files that have neither a name in h nor a FILE.
Freed(h) ==
  [i \in Inodes |->
     IF i \in Range(h) \/ \E f \in Streams : Opens(f) /\ stream[f].file = i
     THEN size[i] ELSE 0]

Delete(n) ==
  /\ MayDrop(n)
  /\ host' = [m \in DOMAIN host \ {n} |-> host[m]]
  /\ size' = Freed(host')
  /\ Succeeds(0)
  /\ UNCHANGED <<stream, table, fcb, running>>

Rename(m, n) ==
  /\ MayDrop(m) /\ MayDrop(n)
  /\ host' = IF m = n \/ m \notin DOMAIN host THEN host
             ELSE Linked([k \in DOMAIN host \ {m} |-> host[k]], n, host[m])
  /\ size' = Freed(host')
  /\ Succeeds(0)
  /\ UNCHANGED <<stream, table, fcb, running>>

\* The program moves an FCB.
Move(v, w) ==
  /\ v # w /\ fcb[v].open /\ ~ fcb[w].open /\ Vacant(w, fcb[v].name)
  /\ fcb' = [fcb EXCEPT ![w] = fcb[v], ![v] = Empty]
  /\ UNCHANGED <<host, size, stream, table, running, result>>

\* It sets the position of sequential access; a tidy one goes to another extent
\* by opening the file again.
Seek(w, p) ==
  /\ fcb[w].open
  /\ Tidy => p \div ExtentRecords = SeqExt(fcb[w])
  /\ fcb' = [fcb EXCEPT ![w] = At(@, p * RecordSize)]
  /\ UNCHANGED <<host, size, stream, table, running, result>>

FilesInit ==
  /\ refusing \in BOOLEAN
  /\ \E N \in SUBSET Names :
       host \in {h \in [N -> Inodes] : IsInjective(h)}
  /\ size \in [Inodes -> 0 .. MaxBytes]
  /\ \A i \in Inodes \ Range(host) : size[i] = 0
  /\ Fits(host, size)
  /\ stream = [f \in Streams |-> Closed]
  /\ table = <<>>
  /\ fcb = [w \in Addresses |-> Empty]
  /\ running = TRUE
  /\ result = [ok |-> TRUE, record |-> 0]

FilesNext ==
  /\ running /\ UNCHANGED refusing
  /\ \/ \E w \in Addresses :
          \/ Close(w) \/ Read(w) \/ Write(w) \/ FileSize(w) \/ Tell(w)
          \/ \E p \in 0 .. Records(Limit(host)) :
               \/ ReadRandom(w, p) \/ WriteRandom(w, p) \/ Seek(w, p)
               \/ \E n \in Names : Open(w, n, p) \/ Make(w, n, p)
          \/ \E v \in Addresses : Move(v, w)
     \/ \E n \in Names : Delete(n) \/ \E m \in Names : Rename(m, n)

FilesSpec == FilesInit /\ [][FilesNext]_filesVars

-----------------------------------------------------------------------------
(* Properties.                                                             *)

\* Every entry in use (lookfp, storefp, delfp) holds a FILE that is open: the
\* BDOS gives no closed FILE to the C library.
EntriesOpen == \A i \in InUse : Opens(table[i].fp)

\* Closing a file leaves its length, where the host refuses nothing: programs here
\* never reduce RC, which close takes for the wish to cut the last extent.
CloseKeeps ==
  [][(~ refusing /\ \E w \in Addresses : fcb[w].open /\ fcb' = [fcb EXCEPT ![w] = Left([@ EXCEPT !.open = FALSE])])
       => size' = size]_filesVars

\* For tidy programs the table is one-to-one: entries in use differ in name,
\* address and FILE, each FILE is open on the file the directory has under
\* that name, and every open FILE is in the table.
TableOK ==
  /\ EntriesOpen
  /\ \A i, j \in InUse : i # j => /\ table[i].name # table[j].name
                                  /\ table[i].where # table[j].where
                                  /\ table[i].fp # table[j].fp
  /\ \A i \in InUse : /\ table[i].name \in DOMAIN host
                      /\ stream[table[i].fp].file = host[table[i].name]
  /\ \A f \in Streams : Opens(f) => \E i \in InUse : table[i].fp = f

NamesInUse == {table[i].name : i \in InUse}
FcbOf(n) == CHOOSE w \in Addresses : fcb[w].open /\ fcb[w].name = n
StreamOf(n) == table[Min(Named(n))].fp

FileRecords == [n \in DOMAIN host |-> Records(size[host[n]])]
FilePositions == [n \in NamesInUse |-> SeqAddress(fcb[FcbOf(n)]) \div RecordSize]
FileTold == [n \in NamesInUse |-> Records(stream[StreamOf(n)].tell)]

\* To a tidy program the BDOS is the drive of records that CpmRecords promises:
\* the bytes that EX, S2 and CR are split from and put together to, the records
\* a host file ends within, and, unless the host refuses, RC when a file is
\* closed do not show.  (This is
\* Drive!Spec, with the steps of other parts looked at first.)
Drive == INSTANCE CpmRecords WITH records <- FileRecords, at <- FilePositions, told <- FileTold

IsDrive == Drive!Init /\ [][UNCHANGED filesVars \/ Drive!Next]_(Drive!cvars)
=============================================================================
