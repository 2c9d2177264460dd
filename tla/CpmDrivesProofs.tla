-------------------------- MODULE CpmDrivesProofs --------------------------
(***************************************************************************)
(* The two ways in which CP/M is given files, for every geometry, every set*)
(* of disk images, any number of files, FCBs and entries, and extents and  *)
(* records of any size.                                                    *)
(*                                                                         *)
(* First the files of the BDOS, for programs that keep to the rules: the   *)
(* table of open files is one-to-one, and on that the calls are operations *)
(* on files of records, for which RC must cover the last extent of every   *)
(* open file.  Then the drives of the BIOS: the cached lengths cover what  *)
(* the files hold and the buffers of the C library have for them, and the  *)
(* files behave as the arrays of sectors CP/M is promised, a full host     *)
(* included.  This rests on what each sector holds for the guest, which    *)
(* opening, flushing and padding a file keep (Same, Kept).                 *)
(***************************************************************************)
EXTENDS MCCpmDrives, SetInduction, SequenceTheorems, TLAPS

\* What an entry of the table, an FCB and a FILE hold.
Entries == [fp : Streams, where : Addresses, name : Names] \cup {Unused}
FCBs == [name : Names \cup {Nobody}, open : BOOLEAN, ex : Nat, s2 : Nat, cr : Nat, rc : Nat]
Standing == [file : Inodes, tell : Nat]

\* What each variable may hold.
FilesTypeOK ==
  /\ DOMAIN host \subseteq Names /\ host \in [DOMAIN host -> Inodes]
  /\ \A m, n \in DOMAIN host : host[m] = host[n] => m = n
  /\ size \in [Inodes -> Nat]
  /\ stream \in [Streams -> {Closed} \cup Standing]
  /\ table \in Seq(Entries)
  /\ fcb \in [Addresses -> FCBs]

\* FCBs that are open and entries in use belong together: a file has one of
\* each, and what the table has for the address of an open FCB is its entry.
FcbsOK ==
  /\ \A w \in Addresses : fcb[w].open => \E i \in InUse : table[i].name = fcb[w].name
  /\ \A v, w \in Addresses : fcb[v].open /\ fcb[w].open /\ fcb[v].name = fcb[w].name => v = w
  /\ \A i \in InUse : \E v \in Addresses : fcb[v].open /\ fcb[v].name = table[i].name
  /\ \A w \in Addresses, i \in InUse : fcb[w].open /\ table[i].where = w => table[i].name = fcb[w].name

\* The inductive invariant: types, the table one-to-one, and FCBs of tidy programs.
FilesOK == FilesTypeOK /\ TableOK /\ FcbsOK

-----------------------------------------------------------------------------
(* Numbers.                                                                *)

\* The sizes are not zero.
LEMMA Sizes ==
  /\ RecordSize \in Nat \ {0} /\ ExtentRecords \in Nat \ {0} /\ ExtentsOfEx \in Nat \ {0}
  /\ RandomRecords \in Nat \ {0} /\ ExtentBytes \in Nat \ {0}
<1>1. /\ RecordSize \in Nat \ {0} /\ ExtentRecords \in Nat \ {0} /\ ExtentsOfEx \in Nat \ {0}
      /\ RandomRecords \in Nat \ {0}
  BY FilesAssumption
<1>2. \A a, b \in Nat \ {0} : a * b \in Nat \ {0}
  OBVIOUS
<1> QED BY <1>1, <1>2 DEF ExtentBytes

\* Division with remainder.
LEMMA Divided ==
  ASSUME NEW n \in Nat, NEW d \in Nat \ {0}
  PROVE  n \div d \in Nat /\ n % d \in 0 .. d - 1 /\ n = (n \div d) * d + (n % d)
<1>1. n \div d \in Nat /\ n % d \in 0 .. d - 1
  OBVIOUS
<1>2. n = (n \div d) * d + (n % d)
  OBVIOUS
<1> QED BY <1>1, <1>2

\* How quotient and remainder are recognised.
LEMMA Quotient ==
  ASSUME NEW n \in Nat, NEW d \in Nat \ {0}, NEW q \in Int, NEW r \in 0 .. d - 1, n = q * d + r
  PROVE  n \div d = q /\ n % d = r
  OBVIOUS

\* A number of bytes is a number of records.
LEMMA RecordsAreNat ==
  ASSUME NEW b \in Nat
  PROVE  Records(b) \in Nat /\ RoundedUp(b) \in Nat
<1>1. PICK r \in Nat \ {0} : r = RecordSize
  BY Sizes
<1>2. b + r - 1 \in Nat
  BY <1>1
<1> QED BY <1>1, <1>2, Divided DEF Records, RoundedUp

\* Moving an FCB to a record changes its position only.
LEMMA AtIsFCB ==
  ASSUME NEW f \in FCBs, NEW n \in Nat
  PROVE  /\ At(f, n) \in FCBs
         /\ At(f, n).name = f.name /\ At(f, n).open = f.open /\ At(f, n).rc = f.rc
         /\ At(f, n).cr = SeqCR(n) /\ At(f, n).ex = SeqEX(n) /\ At(f, n).s2 = SeqS2(n)
<1>1. SeqExtent(n) \in Nat
  BY Sizes, Divided DEF SeqExtent
<1>2. SeqCR(n) \in Nat
  <2>1. PICK m \in Nat : m = n % ExtentBytes
    BY Sizes, Divided
  <2> QED BY Sizes, Divided, <2>1 DEF SeqCR
<1>3. SeqEX(n) \in Nat /\ SeqS2(n) \in Nat
  <2>1. PICK e \in Nat : e = SeqExtent(n)
    BY <1>1
  <2>2. e % ExtentsOfEx \in Nat /\ e \div ExtentsOfEx \in Nat
    BY Sizes, Divided
  <2> QED BY <2>1, <2>2 DEF SeqEX, SeqS2
<1> QED BY <1>2, <1>3 DEF At, FCBs

\* The fields of an FCB name a byte of the file.
LEMMA SeqAddressIsNat ==
  ASSUME NEW f \in FCBs
  PROVE  SeqExt(f) \in Nat /\ SeqAddress(f) \in Nat /\ SeqExt(f) * ExtentRecords \in Nat
<1>1. f.ex \in Nat /\ f.s2 \in Nat /\ f.cr \in Nat
  BY DEF FCBs
<1>2. \A a, b, c \in Nat : a + b * c \in Nat /\ a * b + c \in Nat /\ a * b \in Nat
  OBVIOUS
<1>3. SeqExt(f) \in Nat
  BY <1>1, <1>2, Sizes DEF SeqExt
<1>4. RecordSize * f.cr \in Nat
  BY <1>1, <1>2, Sizes
<1>5. SeqAddress(f) \in Nat
  BY <1>2, <1>3, <1>4, Sizes DEF SeqAddress
<1> QED BY <1>2, <1>3, <1>5, Sizes

\* fixrc changes RC only.
LEMMA FixRCIsFCB ==
  ASSUME NEW f \in FCBs, NEW b \in Nat
  PROVE  /\ FixRC(f, b) \in FCBs
         /\ FixRC(f, b).name = f.name /\ FixRC(f, b).open = f.open
         /\ FixRC(f, b).cr = f.cr /\ FixRC(f, b).ex = f.ex /\ FixRC(f, b).s2 = f.s2
<1> DEFINE records == Records(b)
           whole == records - (records % ExtentRecords)
           ext == SeqExt(f) * ExtentRecords
           rc == CASE ext < whole -> ExtentRecords [] ext > whole -> 0 [] OTHER -> records - whole
<1>1. records \in Nat /\ ext \in Nat /\ ExtentRecords \in Nat
  BY RecordsAreNat, SeqAddressIsNat, Sizes
<1>2. records % ExtentRecords \in Nat
  BY <1>1, Divided, Sizes, SMTT(20)
<1>3. records - whole \in Nat
  BY <1>1, <1>2
<1>4. rc \in Nat
  BY <1>1, <1>3
<1>5. FixRC(f, b) = [f EXCEPT !.rc = rc]
  BY DEF FixRC
<1> HIDE DEF rc
<1> QED BY <1>4, <1>5 DEF FCBs

\* Closing leaves a length.
LEMMA KeptBytesIsNat ==
  ASSUME NEW f \in FCBs, NEW b \in Nat
  PROVE  KeptBytes(f, b) \in Nat
<1>1. SeqExt(f) \in Nat /\ f.rc \in Nat
  BY SeqAddressIsNat DEF FCBs
<1>2. \A a, c, d, e \in Nat : a * c + d * e \in Nat
  OBVIOUS
<1>3. ExtentBytes * SeqExt(f) + RecordSize * f.rc \in Nat
  BY <1>1, <1>2, Sizes
<1> QED BY <1>3 DEF KeptBytes

\* A program fills in an FCB that is not open.
LEMMA FilledIsFCB ==
  ASSUME NEW n \in Names, NEW p \in Nat
  PROVE  /\ Filled(n, p) \in FCBs /\ Filled(n, p).name = n /\ ~ Filled(n, p).open
         /\ p * RecordSize \in Nat
         /\ Empty \in FCBs /\ ~ Empty.open
<1>1. p * RecordSize \in Nat
  BY Sizes
<1>2. Empty \in FCBs /\ ~ Empty.open /\ [Empty EXCEPT !.name = n] \in FCBs
      /\ [Empty EXCEPT !.name = n].name = n /\ ~ [Empty EXCEPT !.name = n].open
  BY DEF Empty, FCBs
<1> QED BY <1>1, <1>2, AtIsFCB DEF Filled

-----------------------------------------------------------------------------
(* The table.                                                              *)

\* The least of a set is one of it.
LEMMA MinIsLeast ==
  ASSUME NEW S \in SUBSET Nat, S # {}
  PROVE  Min(S) \in S /\ \A y \in S : Min(S) <= y
<1>1. \E x \in S : \A y \in S : x <= y
  BY NatLeast
<1> QED BY <1>1 DEF Min

\* The entries in use are those with an FCB.
LEMMA TableTypes ==
  ASSUME FilesTypeOK
  PROVE  /\ Len(table) \in Nat /\ DOMAIN table = 1 .. Len(table)
         /\ InUse \subseteq DOMAIN table /\ InUse \subseteq Nat
         /\ \A i \in DOMAIN table : table[i] \in Entries
         /\ \A i \in InUse : table[i] \in [fp : Streams, where : Addresses, name : Names]
         /\ \A w \in Addresses : \A i \in DOMAIN table : table[i].where = w => i \in InUse
<1>1. table \in Seq(Entries)
  BY DEF FilesTypeOK
<1>2. /\ Len(table) \in Nat /\ DOMAIN table = 1 .. Len(table)
      /\ \A i \in DOMAIN table : table[i] \in Entries
  BY <1>1
<1>3. Free \notin Addresses
  BY FilesAssumption
<1> QED BY <1>2, <1>3 DEF InUse, Entries, Unused

\* An entry that is in use holds a FILE of the C library, on a file of the host.
LEMMA EntryInUse ==
  ASSUME FilesTypeOK, TableOK, NEW i \in InUse
  PROVE  /\ table[i].fp \in Streams /\ table[i].name \in Names /\ table[i].name \in DOMAIN host
         /\ stream[table[i].fp] \in Standing /\ stream[table[i].fp] # Closed
         /\ stream[table[i].fp].file = host[table[i].name]
         /\ stream[table[i].fp].file \in Inodes
<1>1. table[i].fp \in Streams /\ table[i].name \in Names
  BY TableTypes
<1>2. table[i].name \in DOMAIN host /\ stream[table[i].fp].file = host[table[i].name]
  BY DEF TableOK
<1>3. stream[table[i].fp] # Closed
  BY DEF TableOK, EntriesOpen, Opens
<1>4. stream[table[i].fp] \in Standing /\ host[table[i].name] \in Inodes
  BY <1>1, <1>2, <1>3 DEF FilesTypeOK
<1> QED BY <1>1, <1>2, <1>3, <1>4

\* lookfp finds the only entry of a name, if there is one.
LEMMA LookupIs ==
  ASSUME FilesTypeOK, TableOK, NEW w \in Addresses, NEW n \in Names
  PROVE  /\ Lookup(w, n) # 0 => Lookup(w, n) \in InUse /\ table[Lookup(w, n)].name = n
         /\ Lookup(w, n) = 0 <=> \A i \in InUse : table[i].name # n
         /\ \A i \in InUse : table[i].name = n => Lookup(w, n) = i
<1>1. Exact(w, n) \subseteq Named(n) /\ Named(n) \subseteq InUse /\ Named(n) \subseteq Nat \ {0}
  BY TableTypes DEF Exact, Named
<1>2. (Lookup(w, n) = 0 /\ Named(n) = {}) \/ Lookup(w, n) \in Named(n)
  BY <1>1, MinIsLeast DEF Lookup
<1>3. \A i, j \in InUse : table[i].name = n /\ table[j].name = n => i = j
  BY DEF TableOK
<1> QED BY <1>1, <1>2, <1>3 DEF Named

\* The table when lookfp has found entry i, at whatever address it was.
LEMMA MovedIs ==
  ASSUME FilesTypeOK, TableOK, NEW w \in Addresses, NEW n \in Names, Lookup(w, n) # 0
  PROVE  LET i == Lookup(w, n)
             t == Moved(w, n)
         IN  /\ t \in Seq(Entries) /\ Len(t) = Len(table) /\ DOMAIN t = DOMAIN table
             /\ t[i] = [fp |-> table[i].fp, where |-> w, name |-> n]
             /\ \A j \in DOMAIN table : j # i => t[j] = table[j]
             /\ \A j \in DOMAIN table : t[j].fp = table[j].fp /\ t[j].name = table[j].name
             /\ \A j \in DOMAIN table : t[j].where # Free <=> table[j].where # Free
<1> DEFINE i == Lookup(w, n)
           t == Moved(w, n)
<1>1. i \in InUse /\ table[i].name = n
  BY LookupIs
<1>2. t = [table EXCEPT ![i].where = w]
  BY DEF Moved
<1>3. table[i] \in [fp : Streams, where : Addresses, name : Names] /\ i \in DOMAIN table
      /\ table \in Seq(Entries)
  BY <1>1, TableTypes DEF FilesTypeOK
<1> HIDE DEF i, t
<1>4. PICK e : e = [fp |-> table[i].fp, where |-> w, name |-> n]
  OBVIOUS
<1>5. e = [table[i] EXCEPT !.where = w]
  BY <1>1, <1>3, <1>4
<1>6. t = [table EXCEPT ![i] = e]
  BY <1>2, <1>5
<1>7. e \in Entries /\ e.fp = table[i].fp /\ e.name = table[i].name /\ e.where = w
  BY <1>1, <1>3, <1>4 DEF Entries
<1>8. t \in Seq(Entries) /\ Len(t) = Len(table) /\ DOMAIN t = DOMAIN table
  BY <1>3, <1>6, <1>7
<1>9. t[i] = e /\ \A j \in DOMAIN table : j # i => t[j] = table[j]
  BY <1>3, <1>6
<1>10. w # Free /\ table[i].where # Free
  BY <1>1, FilesAssumption DEF InUse
<1> QED BY <1>4, <1>7, <1>8, <1>9, <1>10 DEF i, t

-----------------------------------------------------------------------------
(* Steps.                                                                  *)

\* A call that finds its entry leaves everything in order: the entry is at the
\* address of the call, and no other can be there.
LEMMA FoundOK ==
  ASSUME FilesOK, NEW w \in Addresses, NEW n \in Names, Lookup(w, n) # 0,
         \A i \in InUse : table[i].where = w => table[i].name = n,
         \A v \in Addresses : fcb[v].open => (v = w <=> fcb[v].name = n),
         NEW f \in FCBs, f.open, f.name = n, fcb' = [fcb EXCEPT ![w] = f],
         table' = Moved(w, n), host' = host, size' \in [Inodes -> Nat],
         stream' \in [Streams -> {Closed} \cup Standing],
         \A s \in Streams : stream'[s] = Closed <=> stream[s] = Closed,
         \A s \in Streams : stream[s] # Closed => stream'[s].file = stream[s].file
  PROVE  FilesOK'
<1> DEFINE i == Lookup(w, n)
<1>1. FilesTypeOK /\ TableOK /\ FcbsOK
  BY DEF FilesOK
<1>2. i \in InUse /\ table[i].name = n
  BY <1>1, LookupIs
<1>3. /\ table' \in Seq(Entries) /\ DOMAIN table' = DOMAIN table
      /\ table'[i].where = w
      /\ \A j \in DOMAIN table : j # i => table'[j] = table[j]
      /\ \A j \in DOMAIN table : table'[j].fp = table[j].fp /\ table'[j].name = table[j].name
      /\ \A j \in DOMAIN table : table'[j].where # Free <=> table[j].where # Free
  <2>1. PICK t : t = Moved(w, n)
    OBVIOUS
  <2>2. /\ t \in Seq(Entries) /\ DOMAIN t = DOMAIN table
        /\ t[i] = [fp |-> table[i].fp, where |-> w, name |-> n]
        /\ \A j \in DOMAIN table : j # i => t[j] = table[j]
        /\ \A j \in DOMAIN table : t[j].fp = table[j].fp /\ t[j].name = table[j].name
        /\ \A j \in DOMAIN table : t[j].where # Free <=> table[j].where # Free
    BY <1>1, <2>1, MovedIs
  <2>3. t[i].where = w
    BY <2>2
  <2> QED BY <2>1, <2>2, <2>3
<1> HIDE DEF i
<1>4. InUse' = InUse /\ InUse \subseteq DOMAIN table
  BY <1>3 DEF InUse
<1>5. /\ fcb \in [Addresses -> FCBs] /\ fcb'[w] = f
      /\ \A v \in Addresses : v # w => fcb'[v] = fcb[v]
  BY <1>1 DEF FilesTypeOK
<1>6. FilesTypeOK'
  BY <1>1, <1>3, <1>5 DEF FilesTypeOK
<1>7. \A j \in InUse : table'[j].where = IF j = i THEN w ELSE table[j].where
  BY <1>3, <1>4
<1>8. \A j \in InUse : table[j].where = w => j = i
  BY <1>1, <1>2 DEF TableOK
<1>9. \A j \in InUse : /\ table[j].fp \in Streams /\ stream[table[j].fp] # Closed
                       /\ stream[table[j].fp].file = host[table[j].name]
                       /\ table[j].name \in DOMAIN host
  BY <1>1, EntryInUse
<1>10. TableOK'
  <2>1. EntriesOpen'
    BY <1>3, <1>4, <1>9 DEF EntriesOpen, Opens
  <2>2. ASSUME NEW j \in InUse, NEW k \in InUse, j # k
        PROVE  /\ table'[j].name # table'[k].name /\ table'[j].where # table'[k].where
               /\ table'[j].fp # table'[k].fp
    BY <1>1, <1>3, <1>4, <1>7, <1>8, <2>2 DEF TableOK
  <2>3. ASSUME NEW j \in InUse
        PROVE  table'[j].name \in DOMAIN host' /\ stream'[table'[j].fp].file = host'[table'[j].name]
    BY <1>3, <1>4, <1>9
  <2>4. ASSUME NEW s \in Streams, stream'[s] # Closed PROVE \E j \in InUse : table'[j].fp = s
    <3>1. PICK j \in InUse : table[j].fp = s
      BY <1>1, <2>4 DEF TableOK, Opens
    <3> QED BY <1>3, <1>4, <3>1
  <2> QED BY <1>4, <2>1, <2>2, <2>3, <2>4 DEF TableOK, Opens
<1>11. FcbsOK'
  <2>1. ASSUME NEW v \in Addresses, fcb'[v].open PROVE \E j \in InUse : table'[j].name = fcb'[v].name
    BY <1>1, <1>2, <1>3, <1>4, <1>5, <2>1 DEF FcbsOK
  <2>2. ASSUME NEW u \in Addresses, NEW v \in Addresses, fcb'[u].open, fcb'[v].open, fcb'[u].name = fcb'[v].name
        PROVE  u = v
    BY <1>1, <1>5, <2>2 DEF FcbsOK
  <2>3. ASSUME NEW j \in InUse PROVE \E v \in Addresses : fcb'[v].open /\ fcb'[v].name = table'[j].name
    <3>1. table'[j].name = table[j].name
      BY <1>3, <1>4
    <3>2. CASE table[j].name = n
      BY <1>5, <3>1, <3>2
    <3>3. CASE table[j].name # n
      BY <1>1, <1>5, <3>1, <3>3 DEF FcbsOK
    <3> QED BY <3>2, <3>3
  <2>4. ASSUME NEW v \in Addresses, NEW j \in InUse, fcb'[v].open, table'[j].where = v
        PROVE  table'[j].name = fcb'[v].name
    <3>1. CASE v = w
      BY <1>2, <1>3, <1>4, <1>5, <1>7, <1>8, <2>4, <3>1
    <3>2. CASE v # w
      BY <1>1, <1>3, <1>4, <1>5, <1>7, <2>4, <3>2 DEF FcbsOK
    <3> QED BY <3>1, <3>2
  <2> QED BY <1>4, <2>1, <2>2, <2>3, <2>4 DEF FcbsOK
<1> QED BY <1>6, <1>10, <1>11 DEF FilesOK

\* Nothing the invariant speaks of changes.
LEMMA SameFilesOK ==
  ASSUME FilesOK, UNCHANGED <<host, size, stream, table, fcb>>
  PROVE  FilesOK'
<1>1. InUse' = InUse
  BY DEF InUse
<1> QED BY <1>1 DEF FilesOK, FilesTypeOK, TableOK, EntriesOpen, Opens, FcbsOK

\* An FCB that is open finds its entry, at its address or elsewhere.
LEMMA OpenFinds ==
  ASSUME FilesOK, NEW w \in Addresses, fcb[w].open
  PROVE  /\ fcb[w] \in FCBs /\ fcb[w].name \in Names
         /\ Lookup(w, fcb[w].name) \in InUse
         /\ table[Lookup(w, fcb[w].name)].name = fcb[w].name
         /\ Lookup(w, fcb[w].name) # 0
         /\ \A i \in InUse : table[i].where = w => table[i].name = fcb[w].name
         /\ \A v \in Addresses : fcb[v].open => (v = w <=> fcb[v].name = fcb[w].name)
<1>1. FilesTypeOK /\ TableOK /\ FcbsOK
  BY DEF FilesOK
<1>2. PICK i \in InUse : table[i].name = fcb[w].name
  BY <1>1 DEF FcbsOK
<1>3. fcb[w].name \in Names /\ fcb[w] \in FCBs
  BY <1>1, <1>2, EntryInUse DEF FilesTypeOK
<1>4. Lookup(w, fcb[w].name) = i
  BY <1>1, <1>2, <1>3, LookupIs
<1>5. i # 0
  BY <1>1, TableTypes
<1> QED BY <1>1, <1>2, <1>3, <1>4, <1>5 DEF FcbsOK

\* What a transfer does to the FCB and the FILE.
LEMMA StandsIs ==
  ASSUME FilesTypeOK, NEW w \in Addresses, NEW f \in Streams, stream[f] \in Standing,
         NEW bytes \in Nat, NEW n \in Nat, NEW t \in Nat, Stands(w, f, bytes, n, t)
  PROVE  \E g \in FCBs : /\ g.open /\ g.name = fcb[w].name /\ fcb' = [fcb EXCEPT ![w] = g]
                         /\ g = FixRC(At([fcb[w] EXCEPT !.open = TRUE], n), bytes)
<1>1. fcb[w] \in FCBs
  BY DEF FilesTypeOK
<1>2. PICK h : h = [fcb[w] EXCEPT !.open = TRUE]
  OBVIOUS
<1>3. h \in FCBs /\ h.open /\ h.name = fcb[w].name
  BY <1>1, <1>2 DEF FCBs
<1>4. PICK k : k = At(h, n)
  OBVIOUS
<1>5. k \in FCBs /\ k.open /\ k.name = fcb[w].name
  BY <1>3, <1>4, AtIsFCB
<1>6. PICK g : g = FixRC(k, bytes)
  OBVIOUS
<1>7. g \in FCBs /\ g.open /\ g.name = fcb[w].name
  BY <1>5, <1>6, FixRCIsFCB
<1>8. fcb' = [fcb EXCEPT ![w] = g] /\ g = FixRC(At([fcb[w] EXCEPT !.open = TRUE], n), bytes)
  BY <1>2, <1>4, <1>6 DEF Stands
<1> QED BY <1>7, <1>8

\* After a transfer the FILE stands where the transfer ended.
LEMMA StandsAt ==
  ASSUME NEW w, NEW f, stream[f] \in Standing, NEW bytes, NEW n, NEW t, Stands(w, f, bytes, n, t)
  PROVE  stream' = [stream EXCEPT ![f] = [file |-> stream[f].file, tell |-> t]]
<1>1. stream' = [stream EXCEPT ![f].tell = t]
  BY DEF Stands
<1>2. [stream[f] EXCEPT !.tell = t] = [file |-> stream[f].file, tell |-> t]
  BY DEF Standing
<1> QED BY <1>1, <1>2

\* A FILE that moves stays open, on the same file of the host.
LEMMA FileMoves ==
  ASSUME FilesTypeOK, NEW f \in Streams, stream[f] \in Standing, NEW t \in Nat,
         stream' = [stream EXCEPT ![f] = [file |-> stream[f].file, tell |-> t]]
  PROVE  /\ stream' \in [Streams -> {Closed} \cup Standing]
         /\ \A s \in Streams : stream'[s] = Closed <=> stream[s] = Closed
         /\ \A s \in Streams : stream[s] # Closed => stream'[s].file = stream[s].file
<1>1. PICK r : r = [file |-> stream[f].file, tell |-> t]
  OBVIOUS
<1>2. r \in Standing /\ r.file = stream[f].file
  BY <1>1 DEF Standing
<1>3. r # Closed /\ stream[f] # Closed
  BY <1>2, FilesAssumption DEF Standing
<1>4. stream' = [stream EXCEPT ![f] = r] /\ stream \in [Streams -> {Closed} \cup Standing]
  BY <1>1 DEF FilesTypeOK
<1> QED BY <1>2, <1>3, <1>4

\* A transfer moves the entry to the FCB it was found for, and keeps the
\* invariant.
LEMMA TransferOK ==
  ASSUME FilesOK, NEW w \in Addresses, fcb[w].open, NEW i \in DOMAIN table,
         Finds(w, fcb[w].name, i), table' = Moved(w, fcb[w].name), UNCHANGED <<host, running>>,
         LET f == table[i].fp
             inode == stream[f].file
         IN  \/ \E g \in FCBs : /\ g.open /\ g.name = fcb[w].name
                                /\ ReadSeq(w, f, inode, g) \/ WriteSeq(w, f, inode, g)
             \/ \E t \in Nat : SetRandom(w, f, inode, t)
  PROVE  FilesOK'
<1>1. PICK f, inode : f = table[i].fp /\ inode = stream[f].file
  OBVIOUS
<1>2. FilesTypeOK /\ TableOK /\ FcbsOK
  BY DEF FilesOK
<1>3. i \in InUse /\ i = Lookup(w, fcb[w].name)
  BY OpenFinds DEF Finds
<1>4. f \in Streams /\ stream[f] \in Standing /\ inode \in Inodes /\ size[inode] \in Nat
  BY <1>1, <1>2, <1>3, EntryInUse DEF FilesTypeOK
<1>5. ASSUME NEW g \in FCBs, g.open, g.name = fcb[w].name, fcb' = [fcb EXCEPT ![w] = g],
             NEW t \in Nat, stream' = [stream EXCEPT ![f] = [file |-> stream[f].file, tell |-> t]],
             size' \in [Inodes -> Nat]
      PROVE  FilesOK'
  <2>1. /\ stream' \in [Streams -> {Closed} \cup Standing]
        /\ \A s \in Streams : stream'[s] = Closed <=> stream[s] = Closed
        /\ \A s \in Streams : stream[s] # Closed => stream'[s].file = stream[s].file
    BY <1>2, <1>4, <1>5, FileMoves
  <2> QED BY <1>5, <2>1, OpenFinds, FoundOK
<1>6. ASSUME NEW bytes \in Nat, NEW n \in Nat, NEW t \in Nat, Stands(w, f, bytes, n, t),
             size' \in [Inodes -> Nat]
      PROVE  FilesOK'
  <2>1. stream' = [stream EXCEPT ![f] = [file |-> stream[f].file, tell |-> t]]
    BY <1>4, <1>6, StandsAt
  <2>2. PICK g \in FCBs : g.open /\ g.name = fcb[w].name /\ fcb' = [fcb EXCEPT ![w] = g]
    BY <1>2, <1>4, <1>6, StandsIs
  <2> QED BY <1>5, <1>6, <2>1, <2>2
<1>7. size \in [Inodes -> Nat]
  BY <1>2 DEF FilesTypeOK
<1>8. ASSUME NEW g \in FCBs, g.open, g.name = fcb[w].name, Stays(w, f, g), size' = size
      PROVE  FilesOK'
  <2>1. PICK a \in Nat : a = SeqAddress(g)
    BY SeqAddressIsNat
  <2>2. fcb' = [fcb EXCEPT ![w] = g] /\ stream' = [stream EXCEPT ![f].tell = a]
    BY <1>8, <2>1 DEF Stays
  <2>3. [stream[f] EXCEPT !.tell = a] = [file |-> stream[f].file, tell |-> a]
    BY <1>4 DEF Standing
  <2>4. stream' = [stream EXCEPT ![f] = [file |-> stream[f].file, tell |-> a]]
    BY <2>2, <2>3
  <2> QED BY <1>5, <1>7, <1>8, <2>2, <2>4
<1>9. ASSUME NEW g \in FCBs, g.open, g.name = fcb[w].name, ReadSeq(w, f, inode, g)
      PROVE  FilesOK'
  <2> DEFINE a == SeqAddress(g)
             t == Min({a + RecordSize, size[inode]})
  <2>1. a \in Nat /\ a + RecordSize \in Nat
    BY SeqAddressIsNat, Sizes
  <2>2. t \in Nat
    <3>1. PICK s \in Nat : s = a + RecordSize
      BY <2>1
    <3>2. {s, size[inode]} \subseteq Nat /\ {s, size[inode]} # {}
      BY <1>4
    <3>3. Min({s, size[inode]}) \in Nat
      BY <3>2, MinIsLeast
    <3> QED BY <3>1, <3>3
  <2>3. size' \in [Inodes -> Nat]
    BY <1>7, <1>9 DEF ReadSeq
  <2>4. CASE a < size[inode]
    <3>1. Stands(w, f, size[inode], RoundedUp(t), t)
      BY <1>9, <2>4 DEF ReadSeq
    <3>2. RoundedUp(t) \in Nat
      BY <2>2, RecordsAreNat
    <3> QED BY <1>4, <1>6, <2>2, <2>3, <3>1, <3>2
  <2>5. CASE ~ a < size[inode]
    BY <1>8, <1>9, <2>5 DEF ReadSeq
  <2> QED BY <2>4, <2>5
<1>10. ASSUME NEW g \in FCBs, g.open, g.name = fcb[w].name, WriteSeq(w, f, inode, g)
      PROVE  FilesOK'
  <2> DEFINE t == SeqAddress(g) + RecordSize
             bytes == Max({t, size[inode]})
  <2>1. t \in Nat
    BY SeqAddressIsNat, Sizes
  <2>2. bytes \in Nat
    <3> HIDE DEF t
    <3>1. \E x \in {t, size[inode]} : \A y \in {t, size[inode]} : x >= y
      BY <1>4, <2>1
    <3>2. bytes \in {t, size[inode]}
      BY <3>1 DEF Max
    <3> QED BY <1>4, <2>1, <3>2
  <2>3. CASE Stands(w, f, bytes, t, t) /\ size' = [size EXCEPT ![inode] = bytes]
    <3>1. size' \in [Inodes -> Nat]
      BY <1>7, <2>2, <2>3
    <3> QED BY <1>6, <2>1, <2>2, <2>3, <3>1
  <2>4. CASE Stays(w, f, g) /\ size' = size
    BY <1>8, <1>10, <2>4
  <2>5. CASE Stands(w, f, size[inode], t, SeqAddress(g)) /\ size' = size
    BY <1>4, <1>6, <1>7, <2>1, <2>5, SeqAddressIsNat
  <2> QED BY <1>10, <2>3, <2>4, <2>5 DEF WriteSeq
<1>11. ASSUME NEW t \in Nat, SetRandom(w, f, inode, t)
       PROVE  FilesOK'
  <2>1. RoundedUp(t) \in Nat
    BY RecordsAreNat
  <2>2. Stands(w, f, size[inode], RoundedUp(t), t) /\ size' = size
    BY <1>11 DEF SetRandom
  <2> QED BY <1>4, <1>6, <1>7, <2>1, <2>2
<1> QED BY <1>1, <1>9, <1>10, <1>11

\* The six calls that transfer a record or report a position.
LEMMA AccessOK ==
  ASSUME Tidy, FilesOK, NEW w \in Addresses, NEW p \in Nat,
         \/ Read(w) \/ Write(w) \/ FileSize(w) \/ Tell(w) \/ ReadRandom(w, p) \/ WriteRandom(w, p)
  PROVE  FilesOK'
<1>1. FilesTypeOK /\ TableOK
  BY DEF FilesOK
<1>2. MayUse(w)
  BY DEF Read, Write, FileSize, Tell, ReadRandom, WriteRandom, Access
<1>3. fcb[w].open /\ fcb[w] \in FCBs /\ Lookup(w, fcb[w].name) # 0
  BY <1>2, OpenFinds DEF MayUse
<1>4. PICK n : n = fcb[w].name
  OBVIOUS
<1>5. [fcb[w] EXCEPT !.open = TRUE] \in FCBs /\ [fcb[w] EXCEPT !.open = TRUE].open
      /\ [fcb[w] EXCEPT !.open = TRUE].name = n
  BY <1>3, <1>4 DEF FCBs
<1>6. RandomAddress(p) \in Nat
  <2>1. PICK q \in Nat : q = p % RandomRecords
    BY Sizes, Divided
  <2>2. q * RecordSize \in Nat
    BY Sizes
  <2> QED BY <2>1, <2>2 DEF RandomAddress
<1>7. /\ RandomFCB(w, p) \in FCBs /\ RandomFCB(w, p).open
      /\ RandomFCB(w, p).name = n
  <2>1. PICK g : g = [fcb[w] EXCEPT !.open = TRUE]
    OBVIOUS
  <2> QED BY <1>5, <1>6, <2>1, AtIsFCB DEF RandomFCB
<1>8. ASSUME NEW i \in DOMAIN table, Finds(w, n, i)
      PROVE  /\ table[i].fp \in Streams
             /\ stream[table[i].fp].file \in Inodes /\ size[stream[table[i].fp].file] \in Nat
             /\ stream[table[i].fp].tell \in Nat
  <2>1. i \in InUse
    BY <1>3, <1>4, <1>8, OpenFinds DEF Finds
  <2> QED BY <1>1, <2>1, EntryInUse DEF FilesTypeOK, Standing
<1>9. ASSUME NEW i \in DOMAIN table, Finds(w, n, i), table' = Moved(w, n), UNCHANGED <<host, running>>,
             NEW f, NEW inode, f = table[i].fp, inode = stream[f].file,
             \/ \E g \in FCBs : g.open /\ g.name = n /\ (ReadSeq(w, f, inode, g) \/ WriteSeq(w, f, inode, g))
             \/ \E t \in Nat : SetRandom(w, f, inode, t)
      PROVE  FilesOK'
  BY <1>3, <1>4, <1>9, TransferOK
<1>10. CASE Read(w)
  <2>1. PICK i \in DOMAIN table : /\ Finds(w, n, i) /\ table' = Moved(w, n) /\ UNCHANGED <<host, running>>
                                  /\ ReadSeq(w, table[i].fp, stream[table[i].fp].file, fcb[w])
    BY <1>3, <1>4, <1>10 DEF Read, Access
  <2> QED BY <1>3, <1>4, <1>9, <2>1
<1>11. CASE Write(w)
  <2>1. PICK i \in DOMAIN table : /\ Finds(w, n, i) /\ table' = Moved(w, n) /\ UNCHANGED <<host, running>>
                                  /\ WriteSeq(w, table[i].fp, stream[table[i].fp].file, fcb[w])
    BY <1>3, <1>4, <1>11 DEF Write, Access
  <2> QED BY <1>3, <1>4, <1>9, <2>1
<1>12. CASE ReadRandom(w, p)
  <2>1. PICK i \in DOMAIN table : /\ Finds(w, n, i) /\ table' = Moved(w, n) /\ UNCHANGED <<host, running>>
                                  /\ ReadSeq(w, table[i].fp, stream[table[i].fp].file, RandomFCB(w, p))
    BY <1>3, <1>4, <1>12 DEF ReadRandom, Access
  <2> QED BY <1>7, <1>9, <2>1
<1>13. CASE WriteRandom(w, p)
  <2>1. PICK i \in DOMAIN table : /\ Finds(w, n, i) /\ table' = Moved(w, n) /\ UNCHANGED <<host, running>>
                                  /\ WriteSeq(w, table[i].fp, stream[table[i].fp].file, RandomFCB(w, p))
    BY <1>3, <1>4, <1>13 DEF WriteRandom, Access
  <2> QED BY <1>7, <1>9, <2>1
<1>14. CASE FileSize(w)
  <2>1. PICK i \in DOMAIN table : /\ Finds(w, n, i) /\ table' = Moved(w, n) /\ UNCHANGED <<host, running>>
                                  /\ SetRandom(w, table[i].fp, stream[table[i].fp].file, size[stream[table[i].fp].file])
    BY <1>3, <1>4, <1>14 DEF FileSize, Access
  <2>2. size[stream[table[i].fp].file] \in Nat
    BY <1>8, <2>1
  <2> QED BY <1>9, <2>1, <2>2
<1>15. CASE Tell(w)
  <2>1. PICK i \in DOMAIN table : /\ Finds(w, n, i) /\ table' = Moved(w, n) /\ UNCHANGED <<host, running>>
                                  /\ SetRandom(w, table[i].fp, stream[table[i].fp].file, stream[table[i].fp].tell)
    BY <1>3, <1>4, <1>15 DEF Tell, Access
  <2>2. stream[table[i].fp].tell \in Nat
    BY <1>8, <2>1
  <2> QED BY <1>9, <2>1, <2>2
<1> QED BY <1>10, <1>11, <1>12, <1>13, <1>14, <1>15

\* The FCB of a file that was opened.
LEMMA OpenedIsFCB ==
  ASSUME NEW w \in Addresses, NEW n \in Names, NEW p \in Nat, NEW b \in Nat, OpenedFCB(w, n, p, b)
  PROVE  \E g \in FCBs : /\ g.open /\ g.name = n /\ fcb' = [fcb EXCEPT ![w] = g]
                         /\ g = FixRC([Filled(n, p) EXCEPT !.open = TRUE], b)
<1>1. PICK h \in FCBs : h = Filled(n, p) /\ h.name = n
  BY FilledIsFCB
<1>2. PICK e : e = [h EXCEPT !.open = TRUE]
  OBVIOUS
<1>3. e \in FCBs /\ e.open /\ e.name = n
  BY <1>1, <1>2 DEF FCBs
<1>4. PICK g : g = FixRC(e, b)
  OBVIOUS
<1>5. g \in FCBs /\ g.open /\ g.name = n
  BY <1>3, <1>4, FixRCIsFCB
<1> QED BY <1>1, <1>2, <1>4, <1>5 DEF OpenedFCB

\* open15 and make22 of a name that is in the table.
LEMMA OpenFoundOK ==
  ASSUME Tidy, FilesOK, NEW w \in Addresses, NEW n \in Names, NEW p \in Nat, OpenFound(w, n, p)
  PROVE  FilesOK'
<1>1. FilesTypeOK /\ TableOK /\ FcbsOK
  BY DEF FilesOK
<1>2. PICK i \in DOMAIN table :
        /\ Finds(w, n, i) /\ MayOpen(w, n, p, size[stream[table[i].fp].file])
        /\ table' = Moved(w, n) /\ OpenedFCB(w, n, p, size[stream[table[i].fp].file])
        /\ UNCHANGED <<host, size, stream, running>>
  BY DEF OpenFound
<1>3. i = Lookup(w, n) /\ Lookup(w, n) # 0 /\ i \in InUse
  BY <1>1, <1>2, LookupIs DEF Finds
<1>4. size[stream[table[i].fp].file] \in Nat /\ size \in [Inodes -> Nat]
  BY <1>1, <1>3, EntryInUse DEF FilesTypeOK
<1>5. PICK g \in FCBs : g.open /\ g.name = n /\ fcb' = [fcb EXCEPT ![w] = g]
  <2>1. PICK b \in Nat : b = size[stream[table[i].fp].file]
    BY <1>4
  <2>2. OpenedFCB(w, n, p, b)
    BY <1>2, <2>1
  <2>3. PICK g \in FCBs : /\ g.open /\ g.name = n /\ fcb' = [fcb EXCEPT ![w] = g]
                         /\ g = FixRC([Filled(n, p) EXCEPT !.open = TRUE], b)
    BY <2>2, OpenedIsFCB
  <2> QED BY <2>3
<1>6. /\ \A j \in InUse : table[j].where = w => table[j].name = n
      /\ \A v \in Addresses : fcb[v].open => (v = w <=> fcb[v].name = n)
  BY <1>2 DEF MayOpen, Vacant
<1> QED BY <1>1, <1>2, <1>3, <1>4, <1>5, <1>6, FoundOK DEF FilesTypeOK

\* The greatest of a set of slots is one of it.
LEMMA MaxIsIn ==
  ASSUME NEW k \in Nat, NEW S \in SUBSET (1 .. k), S # {}
  PROVE  Max(S) \in S
<1> DEFINE T == {d \in Nat : k - d \in S}
<1>1. PICK x \in S : TRUE
  OBVIOUS
<1>2. x \in 1 .. k /\ k - x \in Nat /\ k - (k - x) = x
  BY <1>1
<1>3. k - x \in T
  BY <1>1, <1>2
<1>4. PICK d \in T : \A e \in T : d <= e
  <2> HIDE DEF T
  <2>1. T \in SUBSET Nat
    BY DEF T
  <2> QED BY <1>3, <2>1, NatLeast
<1>5. d \in Nat /\ k - d \in S
  BY <1>4
<1>6. ASSUME NEW y \in S PROVE k - d >= y
  <2>1. y \in 1 .. k /\ k - y \in Nat /\ k - (k - y) = y
    OBVIOUS
  <2>2. k - y \in T
    BY <2>1
  <2>3. d <= k - y
    BY <1>4, <2>2
  <2> QED BY <1>5, <2>1, <2>3
<1>7. \E m \in S : \A y \in S : m >= y
  BY <1>5, <1>6
<1> QED BY <1>7 DEF Max

\* storefp, for a name the table does not hold and an address nothing is at: an
\* entry that was not in use is, and the others are as they were.
LEMMA StoredIs ==
  ASSUME FilesTypeOK, NEW w \in Addresses, NEW n \in Names, NEW f \in Streams,
         \A i \in InUse : table[i].where # w
  PROVE  \E i \in Nat :
           LET t == Stored(w, n, f) IN
           /\ t \in Seq(Entries) /\ i \notin InUse
           /\ {j \in DOMAIN t : t[j].where # Free} = InUse \cup {i}
           /\ t[i] = [fp |-> f, where |-> w, name |-> n]
           /\ \A j \in InUse : t[j] = table[j]
<1> DEFINE same == {i \in DOMAIN table : table[i].where = w}
           free == DOMAIN table \ InUse
           i == IF free # {} THEN Max(free) ELSE Len(table) + 1
<1>1. same = {}
  BY TableTypes
<1>2. /\ Len(table) \in Nat /\ DOMAIN table = 1 .. Len(table) /\ InUse \subseteq DOMAIN table
      /\ table \in Seq(Entries) /\ w # Free
  BY TableTypes, FilesAssumption DEF FilesTypeOK
<1>3. PICK e : e = [fp |-> f, where |-> w, name |-> n]
  OBVIOUS
<1>4. e \in Entries /\ e.where # Free
  BY <1>2, <1>3 DEF Entries
<1>5. PICK t : t = Stored(w, n, f)
  OBVIOUS
<1>6. t = IF i > Len(table) THEN Append(table, e) ELSE [table EXCEPT ![i] = e]
  <2> HIDE DEF free
  <2> QED BY <1>1, <1>3, <1>5 DEF Stored, free
<1>7. CASE free = {}
  <2>1. i = Len(table) + 1 /\ t = Append(table, e)
    <3>1. i = Len(table) + 1
      BY <1>7
    <3> HIDE DEF i
    <3>2. i > Len(table)
      BY <1>2, <3>1
    <3> QED BY <1>6, <3>1, <3>2
  <2>2. /\ t \in Seq(Entries) /\ DOMAIN t = 1 .. Len(table) + 1
        /\ t[i] = e /\ \A j \in 1 .. Len(table) : t[j] = table[j]
    BY <1>2, <1>4, <2>1
  <2>3. i \notin InUse /\ i \in Nat
    BY <1>2, <2>1
  <2> HIDE DEF i, free
  <2>4. ASSUME NEW j \in DOMAIN t PROVE t[j].where # Free <=> j \in InUse \cup {i}
    BY <1>2, <1>4, <2>1, <2>2 DEF InUse
  <2>5. InUse \cup {i} \subseteq DOMAIN t
    BY <1>2, <2>1, <2>2
  <2> QED BY <1>2, <1>3, <1>5, <2>2, <2>3, <2>4, <2>5
<1>8. CASE free # {}
  <2>1. i \in free
    <3> HIDE DEF free
    <3>1. free \in SUBSET (1 .. Len(table))
      BY <1>2 DEF free
    <3> QED BY <1>2, <1>8, <3>1, MaxIsIn
  <2> HIDE DEF i
  <2>2. i \in DOMAIN table /\ i \notin InUse /\ i \in Nat /\ ~ i > Len(table)
    BY <1>2, <2>1
  <2>3. t = [table EXCEPT ![i] = e]
    BY <1>6, <2>2 DEF i
  <2>4. /\ t \in Seq(Entries) /\ DOMAIN t = DOMAIN table
        /\ t[i] = e /\ \A j \in DOMAIN table : j # i => t[j] = table[j]
    BY <1>2, <1>4, <2>2, <2>3
  <2>5. ASSUME NEW j \in DOMAIN t PROVE t[j].where # Free <=> j \in InUse \cup {i}
    BY <1>2, <1>4, <2>2, <2>4 DEF InUse
  <2>6. InUse \cup {i} \subseteq DOMAIN t
    BY <1>2, <2>2, <2>4
  <2> QED BY <1>2, <1>3, <1>5, <2>2, <2>4, <2>5, <2>6
<1> QED BY <1>7, <1>8

\* The directory gains a name at most, and no two names share a file.
LEMMA LinkedIs ==
  ASSUME FilesTypeOK, NEW n \in Names, NEW inode \in Inodes,
         (n \in DOMAIN host /\ inode = host[n]) \/ (n \notin DOMAIN host /\ inode \notin Range(host)),
         host' = Linked(host, n, inode)
  PROVE  /\ DOMAIN host' = DOMAIN host \cup {n} /\ DOMAIN host' \subseteq Names
         /\ host' \in [DOMAIN host' -> Inodes]
         /\ host'[n] = inode /\ \A m \in DOMAIN host : host'[m] = host[m]
         /\ \A l, m \in DOMAIN host' : host'[l] = host'[m] => l = m
<1>1. /\ DOMAIN host \subseteq Names /\ host \in [DOMAIN host -> Inodes]
      /\ \A l, m \in DOMAIN host : host[l] = host[m] => l = m
  BY DEF FilesTypeOK
<1>2. PICK h : h = [m \in DOMAIN host \cup {n} |-> IF m = n THEN inode ELSE host[m]]
  OBVIOUS
<1>3. host' = h
  BY <1>2 DEF Linked
<1>4. n \notin DOMAIN host => \A m \in DOMAIN host : host[m] # inode
  BY DEF Range
<1>5. /\ DOMAIN h = DOMAIN host \cup {n} /\ DOMAIN h \subseteq Names /\ h \in [DOMAIN h -> Inodes]
      /\ h[n] = inode /\ \A m \in DOMAIN host : h[m] = host[m]
      /\ \A l, m \in DOMAIN h : h[l] = h[m] => l = m
  BY <1>1, <1>2, <1>4
<1> QED BY <1>3, <1>5

\* fopen succeeded: a FILE and an entry more, and one more FCB that is open.
LEMMA OpenFileOK ==
  ASSUME Tidy, FilesOK, NEW w \in Addresses, NEW n \in Names, NEW p \in Nat,
         NEW inode \in Inodes, NEW bytes \in Nat,
         (n \in DOMAIN host /\ inode = host[n]) \/ (n \notin DOMAIN host /\ inode \notin Range(host)),
         OpenFile(w, n, p, inode, bytes)
  PROVE  FilesOK'
<1>1. FilesTypeOK /\ TableOK /\ FcbsOK
  BY DEF FilesOK
<1>2. \A i \in InUse : table[i].name # n
  BY <1>1, LookupIs DEF OpenFile
<1>3. /\ \A i \in InUse : table[i].where # w
      /\ \A v \in Addresses : fcb[v].open => (v = w <=> fcb[v].name = n)
  BY <1>2 DEF OpenFile, MayOpen, Vacant
<1>4. CASE NoRoom(w)
  BY <1>4, SameFilesOK DEF OpenFile, Exits
<1>5. CASE ~ NoRoom(w)
  <2>1. PICK f \in Streams :
          /\ ~ Opens(f) /\ stream' = [stream EXCEPT ![f] = [file |-> inode, tell |-> 0]]
          /\ table' = Stored(w, n, f) /\ host' = Linked(host, n, inode)
          /\ size' = [size EXCEPT ![inode] = bytes] /\ OpenedFCB(w, n, p, bytes)
    BY <1>5 DEF OpenFile
  <2>2. PICK i \in Nat :
          /\ table' \in Seq(Entries) /\ i \notin InUse
          /\ {j \in DOMAIN table' : table'[j].where # Free} = InUse \cup {i}
          /\ table'[i] = [fp |-> f, where |-> w, name |-> n]
          /\ \A j \in InUse : table'[j] = table[j]
    BY <1>1, <1>3, <2>1, StoredIs
  <2>3. InUse' = InUse \cup {i}
    BY <2>2 DEF InUse
  <2>4. table'[i].fp = f /\ table'[i].where = w /\ table'[i].name = n
    BY <2>2
  <2>5. PICK g \in FCBs : /\ g.open /\ g.name = n /\ fcb' = [fcb EXCEPT ![w] = g]
                          /\ g = FixRC([Filled(n, p) EXCEPT !.open = TRUE], bytes)
    BY <2>1, OpenedIsFCB
  <2>6. /\ fcb' \in [Addresses -> FCBs] /\ fcb'[w] = g
        /\ \A v \in Addresses : v # w => fcb'[v] = fcb[v]
    BY <1>1, <2>5 DEF FilesTypeOK
  <2>7. /\ DOMAIN host' = DOMAIN host \cup {n} /\ DOMAIN host' \subseteq Names /\ host' \in [DOMAIN host' -> Inodes]
        /\ host'[n] = inode /\ \A m \in DOMAIN host : host'[m] = host[m]
        /\ \A l, m \in DOMAIN host' : host'[l] = host'[m] => l = m
    BY <1>1, <2>1, LinkedIs
  <2>8. PICK r : r = [file |-> inode, tell |-> 0]
    OBVIOUS
  <2>9. r \in Standing /\ r # Closed /\ r.file = inode
    BY <2>8, FilesAssumption DEF Standing
  <2>10. /\ stream' \in [Streams -> {Closed} \cup Standing] /\ stream'[f] = r
         /\ \A s \in Streams : s # f => stream'[s] = stream[s]
    BY <1>1, <2>1, <2>8, <2>9 DEF FilesTypeOK
  <2>11. stream[f] = Closed
    BY <2>1 DEF Opens
  <2>12. \A j \in InUse : /\ table[j].fp \in Streams /\ table[j].fp # f /\ stream[table[j].fp] # Closed
                          /\ stream[table[j].fp].file = host[table[j].name]
                          /\ table[j].name \in DOMAIN host
    BY <1>1, <2>11, EntryInUse
  <2>13. FilesTypeOK'
    <3>1. size' \in [Inodes -> Nat]
      BY <1>1, <2>1 DEF FilesTypeOK
    <3> QED BY <2>2, <2>6, <2>7, <2>10, <3>1 DEF FilesTypeOK
  <2>14. TableOK'
    <3>1. EntriesOpen'
      BY <2>2, <2>3, <2>4, <2>9, <2>10, <2>12 DEF EntriesOpen, Opens
    <3>2. ASSUME NEW j \in InUse, NEW k \in InUse, j # k
          PROVE  /\ table'[j].name # table'[k].name /\ table'[j].where # table'[k].where
                 /\ table'[j].fp # table'[k].fp
      BY <1>1, <2>2, <3>2 DEF TableOK
    <3>3. ASSUME NEW j \in InUse
          PROVE  /\ table'[j].name # table'[i].name /\ table'[j].where # table'[i].where
                 /\ table'[j].fp # table'[i].fp
      BY <1>2, <1>3, <2>2, <2>4, <2>12
    <3>4. ASSUME NEW j \in InUse'
          PROVE  table'[j].name \in DOMAIN host' /\ stream'[table'[j].fp].file = host'[table'[j].name]
      <4>1. CASE j = i
        BY <2>4, <2>7, <2>9, <2>10, <4>1
      <4>2. CASE j \in InUse
        BY <2>2, <2>7, <2>10, <2>12, <4>2
      <4> QED BY <2>3, <4>1, <4>2
    <3>5. ASSUME NEW s \in Streams, stream'[s] # Closed PROVE \E j \in InUse' : table'[j].fp = s
      <4>1. CASE s = f
        BY <2>3, <2>4, <4>1
      <4>2. CASE s # f
        <5>1. PICK j \in InUse : table[j].fp = s
          BY <1>1, <2>10, <3>5, <4>2 DEF TableOK, Opens
        <5> QED BY <2>2, <2>3, <5>1
      <4> QED BY <4>1, <4>2
    <3>6. ASSUME NEW j \in InUse', NEW k \in InUse', j # k
          PROVE  /\ table'[j].name # table'[k].name /\ table'[j].where # table'[k].where
                 /\ table'[j].fp # table'[k].fp
      BY <2>3, <3>2, <3>3, <3>6
    <3> QED BY <3>1, <3>4, <3>5, <3>6 DEF TableOK, Opens
  <2>15. FcbsOK'
    <3>1. ASSUME NEW v \in Addresses, fcb'[v].open PROVE \E j \in InUse' : table'[j].name = fcb'[v].name
      <4>1. CASE v = w
        BY <2>3, <2>4, <2>5, <2>6, <4>1
      <4>2. CASE v # w
        <5>1. PICK j \in InUse : table[j].name = fcb[v].name
          BY <1>1, <2>6, <3>1, <4>2 DEF FcbsOK
        <5> QED BY <2>2, <2>3, <2>6, <4>2, <5>1
      <4> QED BY <4>1, <4>2
    <3>2. ASSUME NEW u \in Addresses, NEW v \in Addresses, fcb'[u].open, fcb'[v].open, fcb'[u].name = fcb'[v].name
          PROVE  u = v
      BY <1>1, <1>3, <2>5, <2>6, <3>2 DEF FcbsOK
    <3>3. ASSUME NEW j \in InUse' PROVE \E v \in Addresses : fcb'[v].open /\ fcb'[v].name = table'[j].name
      <4>1. CASE j = i
        BY <2>4, <2>5, <2>6, <4>1
      <4>2. CASE j \in InUse
        <5>1. PICK v \in Addresses : fcb[v].open /\ fcb[v].name = table[j].name
          BY <1>1, <4>2 DEF FcbsOK
        <5>2. v # w
          BY <1>2, <1>3, <4>2, <5>1
        <5> QED BY <2>2, <2>6, <4>2, <5>1, <5>2
      <4> QED BY <2>3, <4>1, <4>2
    <3>4. ASSUME NEW v \in Addresses, NEW j \in InUse', fcb'[v].open, table'[j].where = v
          PROVE  table'[j].name = fcb'[v].name
      <4>1. CASE j = i
        BY <2>4, <2>5, <2>6, <3>4, <4>1
      <4>2. CASE j \in InUse
        <5>1. v # w
          BY <1>3, <2>2, <3>4, <4>2
        <5> QED BY <1>1, <2>2, <2>6, <3>4, <4>2, <5>1 DEF FcbsOK
      <4> QED BY <2>3, <4>1, <4>2
    <3> QED BY <3>1, <3>2, <3>3, <3>4 DEF FcbsOK
  <2> QED BY <2>13, <2>14, <2>15 DEF FilesOK
<1> QED BY <1>4, <1>5

\* A name that is not opened: the table holds what it held, and a tidy program
\* erases the FCB.
LEMMA UnopenedOK ==
  ASSUME Tidy, FilesOK, NEW w \in Addresses, NEW n \in Names, NEW p \in Nat,
         Lookup(w, n) = 0, MayOpen(w, n, p, 0),
         fcb' = [fcb EXCEPT ![w] = Empty], UNCHANGED <<host, size, stream>>,
         table' \in Seq(Entries), InUse' = InUse, \A i \in InUse : table'[i] = table[i]
  PROVE  /\ FilesOK' /\ ~ fcb[w].open
         /\ \A v \in Addresses : fcb'[v].open => v # w /\ fcb'[v] = fcb[v]
<1>1. FilesTypeOK /\ TableOK /\ FcbsOK
  BY DEF FilesOK
<1>2. \A i \in InUse : table[i].name # n
  BY <1>1, LookupIs
<1>3. ~ fcb[w].open
  <2> SUFFICES ASSUME fcb[w].open PROVE FALSE
    OBVIOUS
  <2>1. fcb[w].name = n
    BY DEF MayOpen
  <2> QED BY <1>1, <1>2, <2>1 DEF FcbsOK
<1>4. Empty \in FCBs /\ ~ Empty.open
  BY FilledIsFCB
<1>5. /\ fcb' \in [Addresses -> FCBs] /\ ~ fcb'[w].open
      /\ \A v \in Addresses : v # w => fcb'[v] = fcb[v]
  BY <1>1, <1>4 DEF FilesTypeOK
<1>6. FilesTypeOK'
  BY <1>1, <1>5 DEF FilesTypeOK
<1>7. TableOK'
  BY <1>1 DEF TableOK, EntriesOpen, Opens
<1>8. FcbsOK'
  BY <1>1, <1>3, <1>5 DEF FcbsOK
<1> QED BY <1>3, <1>5, <1>6, <1>7, <1>8 DEF FilesOK

\* An entry that is stored and deleted again leaves the others.
LEMMA UnstoredIs ==
  ASSUME FilesTypeOK, NEW w \in Addresses, NEW n \in Names, NEW f \in Streams,
         \A i \in InUse : table[i].where # w, table' = Deleted(Stored(w, n, f), w)
  PROVE  table' \in Seq(Entries) /\ InUse' = InUse /\ \A i \in InUse : table'[i] = table[i]
<1>1. PICK t : t = Stored(w, n, f)
  OBVIOUS
<1>2. PICK i \in Nat :
        /\ t \in Seq(Entries) /\ i \notin InUse
        /\ {j \in DOMAIN t : t[j].where # Free} = InUse \cup {i}
        /\ t[i] = [fp |-> f, where |-> w, name |-> n]
        /\ \A j \in InUse : t[j] = table[j]
  BY <1>1, StoredIs
<1>3. t[i].where = w /\ w # Free /\ i \in DOMAIN t
  BY <1>2, FilesAssumption
<1>4. \A j \in DOMAIN t : t[j].where = w => j = i
  BY <1>2, <1>3
<1>5. {j \in DOMAIN t : t[j].where = w} = {i}
  BY <1>3, <1>4
<1>6. Min({i}) = i
  <2>1. {i} \in SUBSET Nat /\ {i} # {}
    OBVIOUS
  <2>2. Min({i}) \in {i}
    BY <2>1, MinIsLeast, Zenon
  <2> QED BY <2>2
<1>7. table' = [t EXCEPT ![i] = Unused]
  BY <1>1, <1>5, <1>6 DEF Deleted
<1>8. /\ table' \in Seq(Entries) /\ DOMAIN table' = DOMAIN t /\ table'[i] = Unused
      /\ \A j \in DOMAIN t : j # i => table'[j] = t[j]
  BY <1>2, <1>3, <1>7 DEF Entries
<1>9. InUse \subseteq DOMAIN t
  BY <1>2
<1>10. {j \in DOMAIN table' : table'[j].where # Free} = InUse
  BY <1>2, <1>8, <1>9 DEF Unused
<1>11. InUse' = InUse
  BY <1>10 DEF InUse
<1>12. \A j \in InUse : table'[j] = table[j]
  BY <1>2, <1>8, <1>9
<1> QED BY <1>8, <1>11, <1>12

\* What is common to a file that is not there and one that is no regular file.
LEMMA UnopenedIs ==
  ASSUME Tidy, FilesOK, NEW w \in Addresses, NEW n \in Names, NEW p \in Nat,
         NotThere(w, n, p) \/ (NotAFile(w, n, p) /\ ~ NoRoom(w))
  PROVE  /\ Lookup(w, n) = 0 /\ MayOpen(w, n, p, 0) /\ Fails
         /\ fcb' = [fcb EXCEPT ![w] = Empty] /\ UNCHANGED <<host, size, stream>>
         /\ table' \in Seq(Entries) /\ InUse' = InUse /\ \A i \in InUse : table'[i] = table[i]
<1>1. FilesTypeOK /\ TableOK /\ table \in Seq(Entries)
  BY DEF FilesOK, FilesTypeOK
<1>2. CASE NotThere(w, n, p)
  BY <1>1, <1>2 DEF NotThere, Left, InUse
<1>3. CASE NotAFile(w, n, p) /\ ~ NoRoom(w)
  <2>1. /\ Lookup(w, n) = 0 /\ MayOpen(w, n, p, 0) /\ Fails
        /\ fcb' = [fcb EXCEPT ![w] = Empty] /\ UNCHANGED <<host, size, stream>>
    BY <1>3 DEF NotAFile, Left
  <2>2. PICK f \in Streams : table' = Deleted(Stored(w, n, f), w)
    BY <1>3 DEF NotAFile
  <2>3. \A i \in InUse : table[i].name # n
    BY <1>1, <2>1, LookupIs
  <2>4. \A i \in InUse : table[i].where # w
    BY <2>1, <2>3 DEF MayOpen, Vacant
  <2> QED BY <1>1, <2>1, <2>2, <2>4, UnstoredIs
<1> QED BY <1>2, <1>3

\* Neither changes the table.
LEMMA NotOpenOK ==
  ASSUME Tidy, FilesOK, NEW w \in Addresses, NEW n \in Names, NEW p \in Nat,
         NotThere(w, n, p) \/ NotAFile(w, n, p)
  PROVE  FilesOK'
<1>1. CASE NotAFile(w, n, p) /\ NoRoom(w)
  BY <1>1, SameFilesOK DEF NotAFile, Exits
<1>2. CASE NotThere(w, n, p) \/ (NotAFile(w, n, p) /\ ~ NoRoom(w))
  BY <1>2, UnopenedIs, UnopenedOK
<1> QED BY <1>1, <1>2

\* Opening takes a free entry and a free FILE.
LEMMA OpenOK ==
  ASSUME Tidy, FilesOK, NEW w \in Addresses, NEW n \in Names, NEW p \in Nat, Open(w, n, p)
  PROVE  FilesOK'
<1>1. FilesTypeOK /\ TableOK /\ FcbsOK
  BY DEF FilesOK
<1>2. CASE OpenFound(w, n, p)
  BY <1>2, OpenFoundOK
<1>3. CASE n \in DOMAIN host /\ OpenFile(w, n, p, host[n], size[host[n]])
  <2>1. PICK inode \in Inodes : inode = host[n]
    BY <1>1, <1>3 DEF FilesTypeOK
  <2>2. size[inode] \in Nat
    BY <1>1 DEF FilesTypeOK
  <2>3. PICK b \in Nat : b = size[inode]
    BY <2>2
  <2>4. OpenFile(w, n, p, inode, b)
    BY <1>3, <2>1, <2>3
  <2>5. (n \in DOMAIN host /\ inode = host[n]) \/ (n \notin DOMAIN host /\ inode \notin Range(host))
    BY <1>3, <2>1
  <2> QED BY <2>4, <2>5, OpenFileOK
<1>4. CASE NotThere(w, n, p) \/ NotAFile(w, n, p)
  BY <1>4, NotOpenOK
<1> QED BY <1>2, <1>3, <1>4 DEF Open

\* Making a file takes an inode nobody has, or the one it replaces.
LEMMA MakeOK ==
  ASSUME Tidy, FilesOK, NEW w \in Addresses, NEW n \in Names, NEW p \in Nat, Make(w, n, p)
  PROVE  FilesOK'
<1>1. FilesTypeOK
  BY DEF FilesOK
<1>2. CASE n \in DOMAIN host /\ OpenFile(w, n, p, host[n], 0)
  <2>1. PICK inode \in Inodes : inode = host[n]
    BY <1>1, <1>2 DEF FilesTypeOK
  <2>2. (n \in DOMAIN host /\ inode = host[n]) \/ (n \notin DOMAIN host /\ inode \notin Range(host))
    BY <1>2, <2>1
  <2>3. OpenFile(w, n, p, inode, 0)
    BY <1>2, <2>1
  <2> QED BY <2>2, <2>3, OpenFileOK
<1>3. CASE n \notin DOMAIN host /\ NewInodes # {} /\ OpenFile(w, n, p, Min(NewInodes), 0)
  <2>1. NewInodes \in SUBSET Nat
    BY FilesAssumption DEF NewInodes
  <2>2. PICK inode \in NewInodes : inode = Min(NewInodes)
    BY <1>3, <2>1, MinIsLeast
  <2>3. inode \in Inodes /\ inode \notin Range(host)
    BY DEF NewInodes
  <2> QED BY <1>3, <2>2, <2>3, OpenFileOK
<1>4. CASE NotThere(w, n, p) \/ NotAFile(w, n, p)
  BY <1>4, NotOpenOK
<1> QED BY <1>2, <1>3, <1>4 DEF Make

\* delfp, of the address that lookfp has moved the entry to: that entry, and no
\* other, is free.
LEMMA DeletedIs ==
  ASSUME FilesOK, NEW w \in Addresses, fcb[w].open,
         NEW i, i = Lookup(w, fcb[w].name), table' = Deleted(Moved(w, fcb[w].name), w)
  PROVE  /\ table' \in Seq(Entries) /\ DOMAIN table' = DOMAIN table /\ table'[i] = Unused
         /\ \A j \in DOMAIN table : j # i => table'[j] = table[j]
         /\ InUse' = InUse \ {i} /\ InUse \subseteq DOMAIN table
         /\ \A j \in InUse : table[j].where = w => j = i
<1>1. FilesTypeOK /\ TableOK /\ FcbsOK
  BY DEF FilesOK
<1>2. PICK n \in Names : n = fcb[w].name
  BY OpenFinds
<1>3. /\ i = Lookup(w, n) /\ Lookup(w, n) # 0
      /\ i \in InUse /\ table[i].name = n
      /\ \A j \in InUse : table[j].where = w => table[j].name = n
  BY <1>2, OpenFinds
<1>4. PICK t : t = Moved(w, n)
  OBVIOUS
<1>5. /\ t \in Seq(Entries) /\ DOMAIN t = DOMAIN table
      /\ t[Lookup(w, n)] = [fp |-> table[Lookup(w, n)].fp, where |-> w, name |-> n]
      /\ \A j \in DOMAIN table : j # Lookup(w, n) => t[j] = table[j]
  BY <1>1, <1>3, <1>4, MovedIs
<1>6. t[i].where = w /\ \A j \in DOMAIN table : j # i => t[j] = table[j]
  BY <1>3, <1>5
<1>7. \A j \in InUse : table[j].where = w => j = i
  BY <1>1, <1>3 DEF TableOK
<1>8. i \in DOMAIN table /\ \A j \in DOMAIN table : t[j].where = w => j = i
  BY <1>1, <1>3, <1>6, <1>7, TableTypes
<1>9. {j \in DOMAIN t : t[j].where = w} = {i}
  BY <1>5, <1>6, <1>8
<1>10. Min({i}) = i
  <2>1. i \in Nat
    BY <1>1, <1>3, TableTypes
  <2>2. {i} \in SUBSET Nat /\ {i} # {}
    BY <2>1
  <2>3. Min({i}) \in {i}
    BY <2>2, MinIsLeast, Zenon
  <2> QED BY <2>3
<1>11. table' = [t EXCEPT ![i] = Unused]
  BY <1>2, <1>4, <1>9, <1>10 DEF Deleted
<1>12. /\ table' \in Seq(Entries) /\ DOMAIN table' = DOMAIN table /\ table'[i] = Unused
       /\ \A j \in DOMAIN table : j # i => table'[j] = table[j]
  BY <1>5, <1>6, <1>8, <1>11 DEF Entries
<1>13. InUse' = InUse \ {i} /\ InUse \subseteq DOMAIN table
  BY <1>12 DEF InUse, Unused
<1> QED BY <1>7, <1>12, <1>13

\* close16: the entry that the FCB of the call was moved to is freed, its FILE
\* closed; a tidy program erases the FCB.
LEMMA CloseOK ==
  ASSUME Tidy, FilesOK, NEW w \in Addresses, Close(w)
  PROVE  FilesOK'
<1>1. FilesTypeOK /\ TableOK /\ FcbsOK
  BY DEF FilesOK
<1>2. CASE UNCHANGED <<host, size, stream, table, fcb>>
  BY <1>2, SameFilesOK
<1>3. ASSUME MayUse(w), NEW i \in DOMAIN table, Finds(w, fcb[w].name, i),
             size' = [size EXCEPT ![stream[table[i].fp].file] = KeptBytes(fcb[w], @)],
             table' = Deleted(Moved(w, fcb[w].name), w),
             stream' = [stream EXCEPT ![table[i].fp] = Closed],
             fcb' = [fcb EXCEPT ![w] = Left([@ EXCEPT !.open = FALSE])],
             UNCHANGED <<host, running>>
      PROVE  FilesOK'
  <2>1. fcb[w].open
    BY <1>3 DEF MayUse
  <2>2. PICK n \in Names : n = fcb[w].name
    BY <2>1, OpenFinds
  <2>3. /\ fcb[w] \in FCBs /\ i = Lookup(w, n) /\ Lookup(w, n) # 0
        /\ i \in InUse /\ table[i].name = n
        /\ \A j \in InUse : table[j].where = w => table[j].name = n
        /\ \A v \in Addresses : fcb[v].open => (v = w <=> fcb[v].name = n)
    BY <1>3, <2>1, <2>2, OpenFinds DEF Finds
  <2>7. \A j \in InUse : table[j].where = w => j = i
    BY <1>3, <2>1, <2>2, <2>3, DeletedIs
  <2>12. /\ table' \in Seq(Entries) /\ DOMAIN table' = DOMAIN table /\ table'[i] = Unused
         /\ \A j \in DOMAIN table : j # i => table'[j] = table[j]
    BY <1>3, <2>1, <2>2, <2>3, DeletedIs
  <2>13. InUse' = InUse \ {i} /\ InUse \subseteq DOMAIN table
    BY <1>3, <2>1, <2>2, <2>3, DeletedIs
  <2>14. /\ fcb' \in [Addresses -> FCBs] /\ ~ fcb'[w].open
         /\ \A v \in Addresses : v # w => fcb'[v] = fcb[v]
    <3>1. fcb' = [fcb EXCEPT ![w] = Empty]
      BY <1>3 DEF Left
    <3>2. Empty \in FCBs /\ ~ Empty.open
      BY DEF Empty, FCBs
    <3> QED BY <1>1, <3>1, <3>2 DEF FilesTypeOK
  <2>15. PICK f \in Streams : f = table[i].fp
    BY <1>1, <2>3, EntryInUse
  <2>16. /\ stream' \in [Streams -> {Closed} \cup Standing] /\ stream'[f] = Closed
         /\ \A s \in Streams : s # f => stream'[s] = stream[s]
    BY <1>1, <1>3, <2>15 DEF FilesTypeOK
  <2>17. size' \in [Inodes -> Nat]
    <3>1. PICK inode \in Inodes : inode = stream[table[i].fp].file
      BY <1>1, <2>3, EntryInUse
    <3>2. size \in [Inodes -> Nat] /\ size' = [size EXCEPT ![inode] = KeptBytes(fcb[w], size[inode])]
      BY <1>1, <1>3, <3>1 DEF FilesTypeOK
    <3>3. KeptBytes(fcb[w], size[inode]) \in Nat
      BY <2>3, <3>2, KeptBytesIsNat
    <3> QED BY <3>2, <3>3
  <2>18. FilesTypeOK'
    BY <1>1, <1>3, <2>12, <2>14, <2>16, <2>17 DEF FilesTypeOK
  <2>19. \A j \in InUse \ {i} : table[j].fp # f /\ table[j].name # n /\ table[j].where # w
    BY <1>1, <2>3, <2>7, <2>15 DEF TableOK
  <2>20. \A j \in InUse : /\ table[j].fp \in Streams /\ stream[table[j].fp] # Closed
                          /\ stream[table[j].fp].file = host[table[j].name]
                          /\ table[j].name \in DOMAIN host
    BY <1>1, EntryInUse
  <2>21. \A j \in InUse \ {i} : table'[j] = table[j]
    BY <2>12, <2>13
  <2>22. TableOK'
    <3>1. EntriesOpen'
      BY <2>13, <2>16, <2>19, <2>20, <2>21 DEF EntriesOpen, Opens
    <3>2. ASSUME NEW j \in InUse \ {i}, NEW k \in InUse \ {i}, j # k
          PROVE  /\ table'[j].name # table'[k].name /\ table'[j].where # table'[k].where
                 /\ table'[j].fp # table'[k].fp
      BY <1>1, <2>21, <3>2 DEF TableOK
    <3>3. ASSUME NEW j \in InUse \ {i}
          PROVE  table'[j].name \in DOMAIN host' /\ stream'[table'[j].fp].file = host'[table'[j].name]
      BY <1>3, <2>16, <2>19, <2>20, <2>21
    <3>4. ASSUME NEW s \in Streams, stream'[s] # Closed PROVE \E j \in InUse \ {i} : table'[j].fp = s
      <4>1. s # f /\ stream[s] # Closed
        BY <2>16, <3>4
      <4>2. PICK j \in InUse : table[j].fp = s
        BY <1>1, <4>1 DEF TableOK, Opens
      <4> QED BY <2>15, <2>21, <4>1, <4>2
    <3> QED BY <2>13, <3>1, <3>2, <3>3, <3>4 DEF TableOK, Opens
  <2>23. FcbsOK'
    <3>1. ASSUME NEW v \in Addresses, fcb'[v].open PROVE \E j \in InUse \ {i} : table'[j].name = fcb'[v].name
      <4>1. v # w /\ fcb[v].open /\ fcb[v].name # n /\ fcb'[v] = fcb[v]
        BY <2>3, <2>14, <3>1
      <4>2. PICK j \in InUse : table[j].name = fcb[v].name
        BY <1>1, <4>1 DEF FcbsOK
      <4> QED BY <2>3, <2>21, <4>1, <4>2
    <3>2. ASSUME NEW u \in Addresses, NEW v \in Addresses, fcb'[u].open, fcb'[v].open, fcb'[u].name = fcb'[v].name
          PROVE  u = v
      BY <1>1, <2>14, <3>2 DEF FcbsOK
    <3>3. ASSUME NEW j \in InUse \ {i} PROVE \E v \in Addresses : fcb'[v].open /\ fcb'[v].name = table'[j].name
      <4>1. PICK v \in Addresses : fcb[v].open /\ fcb[v].name = table[j].name
        BY <1>1 DEF FcbsOK
      <4>2. v # w
        BY <2>2, <2>19, <4>1
      <4> QED BY <2>14, <2>21, <4>1, <4>2
    <3>4. ASSUME NEW v \in Addresses, NEW j \in InUse \ {i}, fcb'[v].open, table'[j].where = v
          PROVE  table'[j].name = fcb'[v].name
      BY <1>1, <2>14, <2>21, <3>4 DEF FcbsOK
    <3> QED BY <2>13, <3>1, <3>2, <3>3, <3>4 DEF FcbsOK
  <2> QED BY <2>18, <2>22, <2>23 DEF FilesOK
<1>4. CASE \E i \in DOMAIN table :
        /\ MayUse(w) /\ Finds(w, fcb[w].name, i)
        /\ size' = [size EXCEPT ![stream[table[i].fp].file] = KeptBytes(fcb[w], @)]
        /\ table' = Deleted(Moved(w, fcb[w].name), w)
        /\ stream' = [stream EXCEPT ![table[i].fp] = Closed]
        /\ fcb' = [fcb EXCEPT ![w] = Left([@ EXCEPT !.open = FALSE])]
        /\ UNCHANGED <<host, running>>
  BY <1>3, <1>4
<1> QED BY <1>2, <1>4 DEF Close

\* Names change that no program has a file open by.
LEMMA NamesOK ==
  ASSUME FilesOK, UNCHANGED <<stream, table, fcb>>, size' \in [Inodes -> Nat],
         DOMAIN host' \subseteq Names, host' \in [DOMAIN host' -> Inodes],
         \A m, n \in DOMAIN host' : host'[m] = host'[n] => m = n,
         \A i \in InUse : table[i].name \in DOMAIN host' /\ host'[table[i].name] = host[table[i].name]
  PROVE  FilesOK'
<1>1. InUse' = InUse
  BY DEF InUse
<1> QED BY <1>1 DEF FilesOK, FilesTypeOK, TableOK, EntriesOpen, Opens, FcbsOK

\* A tidy program drops the name of no open file.
LEMMA DroppedIsClosed ==
  ASSUME Tidy, FilesOK, NEW n \in Names, MayDrop(n)
  PROVE  \A i \in InUse : table[i].name # n
  BY DEF MayDrop, FilesOK, FcbsOK

\* The host keeps the files that have a name.
LEMMA FreedIs ==
  ASSUME FilesTypeOK, host' \in [DOMAIN host' -> Inodes], size' = Freed(host')
  PROVE  size' \in [Inodes -> Nat] /\ \A n \in DOMAIN host' : size'[host'[n]] = size[host'[n]]
<1>1. \A n \in DOMAIN host' : host'[n] \in Inodes /\ host'[n] \in Range(host')
  BY DEF Range
<1>2. \A i \in Range(host') \cap Inodes : size'[i] = size[i]
  BY DEF Freed
<1>3. size' \in [Inodes -> Nat]
  BY DEF Freed, FilesTypeOK
<1> QED BY <1>1, <1>2, <1>3

\* Deleting a closed file leaves the table.
LEMMA DeleteOK ==
  ASSUME Tidy, FilesOK, NEW n \in Names, Delete(n)
  PROVE  FilesOK'
<1>1. \A i \in InUse : table[i].name # n
  BY DroppedIsClosed DEF Delete
<1>2. FilesTypeOK /\ TableOK
  BY DEF FilesOK
<1>3. host' = [m \in DOMAIN host \ {n} |-> host[m]] /\ UNCHANGED <<stream, table, fcb>>
  BY DEF Delete
<1>4. /\ DOMAIN host' \subseteq Names /\ host' \in [DOMAIN host' -> Inodes]
      /\ \A l, m \in DOMAIN host' : host'[l] = host'[m] => l = m
  BY <1>2, <1>3 DEF FilesTypeOK
<1>5. \A i \in InUse : table[i].name \in DOMAIN host' /\ host'[table[i].name] = host[table[i].name]
  BY <1>1, <1>2, <1>3, EntryInUse
<1>6. size' \in [Inodes -> Nat]
  BY <1>2, <1>4, FreedIs DEF Delete
<1> QED BY <1>3, <1>4, <1>5, <1>6, NamesOK

\* Renaming one does too.
LEMMA RenameOK ==
  ASSUME Tidy, FilesOK, NEW m \in Names, NEW n \in Names, Rename(m, n)
  PROVE  FilesOK'
<1>1. \A i \in InUse : table[i].name # m /\ table[i].name # n
  BY DroppedIsClosed DEF Rename
<1>2. FilesTypeOK /\ TableOK
  BY DEF FilesOK
<1>3. UNCHANGED <<stream, table, fcb>> /\ size' = Freed(host')
  BY DEF Rename
<1>4. CASE m = n \/ m \notin DOMAIN host
  <2>1. host' = host
    BY <1>4 DEF Rename
  <2>2. size' \in [Inodes -> Nat]
    BY <1>2, <1>3, <2>1, FreedIs DEF FilesTypeOK
  <2> QED BY <1>2, <1>3, <2>1, <2>2, NamesOK, EntryInUse DEF FilesTypeOK
<1>5. CASE m # n /\ m \in DOMAIN host
  <2>1. PICK h : h = [k \in DOMAIN host \ {m} |-> host[k]]
    OBVIOUS
  <2>2. host' = [k \in DOMAIN h \cup {n} |-> IF k = n THEN host[m] ELSE h[k]]
    BY <1>5, <2>1 DEF Rename, Linked
  <2>3. /\ DOMAIN host' = (DOMAIN host \ {m}) \cup {n}
        /\ host'[n] = host[m] /\ \A k \in DOMAIN host \ {m, n} : host'[k] = host[k]
    BY <2>1, <2>2
  <2>4. /\ DOMAIN host \subseteq Names /\ host \in [DOMAIN host -> Inodes]
        /\ \A k, l \in DOMAIN host : host[k] = host[l] => k = l
    BY <1>2 DEF FilesTypeOK
  <2>5. DOMAIN host' \subseteq Names /\ host' \in [DOMAIN host' -> Inodes]
    BY <1>5, <2>1, <2>2, <2>4
  <2>6. \A k, l \in DOMAIN host' : host'[k] = host'[l] => k = l
    BY <1>5, <2>3, <2>4
  <2>7. \A i \in InUse : table[i].name \in DOMAIN host' /\ host'[table[i].name] = host[table[i].name]
    BY <1>1, <1>2, <2>3, EntryInUse
  <2>8. size' \in [Inodes -> Nat]
    BY <1>2, <1>3, <2>5, FreedIs
  <2> QED BY <1>3, <2>5, <2>6, <2>7, <2>8, NamesOK
<1> QED BY <1>4, <1>5

\* An FCB that was copied elsewhere is still the only open one of its file.
LEMMA MoveOK ==
  ASSUME Tidy, FilesOK, NEW v \in Addresses, NEW w \in Addresses, Move(v, w)
  PROVE  FilesOK'
<1>1. FilesTypeOK /\ TableOK /\ FcbsOK
  BY DEF FilesOK
<1>2. /\ v # w /\ fcb[v].open /\ ~ fcb[w].open
      /\ \A i \in InUse : table[i].where = w => table[i].name = fcb[v].name
      /\ UNCHANGED <<host, size, stream, table>>
  BY DEF Move, Vacant
<1>3. /\ fcb' \in [Addresses -> FCBs] /\ fcb'[w] = fcb[v] /\ ~ fcb'[v].open
      /\ \A u \in Addresses : u # v /\ u # w => fcb'[u] = fcb[u]
  <2>1. fcb' = [fcb EXCEPT ![w] = fcb[v], ![v] = Empty]
    BY DEF Move
  <2>2. Empty \in FCBs /\ ~ Empty.open
    BY DEF Empty, FCBs
  <2> QED BY <1>1, <1>2, <2>1, <2>2 DEF FilesTypeOK
<1>4. InUse' = InUse
  BY <1>2 DEF InUse
<1>5. FilesTypeOK' /\ TableOK'
  BY <1>1, <1>2, <1>3, <1>4 DEF FilesTypeOK, TableOK, EntriesOpen, Opens
<1>6. FcbsOK'
  <2>1. \A u \in Addresses : fcb'[u].open => \E i \in InUse : table[i].name = fcb'[u].name
    BY <1>1, <1>2, <1>3 DEF FcbsOK
  <2>2. \A u, x \in Addresses : fcb'[u].open /\ fcb'[x].open /\ fcb'[u].name = fcb'[x].name => u = x
    BY <1>1, <1>2, <1>3 DEF FcbsOK
  <2>3. ASSUME NEW i \in InUse PROVE \E u \in Addresses : fcb'[u].open /\ fcb'[u].name = table[i].name
    <3>1. PICK u \in Addresses : fcb[u].open /\ fcb[u].name = table[i].name
      BY <1>1 DEF FcbsOK
    <3>2. CASE u = v
      BY <1>2, <1>3, <3>1, <3>2
    <3>3. CASE u # v
      BY <1>2, <1>3, <3>1, <3>3
    <3> QED BY <3>2, <3>3
  <2>4. ASSUME NEW u \in Addresses, NEW i \in InUse, fcb'[u].open, table[i].where = u
        PROVE  table[i].name = fcb'[u].name
    BY <1>1, <1>2, <1>3, <2>4 DEF FcbsOK
  <2> QED BY <1>2, <1>4, <2>1, <2>2, <2>3, <2>4 DEF FcbsOK
<1> QED BY <1>5, <1>6 DEF FilesOK

\* Setting the random record number moves an FCB, and no file.
LEMMA SeekOK ==
  ASSUME FilesOK, NEW w \in Addresses, NEW p \in Nat, Seek(w, p)
  PROVE  FilesOK'
<1>1. FilesTypeOK /\ TableOK /\ FcbsOK
  BY DEF FilesOK
<1>2. PICK n \in Nat : n = p * RecordSize
  BY Sizes
<1>3. PICK g : g = At(fcb[w], n)
  OBVIOUS
<1>4. fcb[w] \in FCBs
  BY <1>1 DEF FilesTypeOK
<1>5. g \in FCBs /\ g.open = fcb[w].open /\ g.name = fcb[w].name
  BY <1>3, <1>4, AtIsFCB
<1>6. fcb' = [fcb EXCEPT ![w] = g] /\ UNCHANGED <<host, size, stream, table>>
  BY <1>2, <1>3 DEF Seek
<1>7. /\ fcb' \in [Addresses -> FCBs]
      /\ \A v \in Addresses : fcb'[v].open = fcb[v].open /\ fcb'[v].name = fcb[v].name
  BY <1>1, <1>5, <1>6 DEF FilesTypeOK
<1>8. InUse' = InUse
  BY <1>6 DEF InUse
<1>9. FilesTypeOK' /\ TableOK'
  BY <1>1, <1>6, <1>7, <1>8 DEF FilesTypeOK, TableOK, EntriesOpen, Opens
<1>10. FcbsOK'
  BY <1>1, <1>6, <1>7, <1>8 DEF FcbsOK
<1> QED BY <1>9, <1>10 DEF FilesOK

-----------------------------------------------------------------------------
(* The invariant.                                                          *)

\* Nothing is open at first.
LEMMA FilesInitOK ==
  ASSUME FilesInit
  PROVE  FilesOK
<1>1. /\ DOMAIN host \subseteq Names /\ host \in [DOMAIN host -> Inodes]
      /\ \A m, n \in DOMAIN host : host[m] = host[n] => m = n
  BY DEF FilesInit, IsInjective
<1>2. size \in [Inodes -> Nat]
  BY FilesAssumption DEF FilesInit
<1>3. stream \in [Streams -> {Closed} \cup Standing] /\ \A f \in Streams : stream[f] = Closed
  BY DEF FilesInit
<1>4. table \in Seq(Entries) /\ DOMAIN table = {}
  BY DEF FilesInit
<1>5. fcb \in [Addresses -> FCBs] /\ \A w \in Addresses : ~ fcb[w].open
  BY DEF FilesInit, Empty, FCBs
<1>6. InUse = {}
  BY <1>4 DEF InUse
<1> QED BY <1>1, <1>2, <1>3, <1>4, <1>5, <1>6 DEF FilesOK, FilesTypeOK, TableOK, EntriesOpen, Opens, FcbsOK

\* The positions programs ask for are numbers.
LEMMA Asked ==
  ASSUME NEW p \in 0 .. Records(Limit(host))
  PROVE  p \in Nat
<1>1. Limit(host) \in Nat
  BY FilesAssumption DEF Limit
<1>2. Records(Limit(host)) \in Nat
  BY <1>1, RecordsAreNat
<1> QED BY <1>2

\* Every step keeps the table one-to-one.
LEMMA FilesStep == Tidy /\ FilesOK /\ [FilesNext]_filesVars => FilesOK'
<1> SUFFICES ASSUME Tidy, FilesOK, [FilesNext]_filesVars PROVE FilesOK'
  OBVIOUS
<1>1. CASE UNCHANGED filesVars
  BY <1>1, SameFilesOK DEF filesVars
<1>2. CASE \E w \in Addresses : Close(w)
  BY <1>2, CloseOK
<1>3. CASE \E w \in Addresses : Read(w) \/ Write(w) \/ FileSize(w) \/ Tell(w)
  BY <1>3, AccessOK, 0 \in Nat
<1>4. CASE \E w \in Addresses, p \in 0 .. Records(Limit(host)) : ReadRandom(w, p) \/ WriteRandom(w, p)
  BY <1>4, AccessOK, Asked
<1>5. CASE \E w \in Addresses, p \in 0 .. Records(Limit(host)) : Seek(w, p)
  BY <1>5, SeekOK, Asked
<1>6. CASE \E w \in Addresses, p \in 0 .. Records(Limit(host)), n \in Names : Open(w, n, p)
  BY <1>6, OpenOK, Asked
<1>7. CASE \E w \in Addresses, p \in 0 .. Records(Limit(host)), n \in Names : Make(w, n, p)
  BY <1>7, MakeOK, Asked
<1>8. CASE \E v, w \in Addresses : Move(v, w)
  BY <1>8, MoveOK
<1>9. CASE \E n \in Names : Delete(n)
  BY <1>9, DeleteOK
<1>10. CASE \E m, n \in Names : Rename(m, n)
  BY <1>10, RenameOK
<1> QED BY <1>1, <1>2, <1>3, <1>4, <1>5, <1>6, <1>7, <1>8, <1>9, <1>10 DEF FilesNext

\* The table of open files is one-to-one, for tidy programs: each open file has
\* one entry, one FCB and one FILE, whichever way FCBs are moved, closed and
\* opened again (bdos.c: lookfp, storefp, delfp).
THEOREM FilesInvariant == ASSUME Tidy PROVE FilesSpec => []TableOK
<1>1. FilesInit => FilesOK
  BY FilesInitOK
<1>2. FilesOK /\ [FilesNext]_filesVars => FilesOK'
  BY FilesStep
<1>3. FilesOK => TableOK
  BY DEF FilesOK
<1> QED BY <1>1, <1>2, <1>3, PTL DEF FilesSpec

-----------------------------------------------------------------------------
(* Records and extents.                                                    *)

\* Multiples of a size are ordered as their factors.
LEMMA Multiples ==
  ASSUME NEW a \in Nat, NEW b \in Nat, NEW r \in Nat \ {0}
  PROVE  /\ a * r \in Nat
         /\ a < b => a * r + r <= b * r
         /\ a * r < b * r => a < b
<1>1. ASSUME NEW x \in Nat, NEW y \in Nat, x < y PROVE x * r + r <= y * r
  <2>1. PICK k \in Nat : y = x + 1 + k
    <3>1. y - x - 1 \in Nat /\ y = x + 1 + (y - x - 1)
      BY <1>1
    <3> QED BY <3>1
  <2>2. y * r = x * r + r + k * r
    BY <2>1
  <2>3. k * r \in Nat /\ x * r \in Nat
    OBVIOUS
  <2> QED BY <2>2, <2>3
<1>2. a * r \in Nat /\ b * r \in Nat
  OBVIOUS
<1>3. ASSUME a * r < b * r PROVE a < b
  <2> SUFFICES ASSUME ~ a < b PROVE FALSE
    OBVIOUS
  <2>1. CASE a = b
    BY <1>2, <1>3, <2>1
  <2>2. CASE b < a
    BY <1>1, <1>2, <1>3, <2>2
  <2> QED BY <2>1, <2>2
<1> QED BY <1>1, <1>2, <1>3

\* As many records as it takes, and no more.
LEMMA RecordsHold ==
  ASSUME NEW b \in Nat
  PROVE  /\ Records(b) \in Nat
         /\ Records(b) * RecordSize >= b
         /\ Records(b) * RecordSize < b + RecordSize
<1>1. PICK r \in Nat \ {0} : r = RecordSize
  BY Sizes
<1>2. PICK n \in Nat : n = b + r - 1
  <2>1. b + r - 1 \in Nat
    OBVIOUS
  <2> QED BY <2>1
<1>3. PICK q \in Nat, m \in 0 .. r - 1 : q = n \div r /\ n = q * r + m
  <2>1. n \div r \in Nat /\ n % r \in 0 .. r - 1 /\ n = (n \div r) * r + (n % r)
    BY Divided
  <2> QED BY <2>1
<1>4. Records(b) = q
  BY <1>1, <1>2, <1>3 DEF Records
<1>5. q * r >= b /\ q * r < b + r
  <2>1. q * r \in Nat
    OBVIOUS
  <2> QED BY <1>2, <1>3, <2>1
<1> QED BY <1>1, <1>4, <1>5

\* Records counts the record that is only begun.
LEMMA RecordsAre ==
  ASSUME NEW b \in Nat, NEW k \in Nat, k * RecordSize >= b, k * RecordSize < b + RecordSize
  PROVE  Records(b) = k
<1>1. PICK r \in Nat \ {0} : r = RecordSize
  BY Sizes
<1>2. PICK q \in Nat : q = Records(b)
  BY RecordsHold
<1>3. q * r >= b /\ q * r < b + r /\ k * r >= b /\ k * r < b + r
  BY <1>1, <1>2, RecordsHold
<1>4. q * r \in Nat /\ k * r \in Nat
  BY Multiples
<1>5. ~ q < k
  <2> SUFFICES ASSUME q < k PROVE FALSE
    OBVIOUS
  <2>1. q * r + r <= k * r
    BY Multiples
  <2> QED BY <1>3, <1>4, <2>1
<1>6. ~ k < q
  <2> SUFFICES ASSUME k < q PROVE FALSE
    OBVIOUS
  <2>1. k * r + r <= q * r
    BY Multiples
  <2> QED BY <1>3, <1>4, <2>1
<1> QED BY <1>2, <1>5, <1>6

\* A file has record k if it is longer than k records.
LEMMA HasRecord ==
  ASSUME NEW b \in Nat, NEW k \in Nat
  PROVE  /\ k * RecordSize < b <=> k < Records(b)
         /\ b <= k * RecordSize <=> Records(b) <= k
<1>1. PICK r \in Nat \ {0} : r = RecordSize
  BY Sizes
<1>2. PICK q \in Nat : q = Records(b)
  BY RecordsHold
<1>3. q * r >= b /\ q * r < b + r
  BY <1>1, <1>2, RecordsHold
<1>4. q * r \in Nat /\ k * r \in Nat
  BY Multiples
<1>5. ASSUME k * r < b PROVE k < q
  <2>1. k * r < q * r
    BY <1>3, <1>4, <1>5
  <2> QED BY <2>1, Multiples
<1>6. ASSUME k < q PROVE k * r < b
  <2>1. k * r + r <= q * r
    BY <1>6, Multiples
  <2> QED BY <1>3, <1>4, <2>1
<1>7. k * r < b <=> k < q
  BY <1>5, <1>6
<1>8. b <= k * r <=> q <= k
  BY <1>4, <1>7
<1> QED BY <1>1, <1>2, <1>7, <1>8

\* k whole records are k records.
LEMMA WholeRecords ==
  ASSUME NEW k \in Nat
  PROVE  Records(k * RecordSize) = k
<1>1. PICK n \in Nat : n = k * RecordSize
  BY Sizes, Multiples
<1>2. n < n + RecordSize
  BY Sizes
<1> QED BY <1>1, <1>2, RecordsAre

\* More bytes are no fewer records.
LEMMA MoreRecords ==
  ASSUME NEW a \in Nat, NEW b \in Nat, a <= b
  PROVE  Records(a) <= Records(b)
<1>1. PICK q \in Nat : q = Records(b)
  BY RecordsHold
<1>2. q * RecordSize \in Nat /\ b <= q * RecordSize
  BY <1>1, Multiples, RecordsHold, Sizes
<1>3. a <= q * RecordSize
  BY <1>2
<1> QED BY <1>1, <1>3, HasRecord

\* The record of a position.
Posn(f) == SeqAddress(f) \div RecordSize

\* The record an FCB stands at, from EX, S2 and CR.
LEMMA PosnIs ==
  ASSUME NEW f \in FCBs
  PROVE  /\ Posn(f) \in Nat /\ Posn(f) = ExtentRecords * SeqExt(f) + f.cr
         /\ SeqAddress(f) = Posn(f) * RecordSize
<1>1. PICK r \in Nat \ {0} : r = RecordSize
  BY Sizes
<1>2. PICK e \in Nat \ {0} : e = ExtentRecords
  BY Sizes
<1>3. PICK x \in Nat, c \in Nat : x = SeqExt(f) /\ c = f.cr
  BY SeqAddressIsNat DEF FCBs
<1>4. PICK k \in Nat : k = e * x + c
  OBVIOUS
<1>5. SeqAddress(f) = (r * e) * x + r * c
  BY <1>1, <1>2, <1>3 DEF SeqAddress, ExtentBytes
<1>6. (r * e) * x + r * c = k * r
  BY <1>4
<1>7. PICK n \in Nat : n = k * r
  OBVIOUS
<1>8. n \div r = k
  <2>1. n = k * r + 0 /\ 0 \in 0 .. r - 1
    BY <1>7
  <2> QED BY <2>1, Quotient
<1>9. SeqAddress(f) = n
  BY <1>5, <1>6, <1>7
<1>10. Posn(f) = k
  BY <1>1, <1>8, <1>9 DEF Posn
<1> QED BY <1>1, <1>2, <1>3, <1>4, <1>7, <1>9, <1>10

\* EX, S2 and CR put byte n together again, but for what is behind the last
\* whole record.
LEMMA AtIsPosition ==
  ASSUME NEW f \in FCBs, NEW n \in Nat
  PROVE  /\ Posn(At(f, n)) = n \div RecordSize
         /\ SeqExt(At(f, n)) = n \div ExtentBytes
         /\ SeqExt(At(f, n)) = (n \div RecordSize) \div ExtentRecords
         /\ At(f, n).cr < ExtentRecords
<1>1. PICK r \in Nat \ {0}, e \in Nat \ {0}, x \in Nat \ {0} :
        r = RecordSize /\ e = ExtentRecords /\ x = ExtentsOfEx
  BY Sizes
<1>2. PICK d \in Nat \ {0} : d = ExtentBytes /\ d = r * e
  BY <1>1, Sizes DEF ExtentBytes
<1>3. PICK q \in Nat, m \in 0 .. d - 1 : q = n \div d /\ m = n % d /\ n = q * d + m
  BY Divided
<1>4. PICK c \in Nat, s \in 0 .. r - 1 : c = m \div r /\ m = c * r + s
  <2>1. m \in Nat
    OBVIOUS
  <2>2. m \div r \in Nat /\ m % r \in 0 .. r - 1 /\ m = (m \div r) * r + (m % r)
    BY <2>1, Divided
  <2> QED BY <2>2
<1>5. c < e
  <2>1. c * r < e * r
    <3>1. c * r \in Nat /\ d = e * r
      BY <1>2
    <3> QED BY <1>4, <3>1
  <2> QED BY <2>1, Multiples
<1>6. PICK k \in Nat : k = e * q + c
  OBVIOUS
<1>7. n = k * r + s
  <2>1. q * d = (e * q) * r
    BY <1>2
  <2>2. (e * q) * r + c * r = k * r
    BY <1>6
  <2>3. q * d \in Nat /\ c * r \in Nat /\ k * r \in Nat
    OBVIOUS
  <2> QED BY <1>3, <1>4, <2>1, <2>2, <2>3
<1>8. n \div r = k
  BY <1>7, Quotient
<1>9. k \div e = q
  <2>1. k = q * e + c /\ c \in 0 .. e - 1
    BY <1>5, <1>6
  <2> QED BY <2>1, Quotient
<1>10. PICK g \in FCBs : g = At(f, n)
  BY AtIsFCB
<1>11. g.cr = c
  <2>1. SeqCR(n) = c
    BY <1>1, <1>2, <1>3, <1>4 DEF SeqCR
  <2> QED BY <1>10, <2>1, AtIsFCB
<1>12. SeqExt(g) = q
  <2>1. PICK u \in 0 .. x - 1, v \in Nat : u = q % x /\ v = q \div x /\ q = v * x + u
    BY Divided
  <2>2. SeqExtent(n) = q
    BY <1>2, <1>3 DEF SeqExtent
  <2>3. SeqEX(n) = u /\ SeqS2(n) = v
    BY <1>1, <2>1, <2>2 DEF SeqEX, SeqS2
  <2>4. g.ex = u /\ g.s2 = v
    BY <1>10, <2>3, AtIsFCB
  <2>5. SeqExt(g) = u + x * v
    BY <1>1, <2>4 DEF SeqExt
  <2>6. u + x * v = v * x + u
    OBVIOUS
  <2> QED BY <2>1, <2>5, <2>6
<1>13. Posn(g) = k
  BY <1>1, <1>6, <1>10, <1>11, <1>12, PosnIs
<1> QED BY <1>1, <1>2, <1>3, <1>5, <1>8, <1>9, <1>10, <1>11, <1>12, <1>13

-----------------------------------------------------------------------------
(* RC, by which close lets a program cut a file.                           *)

\* Close finds nothing to cut: RC counts at least as many records as the last
\* extent of the file has, or the FCB stands behind a file of whole extents.
CutsNothing(f, b) ==
  \/ f.rc >= SeqCR(b)
  \/ Records(b) % ExtentRecords = 0 /\ SeqExt(f) * ExtentRecords >= Records(b)

\* The last extent of b bytes: the first q are full, c whole records and s bytes
\* are in it.
LEMMA LastExtent ==
  ASSUME NEW b \in Nat
  PROVE  \E q, c \in Nat, s \in 0 .. RecordSize - 1 :
           /\ q = SeqExtent(b) /\ c = SeqCR(b) /\ c < ExtentRecords
           /\ b = (ExtentRecords * q + c) * RecordSize + s
           /\ Records(b) = IF s = 0 THEN ExtentRecords * q + c ELSE ExtentRecords * q + c + 1
<1>1. PICK r \in Nat \ {0}, e \in Nat \ {0} : r = RecordSize /\ e = ExtentRecords
  BY Sizes
<1>2. PICK d \in Nat \ {0} : d = ExtentBytes /\ d = r * e
  BY <1>1, Sizes DEF ExtentBytes
<1>3. PICK q \in Nat, m \in 0 .. d - 1 : q = b \div d /\ m = b % d /\ b = q * d + m
  BY Divided
<1>4. PICK c \in Nat, s \in 0 .. r - 1 : c = m \div r /\ m = c * r + s
  <2>1. m \in Nat
    OBVIOUS
  <2>2. m \div r \in Nat /\ m % r \in 0 .. r - 1 /\ m = (m \div r) * r + (m % r)
    BY <2>1, Divided
  <2> QED BY <2>2
<1>5. c < e
  <2>1. c * r < e * r
    <3>1. c * r \in Nat /\ d = e * r
      BY <1>2
    <3> QED BY <1>4, <3>1
  <2> QED BY <2>1, Multiples
<1>6. SeqCR(b) = c /\ SeqExtent(b) = q
  BY <1>1, <1>2, <1>3, <1>4 DEF SeqCR, SeqExtent
<1>7. PICK k \in Nat : k = e * q + c
  OBVIOUS
<1>8. b = k * r + s /\ k * r \in Nat
  <2>1. q * d = (e * q) * r
    BY <1>2
  <2>2. (e * q) * r + c * r = k * r
    BY <1>7
  <2>3. q * d \in Nat /\ c * r \in Nat /\ k * r \in Nat
    OBVIOUS
  <2> QED BY <1>3, <1>4, <2>1, <2>2, <2>3
<1>9. s = 0 => Records(b) = k
  BY <1>1, <1>8, WholeRecords
<1>10. s # 0 => Records(b) = k + 1
  <2> SUFFICES ASSUME s # 0 PROVE Records(b) = k + 1
    OBVIOUS
  <2>1. (k + 1) * r = k * r + r
    OBVIOUS
  <2>2. (k + 1) * r >= b /\ (k + 1) * r < b + r
    BY <1>8, <2>1
  <2> QED BY <1>1, <2>2, RecordsAre
<1> QED BY <1>1, <1>5, <1>6, <1>7, <1>8, <1>9, <1>10

\* After fixrc RC covers the last extent.
LEMMA FixedCutsNothing ==
  ASSUME NEW f \in FCBs, NEW b \in Nat, SeqExt(f) * ExtentRecords <= Records(b)
  PROVE  CutsNothing(FixRC(f, b), b)
<1>1. PICK e \in Nat \ {0} : e = ExtentRecords
  BY Sizes
<1>2. PICK q \in Nat, c \in Nat, s \in 0 .. RecordSize - 1 :
           /\ c = SeqCR(b) /\ c < e
           /\ Records(b) = IF s = 0 THEN e * q + c ELSE e * q + c + 1
  <2>1. PICK q \in Nat, c \in Nat, s \in 0 .. RecordSize - 1 :
           /\ q = SeqExtent(b) /\ c = SeqCR(b) /\ c < ExtentRecords
           /\ b = (ExtentRecords * q + c) * RecordSize + s
           /\ Records(b) = IF s = 0 THEN ExtentRecords * q + c ELSE ExtentRecords * q + c + 1
    BY LastExtent
  <2> QED BY <1>1, <2>1
<1>3. PICK n \in Nat : n = Records(b)
  BY RecordsHold
<1>4. PICK x \in Nat : x = SeqExt(f)
  BY SeqAddressIsNat
<1>5. PICK u \in Nat, m \in 0 .. e - 1 : u = n \div e /\ m = n % e /\ n = u * e + m
  BY Divided
<1>6. PICK whole \in Nat : whole = u * e
  BY Multiples
<1>7. n - m = whole
  BY <1>5, <1>6
<1>8. PICK ext \in Nat : ext = x * e
  BY Multiples
<1>9. ext <= whole
  <2>1. ~ u < x
    <3> SUFFICES ASSUME u < x PROVE FALSE
      OBVIOUS
    <3>1. u * e + e <= x * e
      BY Multiples
    <3>2. ext <= n
      BY <1>1, <1>3, <1>4, <1>8
    <3> QED BY <1>5, <1>6, <1>8, <3>1, <3>2
  <2>2. CASE x = u
    BY <1>6, <1>8, <2>2
  <2>3. CASE x < u
    <3>1. x * e + e <= u * e
      BY <2>3, Multiples
    <3> QED BY <1>6, <1>8, <3>1
  <2> QED BY <2>1, <2>2, <2>3
<1>10. PICK g \in FCBs : g = FixRC(f, b)
  BY FixRCIsFCB
<1>11. SeqExt(g) = x
  BY <1>4, <1>10, FixRCIsFCB DEF SeqExt
<1>12. Records(b) - (Records(b) % ExtentRecords) = whole
  BY <1>1, <1>3, <1>5, <1>7
<1>13. SeqExt(f) * ExtentRecords = ext
  BY <1>1, <1>4, <1>8
<1>14. g = [f EXCEPT !.rc = CASE ext < whole -> e [] ext > whole -> 0 [] OTHER -> n - whole]
  BY <1>1, <1>3, <1>10, <1>12, <1>13 DEF FixRC
<1>15. CASE ext < whole
  <2>1. g.rc = e
    <3>1. g = [f EXCEPT !.rc = e]
      BY <1>15, <1>14
    <3> QED BY <3>1 DEF FCBs
  <2> QED BY <1>2, <1>10, <2>1 DEF CutsNothing
<1>16. CASE ext = whole
  <2>1. g.rc = m
    <3>1. g = [f EXCEPT !.rc = n - whole]
      BY <1>16, <1>14
    <3>2. n - whole = m
      BY <1>5, <1>6
    <3> QED BY <3>1, <3>2 DEF FCBs
  <2>2. CASE m = 0
    <3>1. x * e >= n
      BY <1>5, <1>6, <1>8, <1>16, <2>2
    <3>2. n % e = 0
      BY <1>5, <2>2
    <3> QED BY <1>1, <1>3, <1>10, <1>11, <3>1, <3>2 DEF CutsNothing
  <2>3. CASE m # 0
    <3>1. m >= c
      <4>1. CASE s = 0
        <5>1. n = q * e + c /\ c \in 0 .. e - 1
          <6>1. n = e * q + c /\ e * q = q * e
            BY <1>2, <1>3, <4>1
          <6> QED BY <1>2, <6>1
        <5>2. n % e = c
          BY <5>1, Quotient
        <5> QED BY <1>5, <5>2
      <4>2. CASE s # 0 /\ c + 1 < e
        <5>1. n = q * e + (c + 1) /\ c + 1 \in 0 .. e - 1
          <6>1. n = e * q + c + 1 /\ e * q = q * e /\ e * q \in Nat
            BY <1>2, <1>3, <4>2
          <6> QED BY <1>2, <4>2, <6>1
        <5>2. PICK k \in 0 .. e - 1 : k = c + 1
          BY <5>1
        <5>3. n = q * e + k
          BY <5>1, <5>2
        <5>4. n % e = k
          BY <5>3, Quotient
        <5> QED BY <1>5, <5>2, <5>4
      <4>3. CASE s # 0 /\ c + 1 = e
        <5>1. n = (q + 1) * e + 0 /\ 0 \in 0 .. e - 1
          <6>1. n = e * q + c + 1 /\ e * q + e = (q + 1) * e /\ e * q \in Nat
            BY <1>2, <1>3, <4>3
          <6> QED BY <1>2, <4>3, <6>1
        <5>2. n % e = 0
          BY <5>1, Quotient
        <5> QED BY <1>5, <2>3, <5>2
      <4> QED BY <1>2, <4>1, <4>2, <4>3
    <3> QED BY <1>2, <1>10, <2>1, <3>1 DEF CutsNothing
  <2> QED BY <2>2, <2>3
<1> QED BY <1>9, <1>15, <1>16

\* Then closing the file keeps its length.
LEMMA NothingIsCut ==
  ASSUME NEW f \in FCBs, NEW b \in Nat, CutsNothing(f, b)
  PROVE  KeptBytes(f, b) = b
<1> SUFFICES ASSUME SeqExtent(b) = SeqExt(f), f.rc < SeqCR(b) PROVE FALSE
  BY DEF KeptBytes
<1>1. PICK r \in Nat \ {0}, e \in Nat \ {0} : r = RecordSize /\ e = ExtentRecords
  BY Sizes
<1>2. PICK q, c \in Nat, s \in 0 .. r - 1 :
           /\ q = SeqExtent(b) /\ c = SeqCR(b) /\ c < e
           /\ b = (e * q + c) * r + s
           /\ Records(b) = IF s = 0 THEN e * q + c ELSE e * q + c + 1
  BY <1>1, LastExtent
<1>3. f.rc \in Nat
  BY DEF FCBs
<1>4. q * e >= Records(b)
  BY <1>1, <1>2, <1>3 DEF CutsNothing
<1>5. c = 0
  <2>1. q * e = e * q /\ e * q \in Nat
    OBVIOUS
  <2> QED BY <1>2, <1>4, <2>1
<1> QED BY <1>2, <1>3, <1>5

\* What RC allows close to keep is no more than there is.
LEMMA KeptBytesCuts ==
  ASSUME NEW f \in FCBs, NEW b \in Nat
  PROVE  KeptBytes(f, b) <= b
<1> SUFFICES ASSUME SeqExtent(b) = SeqExt(f), f.rc < SeqCR(b)
             PROVE  ExtentBytes * SeqExt(f) + RecordSize * f.rc <= b
  BY DEF KeptBytes
<1>1. PICK r \in Nat \ {0}, e \in Nat \ {0} : r = RecordSize /\ e = ExtentRecords
  BY Sizes
<1>2. PICK q, c \in Nat, s \in 0 .. r - 1 :
           /\ q = SeqExtent(b) /\ c = SeqCR(b) /\ b = (e * q + c) * r + s
  BY <1>1, LastExtent
<1>3. PICK m \in Nat : m = f.rc /\ m < c
  BY <1>2 DEF FCBs
<1>4. m * r + r <= c * r /\ m * r \in Nat /\ c * r \in Nat
  BY <1>3, Multiples
<1>5. (e * q + c) * r = (r * e) * q + c * r
  OBVIOUS
<1>6. (r * e) * q \in Nat
  OBVIOUS
<1>7. ExtentBytes * SeqExt(f) + RecordSize * f.rc = (r * e) * q + m * r
  BY <1>1, <1>2, <1>3 DEF ExtentBytes
<1> QED BY <1>2, <1>4, <1>5, <1>6, <1>7

\* So it is after a read behind the end, wherever the FCB stands then.
LEMMA PastCutsNothing ==
  ASSUME NEW f \in FCBs, NEW g \in FCBs, NEW b \in Nat, CutsNothing(f, b),
         g.rc = f.rc, g.cr < ExtentRecords, b <= SeqAddress(g)
  PROVE  CutsNothing(g, b)
<1>1. CASE f.rc >= SeqCR(b)
  BY <1>1 DEF CutsNothing
<1>2. CASE Records(b) % ExtentRecords = 0
  <2>1. PICK e \in Nat \ {0} : e = ExtentRecords
    BY Sizes
  <2>2. PICK n \in Nat : n = Records(b)
    BY RecordsHold
  <2>3. PICK u \in Nat : n = u * e
    <3>1. n \div e \in Nat /\ n % e = 0 /\ n = (n \div e) * e + (n % e)
      BY <1>2, <2>1, <2>2, Divided
    <3> QED BY <3>1
  <2>4. PICK x \in Nat, c \in Nat : x = SeqExt(g) /\ c = g.cr /\ c < e
    BY <2>1, SeqAddressIsNat DEF FCBs
  <2>5. PICK k \in Nat : k = Posn(g) /\ k = e * x + c
    BY <2>1, <2>4, PosnIs
  <2>6. n <= k
    BY <2>2, <2>5, PosnIs, HasRecord
  <2>7. x * e >= n
    <3>1. ~ x < u
      <4> SUFFICES ASSUME x < u PROVE FALSE
        OBVIOUS
      <4>1. x * e + e <= u * e
        BY Multiples
      <4>2. x * e = e * x /\ e * x \in Nat
        OBVIOUS
      <4> QED BY <2>3, <2>4, <2>5, <2>6, <4>1, <4>2
    <3>2. CASE x = u
      BY <2>3, <3>2
    <3>3. CASE u < x
      <4>1. u * e + e <= x * e /\ x * e \in Nat
        BY <3>3, Multiples
      <4> QED BY <2>3, <4>1
    <3> QED BY <3>1, <3>2, <3>3
  <2> QED BY <1>2, <2>1, <2>2, <2>4, <2>7 DEF CutsNothing
<1> QED BY <1>1, <1>2 DEF CutsNothing

-----------------------------------------------------------------------------
(* The drive of records the files are.                                     *)

\* Names in use, and where the program stands in each: in the one FCB that is
\* open by it.
PositionsAre ==
  /\ FilePositions = [n \in NamesInUse |-> FilePositions[n]]
  /\ \A w \in Addresses : fcb[w].open => /\ fcb[w].name \in NamesInUse
                                         /\ FilePositions[fcb[w].name] = Posn(fcb[w])
  /\ \A n \in NamesInUse : \E w \in Addresses : fcb[w].open /\ fcb[w].name = n

\* The position of each open file is that of its FILE.
ToldIs ==
  /\ FileTold = [n \in NamesInUse |-> FileTold[n]]
  /\ \A i \in InUse : FileTold[table[i].name] = Records(stream[table[i].fp].tell)

\* The position of each open file is that of the one FCB that is open on it.
LEMMA PositionsHere == FilesOK => PositionsAre
<1> SUFFICES ASSUME FilesOK PROVE PositionsAre
  OBVIOUS
<1>1. FcbsOK
  BY DEF FilesOK
<1>2. \A n \in NamesInUse : \E w \in Addresses : fcb[w].open /\ fcb[w].name = n
  BY <1>1 DEF FcbsOK, NamesInUse
<1>3. ASSUME NEW w \in Addresses, fcb[w].open
      PROVE  fcb[w].name \in NamesInUse /\ FilePositions[fcb[w].name] = Posn(fcb[w])
  <2>1. fcb[w].name \in NamesInUse
    BY <1>1, <1>3 DEF FcbsOK, NamesInUse
  <2>2. \A v \in Addresses : fcb[v].open /\ fcb[v].name = fcb[w].name => v = w
    BY <1>1, <1>3 DEF FcbsOK
  <2>3. FcbOf(fcb[w].name) = w
    BY <1>3, <2>2 DEF FcbOf
  <2> QED BY <2>1, <2>3 DEF FilePositions, Posn
<1>4. FilePositions = [n \in NamesInUse |-> FilePositions[n]]
  BY DEF FilePositions
<1> QED BY <1>2, <1>3, <1>4 DEF PositionsAre

\* Each open file has one FILE.
LEMMA ToldHere == FilesOK => ToldIs
<1> SUFFICES ASSUME FilesOK PROVE ToldIs
  OBVIOUS
<1>1. ASSUME NEW i \in InUse PROVE FileTold[table[i].name] = Records(stream[table[i].fp].tell)
  <2>1. \A j \in InUse : table[j].name = table[i].name => j = i
    BY DEF FilesOK, TableOK
  <2>2. Named(table[i].name) = {i}
    BY <2>1 DEF Named
  <2>3. Min({i}) = i
    BY TableTypes, MinIsLeast DEF FilesOK
  <2>4. StreamOf(table[i].name) = table[i].fp
    BY <2>2, <2>3 DEF StreamOf
  <2>5. table[i].name \in NamesInUse
    BY DEF NamesInUse
  <2> QED BY <2>4, <2>5 DEF FileTold
<1>2. FileTold = [n \in NamesInUse |-> FileTold[n]]
  BY DEF FileTold
<1> QED BY <1>1, <1>2 DEF ToldIs

\* The same after a step.
LEMMA PositionsThen == FilesOK' => PositionsAre'
  BY PositionsHere, PTL

\* The same after a step.
LEMMA ToldThen == FilesOK' => ToldIs'
  BY ToldHere, PTL

\* lookfp changes no name and no FILE.
LEMMA MovedKeeps ==
  ASSUME FilesOK, NEW w \in Addresses, NEW n \in Names, Lookup(w, n) # 0, table' = Moved(w, n)
  PROVE  /\ InUse' = InUse /\ NamesInUse' = NamesInUse
         /\ \A j \in InUse : table'[j].fp = table[j].fp /\ table'[j].name = table[j].name
<1>1. PICK t : t = Moved(w, n)
  OBVIOUS
<1>2. /\ DOMAIN t = DOMAIN table
      /\ \A j \in DOMAIN table : t[j].fp = table[j].fp /\ t[j].name = table[j].name
      /\ \A j \in DOMAIN table : t[j].where # Free <=> table[j].where # Free
  <2>1. FilesTypeOK /\ TableOK
    BY DEF FilesOK
  <2>2. /\ t \in Seq(Entries) /\ DOMAIN t = DOMAIN table
        /\ t[Lookup(w, n)] = [fp |-> table[Lookup(w, n)].fp, where |-> w, name |-> n]
        /\ \A j \in DOMAIN table : j # Lookup(w, n) => t[j] = table[j]
        /\ \A j \in DOMAIN table : t[j].fp = table[j].fp /\ t[j].name = table[j].name
        /\ \A j \in DOMAIN table : t[j].where # Free <=> table[j].where # Free
    BY <1>1, <2>1, MovedIs
  <2> QED BY <2>2
<1>3. InUse' = InUse /\ InUse \subseteq DOMAIN table
  BY <1>1, <1>2 DEF InUse
<1>4. \A j \in InUse : table'[j].fp = table[j].fp /\ table'[j].name = table[j].name
  BY <1>1, <1>2, <1>3
<1>5. NamesInUse' = NamesInUse
  BY <1>3, <1>4 DEF NamesInUse
<1> QED BY <1>3, <1>4, <1>5

\* When one FCB changes, one file has another position.
LEMMA NewPosition ==
  ASSUME FilesOK, FilesOK', NEW w \in Addresses, fcb[w].open, NamesInUse' = NamesInUse,
         NEW f, f.open, f.name = fcb[w].name, fcb' = [fcb EXCEPT ![w] = f]
  PROVE  FilePositions' = [FilePositions EXCEPT ![fcb[w].name] = Posn(f)]
<1>1. PositionsAre /\ PositionsAre'
  BY PositionsHere, PositionsThen
<1>2. /\ fcb'[w] = f /\ \A v \in Addresses : v # w => fcb'[v] = fcb[v]
  BY DEF FilesOK, FilesTypeOK
<1>3. \A v \in Addresses : fcb'[v].open => FilePositions'[fcb'[v].name] = Posn(fcb'[v])
  BY <1>1 DEF PositionsAre
<1>4. FilePositions'[fcb[w].name] = Posn(f)
  BY <1>2, <1>3
<1>5. ASSUME NEW n \in NamesInUse, n # fcb[w].name PROVE FilePositions'[n] = FilePositions[n]
  <2>1. PICK v \in Addresses : fcb[v].open /\ fcb[v].name = n
    BY <1>1 DEF PositionsAre
  <2>2. v # w /\ fcb'[v] = fcb[v]
    BY <1>2, <1>5, <2>1
  <2>3. FilePositions'[n] = Posn(fcb[v])
    BY <1>3, <2>1, <2>2
  <2>4. FilePositions[n] = Posn(fcb[v])
    BY <1>1, <2>1 DEF PositionsAre
  <2> QED BY <2>3, <2>4
<1>6. /\ FilePositions = [n \in NamesInUse |-> FilePositions[n]]
      /\ FilePositions' = [n \in NamesInUse |-> FilePositions'[n]]
  BY <1>1 DEF PositionsAre
<1>7. PICK a, b : a = FilePositions /\ b = FilePositions'
  OBVIOUS
<1>8. b = [a EXCEPT ![fcb[w].name] = Posn(f)]
  BY <1>4, <1>5, <1>6, <1>7
<1> QED BY <1>7, <1>8

\* When one FILE moves, one file is told another position.
LEMMA NewTold ==
  ASSUME FilesOK, FilesOK', InUse' = InUse, NEW i \in InUse, NEW t,
         \A j \in InUse : table'[j].fp = table[j].fp /\ table'[j].name = table[j].name,
         stream' = [stream EXCEPT ![table[i].fp] = [file |-> stream[table[i].fp].file, tell |-> t]]
  PROVE  FileTold' = [FileTold EXCEPT ![table[i].name] = Records(t)]
<1>1. ToldIs /\ ToldIs'
  BY ToldHere, ToldThen
<1>2. NamesInUse' = NamesInUse
  BY DEF NamesInUse
<1>3. \A j \in InUse : table[j].fp \in Streams /\ (j # i => table[j].fp # table[i].fp /\ table[j].name # table[i].name)
  BY EntryInUse DEF FilesOK, TableOK
<1>4. stream'[table[i].fp].tell = t /\ \A j \in InUse : j # i => stream'[table[j].fp] = stream[table[j].fp]
  BY <1>3 DEF FilesOK, FilesTypeOK
<1>5. \A j \in InUse : FileTold'[table'[j].name] = Records(stream'[table'[j].fp].tell)
  BY <1>1 DEF ToldIs
<1>6. \A j \in InUse : FileTold'[table[j].name] = Records(stream'[table[j].fp].tell)
  BY <1>5
<1>7. FileTold'[table[i].name] = Records(t)
  BY <1>4, <1>6
<1>8. ASSUME NEW n \in NamesInUse, n # table[i].name PROVE FileTold'[n] = FileTold[n]
  <2>1. PICK j \in InUse : table[j].name = n
    BY DEF NamesInUse
  <2>2. FileTold'[n] = Records(stream[table[j].fp].tell)
    BY <1>4, <1>6, <1>8, <2>1
  <2>3. FileTold[n] = Records(stream[table[j].fp].tell)
    BY <1>1, <2>1 DEF ToldIs
  <2> QED BY <2>2, <2>3
<1>9. /\ FileTold = [n \in NamesInUse |-> FileTold[n]]
      /\ FileTold' = [n \in NamesInUse |-> FileTold'[n]]
  BY <1>1, <1>2 DEF ToldIs
<1>10. PICK a, b : a = FileTold /\ b = FileTold'
  OBVIOUS
<1>11. b = [a EXCEPT ![table[i].name] = Records(t)]
  BY <1>7, <1>8, <1>9, <1>10
<1> QED BY <1>10, <1>11

\* When one inode grows or shrinks, one file has other records.
LEMMA NewRecords ==
  ASSUME FilesOK, NEW n \in DOMAIN host, NEW b, host' = host, size' = [size EXCEPT ![host[n]] = b]
  PROVE  FileRecords' = [FileRecords EXCEPT ![n] = Records(b)]
<1>1. /\ \A k, l \in DOMAIN host : host[k] = host[l] => k = l
      /\ \A k \in DOMAIN host : host[k] \in Inodes
      /\ size \in [Inodes -> Nat]
  BY DEF FilesOK, FilesTypeOK
<1>2. size'[host[n]] = b /\ \A k \in DOMAIN host : k # n => size'[host[k]] = size[host[k]]
  BY <1>1
<1>3. FileRecords' = [k \in DOMAIN host |-> Records(size'[host[k]])]
  BY DEF FileRecords
<1>4. FileRecords = [k \in DOMAIN host |-> Records(size[host[k]])]
  BY DEF FileRecords
<1> QED BY <1>2, <1>3, <1>4

-----------------------------------------------------------------------------
(* Steps of the drive.                                                     *)

\* No FCB that is open cuts its file when it is closed, where nothing is refused.
Uncut(f, b) == refusing \/ CutsNothing(f, b)
RcOK ==
  \A w \in Addresses :
    fcb[w].open => fcb[w].cr < ExtentRecords /\ Uncut(fcb[w], size[host[fcb[w].name]])

\* RC covers the last extent of every open file still, if it does for the one FCB
\* that changed and no other file has another length.
LEMMA RcKept ==
  ASSUME FilesOK, RcOK, refusing' = refusing, NEW w \in Addresses, NEW f, fcb' = [fcb EXCEPT ![w] = f],
         f.open => f.cr < ExtentRecords /\ Uncut(f, size'[host'[f.name]]),
         \A v \in Addresses : v # w /\ fcb[v].open => size'[host'[fcb[v].name]] = size[host[fcb[v].name]]
  PROVE  RcOK'
<1>1. fcb'[w] = f /\ \A v \in Addresses : v # w => fcb'[v] = fcb[v]
  BY DEF FilesOK, FilesTypeOK
<1>2. ASSUME NEW v \in Addresses, fcb'[v].open
      PROVE  fcb'[v].cr < ExtentRecords /\ Uncut(fcb'[v], size'[host'[fcb'[v].name]])
  <2>1. CASE v = w
    BY <1>1, <1>2, <2>1
  <2>2. CASE v # w
    BY <1>1, <1>2, <2>2 DEF RcOK
  <2> QED BY <2>1, <2>2
<1> QED BY <1>2 DEF RcOK, Uncut, CutsNothing, SeqExt

\* The file of an open FCB.
LEMMA FileOfFCB ==
  ASSUME FilesOK, NEW w \in Addresses, fcb[w].open
  PROVE  /\ fcb[w].name \in DOMAIN host /\ fcb[w].name \in NamesInUse
         /\ host[fcb[w].name] \in Inodes /\ size[host[fcb[w].name]] \in Nat
         /\ table[Lookup(w, fcb[w].name)].fp \in Streams
         /\ stream[table[Lookup(w, fcb[w].name)].fp] \in Standing
         /\ stream[table[Lookup(w, fcb[w].name)].fp].file = host[fcb[w].name]
         /\ FileRecords[fcb[w].name] = Records(size[host[fcb[w].name]])
         /\ FilePositions[fcb[w].name] = Posn(fcb[w])
         /\ \A v \in Addresses : v # w /\ fcb[v].open =>
              fcb[v].name \in DOMAIN host /\ host[fcb[v].name] # host[fcb[w].name]
<1>1. FilesTypeOK /\ TableOK /\ FcbsOK
  BY DEF FilesOK
<1>2. PICK i : i = Lookup(w, fcb[w].name)
  OBVIOUS
<1>3. i \in InUse /\ table[i].name = fcb[w].name
  BY <1>2, OpenFinds
<1>4. /\ table[i].fp \in Streams /\ table[i].name \in DOMAIN host /\ stream[table[i].fp] \in Standing
      /\ stream[table[i].fp].file = host[table[i].name]
  BY <1>1, <1>3, EntryInUse
<1>5. host[fcb[w].name] \in Inodes /\ size[host[fcb[w].name]] \in Nat
  BY <1>1, <1>3, <1>4 DEF FilesTypeOK
<1>6. FileRecords[fcb[w].name] = Records(size[host[fcb[w].name]])
  BY <1>3, <1>4 DEF FileRecords
<1>7. FilePositions[fcb[w].name] = Posn(fcb[w]) /\ fcb[w].name \in NamesInUse
  BY PositionsHere DEF PositionsAre
<1>8. ASSUME NEW v \in Addresses, v # w, fcb[v].open
      PROVE  fcb[v].name \in DOMAIN host /\ host[fcb[v].name] # host[fcb[w].name]
  <2>1. fcb[v].name # fcb[w].name
    BY <1>1, <1>8 DEF FcbsOK
  <2>2. PICK j \in InUse : table[j].name = fcb[v].name
    BY <1>1, <1>8 DEF FcbsOK
  <2>3. fcb[v].name \in DOMAIN host
    BY <1>1, <2>2, EntryInUse
  <2> QED BY <1>1, <1>3, <1>4, <2>1, <2>3 DEF FilesTypeOK
<1> QED BY <1>2, <1>3, <1>4, <1>5, <1>6, <1>7, <1>8

\* No FCB cuts its file, and the program stands at p in the file of the FCB.
StandsOK(w, p, t) == RcOK' /\ Drive!Stands(fcb[w].name, p, t)

\* What a call does that finds its entry and changes the file behind it.
LEMMA FoundMaps ==
  ASSUME FilesOK, RcOK, FilesOK', refusing' = refusing, NEW w \in Addresses, fcb[w].open,
         table' = Moved(w, fcb[w].name), host' = host,
         NEW f, f.open, f.name = fcb[w].name, f.cr < ExtentRecords, fcb' = [fcb EXCEPT ![w] = f],
         NEW b, size' = [size EXCEPT ![host[fcb[w].name]] = b], Uncut(f, b),
         NEW t, stream' = [stream EXCEPT ![table[Lookup(w, fcb[w].name)].fp] =
                             [file |-> stream[table[Lookup(w, fcb[w].name)].fp].file, tell |-> t]]
  PROVE  StandsOK(w, Posn(f), Records(t))
<1>1. PICK n \in Names : n = fcb[w].name
  BY OpenFinds
<1>2. PICK i \in InUse : i = Lookup(w, n) /\ table[i].name = n /\ Lookup(w, n) # 0
  BY <1>1, OpenFinds
<1>3. /\ InUse' = InUse /\ NamesInUse' = NamesInUse
      /\ \A j \in InUse : table'[j].fp = table[j].fp /\ table'[j].name = table[j].name
  BY <1>1, <1>2, MovedKeeps
<1>4. FilePositions' = [FilePositions EXCEPT ![n] = Posn(f)]
  BY <1>1, <1>3, NewPosition
<1>5. stream' = [stream EXCEPT ![table[i].fp] = [file |-> stream[table[i].fp].file, tell |-> t]]
  BY <1>1, <1>2
<1>6. FileTold' = [FileTold EXCEPT ![n] = Records(t)]
  <2>1. FileTold' = [FileTold EXCEPT ![table[i].name] = Records(t)]
    BY <1>3, <1>5, NewTold
  <2> QED BY <1>2, <2>1
<1>7. n \in DOMAIN host /\ host[n] \in Inodes
  BY <1>1, FileOfFCB
<1>9. size'[host'[f.name]] = b
  BY <1>1, <1>7 DEF FilesOK, FilesTypeOK
<1>10. \A v \in Addresses : v # w /\ fcb[v].open => size'[host'[fcb[v].name]] = size[host[fcb[v].name]]
  <2>1. \A v \in Addresses : v # w /\ fcb[v].open =>
              fcb[v].name \in DOMAIN host /\ host[fcb[v].name] # host[fcb[w].name]
    BY FileOfFCB
  <2>2. size \in [Inodes -> Nat] /\ host \in [DOMAIN host -> Inodes]
    BY DEF FilesOK, FilesTypeOK
  <2> QED BY <2>1, <2>2
<1>11. RcOK'
  BY <1>9, <1>10, RcKept
<1> QED BY <1>1, <1>4, <1>6, <1>11 DEF StandsOK, Drive!Stands

\* After a transfer the FCB stands at record k, which is not behind the end.
LEMMA StandsMaps ==
  ASSUME FilesOK, RcOK, FilesOK', refusing' = refusing, NEW w \in Addresses, fcb[w].open,
         table' = Moved(w, fcb[w].name), host' = host,
         NEW b \in Nat, size' = [size EXCEPT ![host[fcb[w].name]] = b],
         NEW n \in Nat, NEW t \in Nat, Stands(w, table[Lookup(w, fcb[w].name)].fp, b, n, t),
         NEW k \in Nat, n \div RecordSize = k, refusing \/ k <= Records(b)
  PROVE  StandsOK(w, k, Records(t))
<1>1. FilesTypeOK
  BY DEF FilesOK
<1>2. PICK f : f = table[Lookup(w, fcb[w].name)].fp
  OBVIOUS
<1>3. f \in Streams /\ stream[f] \in Standing
  BY <1>2, FileOfFCB
<1>4. PICK h \in FCBs : h = [fcb[w] EXCEPT !.open = TRUE] /\ h.open /\ h.name = fcb[w].name
  <2>1. fcb[w] \in FCBs
    BY <1>1 DEF FilesTypeOK
  <2> QED BY <2>1 DEF FCBs
<1>5. PICK a \in FCBs : a = At(h, n) /\ a.open /\ a.name = fcb[w].name
  <2>1. PICK a : a = At(h, n)
    OBVIOUS
  <2>2. a \in FCBs /\ a.open /\ a.name = fcb[w].name
    BY <1>4, <2>1, AtIsFCB
  <2> QED BY <2>1, <2>2
<1>6. PICK g \in FCBs : g = FixRC(a, b) /\ g.open /\ g.name = fcb[w].name
  <2>1. PICK g : g = FixRC(a, b)
    OBVIOUS
  <2>2. g \in FCBs /\ g.open /\ g.name = fcb[w].name
    BY <1>5, <2>1, FixRCIsFCB
  <2> QED BY <2>1, <2>2
<1>7. fcb' = [fcb EXCEPT ![w] = g]
  BY <1>2, <1>4, <1>5, <1>6 DEF Stands
<1>8. stream' = [stream EXCEPT ![f] = [file |-> stream[f].file, tell |-> t]]
  BY <1>2, <1>3, StandsAt
<1>9. Posn(a) = k /\ SeqExt(a) = k \div ExtentRecords /\ a.cr < ExtentRecords
  BY <1>4, <1>5, AtIsPosition
<1>10. g.cr = a.cr /\ g.ex = a.ex /\ g.s2 = a.s2
  BY <1>5, <1>6, FixRCIsFCB
<1>11. Posn(g) = k
  BY <1>9, <1>10 DEF Posn, SeqAddress, SeqExt
<1>12. refusing \/ SeqExt(a) * ExtentRecords <= Records(b)
  <2>1. PICK e \in Nat \ {0} : e = ExtentRecords
    BY Sizes
  <2>2. PICK q \in Nat, m \in 0 .. e - 1 : q = k \div e /\ k = q * e + m
    <3>1. k \div e \in Nat /\ k % e \in 0 .. e - 1 /\ k = (k \div e) * e + (k % e)
      BY Divided
    <3> QED BY <3>1
  <2>3. q * e \in Nat /\ Records(b) \in Nat
    BY Multiples, RecordsHold
  <2> QED BY <1>9, <2>1, <2>2, <2>3
<1>13. Uncut(g, b)
  BY <1>5, <1>6, <1>12, FixedCutsNothing DEF Uncut
<1>14. stream' = [stream EXCEPT ![table[Lookup(w, fcb[w].name)].fp] =
                    [file |-> stream[table[Lookup(w, fcb[w].name)].fp].file, tell |-> t]]
  BY <1>2, <1>8
<1>15. g.cr < ExtentRecords
  BY <1>9, <1>10
<1>16. StandsOK(w, Posn(g), Records(t))
  BY <1>6, <1>7, <1>13, <1>14, <1>15, FoundMaps
<1> QED BY <1>11, <1>16

\* A file that is not written to.
LEMMA SameSize ==
  ASSUME FilesOK, NEW w \in Addresses, fcb[w].open
  PROVE  /\ size = [size EXCEPT ![host[fcb[w].name]] = size[host[fcb[w].name]]]
         /\ FileRecords = [FileRecords EXCEPT ![fcb[w].name] = Records(size[host[fcb[w].name]])]
<1>1. /\ size \in [Inodes -> Nat] /\ fcb[w].name \in DOMAIN host /\ host[fcb[w].name] \in Inodes
      /\ FileRecords[fcb[w].name] = Records(size[host[fcb[w].name]])
  BY FileOfFCB DEF FilesOK, FilesTypeOK
<1>2. PICK a : a = FileRecords /\ a = [n \in DOMAIN host |-> a[n]]
  BY DEF FileRecords
<1> QED BY <1>1, <1>2

\* A sequential or random read is a read of the record where the file stands.
LEMMA ReadMaps ==
  ASSUME FilesOK, RcOK, FilesOK', refusing' = refusing, NEW w \in Addresses, fcb[w].open,
         table' = Moved(w, fcb[w].name), host' = host,
         NEW g \in FCBs, g.open, g.name = fcb[w].name, g.rc = fcb[w].rc, g.cr < ExtentRecords,
         ReadSeq(w, table[Lookup(w, fcb[w].name)].fp, host[fcb[w].name], g)
  PROVE  RcOK' /\ Drive!ReadAt(fcb[w].name, Posn(g))
<1>1. PICK n : n = fcb[w].name
  OBVIOUS
<1>2. PICK b \in Nat : b = size[host[n]]
  BY <1>1, FileOfFCB
<1>3. PICK k \in Nat, a \in Nat : k = Posn(g) /\ a = SeqAddress(g) /\ a = k * RecordSize
  BY PosnIs, SeqAddressIsNat
<1>4. n \in NamesInUse /\ FileRecords[n] = Records(b)
  BY <1>1, <1>2, FileOfFCB
<1>5. size' = size /\ size' = [size EXCEPT ![host[n]] = b]
  BY <1>1, <1>2, SameSize DEF ReadSeq
<1>6. FileRecords' = FileRecords
  BY <1>5 DEF FileRecords
<1>7. n \in DOMAIN FilePositions
  BY <1>4 DEF FilePositions
<1>8. PICK r \in Nat \ {0} : r = RecordSize
  BY Sizes
<1>9. a < b <=> k < Records(b)
  BY <1>3, HasRecord
<1>10. a \div r = k
  BY <1>3, <1>8 DEF Posn
<1>11. CASE a < b
  <2>1. PICK t \in Nat : t = Min({a + r, b}) /\ a < t /\ t <= a + r /\ t <= b
    <3>1. PICK c \in Nat : c = a + r
      OBVIOUS
    <3>2. {c, b} \in SUBSET Nat /\ {c, b} # {}
      OBVIOUS
    <3>3. PICK t : t = Min({c, b})
      OBVIOUS
    <3>4. t \in {c, b} /\ t <= c /\ t <= b
      BY <3>2, <3>3, MinIsLeast
    <3>5. t \in Nat /\ a < t
      BY <1>11, <3>1, <3>4
    <3> QED BY <3>1, <3>3, <3>4, <3>5
  <2>2. Records(t) = k + 1
    <3>1. PICK m \in Nat : m = k + 1
      OBVIOUS
    <3>2. m * r = k * r + r
      BY <3>1
    <3>3. m * r >= t /\ m * r < t + r
      BY <1>3, <1>8, <2>1, <3>2
    <3> QED BY <1>8, <3>1, <3>3, RecordsAre
  <2>3. Stands(w, table[Lookup(w, n)].fp, b, RoundedUp(t), t) /\ Succeeds(k)
    BY <1>1, <1>2, <1>3, <1>8, <1>10, <1>11, <2>1 DEF ReadSeq
  <2>4. PICK x \in Nat : x = RoundedUp(t) /\ x \div RecordSize = k + 1
    BY <2>2, RecordsAreNat DEF Records, RoundedUp
  <2>5. PICK m \in Nat : m = k + 1 /\ m <= Records(b)
    <3>1. Records(b) \in Nat
      BY RecordsHold
    <3> QED BY <1>9, <1>11, <3>1
  <2>6. StandsOK(w, m, Records(t))
    <3>1. size' = [size EXCEPT ![host[fcb[w].name]] = b]
      BY <1>1, <1>5
    <3>2. Stands(w, table[Lookup(w, fcb[w].name)].fp, b, x, t)
      BY <1>1, <2>3, <2>4
    <3>3. x \div RecordSize = m
      BY <2>4, <2>5
    <3> QED BY <2>5, <3>1, <3>2, <3>3, StandsMaps
  <2> QED BY <1>1, <1>3, <1>4, <1>6, <1>7, <1>9, <1>11, <2>2, <2>3, <2>5, <2>6
          DEF StandsOK, Drive!ReadAt, Drive!IsOpen, Drive!Succeeds, Succeeds
<1>12. CASE ~ a < b
  <2>1. PICK f : f = table[Lookup(w, n)].fp
    OBVIOUS
  <2>2. f \in Streams /\ stream[f] \in Standing
    BY <1>1, <2>1, FileOfFCB
  <2>3. /\ fcb' = [fcb EXCEPT ![w] = g] /\ stream' = [stream EXCEPT ![f].tell = a] /\ Fails
    BY <1>1, <1>2, <1>3, <1>12, <2>1 DEF ReadSeq, Stays
  <2>4. stream' = [stream EXCEPT ![f] = [file |-> stream[f].file, tell |-> a]]
    <3>1. [stream[f] EXCEPT !.tell = a] = [file |-> stream[f].file, tell |-> a]
      BY <2>2 DEF Standing
    <3> QED BY <2>3, <3>1
  <2>5. Uncut(g, b)
    <3>1. Uncut(fcb[w], b) /\ fcb[w] \in FCBs
      BY <1>1, <1>2 DEF RcOK, FilesOK, FilesTypeOK
    <3>2. b <= SeqAddress(g)
      BY <1>3, <1>12
    <3> QED BY <3>1, <3>2, PastCutsNothing DEF Uncut
  <2>6. StandsOK(w, Posn(g), Records(a))
    <3>1. size' = [size EXCEPT ![host[fcb[w].name]] = b]
      BY <1>1, <1>5
    <3>2. stream' = [stream EXCEPT ![table[Lookup(w, fcb[w].name)].fp] =
                       [file |-> stream[table[Lookup(w, fcb[w].name)].fp].file, tell |-> a]]
      BY <1>1, <2>1, <2>4
    <3> QED BY <2>3, <2>5, <3>1, <3>2, FoundMaps
  <2>7. Records(a) = k
    BY <1>3, WholeRecords
  <2> QED BY <1>1, <1>3, <1>4, <1>6, <1>7, <1>9, <1>12, <2>3, <2>6, <2>7
          DEF StandsOK, Drive!ReadAt, Drive!IsOpen, Drive!Fails, Fails
<1> QED BY <1>11, <1>12

\* The larger of two lengths.
LEMMA LargerIs ==
  ASSUME NEW a \in Nat, NEW b \in Nat
  PROVE  /\ Max({a, b}) \in Nat /\ Max({a, b}) >= a /\ Max({a, b}) >= b
         /\ Max({a, b}) = a \/ Max({a, b}) = b
<1>1. \E x \in {a, b} : \A y \in {a, b} : x >= y
  OBVIOUS
<1>2. PICK m : m = Max({a, b})
  OBVIOUS
<1>3. m \in {a, b} /\ \A y \in {a, b} : m >= y
  BY <1>1, <1>2 DEF Max
<1> QED BY <1>2, <1>3

\* A write is a write of that record, and lengthens the file where it must, or is
\* refused, or lost.
LEMMA WriteMaps ==
  ASSUME FilesOK, RcOK, FilesOK', refusing' = refusing, NEW w \in Addresses, fcb[w].open,
         table' = Moved(w, fcb[w].name), host' = host,
         NEW g \in FCBs, g.open, g.name = fcb[w].name, g.cr < ExtentRecords,
         WriteSeq(w, table[Lookup(w, fcb[w].name)].fp, host[fcb[w].name], g)
  PROVE  RcOK' /\ Drive!MayWrite(fcb[w].name, Posn(g))
<1>1. PICK n : n = fcb[w].name
  OBVIOUS
<1>2. PICK b \in Nat : b = size[host[n]]
  BY <1>1, FileOfFCB
<1>3. PICK k \in Nat, a \in Nat : k = Posn(g) /\ a = SeqAddress(g) /\ a = k * RecordSize
  BY PosnIs, SeqAddressIsNat
<1>4. n \in NamesInUse /\ n \in DOMAIN host /\ FileRecords[n] = Records(b)
  BY <1>1, <1>2, FileOfFCB
<1>5. PICK r \in Nat \ {0} : r = RecordSize
  BY Sizes
<1>6. PICK m \in Nat : m = k + 1
  OBVIOUS
<1>7. PICK t \in Nat : t = m * r
  OBVIOUS
<1>8. a + r = t
  <2>1. m * r = k * r + r
    BY <1>6
  <2> QED BY <1>3, <1>5, <1>7, <2>1
<1>9. t \div RecordSize = m /\ Records(t) = m
  <2>1. t = m * r + 0 /\ 0 \in 0 .. r - 1
    BY <1>7
  <2> QED BY <1>5, <1>7, <2>1, Quotient, WholeRecords
<1>10. PICK c \in Nat : c = Max({t, b}) /\ c >= t /\ c >= b /\ (c = t \/ c = b)
  BY LargerIs
<1>11. n \in DOMAIN FilePositions
  BY <1>4 DEF FilePositions
<1>12. \/ /\ size' = [size EXCEPT ![host[n]] = c]
          /\ Stands(w, table[Lookup(w, n)].fp, c, t, t) /\ Succeeds(k)
       \/ refusing /\ Stays(w, table[Lookup(w, n)].fp, g) /\ size' = size
       \/ /\ refusing /\ Stands(w, table[Lookup(w, n)].fp, b, t, a)
          /\ Succeeds(k) /\ size' = size
  <2>1. a \div RecordSize = k
    BY <1>3 DEF Posn
  <2> QED BY <1>1, <1>2, <1>3, <1>5, <1>8, <1>10, <2>1 DEF WriteSeq
<1>13. CASE /\ size' = [size EXCEPT ![host[n]] = c]
            /\ Stands(w, table[Lookup(w, n)].fp, c, t, t) /\ Succeeds(k)
  <2>1. PICK x \in Nat, y \in Nat : x = Records(b) /\ y = Records(c)
    BY RecordsHold
  <2>2. y = IF x > m THEN x ELSE m
    <3>1. m <= y /\ x <= y
      BY <1>9, <1>10, <2>1, MoreRecords
    <3>2. y = m \/ y = x
      BY <1>9, <1>10, <2>1
    <3> QED BY <3>1, <3>2
  <2>3. m <= Records(c)
    BY <1>9, <1>10, MoreRecords
  <2>4. StandsOK(w, m, Records(t))
    <3>1. size' = [size EXCEPT ![host[fcb[w].name]] = c]
      BY <1>1, <1>13
    <3>2. Stands(w, table[Lookup(w, fcb[w].name)].fp, c, t, t)
      BY <1>1, <1>13
    <3> QED BY <1>9, <2>3, <3>1, <3>2, StandsMaps
  <2>5. FileRecords' = [FileRecords EXCEPT ![n] = y]
    BY <1>4, <1>13, <2>1, NewRecords
  <2>6. FileRecords' = [FileRecords EXCEPT ![n] = Drive!Larger(@, m)]
    BY <1>4, <2>1, <2>2, <2>5 DEF Drive!Larger
  <2>7. RcOK' /\ Drive!WriteAt(fcb[w].name, Posn(g))
    BY <1>1, <1>3, <1>6, <1>9, <1>11, <1>13, <2>4, <2>6
       DEF StandsOK, Drive!WriteAt, Drive!IsOpen, Drive!Succeeds, Succeeds
  <2> QED BY <2>7 DEF Drive!MayWrite
<1>14. ASSUME size' = size
       PROVE  size' = [size EXCEPT ![host[fcb[w].name]] = b] /\ FileRecords' = FileRecords
  BY <1>1, <1>2, <1>14, SameSize DEF FileRecords
<1>15. Records(a) = k
  BY <1>3, WholeRecords
<1>16. CASE refusing /\ Stays(w, table[Lookup(w, n)].fp, g) /\ size' = size
  <2>1. PICK f : f = table[Lookup(w, n)].fp
    OBVIOUS
  <2>2. f \in Streams /\ stream[f] \in Standing
    BY <1>1, <2>1, FileOfFCB
  <2>3. fcb' = [fcb EXCEPT ![w] = g] /\ stream' = [stream EXCEPT ![f].tell = a] /\ Fails
    BY <1>3, <1>16, <2>1 DEF Stays
  <2>4. stream' = [stream EXCEPT ![f] = [file |-> stream[f].file, tell |-> a]]
    <3>1. [stream[f] EXCEPT !.tell = a] = [file |-> stream[f].file, tell |-> a]
      BY <2>2 DEF Standing
    <3> QED BY <2>3, <3>1
  <2>5. stream' = [stream EXCEPT ![table[Lookup(w, fcb[w].name)].fp] =
                     [file |-> stream[table[Lookup(w, fcb[w].name)].fp].file, tell |-> a]]
    BY <1>1, <2>1, <2>4
  <2>6. Uncut(g, b)
    BY <1>16 DEF Uncut
  <2>7. StandsOK(w, Posn(g), Records(a))
    BY <1>14, <1>16, <2>3, <2>5, <2>6, FoundMaps
  <2>8. RcOK' /\ Drive!WriteRefused(fcb[w].name, Posn(g))
    BY <1>1, <1>3, <1>11, <1>14, <1>15, <1>16, <2>3, <2>7
       DEF StandsOK, Drive!WriteRefused, Drive!IsOpen, Drive!Fails, Fails
  <2> QED BY <2>8 DEF Drive!MayWrite
<1>17. CASE /\ refusing /\ Stands(w, table[Lookup(w, n)].fp, b, t, a)
            /\ Succeeds(k) /\ size' = size
  <2>1. StandsOK(w, m, Records(a))
    <3>1. Stands(w, table[Lookup(w, fcb[w].name)].fp, b, t, a)
      BY <1>1, <1>17
    <3>2. refusing \/ m <= Records(b)
      BY <1>17
    <3> QED BY <1>9, <1>14, <1>17, <3>1, <3>2, StandsMaps
  <2>2. RcOK' /\ Drive!WriteLost(fcb[w].name, Posn(g))
    BY <1>1, <1>3, <1>6, <1>11, <1>14, <1>15, <1>17, <2>1
       DEF StandsOK, Drive!WriteLost, Drive!IsOpen, Drive!Succeeds, Succeeds
  <2> QED BY <2>2 DEF Drive!MayWrite
<1> QED BY <1>12, <1>13, <1>16, <1>17

\* Functions 35 and 36.
LEMMA SetRandomMaps ==
  ASSUME FilesOK, RcOK, FilesOK', refusing' = refusing, NEW w \in Addresses, fcb[w].open,
         table' = Moved(w, fcb[w].name), host' = host,
         NEW t \in Nat, refusing \/ t <= size[host[fcb[w].name]],
         SetRandom(w, table[Lookup(w, fcb[w].name)].fp, host[fcb[w].name], t)
  PROVE  /\ StandsOK(w, Records(t), Records(t)) /\ Drive!Succeeds(Records(t))
         /\ FileRecords' = FileRecords /\ Drive!IsOpen(fcb[w].name)
<1>1. PICK b \in Nat : b = size[host[fcb[w].name]]
  BY FileOfFCB
<1>2. size' = size /\ size' = [size EXCEPT ![host[fcb[w].name]] = b]
  BY <1>1, SameSize DEF SetRandom
<1>3. FileRecords' = FileRecords
  BY <1>2 DEF FileRecords
<1>4. PICK m \in Nat : m = Records(t) /\ (refusing \/ m <= Records(b))
  BY <1>1, MoreRecords, RecordsHold
<1>5. PICK x \in Nat : x = RoundedUp(t) /\ x \div RecordSize = m
  BY <1>4, RecordsAreNat DEF Records, RoundedUp
<1>6. Stands(w, table[Lookup(w, fcb[w].name)].fp, b, x, t)
  BY <1>1, <1>5 DEF SetRandom
<1>7. StandsOK(w, m, Records(t))
  BY <1>2, <1>4, <1>5, <1>6, StandsMaps
<1>8. fcb[w].name \in DOMAIN FilePositions
  BY FileOfFCB DEF FilePositions
<1> QED BY <1>3, <1>4, <1>7, <1>8 DEF SetRandom, Succeeds, Drive!Succeeds, Drive!IsOpen

\* A position a program asks for.
LEMMA AskedIsPosition ==
  ASSUME NEW p \in 0 .. Records(Limit(host))
  PROVE  /\ p \in Nat /\ p \in Positions /\ p % RandomRecords \in Positions
         /\ RandomAddress(p) \in Nat /\ RandomAddress(p) \div RecordSize = p % RandomRecords
<1>1. Limit(host) \in Nat /\ MaxBytes \in Nat /\ Limit(host) <= MaxBytes
  BY FilesAssumption DEF Limit
<1>2. PICK l \in Nat, m \in Nat : l = Records(Limit(host)) /\ m = Records(MaxBytes) /\ l <= m
  BY <1>1, MoreRecords, RecordsHold
<1>3. p \in 0 .. l /\ Positions = 0 .. m
  BY <1>2 DEF Positions
<1>4. PICK q \in Nat : q = p % RandomRecords /\ q <= p
  <2>1. PICK d \in Nat \ {0} : d = RandomRecords
    BY Sizes
  <2>2. PICK u \in Nat, v \in 0 .. d - 1 : u = p \div d /\ v = p % d /\ p = u * d + v
    <3>1. p \in Nat
      BY <1>3
    <3>2. p \div d \in Nat /\ p % d \in 0 .. d - 1 /\ p = (p \div d) * d + (p % d)
      BY <3>1, Divided
    <3> QED BY <3>2
  <2>3. u * d \in Nat
    BY Multiples
  <2>4. v <= p
    BY <2>2, <2>3
  <2> QED BY <2>1, <2>2, <2>4
<1>5. PICK a \in Nat : a = q * RecordSize /\ a \div RecordSize = q
  <2>1. PICK r \in Nat \ {0} : r = RecordSize
    BY Sizes
  <2>2. PICK a \in Nat : a = q * r
    OBVIOUS
  <2>3. a = q * r + 0 /\ 0 \in 0 .. r - 1
    BY <2>2
  <2>4. a \div r = q
    BY <2>3, Quotient
  <2> QED BY <2>1, <2>2, <2>4
<1> QED BY <1>2, <1>3, <1>4, <1>5 DEF RandomAddress

\* The FCB of random access stands where it is asked to.
LEMMA RandomStands ==
  ASSUME FilesOK, NEW w \in Addresses, NEW p \in 0 .. Records(Limit(host))
  PROVE  /\ RandomFCB(w, p) \in FCBs /\ RandomFCB(w, p).open
         /\ RandomFCB(w, p).name = fcb[w].name /\ RandomFCB(w, p).rc = fcb[w].rc
         /\ RandomFCB(w, p).cr < ExtentRecords /\ Posn(RandomFCB(w, p)) = p % RandomRecords
<1>1. PICK h \in FCBs : /\ h = [fcb[w] EXCEPT !.open = TRUE]
                        /\ h.open /\ h.name = fcb[w].name /\ h.rc = fcb[w].rc
  <2>1. fcb[w] \in FCBs
    BY DEF FilesOK, FilesTypeOK
  <2>2. PICK h : h = [fcb[w] EXCEPT !.open = TRUE]
    OBVIOUS
  <2>3. h \in FCBs /\ h.open /\ h.name = fcb[w].name /\ h.rc = fcb[w].rc
    BY <2>1, <2>2 DEF FCBs
  <2> QED BY <2>2, <2>3
<1>2. PICK a \in Nat : a = RandomAddress(p) /\ a \div RecordSize = p % RandomRecords
  BY AskedIsPosition
<1>3. RandomFCB(w, p) = At(h, a)
  BY <1>1, <1>2 DEF RandomFCB
<1>4. /\ At(h, a) \in FCBs /\ At(h, a).open /\ At(h, a).name = fcb[w].name /\ At(h, a).rc = fcb[w].rc
  BY <1>1, AtIsFCB
<1>5. At(h, a).cr < ExtentRecords /\ Posn(At(h, a)) = a \div RecordSize
  BY AtIsPosition
<1> QED BY <1>2, <1>3, <1>4, <1>5


\* The calls on an open file are operations on a drive of records.
LEMMA AccessMaps ==
  ASSUME Tidy, FilesOK, RcOK, FilesOK', refusing' = refusing, NEW w \in Addresses, NEW p \in 0 .. Records(Limit(host)),
         \/ Read(w) \/ Write(w) \/ FileSize(w) \/ Tell(w) \/ ReadRandom(w, p) \/ WriteRandom(w, p)
  PROVE  RcOK' /\ Drive!Next
<1> DEFINE n == fcb[w].name
           f == table[Lookup(w, n)].fp
           g == RandomFCB(w, p)
<1>1. fcb[w].open
  BY DEF Read, Write, FileSize, Tell, ReadRandom, WriteRandom, Access, MayUse
<1>2. /\ fcb[w] \in FCBs /\ n \in Names /\ Lookup(w, n) # 0
  BY <1>1, OpenFinds
<1>3. /\ stream[f].file = host[n] /\ stream[f].tell \in Nat /\ size[host[n]] \in Nat
      /\ FilePositions[n] = Posn(fcb[w]) /\ FileRecords[n] = Records(size[host[n]])
  BY <1>1, FileOfFCB DEF Standing
<1>4. fcb[w].cr < ExtentRecords
  BY <1>1 DEF RcOK
<1>5. /\ g \in FCBs /\ g.open /\ g.name = n /\ g.rc = fcb[w].rc
      /\ g.cr < ExtentRecords /\ Posn(g) = p % RandomRecords /\ p % RandomRecords \in Positions
  BY RandomStands, AskedIsPosition
<1> HIDE DEF g
<1>6. CASE Read(w)
  <2>1. PICK i \in DOMAIN table : /\ Finds(w, n, i) /\ table' = Moved(w, n) /\ UNCHANGED <<host, running>>
                                  /\ ReadSeq(w, table[i].fp, stream[table[i].fp].file, fcb[w])
    BY <1>2, <1>6 DEF Read, Access
  <2>2. table' = Moved(w, n) /\ host' = host /\ ReadSeq(w, f, host[n], fcb[w])
    BY <1>3, <2>1 DEF Finds
  <2>3. RcOK' /\ Drive!ReadAt(n, Posn(fcb[w]))
    BY <1>1, <1>2, <1>4, <2>2, ReadMaps
  <2>4. Drive!Read(n)
    BY <1>3, <2>3 DEF Drive!Read, Drive!ReadAt
  <2> QED BY <1>2, <2>3, <2>4 DEF Drive!Next
<1>7. CASE Write(w)
  <2>1. PICK i \in DOMAIN table : /\ Finds(w, n, i) /\ table' = Moved(w, n) /\ UNCHANGED <<host, running>>
                                  /\ WriteSeq(w, table[i].fp, stream[table[i].fp].file, fcb[w])
    BY <1>2, <1>7 DEF Write, Access
  <2>2. table' = Moved(w, n) /\ host' = host /\ WriteSeq(w, f, host[n], fcb[w])
    BY <1>3, <2>1 DEF Finds
  <2>3. RcOK' /\ Drive!MayWrite(n, Posn(fcb[w]))
    BY <1>1, <1>2, <1>4, <2>2, WriteMaps
  <2>4. Drive!Write(n)
    BY <1>3, <2>3 DEF Drive!Write, Drive!MayWrite,
       Drive!WriteAt, Drive!WriteRefused, Drive!WriteLost
  <2> QED BY <1>2, <2>3, <2>4 DEF Drive!Next
<1>8. CASE ReadRandom(w, p)
  <2>1. PICK i \in DOMAIN table : /\ Finds(w, n, i) /\ table' = Moved(w, n) /\ UNCHANGED <<host, running>>
                                  /\ ReadSeq(w, table[i].fp, stream[table[i].fp].file, g)
    BY <1>2, <1>8 DEF ReadRandom, Access, g
  <2>2. table' = Moved(w, n) /\ host' = host /\ ReadSeq(w, f, host[n], g)
    BY <1>3, <2>1 DEF Finds
  <2>3. RcOK' /\ Drive!ReadAt(n, Posn(g))
    BY <1>1, <1>5, <2>2, ReadMaps
  <2> QED BY <1>2, <1>5, <2>3 DEF Drive!Next
<1>9. CASE WriteRandom(w, p)
  <2>1. PICK i \in DOMAIN table : /\ Finds(w, n, i) /\ table' = Moved(w, n) /\ UNCHANGED <<host, running>>
                                  /\ WriteSeq(w, table[i].fp, stream[table[i].fp].file, g)
    BY <1>2, <1>9 DEF WriteRandom, Access, g
  <2>2. table' = Moved(w, n) /\ host' = host /\ WriteSeq(w, f, host[n], g)
    BY <1>3, <2>1 DEF Finds
  <2>3. RcOK' /\ Drive!MayWrite(n, Posn(g))
    BY <1>1, <1>5, <2>2, WriteMaps
  <2> QED BY <1>2, <1>5, <2>3 DEF Drive!Next
<1>10. CASE FileSize(w)
  <2>1. PICK i \in DOMAIN table : /\ Finds(w, n, i) /\ table' = Moved(w, n) /\ UNCHANGED <<host, running>>
                                  /\ SetRandom(w, table[i].fp, stream[table[i].fp].file, size[stream[table[i].fp].file])
    BY <1>2, <1>10 DEF FileSize, Access
  <2>2. PICK t \in Nat : t = size[host[n]]
    BY <1>3
  <2>3. table' = Moved(w, n) /\ host' = host /\ SetRandom(w, f, host[n], t) /\ (refusing \/ t <= size[host[n]])
    BY <1>3, <2>1, <2>2 DEF Finds
  <2>4. /\ StandsOK(w, Records(t), Records(t)) /\ Drive!Succeeds(Records(t))
        /\ FileRecords' = FileRecords /\ Drive!IsOpen(n)
    BY <1>1, <2>3, SetRandomMaps
  <2>5. RcOK' /\ Drive!Size(n)
    BY <1>3, <2>2, <2>4 DEF StandsOK, Drive!Size
  <2> QED BY <1>2, <2>5 DEF Drive!Next
<1>11. CASE Tell(w)
  <2>1. PICK i \in DOMAIN table : /\ Finds(w, n, i) /\ table' = Moved(w, n) /\ UNCHANGED <<host, running>>
                                  /\ SetRandom(w, table[i].fp, stream[table[i].fp].file, stream[table[i].fp].tell)
    BY <1>2, <1>11 DEF Tell, Access
  <2>2. PICK t \in Nat : t = stream[f].tell
    BY <1>3
  <2>3. table' = Moved(w, n) /\ host' = host /\ SetRandom(w, f, host[n], t)
    BY <1>3, <2>1, <2>2 DEF Finds
  <2>4. refusing \/ t <= size[host[n]]
    BY <2>3 DEF SetRandom
  <2>5. /\ StandsOK(w, Records(t), Records(t)) /\ Drive!Succeeds(Records(t))
        /\ FileRecords' = FileRecords /\ Drive!IsOpen(n)
    BY <1>1, <2>3, <2>4, SetRandomMaps
  <2>6. FileTold[n] = Records(t)
    <3>1. Lookup(w, n) \in InUse /\ table[Lookup(w, n)].name = n
      BY <1>1, OpenFinds
    <3> QED BY <2>2, <3>1, ToldHere DEF ToldIs
  <2>7. RcOK' /\ Drive!Tell(n)
    BY <2>5, <2>6 DEF StandsOK, Drive!Tell
  <2> QED BY <1>2, <2>7 DEF Drive!Next
<1> QED BY <1>6, <1>7, <1>8, <1>9, <1>10, <1>11

-----------------------------------------------------------------------------
(* Opening, closing, and names.                                            *)

\* The FCB a program opens a file by stands where the program puts it, and
\* cannot cut the file: a tidy program does not put it behind the last extent.
LEMMA OpenedStands ==
  ASSUME Tidy, NEW w \in Addresses, NEW n \in Names, NEW p \in Nat, NEW b \in Nat,
         MayOpen(w, n, p, b), OpenedFCB(w, n, p, b)
  PROVE  \E g \in FCBs : /\ g.open /\ g.name = n /\ fcb' = [fcb EXCEPT ![w] = g]
                         /\ g.cr < ExtentRecords /\ Posn(g) = p /\ Uncut(g, b)
<1>1. PICK r \in Nat \ {0}, e \in Nat \ {0} : r = RecordSize /\ e = ExtentRecords
  BY Sizes
<1>2. PICK a \in Nat : a = p * r
  OBVIOUS
<1>3. a \div RecordSize = p
  <2>1. a = p * r + 0 /\ 0 \in 0 .. r - 1
    BY <1>2
  <2>2. a \div r = p
    BY <2>1, Quotient
  <2> QED BY <1>1, <2>2
<1>4. PICK h \in FCBs : h = Filled(n, p) /\ h.name = n
  BY FilledIsFCB
<1>5. Posn(h) = p /\ SeqExt(h) = p \div ExtentRecords /\ h.cr < ExtentRecords
  <2>1. PICK f \in FCBs : f = [Empty EXCEPT !.name = n]
    BY DEF Empty, FCBs
  <2>2. h = At(f, a)
    BY <1>1, <1>2, <1>4, <2>1 DEF Filled
  <2> QED BY <1>3, <2>2, AtIsPosition
<1>6. PICK k : k = [h EXCEPT !.open = TRUE]
  OBVIOUS
<1>7. k \in FCBs /\ k.open /\ k.name = n /\ k.cr = h.cr /\ k.ex = h.ex /\ k.s2 = h.s2
  BY <1>4, <1>6 DEF FCBs
<1>8. PICK g : g = FixRC(k, b)
  OBVIOUS
<1>9. g \in FCBs /\ g.open /\ g.name = n /\ g.cr = h.cr /\ g.ex = h.ex /\ g.s2 = h.s2
  BY <1>7, <1>8, FixRCIsFCB
<1>10. Posn(g) = p /\ g.cr < ExtentRecords
  BY <1>5, <1>9 DEF Posn, SeqAddress, SeqExt
<1>11. PICK x \in Nat : x = SeqExt(k) /\ x = p \div ExtentRecords
  BY <1>5, <1>7, SeqAddressIsNat DEF SeqExt
<1>12. PICK d \in Nat \ {0} : d = ExtentBytes /\ d = r * e
  BY <1>1, Sizes DEF ExtentBytes
<1>13. PICK c \in Nat : c = RoundedUp(b) /\ c = b + r - 1
  BY <1>1, RecordsAreNat DEF RoundedUp
<1>14. PICK q \in Nat, s \in 0 .. d - 1 : q = c \div d /\ c = q * d + s
  <2>1. c \div d \in Nat /\ c % d \in 0 .. d - 1 /\ c = (c \div d) * d + (c % d)
    BY Divided
  <2> QED BY <2>1
<1>15. x <= q
  BY <1>11, <1>12, <1>13, <1>14 DEF MayOpen
<1>16. x * d <= c
  <2>1. x * d <= q * d
    <3>1. CASE x = q
      BY <3>1
    <3>2. CASE x < q
      <4>1. x * d + d <= q * d
        BY <3>2, Multiples
      <4> QED BY <4>1
    <3> QED BY <1>15, <3>1, <3>2
  <2>2. q * d \in Nat /\ x * d \in Nat
    BY Multiples
  <2> QED BY <1>14, <2>1, <2>2
<1>17. x * e <= Records(b)
  <2>1. PICK y \in Nat, m \in Nat : y = x * e /\ m = Records(b)
    BY Multiples, RecordsHold
  <2>2. m * r >= b /\ m * r \in Nat
    BY <1>1, <2>1, RecordsHold, Multiples
  <2>3. y * r = x * d /\ (m + 1) * r = m * r + r
    BY <1>12, <2>1
  <2>4. y * r < (m + 1) * r
    BY <1>13, <1>16, <2>2, <2>3
  <2>5. y < m + 1
    BY <2>4, Multiples
  <2> QED BY <2>1, <2>5
<1>18. Uncut(g, b)
  BY <1>1, <1>7, <1>8, <1>11, <1>17, FixedCutsNothing DEF Uncut
<1>19. fcb' = [fcb EXCEPT ![w] = g]
  BY <1>4, <1>6, <1>8 DEF OpenedFCB
<1> QED BY <1>9, <1>10, <1>18, <1>19

\* A FILE that does not move.
LEMMA SameStream ==
  ASSUME FilesOK, NEW w \in Addresses, fcb[w].open
  PROVE  stream = [stream EXCEPT ![table[Lookup(w, fcb[w].name)].fp] =
                     [file |-> stream[table[Lookup(w, fcb[w].name)].fp].file,
                      tell |-> stream[table[Lookup(w, fcb[w].name)].fp].tell]]
<1>1. PICK f : f = table[Lookup(w, fcb[w].name)].fp
  OBVIOUS
<1>2. f \in Streams /\ stream[f] \in Standing /\ stream \in [Streams -> {Closed} \cup Standing]
  BY <1>1, FileOfFCB DEF FilesOK, FilesTypeOK
<1>3. stream[f] = [file |-> stream[f].file, tell |-> stream[f].tell]
  BY <1>2 DEF Standing
<1>4. stream = [stream EXCEPT ![f] = [file |-> stream[f].file, tell |-> stream[f].tell]]
  BY <1>2, <1>3
<1> QED BY <1>1, <1>4

\* open15 of a name that is in the table: the FCB of the call is the one that
\* is open, and stands at p afterwards.
LEMMA OpenFoundMaps ==
  ASSUME Tidy, FilesOK, RcOK, FilesOK', refusing' = refusing, NEW w \in Addresses, NEW n \in Names, NEW p \in Nat,
         OpenFound(w, n, p)
  PROVE  RcOK' /\ Drive!Open(n, p)
<1>1. FilesTypeOK /\ TableOK /\ FcbsOK
  BY DEF FilesOK
<1>2. PICK i \in DOMAIN table :
        /\ Finds(w, n, i) /\ MayOpen(w, n, p, size[stream[table[i].fp].file])
        /\ table' = Moved(w, n) /\ OpenedFCB(w, n, p, size[stream[table[i].fp].file])
        /\ Succeeds(0)
        /\ UNCHANGED <<host, size, stream, running>>
  BY DEF OpenFound
<1>3. i = Lookup(w, n) /\ i \in InUse /\ table[i].name = n
  BY <1>1, <1>2, LookupIs DEF Finds
<1>4. fcb[w].open /\ fcb[w].name = n
  <2>1. PICK v \in Addresses : fcb[v].open /\ fcb[v].name = n
    BY <1>1, <1>3 DEF FcbsOK
  <2> QED BY <1>2, <2>1 DEF MayOpen
<1>5. PICK b \in Nat : b = size[host[fcb[w].name]] /\ b = size[stream[table[i].fp].file]
  BY <1>3, <1>4, FileOfFCB
<1>6. PICK g \in FCBs : /\ g.open /\ g.name = fcb[w].name /\ fcb' = [fcb EXCEPT ![w] = g]
                        /\ g.cr < ExtentRecords /\ Posn(g) = p /\ Uncut(g, b)
  BY <1>2, <1>4, <1>5, OpenedStands
<1>7. PICK t : t = stream[table[Lookup(w, fcb[w].name)].fp].tell
  OBVIOUS
<1>8. stream' = [stream EXCEPT ![table[Lookup(w, fcb[w].name)].fp] =
                   [file |-> stream[table[Lookup(w, fcb[w].name)].fp].file, tell |-> t]]
  BY <1>2, <1>4, <1>7, SameStream
<1>9. size' = [size EXCEPT ![host[fcb[w].name]] = b] /\ FileRecords' = FileRecords
  BY <1>2, <1>4, <1>5, SameSize DEF FileRecords
<1>10. table' = Moved(w, fcb[w].name) /\ host' = host
  BY <1>2, <1>4
<1>11. StandsOK(w, Posn(g), Records(t))
  BY <1>4, <1>6, <1>8, <1>9, <1>10, FoundMaps
<1>12. n \in DOMAIN FilePositions /\ n \in DOMAIN FileRecords
  BY <1>4, FileOfFCB DEF FilePositions, FileRecords
<1>13. FilePositions' = Drive!With(FilePositions, n, p)
  <2>1. FilePositions' = [FilePositions EXCEPT ![n] = p]
    BY <1>4, <1>6, <1>11 DEF StandsOK, Drive!Stands
  <2>2. PICK a : a = FilePositions /\ a = [k \in NamesInUse |-> a[k]]
    BY PositionsHere DEF PositionsAre
  <2> QED BY <1>12, <2>1, <2>2 DEF Drive!With
<1>14. FileTold' = FileTold
  <2>1. FileTold' = [FileTold EXCEPT ![n] = Records(t)]
    BY <1>4, <1>11 DEF StandsOK, Drive!Stands
  <2>2. FileTold[n] = Records(t)
    BY <1>3, <1>4, <1>7, ToldHere DEF ToldIs
  <2>3. PICK a : a = FileTold /\ a = [k \in NamesInUse |-> a[k]]
    BY ToldHere DEF ToldIs
  <2> QED BY <2>1, <2>2, <2>3
<1> QED BY <1>2, <1>9, <1>11, <1>12, <1>13, <1>14
        DEF StandsOK, Succeeds, Drive!Open, Drive!Opened, Drive!NoFile, Drive!IsOpen, Drive!Succeeds

\* A file that is opened anew: it stands at p, and its FILE at the start.
LEMMA OpenFileMaps ==
  ASSUME Tidy, FilesOK, RcOK, FilesOK', refusing' = refusing, NEW w \in Addresses, NEW n \in Names, NEW p \in Nat,
         NEW inode \in Inodes, NEW b \in Nat,
         (n \in DOMAIN host /\ inode = host[n]) \/ (n \notin DOMAIN host /\ inode \notin Range(host)),
         OpenFile(w, n, p, inode, b), ~ NoRoom(w)
  PROVE  /\ RcOK' /\ Drive!Opened(n, p) /\ ~ Drive!IsOpen(n)
         /\ FileRecords' = Drive!With(FileRecords, n, Records(b))
<1>1. FilesTypeOK /\ TableOK /\ FcbsOK
  BY DEF FilesOK
<1>2. \A i \in InUse : table[i].name # n
  BY <1>1, LookupIs DEF OpenFile
<1>3. /\ \A i \in InUse : table[i].where # w
      /\ \A v \in Addresses : fcb[v].open => (v = w <=> fcb[v].name = n)
  BY <1>2 DEF OpenFile, MayOpen, Vacant
<1>4. ~ fcb[w].open
  BY <1>1, <1>2, <1>3 DEF FcbsOK
<1>5. PICK f \in Streams :
        /\ ~ Opens(f) /\ stream' = [stream EXCEPT ![f] = [file |-> inode, tell |-> 0]]
        /\ table' = Stored(w, n, f) /\ host' = Linked(host, n, inode)
        /\ size' = [size EXCEPT ![inode] = b] /\ OpenedFCB(w, n, p, b)
        /\ MayOpen(w, n, p, b) /\ Succeeds(0)
  BY DEF OpenFile
<1>6. PICK i \in Nat :
        /\ i \notin InUse
        /\ {j \in DOMAIN table' : table'[j].where # Free} = InUse \cup {i}
        /\ table'[i] = [fp |-> f, where |-> w, name |-> n]
        /\ \A j \in InUse : table'[j] = table[j]
  BY <1>1, <1>3, <1>5, StoredIs
<1>7. InUse' = InUse \cup {i} /\ table'[i].fp = f /\ table'[i].name = n
  BY <1>6 DEF InUse
<1>8. NamesInUse' = NamesInUse \cup {n} /\ n \notin NamesInUse
  BY <1>2, <1>6, <1>7 DEF NamesInUse
<1>9. PICK g \in FCBs : /\ g.open /\ g.name = n /\ fcb' = [fcb EXCEPT ![w] = g]
                        /\ g.cr < ExtentRecords /\ Posn(g) = p /\ Uncut(g, b)
  BY <1>5, OpenedStands
<1>10. fcb'[w] = g /\ \A v \in Addresses : v # w => fcb'[v] = fcb[v]
  BY <1>1, <1>9 DEF FilesTypeOK
<1>11. /\ DOMAIN host' = DOMAIN host \cup {n}
       /\ host'[n] = inode /\ \A m \in DOMAIN host : host'[m] = host[m]
       /\ \A l, m \in DOMAIN host' : host'[l] = host'[m] => l = m
  BY <1>1, <1>5, LinkedIs
<1>12. /\ size'[inode] = b /\ \A k \in Inodes : k # inode => size'[k] = size[k]
  BY <1>1, <1>5 DEF FilesTypeOK
<1>13. \A m \in DOMAIN host : m # n => size'[host'[m]] = size[host[m]]
  BY <1>1, <1>11, <1>12 DEF FilesTypeOK
<1>14. RcOK'
  <2>1. size'[host'[g.name]] = b
    BY <1>9, <1>11, <1>12
  <2>2. ASSUME NEW v \in Addresses, v # w, fcb[v].open
        PROVE  size'[host'[fcb[v].name]] = size[host[fcb[v].name]]
    <3>1. fcb[v].name # n /\ fcb[v].name \in DOMAIN host
      BY <1>3, <2>2, FileOfFCB
    <3> QED BY <1>13, <3>1
  <2> QED BY <1>9, <2>1, <2>2, RcKept
<1>15. FileRecords' = Drive!With(FileRecords, n, Records(b))
  <2>1. FileRecords' = [m \in DOMAIN host \cup {n} |-> Records(size'[host'[m]])]
    BY <1>11 DEF FileRecords
  <2>2. PICK a : a = FileRecords /\ DOMAIN a = DOMAIN host /\ \A m \in DOMAIN host : a[m] = Records(size[host[m]])
    <3>1. PICK a : a = FileRecords
      OBVIOUS
    <3>2. a = [m \in DOMAIN host |-> Records(size[host[m]])]
      BY <3>1 DEF FileRecords
    <3> QED BY <3>1, <3>2
  <2>3. \A m \in DOMAIN host \cup {n} : Records(size'[host'[m]]) = IF m = n THEN Records(b) ELSE a[m]
    BY <1>11, <1>12, <1>13, <2>2
  <2> QED BY <2>1, <2>2, <2>3 DEF Drive!With
<1>16. FilePositions' = Drive!With(FilePositions, n, p)
  <2>1. PositionsAre /\ PositionsAre'
    BY PositionsHere, PositionsThen
  <2>2. PICK a, c : a = FilePositions /\ c = FilePositions'
    OBVIOUS
  <2>3. DOMAIN a = NamesInUse /\ c = [m \in NamesInUse \cup {n} |-> c[m]]
    BY <1>8, <2>1, <2>2 DEF PositionsAre
  <2>4. \A v \in Addresses : fcb'[v].open => c[fcb'[v].name] = Posn(fcb'[v])
    BY <2>1, <2>2 DEF PositionsAre
  <2>5. c[n] = p
    BY <1>9, <1>10, <2>4
  <2>6. ASSUME NEW m \in NamesInUse PROVE c[m] = a[m] /\ m # n
    <3>1. PICK v \in Addresses : fcb[v].open /\ fcb[v].name = m
      BY <2>1 DEF PositionsAre
    <3>2. fcb'[v] = fcb[v]
      BY <1>4, <1>10, <3>1
    <3>3. c[m] = Posn(fcb[v])
      BY <2>4, <3>1, <3>2
    <3>4. a[m] = Posn(fcb[v])
      BY <2>1, <2>2, <3>1 DEF PositionsAre
    <3> QED BY <1>8, <3>3, <3>4
  <2>7. c = [m \in NamesInUse \cup {n} |-> IF m = n THEN p ELSE a[m]]
    BY <2>3, <2>5, <2>6
  <2> QED BY <2>2, <2>3, <2>7 DEF Drive!With
<1>17. FileTold' = Drive!With(FileTold, n, 0)
  <2>1. ToldIs /\ ToldIs'
    BY ToldHere, ToldThen
  <2>2. PICK a, c : a = FileTold /\ c = FileTold'
    OBVIOUS
  <2>3. DOMAIN a = NamesInUse /\ c = [m \in NamesInUse \cup {n} |-> c[m]]
    BY <1>8, <2>1, <2>2 DEF ToldIs
  <2>4. \A j \in InUse \cup {i} : c[table'[j].name] = Records(stream'[table'[j].fp].tell)
    BY <1>7, <2>1, <2>2 DEF ToldIs
  <2>5. stream'[f].tell = 0 /\ \A s \in Streams : s # f => stream'[s] = stream[s]
    BY <1>1, <1>5 DEF FilesTypeOK
  <2>6. c[n] = 0
    <3>1. c[n] = Records(0)
      BY <1>7, <2>4, <2>5
    <3>2. 0 * RecordSize = 0
      BY Sizes
    <3> QED BY <3>1, <3>2, WholeRecords
  <2>7. ASSUME NEW m \in NamesInUse PROVE c[m] = a[m] /\ m # n
    <3>1. PICK j \in InUse : table[j].name = m
      BY DEF NamesInUse
    <3>2. table'[j] = table[j] /\ table[j].fp \in Streams
      BY <1>1, <1>6, <3>1, EntryInUse
    <3>3. table[j].fp # f
      BY <1>1, <1>5, <3>1, EntryInUse DEF Opens
    <3>4. c[m] = Records(stream[table[j].fp].tell)
      BY <2>4, <2>5, <3>1, <3>2, <3>3
    <3>5. a[m] = Records(stream[table[j].fp].tell)
      BY <2>1, <2>2, <3>1 DEF ToldIs
    <3> QED BY <1>8, <3>4, <3>5
  <2>8. c = [m \in NamesInUse \cup {n} |-> IF m = n THEN 0 ELSE a[m]]
    BY <2>3, <2>6, <2>7
  <2> QED BY <2>2, <2>3, <2>8 DEF Drive!With
<1>18. ~ Drive!IsOpen(n)
  BY <1>8 DEF Drive!IsOpen, FilePositions
<1> QED BY <1>5, <1>14, <1>15, <1>16, <1>17, <1>18
        DEF Succeeds, Drive!Opened, Drive!Succeeds

\* FCBs move, and those are forgotten that hold no file.
LEMMA SamePositions ==
  ASSUME FilesOK, FilesOK', NamesInUse' = NamesInUse,
         \A v \in Addresses : fcb'[v].open =>
           \E u \in Addresses : fcb[u].open /\ fcb[u] = fcb'[v]
  PROVE  FilePositions' = FilePositions
<1>1. PositionsAre /\ PositionsAre'
  BY PositionsHere, PositionsThen
<1>2. PICK a, c : a = FilePositions /\ c = FilePositions'
  OBVIOUS
<1>3. a = [m \in NamesInUse |-> a[m]] /\ c = [m \in NamesInUse |-> c[m]]
  BY <1>1, <1>2 DEF PositionsAre
<1>4. ASSUME NEW m \in NamesInUse PROVE c[m] = a[m]
  <2>1. PICK v \in Addresses : fcb'[v].open /\ fcb'[v].name = m
    BY <1>1 DEF PositionsAre
  <2>2. PICK u \in Addresses : fcb[u].open /\ fcb[u] = fcb'[v]
    BY <2>1
  <2>3. c[m] = Posn(fcb'[v])
    BY <1>1, <1>2, <2>1 DEF PositionsAre
  <2>4. a[m] = Posn(fcb[u])
    BY <1>1, <1>2, <2>1, <2>2 DEF PositionsAre
  <2> QED BY <2>2, <2>3, <2>4
<1>5. c = a
  BY <1>3, <1>4
<1> QED BY <1>2, <1>5

\* Files nothing happens to.
LEMMA SameDrive ==
  ASSUME FilesOK, UNCHANGED <<host, size, stream, table, fcb>>
  PROVE  FileRecords' = FileRecords /\ FilePositions' = FilePositions /\ FileTold' = FileTold
<1>1. InUse' = InUse
  BY DEF InUse
<1>2. NamesInUse' = NamesInUse
  BY <1>1 DEF NamesInUse
<1>3. FileRecords' = FileRecords
  BY DEF FileRecords
<1>4. FilePositions' = FilePositions
  BY <1>2 DEF FilePositions, FcbOf, SeqAddress, SeqExt
<1>5. FileTold' = FileTold
  BY <1>1, <1>2 DEF FileTold, StreamOf, Named
<1> QED BY <1>3, <1>4, <1>5

\* Where no FILE moves, no file is told another position.
LEMMA SameTold ==
  ASSUME UNCHANGED <<stream, table>>
  PROVE  FileTold' = FileTold /\ InUse' = InUse /\ NamesInUse' = NamesInUse
<1>1. InUse' = InUse
  BY DEF InUse
<1>2. NamesInUse' = NamesInUse
  BY <1>1 DEF NamesInUse
<1>3. FileTold' = FileTold
  BY <1>1, <1>2 DEF FileTold, StreamOf, Named
<1> QED BY <1>1, <1>2, <1>3

\* A program that is told a file is not there: nothing else happens.
LEMMA UnopenedMaps ==
  ASSUME Tidy, FilesOK, RcOK, FilesOK', refusing' = refusing,
         NEW w \in Addresses, NEW n \in Names, NEW p \in Nat,
         NotThere(w, n, p) \/ NotAFile(w, n, p)
  PROVE  RcOK' /\ (Drive!Refused \/ UNCHANGED Drive!cvars)
<1>1. CASE NotAFile(w, n, p) /\ NoRoom(w)
  <2>1. UNCHANGED <<host, size, stream, table, fcb, result>>
    BY <1>1 DEF NotAFile, Exits
  <2>2. RcOK'
    BY <2>1 DEF RcOK, Uncut, CutsNothing, SeqExt
  <2> QED BY <2>1, <2>2, SameDrive DEF Drive!cvars
<1>2. CASE NotThere(w, n, p) \/ (NotAFile(w, n, p) /\ ~ NoRoom(w))
  <2>1. /\ Lookup(w, n) = 0 /\ MayOpen(w, n, p, 0) /\ Fails
        /\ fcb' = [fcb EXCEPT ![w] = Empty] /\ UNCHANGED <<host, size, stream>>
        /\ table' \in Seq(Entries) /\ InUse' = InUse /\ \A i \in InUse : table'[i] = table[i]
    BY <1>2, UnopenedIs
  <2>2. \A v \in Addresses : fcb'[v].open => v # w /\ fcb'[v] = fcb[v]
    BY <2>1, UnopenedOK
  <2>3. RcOK'
    <3>1. ~ Empty.open
      BY DEF Empty
    <3> QED BY <2>1, <3>1, RcKept
  <2>4. NamesInUse' = NamesInUse
    BY <2>1 DEF NamesInUse
  <2>5. FilePositions' = FilePositions
    BY <2>2, <2>4, SamePositions
  <2>6. FileTold' = FileTold
    <3>1. ToldIs /\ ToldIs'
      BY ToldHere, ToldThen
    <3>2. PICK a, c : a = FileTold /\ c = FileTold'
      OBVIOUS
    <3>3. a = [m \in NamesInUse |-> a[m]] /\ c = [m \in NamesInUse |-> c[m]]
      BY <2>4, <3>1, <3>2 DEF ToldIs
    <3>4. ASSUME NEW m \in NamesInUse PROVE c[m] = a[m]
      <4>1. PICK i \in InUse : table[i].name = m /\ table'[i] = table[i] /\ i \in InUse'
        BY <2>1 DEF NamesInUse
      <4>2. c[table'[i].name] = Records(stream'[table'[i].fp].tell)
        BY <3>1, <3>2, <4>1 DEF ToldIs
      <4>3. a[table[i].name] = Records(stream[table[i].fp].tell)
        BY <3>1, <3>2 DEF ToldIs
      <4> QED BY <2>1, <4>1, <4>2, <4>3
    <3>5. c = a
      BY <3>3, <3>4
    <3> QED BY <3>2, <3>5
  <2>7. FileRecords' = FileRecords
    BY <2>1 DEF FileRecords
  <2> QED BY <2>1, <2>3, <2>5, <2>6, <2>7 DEF Fails, Drive!Refused, Drive!Fails
<1> QED BY <1>1, <1>2

\* Opening a file puts it where the FCB is.
LEMMA OpenMaps ==
  ASSUME Tidy, FilesOK, RcOK, FilesOK', refusing' = refusing, NEW w \in Addresses, NEW n \in Names, NEW p \in Nat,
         Open(w, n, p)
  PROVE  RcOK' /\ (Drive!Open(n, p) \/ Drive!Refused \/ UNCHANGED Drive!cvars)
<1>1. FilesTypeOK /\ TableOK /\ FcbsOK
  BY DEF FilesOK
<1>2. CASE OpenFound(w, n, p)
  BY <1>2, OpenFoundMaps
<1>3. CASE n \in DOMAIN host /\ OpenFile(w, n, p, host[n], size[host[n]])
  <2>1. PICK inode \in Inodes : inode = host[n]
    BY <1>1, <1>3 DEF FilesTypeOK
  <2>2. size[inode] \in Nat
    BY <1>1 DEF FilesTypeOK
  <2>3. PICK b \in Nat : b = size[inode]
    BY <2>2
  <2>4. OpenFile(w, n, p, inode, b)
    BY <1>3, <2>1, <2>3
  <2>5. (n \in DOMAIN host /\ inode = host[n]) \/ (n \notin DOMAIN host /\ inode \notin Range(host))
    BY <1>3, <2>1
  <2>6. CASE NoRoom(w)
    <3>1. UNCHANGED <<host, size, stream, table, fcb, result>>
      BY <2>4, <2>6 DEF OpenFile, Exits
    <3>2. RcOK'
      BY <3>1 DEF RcOK, Uncut, CutsNothing, SeqExt
    <3> QED BY <3>1, <3>2, SameDrive DEF Drive!cvars
  <2>7. CASE ~ NoRoom(w)
    <3>1. RcOK' /\ Drive!Opened(n, p)
      BY <2>4, <2>5, <2>7, OpenFileMaps
    <3>2. FileRecords' = Drive!With(FileRecords, n, Records(b))
      BY <2>4, <2>5, <2>7, OpenFileMaps
    <3>3. n \in DOMAIN FileRecords /\ FileRecords' = FileRecords
      <4>1. PICK a : a = FileRecords
        OBVIOUS
      <4>2. a = [m \in DOMAIN host |-> Records(size[host[m]])]
        BY <4>1 DEF FileRecords
      <4>3. a[n] = Records(b) /\ n \in DOMAIN a /\ a = [m \in DOMAIN a |-> a[m]]
        BY <1>3, <2>1, <2>3, <4>2
      <4>4. Drive!With(a, n, Records(b)) = a
        BY <4>3 DEF Drive!With
      <4> QED BY <3>2, <4>1, <4>3, <4>4
    <3> QED BY <3>1, <3>3 DEF Drive!Open, Drive!NoFile
  <2> QED BY <2>6, <2>7
<1>4. CASE NotThere(w, n, p) \/ NotAFile(w, n, p)
  BY <1>4, UnopenedMaps
<1> QED BY <1>2, <1>3, <1>4 DEF Open

\* Making a file gives an empty one.
LEMMA MakeMaps ==
  ASSUME Tidy, FilesOK, RcOK, FilesOK', refusing' = refusing, NEW w \in Addresses, NEW n \in Names, NEW p \in Nat,
         Make(w, n, p)
  PROVE  RcOK' /\ (Drive!Make(n, p) \/ Drive!Refused \/ UNCHANGED Drive!cvars)
<1>1. FilesTypeOK
  BY DEF FilesOK
<1>2. ASSUME NEW inode \in Inodes, OpenFile(w, n, p, inode, 0),
             (n \in DOMAIN host /\ inode = host[n]) \/ (n \notin DOMAIN host /\ inode \notin Range(host))
      PROVE  RcOK' /\ (Drive!Make(n, p) \/ Drive!Refused \/ UNCHANGED Drive!cvars)
  <2>1. CASE NoRoom(w)
    <3>1. UNCHANGED <<host, size, stream, table, fcb, result>>
      BY <1>2, <2>1 DEF OpenFile, Exits
    <3>2. RcOK'
      BY <3>1 DEF RcOK, Uncut, CutsNothing, SeqExt
    <3> QED BY <3>1, <3>2, SameDrive DEF Drive!cvars
  <2>2. CASE ~ NoRoom(w)
    <3>1. RcOK' /\ Drive!Opened(n, p) /\ ~ Drive!IsOpen(n)
      BY <1>2, <2>2, OpenFileMaps
    <3>2. FileRecords' = Drive!With(FileRecords, n, Records(0))
      BY <1>2, <2>2, OpenFileMaps
    <3>3. Records(0) = 0
      <4>1. 0 * RecordSize = 0
        BY Sizes
      <4> QED BY <4>1, WholeRecords
    <3> QED BY <3>1, <3>2, <3>3 DEF Drive!Make
  <2> QED BY <2>1, <2>2
<1>3. CASE n \in DOMAIN host /\ OpenFile(w, n, p, host[n], 0)
  <2>1. PICK inode \in Inodes : inode = host[n]
    BY <1>1, <1>3 DEF FilesTypeOK
  <2> QED BY <1>2, <1>3, <2>1
<1>4. CASE n \notin DOMAIN host /\ NewInodes # {} /\ OpenFile(w, n, p, Min(NewInodes), 0)
  <2>1. NewInodes \in SUBSET Nat
    BY FilesAssumption DEF NewInodes
  <2>2. PICK inode \in NewInodes : inode = Min(NewInodes)
    BY <1>4, <2>1, MinIsLeast
  <2>3. inode \in Inodes /\ inode \notin Range(host)
    BY DEF NewInodes
  <2> QED BY <1>2, <1>4, <2>2, <2>3
<1>5. CASE NotThere(w, n, p) \/ NotAFile(w, n, p)
  BY <1>5, UnopenedMaps
<1> QED BY <1>3, <1>4, <1>5 DEF Make

\* close16: RC cuts nothing, whatever the program did in between, unless the host
\* refused.
LEMMA CloseMaps ==
  ASSUME Tidy, FilesOK, RcOK, FilesOK', refusing' = refusing, NEW w \in Addresses, Close(w)
  PROVE  RcOK' /\ Drive!Next
<1>1. FilesTypeOK /\ TableOK /\ FcbsOK
  BY DEF FilesOK
<1>2. CASE Fails /\ UNCHANGED <<host, size, stream, table, fcb, running>>
  <2>1. RcOK'
    BY <1>2 DEF RcOK, Uncut, CutsNothing, SeqExt
  <2>2. Drive!Refused
    BY <1>2, SameDrive DEF Fails, Drive!Refused, Drive!Fails
  <2> QED BY <2>1, <2>2 DEF Drive!Next
<1>3. ASSUME MayUse(w), NEW i \in DOMAIN table, Finds(w, fcb[w].name, i),
             size' = [size EXCEPT ![stream[table[i].fp].file] = KeptBytes(fcb[w], @)],
             table' = Deleted(Moved(w, fcb[w].name), w),
             stream' = [stream EXCEPT ![table[i].fp] = Closed],
             fcb' = [fcb EXCEPT ![w] = Left([@ EXCEPT !.open = FALSE])],
             Succeeds(0),
             UNCHANGED <<host, running>>
      PROVE  RcOK' /\ Drive!Next
  <2>1. fcb[w].open
    BY <1>3 DEF MayUse
  <2>2. PICK n \in Names : n = fcb[w].name
    BY <2>1, OpenFinds
  <2>3. /\ i = Lookup(w, fcb[w].name) /\ i \in InUse /\ table[i].name = n
        /\ stream[table[i].fp].file = host[n] /\ table[i].fp \in Streams
        /\ n \in NamesInUse /\ fcb[w] \in FCBs
    BY <1>3, <2>1, <2>2, OpenFinds, FileOfFCB DEF Finds
  <2>4. /\ InUse' = InUse \ {i} /\ InUse \subseteq DOMAIN table
        /\ \A j \in DOMAIN table : j # i => table'[j] = table[j]
    BY <1>3, <2>1, <2>3, DeletedIs
  <2>5. \A j \in InUse : j # i => table[j].name # n /\ table[j].fp # table[i].fp
    BY <1>1, <2>3 DEF TableOK
  <2>6. NamesInUse' = NamesInUse \ {n}
    BY <2>3, <2>4, <2>5 DEF NamesInUse
  <2>7. PICK b \in Nat, k \in Nat :
          /\ b = size[host[n]] /\ k = KeptBytes(fcb[w], b) /\ k <= b
          /\ size' = [size EXCEPT ![host[n]] = k] /\ (refusing \/ k = b)
    <3>1. PICK b \in Nat : b = size[host[fcb[w].name]] /\ Uncut(fcb[w], b)
      BY <2>1, FileOfFCB DEF RcOK
    <3>2. PICK k : k = KeptBytes(fcb[w], b)
      OBVIOUS
    <3>3. k \in Nat /\ k <= b
      BY <2>3, <3>2, KeptBytesIsNat, KeptBytesCuts
    <3>4. refusing \/ k = b
      BY <2>3, <3>1, <3>2, NothingIsCut DEF Uncut
    <3>5. size' = [size EXCEPT ![host[n]] = k]
      BY <1>1, <1>3, <2>2, <2>3, <3>1, <3>2 DEF FilesTypeOK
    <3> QED BY <2>2, <3>1, <3>2, <3>3, <3>4, <3>5
  <2>8. fcb' = [fcb EXCEPT ![w] = Empty] /\ ~ Empty.open
    BY <1>3 DEF Left, Empty
  <2>9. RcOK'
    <3>1. \A v \in Addresses : v # w /\ fcb[v].open =>
            fcb[v].name \in DOMAIN host /\ host[fcb[v].name] # host[fcb[w].name]
      BY <2>1, FileOfFCB
    <3>2. size \in [Inodes -> Nat] /\ host \in [DOMAIN host -> Inodes]
      BY <1>1 DEF FilesTypeOK
    <3>3. \A v \in Addresses : v # w /\ fcb[v].open => size'[host'[fcb[v].name]] = size[host[fcb[v].name]]
      BY <1>3, <2>2, <2>7, <3>1, <3>2
    <3> QED BY <2>8, <3>3, RcKept
  <2>10. \/ FileRecords' = FileRecords
         \/ refusing /\ \E m \in 0 .. FileRecords[n] : FileRecords' = [FileRecords EXCEPT ![n] = m]
    <3>1. n \in DOMAIN host /\ FileRecords[n] = Records(b)
      BY <2>1, <2>2, <2>7, FileOfFCB
    <3>2. FileRecords' = [FileRecords EXCEPT ![n] = Records(k)]
      BY <1>3, <2>7, <3>1, NewRecords
    <3>3. PICK m \in Nat, l \in Nat : m = Records(k) /\ l = Records(b) /\ m <= l
      BY <2>7, RecordsHold, MoreRecords
    <3>4. CASE refusing
      <4>1. m \in 0 .. FileRecords[n]
        BY <3>1, <3>3, <2>7
      <4>2. FileRecords' = [FileRecords EXCEPT ![n] = m]
        BY <3>2, <3>3
      <4> QED BY <3>4, <4>1, <4>2
    <3>5. CASE k = b
      <4>1. PICK a : a = FileRecords /\ a = [j \in DOMAIN host |-> a[j]]
        BY DEF FileRecords
      <4> QED BY <3>1, <3>2, <3>5, <4>1
    <3> QED BY <2>7, <3>4, <3>5
  <2>11. FilePositions' = Drive!Without(FilePositions, n)
    <3>1. PositionsAre /\ PositionsAre'
      BY PositionsHere, PositionsThen
    <3>2. PICK a, c : a = FilePositions /\ c = FilePositions'
      OBVIOUS
    <3>3. DOMAIN a = NamesInUse /\ c = [m \in NamesInUse \ {n} |-> c[m]]
      BY <2>6, <3>1, <3>2 DEF PositionsAre
    <3>4. ASSUME NEW m \in NamesInUse \ {n} PROVE c[m] = a[m]
      <4>1. PICK v \in Addresses : fcb[v].open /\ fcb[v].name = m
        BY <3>1 DEF PositionsAre
      <4>2. fcb'[v] = fcb[v]
        BY <1>1, <2>2, <2>8, <4>1 DEF FilesTypeOK
      <4>3. c[fcb'[v].name] = Posn(fcb'[v])
        BY <3>1, <3>2, <4>1, <4>2 DEF PositionsAre
      <4>4. a[m] = Posn(fcb[v])
        BY <3>1, <3>2, <4>1 DEF PositionsAre
      <4> QED BY <4>1, <4>2, <4>3, <4>4
    <3>5. c = [m \in NamesInUse \ {n} |-> a[m]]
      BY <3>3, <3>4
    <3> QED BY <3>2, <3>3, <3>5 DEF Drive!Without
  <2>12. FileTold' = Drive!Without(FileTold, n)
    <3>1. ToldIs /\ ToldIs'
      BY ToldHere, ToldThen
    <3>2. PICK a, c : a = FileTold /\ c = FileTold'
      OBVIOUS
    <3>3. DOMAIN a = NamesInUse /\ c = [m \in NamesInUse \ {n} |-> c[m]]
      BY <2>6, <3>1, <3>2 DEF ToldIs
    <3>4. \A j \in InUse \ {i} : c[table'[j].name] = Records(stream'[table'[j].fp].tell)
      BY <2>4, <3>1, <3>2 DEF ToldIs
    <3>5. ASSUME NEW m \in NamesInUse \ {n} PROVE c[m] = a[m]
      <4>1. PICK j \in InUse : table[j].name = m
        BY DEF NamesInUse
      <4>2. j # i /\ table'[j] = table[j] /\ table[j].fp # table[i].fp /\ table[j].fp \in Streams
        BY <1>1, <2>3, <2>4, <2>5, <4>1, EntryInUse
      <4>3. stream'[table[j].fp] = stream[table[j].fp]
        BY <1>1, <1>3, <2>3, <4>2 DEF FilesTypeOK
      <4>4. c[m] = Records(stream[table[j].fp].tell)
        BY <3>4, <4>1, <4>2, <4>3
      <4>5. a[m] = Records(stream[table[j].fp].tell)
        BY <3>1, <3>2, <4>1 DEF ToldIs
      <4> QED BY <4>4, <4>5
    <3>6. c = [m \in NamesInUse \ {n} |-> a[m]]
      BY <3>3, <3>5
    <3> QED BY <3>2, <3>3, <3>6 DEF Drive!Without
  <2>13. n \in DOMAIN FilePositions
    BY <2>3 DEF FilePositions
  <2>14. Drive!Close(n)
    BY <1>3, <2>10, <2>11, <2>12, <2>13 DEF Succeeds, Drive!Close, Drive!IsOpen, Drive!Succeeds
  <2> QED BY <2>2, <2>9, <2>14 DEF Drive!Next
<1>4. CASE \E i \in DOMAIN table :
        /\ MayUse(w) /\ Finds(w, fcb[w].name, i)
        /\ size' = [size EXCEPT ![stream[table[i].fp].file] = KeptBytes(fcb[w], @)]
        /\ table' = Deleted(Moved(w, fcb[w].name), w)
        /\ stream' = [stream EXCEPT ![table[i].fp] = Closed]
        /\ fcb' = [fcb EXCEPT ![w] = Left([@ EXCEPT !.open = FALSE])]
        /\ Succeeds(0)
        /\ UNCHANGED <<host, running>>
  BY <1>3, <1>4
<1> QED BY <1>2, <1>4 DEF Close

\* A name no program has a file open by.
LEMMA DroppedIsNotOpen ==
  ASSUME Tidy, FilesOK, NEW n \in Names, MayDrop(n)
  PROVE  ~ Drive!IsOpen(n) /\ \A w \in Addresses : fcb[w].open => fcb[w].name # n
<1>1. \A w \in Addresses : fcb[w].open => fcb[w].name # n
  BY DEF MayDrop
<1>2. \A i \in InUse : table[i].name # n
  BY DroppedIsClosed
<1>3. n \notin NamesInUse
  BY <1>2 DEF NamesInUse
<1> QED BY <1>1, <1>3 DEF Drive!IsOpen, FilePositions

\* Deleting takes a file away.
LEMMA DeleteMaps ==
  ASSUME Tidy, FilesOK, RcOK, FilesOK', refusing' = refusing, NEW n \in Names, Delete(n)
  PROVE  RcOK' /\ Drive!Delete(n)
<1>1. host' = [m \in DOMAIN host \ {n} |-> host[m]] /\ UNCHANGED <<stream, table, fcb>> /\ Succeeds(0)
  BY DEF Delete
<1>2. \A m \in DOMAIN host' : size'[host'[m]] = size[host'[m]]
  BY FreedIs DEF FilesOK, FilesTypeOK, Delete
<1>3. ~ Drive!IsOpen(n) /\ \A w \in Addresses : fcb[w].open => fcb[w].name # n
  BY DroppedIsNotOpen DEF Delete
<1>4. FileTold' = FileTold /\ NamesInUse' = NamesInUse
  BY <1>1, SameTold
<1>5. FilePositions' = FilePositions
  BY <1>1, <1>4, SamePositions
<1>6. FileRecords' = Drive!Without(FileRecords, n)
  <2>1. PICK a : a = FileRecords
    OBVIOUS
  <2>2. a = [m \in DOMAIN host |-> Records(size[host[m]])]
    BY <2>1 DEF FileRecords
  <2>3. FileRecords' = [m \in DOMAIN host \ {n} |-> Records(size[host[m]])]
    BY <1>1, <1>2 DEF FileRecords
  <2>4. FileRecords' = [m \in DOMAIN a \ {n} |-> a[m]]
    BY <2>2, <2>3
  <2> QED BY <2>1, <2>4 DEF Drive!Without
<1>7. RcOK'
  <2>1. ASSUME NEW w \in Addresses, fcb[w].open
        PROVE  host'[fcb[w].name] = host[fcb[w].name] /\ size'[host[fcb[w].name]] = size[host[fcb[w].name]]
    BY <1>1, <1>3, <1>2, <2>1, FileOfFCB
  <2> QED BY <1>1, <2>1 DEF RcOK, Uncut, CutsNothing, SeqExt
<1> QED BY <1>1, <1>3, <1>4, <1>5, <1>6, <1>7 DEF Succeeds, Drive!Delete, Drive!Succeeds

\* Renaming gives its records another name.
LEMMA RenameMaps ==
  ASSUME Tidy, FilesOK, RcOK, FilesOK', refusing' = refusing, NEW m \in Names, NEW n \in Names, Rename(m, n)
  PROVE  RcOK' /\ Drive!Rename(m, n)
<1>1. UNCHANGED <<stream, table, fcb>> /\ Succeeds(0)
  BY DEF Rename
<1>2. \A k \in DOMAIN host' : size'[host'[k]] = size[host'[k]]
  BY FreedIs DEF FilesOK, FilesTypeOK, Rename
<1>3. /\ ~ Drive!IsOpen(m) /\ \A w \in Addresses : fcb[w].open => fcb[w].name # m
  BY DroppedIsNotOpen DEF Rename
<1>4. /\ ~ Drive!IsOpen(n) /\ \A w \in Addresses : fcb[w].open => fcb[w].name # n
  BY DroppedIsNotOpen DEF Rename
<1>5. FileTold' = FileTold /\ NamesInUse' = NamesInUse
  BY <1>1, SameTold
<1>6. FilePositions' = FilePositions
  BY <1>1, <1>5, SamePositions
<1>7. PICK a : a = FileRecords
  OBVIOUS
<1>8. a = [k \in DOMAIN host |-> Records(size[host[k]])]
  BY <1>7 DEF FileRecords
<1>9. CASE m = n \/ m \notin DOMAIN host
  <2>1. host' = host
    BY <1>9 DEF Rename
  <2>2. FileRecords' = FileRecords
    BY <1>1, <1>2, <2>1 DEF FileRecords
  <2>3. m = n \/ m \notin DOMAIN FileRecords
    BY <1>7, <1>8, <1>9
  <2>4. RcOK'
    <3>1. ASSUME NEW w \in Addresses, fcb[w].open
          PROVE  size'[host[fcb[w].name]] = size[host[fcb[w].name]]
      BY <1>2, <2>1, <3>1, FileOfFCB
    <3> QED BY <1>1, <2>1, <3>1 DEF RcOK, Uncut, CutsNothing, SeqExt
  <2> QED BY <1>1, <1>3, <1>4, <1>5, <1>6, <2>2, <2>3, <2>4
          DEF Succeeds, Drive!Rename, Drive!NoFile, Drive!Succeeds
<1>10. CASE ~ (m = n \/ m \notin DOMAIN host)
  <2>1. PICK h : h = [k \in DOMAIN host \ {m} |-> host[k]]
    OBVIOUS
  <2>2. host' = [k \in DOMAIN h \cup {n} |-> IF k = n THEN host[m] ELSE h[k]]
    BY <1>10, <2>1 DEF Rename, Linked
  <2>3. /\ DOMAIN host' = (DOMAIN host \ {m}) \cup {n}
        /\ host'[n] = host[m] /\ \A k \in DOMAIN host \ {m, n} : host'[k] = host[k]
    BY <2>1, <2>2
  <2>4. FileRecords' = [k \in (DOMAIN host \ {m}) \cup {n} |-> Records(size[host'[k]])]
    BY <1>1, <1>2, <2>3 DEF FileRecords
  <2>5. \A k \in (DOMAIN host \ {m}) \cup {n} : Records(size[host'[k]]) = IF k = n THEN a[m] ELSE a[k]
    BY <1>8, <1>10, <2>3
  <2>6. FileRecords' = [k \in (DOMAIN a \ {m}) \cup {n} |-> IF k = n THEN a[m] ELSE a[k]]
    BY <1>8, <2>4, <2>5
  <2>7. PICK c : c = [k \in DOMAIN a \ {m} |-> a[k]]
    OBVIOUS
  <2>8. FileRecords' = [k \in DOMAIN c \cup {n} |-> IF k = n THEN a[m] ELSE c[k]]
    BY <2>6, <2>7
  <2>9. FileRecords' = Drive!With(Drive!Without(FileRecords, m), n, FileRecords[m])
    BY <1>7, <2>7, <2>8 DEF Drive!With, Drive!Without
  <2>10. m # n /\ m \in DOMAIN FileRecords
    BY <1>7, <1>8, <1>10
  <2>11. RcOK'
    <3>1. ASSUME NEW w \in Addresses, fcb[w].open
          PROVE  host'[fcb[w].name] = host[fcb[w].name] /\ size'[host[fcb[w].name]] = size[host[fcb[w].name]]
      BY <1>3, <1>4, <1>2, <2>3, <3>1, FileOfFCB
    <3> QED BY <1>1, <3>1 DEF RcOK, Uncut, CutsNothing, SeqExt
  <2> QED BY <1>1, <1>3, <1>4, <1>5, <1>6, <2>9, <2>10, <2>11
          DEF Succeeds, Drive!Rename, Drive!NoFile, Drive!Succeeds
<1> QED BY <1>9, <1>10

\* Moving an FCB changes nothing of a drive of records.
LEMMA MoveMaps ==
  ASSUME Tidy, FilesOK, RcOK, FilesOK', refusing' = refusing, NEW v \in Addresses, NEW w \in Addresses, Move(v, w)
  PROVE  RcOK' /\ UNCHANGED Drive!cvars
<1>1. v # w /\ fcb[v].open /\ UNCHANGED <<host, size, stream, table, result>>
  BY DEF Move
<1>2. fcb'[w] = fcb[v] /\ ~ fcb'[v].open /\ \A u \in Addresses : u # v /\ u # w => fcb'[u] = fcb[u]
  BY <1>1 DEF Move, Empty, FilesOK, FilesTypeOK
<1>3. \A u \in Addresses : fcb'[u].open => \E x \in Addresses : fcb[x].open /\ fcb[x] = fcb'[u]
  <2> SUFFICES ASSUME NEW u \in Addresses, fcb'[u].open
               PROVE  \E x \in Addresses : fcb[x].open /\ fcb[x] = fcb'[u]
    OBVIOUS
  <2>1. CASE u = w
    BY <1>1, <1>2, <2>1
  <2>2. CASE u # w
    BY <1>2, <2>2
  <2> QED BY <2>1, <2>2
<1>4. RcOK'
  <2>1. ASSUME NEW u \in Addresses, fcb'[u].open
        PROVE  fcb'[u].cr < ExtentRecords /\ Uncut(fcb'[u], size[host[fcb'[u].name]])
    BY <1>3, <2>1 DEF RcOK
  <2> QED BY <1>1, <2>1 DEF RcOK, Uncut, CutsNothing, SeqExt
<1>5. FileTold' = FileTold /\ NamesInUse' = NamesInUse
  BY <1>1, SameTold
<1>6. FilePositions' = FilePositions
  BY <1>3, <1>5, SamePositions
<1>7. FileRecords' = FileRecords
  BY <1>1 DEF FileRecords
<1> QED BY <1>1, <1>4, <1>5, <1>6, <1>7 DEF Drive!cvars

\* Setting the random record number is a seek.
LEMMA SeekMaps ==
  ASSUME Tidy, FilesOK, RcOK, FilesOK', refusing' = refusing, NEW w \in Addresses, NEW p \in Nat, Seek(w, p)
  PROVE  RcOK' /\ Drive!Seek(fcb[w].name, p)
<1>1. /\ fcb[w].open /\ p \div ExtentRecords = SeqExt(fcb[w])
      /\ UNCHANGED <<host, size, stream, table, result>>
  BY DEF Seek
<1>2. PICK r \in Nat \ {0} : r = RecordSize
  BY Sizes
<1>3. PICK a \in Nat : a = p * r /\ a \div RecordSize = p
  <2>1. PICK a \in Nat : a = p * r
    OBVIOUS
  <2>2. a = p * r + 0 /\ 0 \in 0 .. r - 1
    BY <2>1
  <2>3. a \div r = p
    BY <2>2, Quotient
  <2> QED BY <1>2, <2>1, <2>3
<1>4. fcb[w] \in FCBs
  BY DEF FilesOK, FilesTypeOK
<1>5. PICK g : g = At(fcb[w], a)
  OBVIOUS
<1>6. g \in FCBs /\ g.open /\ g.name = fcb[w].name /\ g.rc = fcb[w].rc
  BY <1>1, <1>4, <1>5, AtIsFCB
<1>7. Posn(g) = p /\ g.cr < ExtentRecords /\ SeqExt(g) = SeqExt(fcb[w])
  BY <1>1, <1>3, <1>4, <1>5, AtIsPosition
<1>8. fcb' = [fcb EXCEPT ![w] = g]
  BY <1>2, <1>3, <1>5 DEF Seek
<1>9. FileTold' = FileTold /\ NamesInUse' = NamesInUse
  BY <1>1, SameTold
<1>10. FilePositions' = [FilePositions EXCEPT ![fcb[w].name] = p]
  BY <1>1, <1>6, <1>7, <1>8, <1>9, NewPosition
<1>11. FileRecords' = FileRecords
  BY <1>1 DEF FileRecords
<1>12. Uncut(g, size[host[g.name]])
  BY <1>1, <1>6, <1>7 DEF RcOK, Uncut, CutsNothing
<1>13. RcOK'
  BY <1>1, <1>6, <1>7, <1>8, <1>12, RcKept
<1>14. fcb[w].name \in DOMAIN FilePositions
  BY <1>1, FileOfFCB DEF FilePositions
<1> QED BY <1>1, <1>9, <1>10, <1>11, <1>13, <1>14 DEF Drive!Seek, Drive!IsOpen

-----------------------------------------------------------------------------
(* The drive.                                                              *)

\* Every step is a step of the drive of records, or none.
LEMMA DriveStep ==
  ASSUME Tidy, FilesOK, RcOK, FilesOK', [FilesNext]_filesVars
  PROVE  RcOK' /\ (Drive!Next \/ UNCHANGED Drive!cvars)
<1>0. refusing' = refusing
  BY DEF FilesNext, filesVars
<1> USE <1>0
<1>1. CASE UNCHANGED filesVars
  <2>1. UNCHANGED <<host, size, stream, table, fcb, result>>
    BY <1>1 DEF filesVars
  <2>2. RcOK'
    BY <2>1 DEF RcOK, Uncut, CutsNothing, SeqExt
  <2> QED BY <2>1, <2>2, SameDrive DEF Drive!cvars
<1>2. ASSUME NEW w \in Addresses, Close(w)
      PROVE  RcOK' /\ (Drive!Next \/ UNCHANGED Drive!cvars)
  BY <1>2, CloseMaps
<1>3. Limit(host) \in Nat
  BY FilesAssumption DEF Limit
<1>4. ASSUME NEW w \in Addresses, Read(w) \/ Write(w) \/ FileSize(w) \/ Tell(w)
      PROVE  RcOK' /\ (Drive!Next \/ UNCHANGED Drive!cvars)
  <2>1. PICK p \in 0 .. Records(Limit(host)) : p = 0
    BY <1>3, RecordsHold
  <2> QED BY <1>4, <2>1, AccessMaps
<1>5. ASSUME NEW w \in Addresses, NEW p \in 0 .. Records(Limit(host)), ReadRandom(w, p) \/ WriteRandom(w, p)
      PROVE  RcOK' /\ (Drive!Next \/ UNCHANGED Drive!cvars)
  BY <1>5, AccessMaps
<1>6. ASSUME NEW w \in Addresses, NEW p \in 0 .. Records(Limit(host)), Seek(w, p)
      PROVE  RcOK' /\ (Drive!Next \/ UNCHANGED Drive!cvars)
  <2>1. p \in Nat /\ p \in Positions
    BY AskedIsPosition
  <2>2. fcb[w].name \in Names
    BY <1>6, OpenFinds DEF Seek
  <2>3. RcOK' /\ Drive!Seek(fcb[w].name, p)
    BY <1>6, <2>1, SeekMaps
  <2> QED BY <2>1, <2>2, <2>3 DEF Drive!Next
<1>7. ASSUME NEW w \in Addresses, NEW p \in 0 .. Records(Limit(host)), NEW n \in Names, Open(w, n, p)
      PROVE  RcOK' /\ (Drive!Next \/ UNCHANGED Drive!cvars)
  <2>1. p \in Nat /\ p \in Positions
    BY AskedIsPosition
  <2>2. RcOK' /\ (Drive!Open(n, p) \/ Drive!Refused \/ UNCHANGED Drive!cvars)
    BY <1>7, <2>1, OpenMaps
  <2> QED BY <2>1, <2>2 DEF Drive!Next
<1>8. ASSUME NEW w \in Addresses, NEW p \in 0 .. Records(Limit(host)), NEW n \in Names, Make(w, n, p)
      PROVE  RcOK' /\ (Drive!Next \/ UNCHANGED Drive!cvars)
  <2>1. p \in Nat /\ p \in Positions
    BY AskedIsPosition
  <2>2. RcOK' /\ (Drive!Make(n, p) \/ Drive!Refused \/ UNCHANGED Drive!cvars)
    BY <1>8, <2>1, MakeMaps
  <2> QED BY <2>1, <2>2 DEF Drive!Next
<1>9. ASSUME NEW v \in Addresses, NEW w \in Addresses, Move(v, w)
      PROVE  RcOK' /\ (Drive!Next \/ UNCHANGED Drive!cvars)
  BY <1>9, MoveMaps
<1>10. ASSUME NEW n \in Names, Delete(n)
       PROVE  RcOK' /\ (Drive!Next \/ UNCHANGED Drive!cvars)
  BY <1>10, DeleteMaps DEF Drive!Next
<1>11. ASSUME NEW m \in Names, NEW n \in Names, Rename(m, n)
       PROVE  RcOK' /\ (Drive!Next \/ UNCHANGED Drive!cvars)
  BY <1>11, RenameMaps DEF Drive!Next
<1> QED BY <1>1, <1>2, <1>4, <1>5, <1>6, <1>7, <1>8, <1>9, <1>10, <1>11 DEF FilesNext

\* An unused table is a drive with no open file.
LEMMA DriveInit ==
  ASSUME FilesInit
  PROVE  RcOK /\ Drive!Init
<1>1. FilesOK
  BY FilesInitOK
<1>2. RcOK
  BY DEF FilesInit, RcOK, Empty
<1>3. DOMAIN FileRecords \subseteq Names /\ FileRecords \in [DOMAIN FileRecords -> Nat]
  <2>1. \A n \in DOMAIN host : size[host[n]] \in Nat /\ DOMAIN host \subseteq Names
    BY <1>1 DEF FilesOK, FilesTypeOK
  <2>2. \A n \in DOMAIN host : Records(size[host[n]]) \in Nat
    BY <2>1, RecordsHold
  <2> QED BY <1>1, <2>2 DEF FileRecords, FilesOK, FilesTypeOK
<1>4. NamesInUse = {}
  BY DEF NamesInUse, InUse, FilesInit
<1>5. FilePositions = <<>> /\ FileTold = <<>>
  BY <1>4 DEF FilePositions, FileTold
<1>6. result = [ok |-> TRUE, record |-> 0] /\ refusing \in BOOLEAN
  BY DEF FilesInit
<1> QED BY <1>2, <1>3, <1>5, <1>6 DEF Drive!Init

\* What a tidy program sees of the BDOS is a drive of files that are records:
\* each transfer moves on by one, wherever the program goes to by EX, S2, CR or
\* the random record number, and closing a file cuts nothing from it.  On a host
\* that refuses, a write may also fail and leave the file and the position it
\* went to, or be acknowledged and lost, and closing may then cut the file
\* (bdos.c: readseq, writeseq, fixrc, open15, make22, close16).
THEOREM FilesAreRecords == ASSUME Tidy PROVE FilesSpec => IsDrive
<1>1. FilesInit => FilesOK /\ RcOK /\ Drive!Init
  BY FilesInitOK, DriveInit
<1>2. FilesOK /\ RcOK /\ [FilesNext]_filesVars => (FilesOK /\ RcOK)' /\ [UNCHANGED filesVars \/ Drive!Next]_(Drive!cvars)
  BY FilesStep, DriveStep
<1> QED BY <1>1, <1>2, PTL DEF FilesSpec, IsDrive

-----------------------------------------------------------------------------
(* Sectors of a file.                                                      *)

\* Every drive has sectors and tracks.
LEMMA Geometry ==
  ASSUME NEW d \in Drives
  PROVE  Sectors(d) \in Nat \ {0} /\ Tracks(d) \in Nat \ {0}
  BY DiskAssumption DEF Sectors, Tracks

\* Sectors of a drive are in different places of its file.
LEMMA OffsetIsInjective ==
  ASSUME NEW d \in Drives, NEW a \in SectorAddresses(d), NEW b \in SectorAddresses(d)
  PROVE  /\ Offset(d, a[1], a[2]) \in Nat
         /\ Offset(d, a[1], a[2]) = Offset(d, b[1], b[2]) => a = b
<1>1. PICK n \in Nat \ {0} : n = Sectors(d)
  BY Geometry
<1>2. /\ a[1] \in Nat /\ a[2] \in 1 .. n /\ b[1] \in Nat /\ b[2] \in 1 .. n
      /\ a = <<a[1], a[2]>> /\ b = <<b[1], b[2]>>
  BY <1>1, Geometry DEF SectorAddresses
<1>3. ASSUME NEW t \in Nat PROVE n * t \in Nat
  OBVIOUS
<1>4. /\ Offset(d, a[1], a[2]) = a[2] - 1 + n * a[1]
      /\ Offset(d, b[1], b[2]) = b[2] - 1 + n * b[1]
  BY <1>1, <1>2 DEF Offset, SectorOffset, TrackOffset
<1>5. ASSUME NEW t \in Nat, NEW u \in Nat, t < u PROVE n * t + n <= n * u
  <2>1. PICK k \in Nat : u = t + 1 + k
    <3>1. u - t - 1 \in Nat /\ u = t + 1 + (u - t - 1)
      BY <1>5
    <3> QED BY <3>1
  <2>2. n * u = n * t + n + n * k
    BY <2>1
  <2> QED BY <1>3, <2>2
<1>6. ASSUME Offset(d, a[1], a[2]) = Offset(d, b[1], b[2]) PROVE a = b
  <2>1. a[2] - 1 + n * a[1] = b[2] - 1 + n * b[1]
    BY <1>4, <1>6
  <2>2. n * a[1] \in Nat /\ n * b[1] \in Nat
    BY <1>2, <1>3
  <2>3. ~(a[1] < b[1]) /\ ~(b[1] < a[1])
    <3>1. a[1] < b[1] => n * a[1] + n <= n * b[1]
      BY <1>2, <1>5
    <3>2. b[1] < a[1] => n * b[1] + n <= n * a[1]
      BY <1>2, <1>5
    <3> QED BY <1>2, <2>1, <2>2, <3>1, <3>2
  <2>4. a[1] = b[1]
    BY <1>2, <2>3
  <2>5. a[2] = b[2]
    BY <1>2, <2>1, <2>2, <2>4
  <2> QED BY <1>2, <2>4, <2>5
<1> QED BY <1>2, <1>3, <1>4, <1>6

\* Sectors put into a file, and a gap of zeros in front of them if there is one.
LEMMA PutIs ==
  ASSUME NEW f \in Seq(Data), NEW k \in Nat, NEW n \in Nat, NEW x \in Data
  PROVE  /\ Put(f, k, n, x) \in Seq(Data)
         /\ Len(Put(f, k, n, x)) = IF n = 0 THEN Len(f) ELSE Larger(Len(f), k + n)
         /\ \A m \in Nat : m < Len(Put(f, k, n, x)) =>
              Put(f, k, n, x)[m + 1] = IF k <= m /\ m < k + n THEN x
                                       ELSE IF m < Len(f) THEN f[m + 1] ELSE Zero
<1>1. CASE n = 0
  BY <1>1 DEF Put
<1>2. CASE n # 0
  <2> DEFINE l == Larger(Len(f), k + n)
             e(i) == IF i > k /\ i <= k + n THEN x ELSE IF i <= Len(f) THEN f[i] ELSE Zero
             g == [i \in 1 .. l |-> e(i)]
  <2>1. l \in Nat /\ Zero \in Data /\ Len(f) \in Nat
    BY DiskAssumption DEF Larger
  <2>2. \A i \in 1 .. l : e(i) \in Data
    BY <2>1
  <2>3. Put(f, k, n, x) = g
    BY <1>2 DEF Put
  <2> HIDE DEF l, e
  <2>4. g \in Seq(Data) /\ Len(g) = l
    BY <2>1, <2>2
  <2>5. ASSUME NEW m \in Nat, m < l
        PROVE  g[m + 1] = IF k <= m /\ m < k + n THEN x ELSE IF m < Len(f) THEN f[m + 1] ELSE Zero
    <3>1. m + 1 \in 1 .. l /\ (m + 1 > k <=> k <= m) /\ (m + 1 <= k + n <=> m < k + n)
          /\ (m + 1 <= Len(f) <=> m < Len(f))
      BY <2>1, <2>5
    <3>2. g[m + 1] = e(m + 1)
      BY <3>1
    <3> QED BY <3>1, <3>2 DEF e
  <2> HIDE DEF g
  <2> QED BY <1>2, <2>3, <2>4, <2>5 DEF l
<1> QED BY <1>1, <1>2

\* The length of a file sectors are put into.
LEMMA PutLength ==
  ASSUME NEW f \in Seq(Data), NEW k \in Nat, NEW n \in Nat, NEW x \in Data
  PROVE  Len(Put(f, k, n, x)) = IF n = 0 THEN Len(f) ELSE Larger(Len(f), k + n)
  BY PutIs

\* The sectors of a file sectors are put into.
LEMMA PutSectors ==
  ASSUME NEW f \in Seq(Data), NEW k \in Nat, NEW n \in Nat, NEW x \in Data,
         NEW m \in Nat, m < Len(Put(f, k, n, x))
  PROVE  Put(f, k, n, x)[m + 1] = IF k <= m /\ m < k + n THEN x
                                  ELSE IF m < Len(f) THEN f[m + 1] ELSE Zero
  BY PutIs

\* Blank sectors put into a file.
LEMMA BlanksPut ==
  ASSUME NEW f \in Seq(Data), NEW len \in Nat \ {0}, NEW k \in Nat
  PROVE  /\ Put(f, len, k, Blank) \in Seq(Data)
         /\ Len(Put(f, len, k, Blank)) = IF k = 0 THEN Len(f) ELSE Larger(Len(f), len + k)
         /\ \A m \in Nat : m < Len(Put(f, len, k, Blank)) =>
              Put(f, len, k, Blank)[m + 1] = IF len <= m /\ m < len + k THEN Blank
                                             ELSE IF m < Len(f) THEN f[m + 1] ELSE Zero
<1>1. PICK l \in Nat, x \in Data : l = len /\ x = Blank
  BY DiskAssumption
<1>2. Put(f, l, k, x) \in Seq(Data)
  BY PutIs
<1>4. Len(Put(f, l, k, x)) = IF k = 0 THEN Len(f) ELSE Larger(Len(f), l + k)
  BY PutLength
<1>3. \A m \in Nat : m < Len(Put(f, l, k, x)) =>
        Put(f, l, k, x)[m + 1] = IF l <= m /\ m < l + k THEN x
                                 ELSE IF m < Len(f) THEN f[m + 1] ELSE Zero
  BY PutSectors
<1> QED BY <1>1, <1>2, <1>3, <1>4

\* What may be pending.
Waiting == [at : Nat, data : Data] \cup {Nothing}

\* A sector that waits is one of the file.
LEMMA WaitingIs ==
  ASSUME NEW p \in Waiting
  PROVE  /\ p.data \in Data
         /\ \/ p # Nothing /\ p.at \in Nat
            \/ p = Nothing /\ p.at = -1
<1>1. Nothing.at = -1 /\ Nothing.data = Blank /\ Blank \in Data
  BY DiskAssumption DEF Nothing
<1>2. CASE p = Nothing
  BY <1>1, <1>2
<1>3. CASE p \in [at : Nat, data : Data]
  BY <1>1, <1>3
<1> QED BY <1>2, <1>3 DEF Waiting

\* Flushing the buffer writes what is pending.
LEMMA FlushedIs ==
  ASSUME NEW f \in Seq(Data), NEW p \in Waiting
  PROVE  /\ Flushed(f, p) \in Seq(Data)
         /\ Len(Flushed(f, p)) = IF p.at < 0 THEN Len(f) ELSE Larger(Len(f), p.at + 1)
         /\ \A m \in Nat : m < Len(Flushed(f, p)) =>
              Flushed(f, p)[m + 1] = IF m = p.at THEN p.data
                                     ELSE IF m < Len(f) THEN f[m + 1] ELSE Zero
<1>1. CASE p = Nothing
  <2>1. p.at = -1
    BY <1>1 DEF Nothing
  <2> QED BY <2>1 DEF Flushed
<1>2. CASE p # Nothing
  <2>1. PICK k \in Nat, x \in Data, n \in Nat : k = p.at /\ x = p.data /\ n = 1
    BY <1>2, WaitingIs
  <2>2. PICK g \in Seq(Data) : g = Put(f, k, n, x)
    BY PutIs
  <2>3. g = Flushed(f, p)
    BY <2>1, <2>2 DEF Flushed
  <2>4. Len(g) = IF n = 0 THEN Len(f) ELSE Larger(Len(f), k + n)
    BY <2>2, PutLength
  <2>5. Len(g) = IF p.at < 0 THEN Len(f) ELSE Larger(Len(f), p.at + 1)
    BY <2>1, <2>4
  <2>6. ASSUME NEW m \in Nat, m < Len(g)
        PROVE  g[m + 1] = IF m = p.at THEN p.data ELSE IF m < Len(f) THEN f[m + 1] ELSE Zero
    <3>1. g[m + 1] = IF k <= m /\ m < k + n THEN x ELSE IF m < Len(f) THEN f[m + 1] ELSE Zero
      BY <2>2, <2>6, PutSectors
    <3>2. (k <= m /\ m < k + n) <=> m = p.at
      BY <2>1
    <3> QED BY <2>1, <3>1, <3>2
  <2> QED BY <2>3, <2>5, <2>6
<1> QED BY <1>1, <1>2

\* What sector n of a drive holds for the guest, by the file, what is pending,
\* whether the drive is open, and its cached length.
CellOf(f, p, o, len, n) ==
  IF n = p.at THEN p.data
  ELSE IF n < Len(f) THEN f[n + 1]
  ELSE IF o /\ n < len THEN Lost ELSE Unwritten

Cells == Data \cup {Unwritten, Lost}

\* Holds of CpmDrive: what a sector held is what it holds, and one that is lost
\* may hold anything.
Same(old, new) == new = old \/ (old = Unwritten /\ new = Blank)
Kept(old, new) == Same(old, new) \/ (old = Lost /\ new \in Cells)

\* A sector holds data, or nothing.
LEMMA CellIsCell ==
  ASSUME NEW f \in Seq(Data), NEW p \in Waiting, NEW o \in BOOLEAN, NEW len \in Nat, NEW n \in Nat
  PROVE  CellOf(f, p, o, len, n) \in Cells
<1>1. n < Len(f) => f[n + 1] \in Data
  OBVIOUS
<1> QED BY <1>1, WaitingIs DEF CellOf, Cells

\* Flushing loses nothing.
LEMMA FlushKeeps ==
  ASSUME NEW f \in Seq(Data), NEW p \in Waiting, NEW len \in Nat, NEW n \in Nat,
         Len(Flushed(f, p)) <= len, NEW o \in BOOLEAN
  PROVE  Kept(CellOf(f, p, TRUE, len, n), CellOf(Flushed(f, p), Nothing, o, len, n))
<1>0. PICK g \in Seq(Data) : g = Flushed(f, p)
  BY FlushedIs
<1>1. /\ Len(g) \in Nat /\ Len(f) \in Nat
      /\ Len(g) = IF p.at < 0 THEN Len(f) ELSE Larger(Len(f), p.at + 1)
      /\ n < Len(g) => g[n + 1] = IF n = p.at THEN p.data ELSE IF n < Len(f) THEN f[n + 1] ELSE Zero
  BY <1>0, FlushedIs
<1>2. Nothing.at = -1 /\ Nothing \in Waiting
  BY DEF Nothing, Waiting
<1>3. p.data \in Data /\ (p.at \in Nat \/ p.at = -1)
  BY WaitingIs
<1>4. Len(g) <= len
  BY <1>0
<1>5. CellOf(g, Nothing, o, len, n) = IF n < Len(g) THEN g[n + 1] ELSE IF o /\ n < len THEN Lost ELSE Unwritten
  BY <1>2 DEF CellOf
<1>6. CellOf(g, Nothing, o, len, n) \in Cells
  BY <1>1, <1>2, CellIsCell
<1>7. Len(f) <= Len(g) /\ (n = p.at => n < Len(g))
  BY <1>1, <1>3 DEF Larger
<1>8. CASE n < Len(g) /\ (n = p.at \/ n < Len(f))
  BY <1>0, <1>1, <1>5, <1>8 DEF CellOf, Kept, Same
<1>9. CASE n # p.at /\ ~(n < Len(f)) /\ n < Len(g)
  BY <1>0, <1>1, <1>4, <1>6, <1>9 DEF CellOf, Kept, Same
<1>10. CASE ~(n < Len(g))
  <2>1. n # p.at /\ ~(n < Len(f))
    BY <1>1, <1>7, <1>10
  <2> QED BY <1>0, <1>5, <1>6, <1>10, <2>1 DEF CellOf, Kept, Same
<1> QED BY <1>0, <1>7, <1>8, <1>9, <1>10

\* What is kept twice is kept, if it is data or lost in the end.
LEMMA KeptTwice ==
  ASSUME NEW a, NEW b, NEW c \in Cells, Kept(a, b), Kept(b, c)
  PROVE  Kept(a, c)
  BY DiskAssumption DEF Kept, Same

\* What is the same and then kept is kept.
LEMMA SameThenKept ==
  ASSUME NEW a, NEW b, NEW c, Same(a, b), Kept(b, c)
  PROVE  Kept(a, c)
  BY DiskAssumption DEF Kept, Same

-----------------------------------------------------------------------------
(* Opening a drive, and leaving it open.                                   *)

\* What sector n of a drive holds.
LEMMA CellIs ==
  ASSUME NEW d \in Drives, NEW n
  PROVE  Cell(d, n) = CellOf(images[d], pending[d], open[d], drivelen[d], n)
  BY DEF Cell, CellOf

\* A file, its length and what is pending that serve as drive d: the length is
\* that of the flushed file unless the host is full, and the guest finds what
\* was there.
Serves(d, f, len, p) ==
  /\ Len(Flushed(f, p)) <= len /\ (~full => Len(Flushed(f, p)) = len)
  /\ \A m \in Nat : Same(Cell(d, m), CellOf(f, p, TRUE, len, m))
  /\ open[d] => p = pending[d]
  /\ ~open[d] => \A m \in Nat : m = p.at => Cell(d, m) = Unwritten

\* A drive that is open, or opened now, is in order.
LEMMA RealizedIs ==
  ASSUME DiskOK, NEW d \in Drives
  PROVE  \E f \in Seq(Data), len \in Nat \ {0}, p \in Waiting :
           Realized(d) = [file |-> f, len |-> len, pending |-> p] /\ Serves(d, f, len, p)
<1>1. /\ images[d] \in Seq(Data) /\ pending[d] \in Waiting /\ open[d] \in BOOLEAN
      /\ drivelen[d] \in Nat
      /\ open[d] => /\ Len(Flushed(images[d], pending[d])) <= drivelen[d] /\ drivelen[d] > 0
                    /\ ~full => Len(Flushed(images[d], pending[d])) = drivelen[d]
      /\ ~open[d] => pending[d] = Nothing
  BY DEF DiskOK, Waiting
<1>2. \A m \in Nat : Cell(d, m) = CellOf(images[d], pending[d], open[d], drivelen[d], m)
  BY CellIs
<1>3. Nothing.at = -1 /\ Nothing \in Waiting
  BY DEF Nothing, Waiting
<1>4. CASE open[d]
  <2>1. Realized(d) = [file |-> images[d], len |-> drivelen[d], pending |-> pending[d]]
    BY <1>4 DEF Realized
  <2>2. \A m \in Nat : Same(Cell(d, m), CellOf(images[d], pending[d], TRUE, drivelen[d], m))
    BY <1>1, <1>2, <1>4 DEF Same
  <2>3. Serves(d, images[d], drivelen[d], pending[d]) /\ drivelen[d] \in Nat \ {0}
    <3>1. Len(Flushed(images[d], pending[d])) <= drivelen[d]
      BY <1>1, <1>4
    <3>2. ~full => Len(Flushed(images[d], pending[d])) = drivelen[d]
      BY <1>1, <1>4
    <3>3. drivelen[d] \in Nat \ {0}
      BY <1>1, <1>4
    <3> QED BY <1>4, <2>2, <3>1, <3>2, <3>3, Zenon DEF Serves
  <2> QED BY <1>1, <2>1, <2>3
<1>5. CASE ~open[d] /\ images[d] # <<>>
  <2>1. Realized(d) = [file |-> images[d], len |-> Len(images[d]), pending |-> Nothing]
    BY <1>5 DEF Realized
  <2>2. Len(images[d]) \in Nat \ {0} /\ Len(Flushed(images[d], Nothing)) = Len(images[d])
    BY <1>1, <1>3, <1>5, EmptySeq DEF Flushed
  <2>3. \A m \in Nat : Same(Cell(d, m), CellOf(images[d], Nothing, TRUE, Len(images[d]), m))
    BY <1>1, <1>2, <1>3, <1>5, <2>2 DEF Same, CellOf
  <2>4. \A m \in Nat : m # Nothing.at
    BY <1>3
  <2>5. Serves(d, images[d], Len(images[d]), Nothing)
    <3>1. Len(Flushed(images[d], Nothing)) <= Len(images[d])
      BY <2>2
    <3> QED BY <1>5, <2>2, <2>3, <2>4, <3>1, Zenon DEF Serves
  <2> QED BY <1>1, <1>3, <2>1, <2>2, <2>5
<1>6. CASE ~open[d] /\ images[d] = <<>>
  <2>1. PICK p : p = [at |-> 0, data |-> Blank]
    OBVIOUS
  <2>2. PICK e \in Seq(Data) : e = <<>> /\ Len(e) = 0
    BY EmptySeq
  <2>3. p.at = 0 /\ p.data = Blank /\ p \in Waiting
    BY <2>1, DiskAssumption DEF Waiting
  <2>4. PICK len \in Nat \ {0} : len = 1
    OBVIOUS
  <2>5. Realized(d) = [file |-> e, len |-> len, pending |-> p]
    BY <1>6, <2>1, <2>2, <2>4 DEF Realized
  <2>6. Len(Flushed(e, p)) = len
    <3>1. Len(Flushed(e, p)) = IF p.at < 0 THEN Len(e) ELSE Larger(Len(e), p.at + 1)
      BY <2>3, FlushedIs
    <3> QED BY <2>2, <2>3, <2>4, <3>1 DEF Larger
  <2>7. \A m \in Nat : Cell(d, m) = Unwritten
    BY <1>1, <1>2, <1>3, <1>6, <2>2 DEF CellOf
  <2>8. \A m \in Nat : Same(Cell(d, m), CellOf(e, p, TRUE, len, m))
    BY <2>2, <2>3, <2>4, <2>7 DEF Same, CellOf
  <2>9. Len(Flushed(e, p)) <= len
    BY <2>6
  <2>10. Serves(d, e, len, p)
    BY <1>6, <2>6, <2>7, <2>8, <2>9, Zenon DEF Serves
  <2> QED BY <2>3, <2>5, <2>10
<1> QED BY <1>4, <1>5, <1>6

\* What the guest sees of the drives, what of it may be lost, and which are open.
Shown == [d \in Drives |-> Image(d)]
Exposed == [d \in Drives |-> Unsafe(d)]
OpenDrives == {d \in Drives : open[d]}

\* The image and the sectors that may be lost, by the same.
ImageOf(d, f, p, o, len) ==
  [a \in SectorAddresses(d) |-> CellOf(f, p, o, len, Offset(d, a[1], a[2]))]
ExposedOf(d, p) == {a \in SectorAddresses(d) : Offset(d, a[1], a[2]) = p.at}

\* What the guest sees of a drive is what these say.
LEMMA ShownIs ==
  ASSUME NEW d \in Drives
  PROVE  /\ Shown[d] = ImageOf(d, images[d], pending[d], open[d], drivelen[d])
         /\ Exposed[d] = ExposedOf(d, pending[d])
         /\ Shown'[d] = ImageOf(d, images'[d], pending'[d], open'[d], drivelen'[d])
         /\ Exposed'[d] = ExposedOf(d, pending'[d])
<1>1. /\ Shown[d] = ImageOf(d, images[d], pending[d], open[d], drivelen[d])
      /\ Exposed[d] = ExposedOf(d, pending[d])
  BY DEF Shown, Exposed, Image, Unsafe, Cell, CellOf, ImageOf, ExposedOf
<1>2. /\ Shown'[d] = ImageOf(d, images'[d], pending'[d], open'[d], drivelen'[d])
      /\ Exposed'[d] = ExposedOf(d, pending'[d])
  BY DEF Shown, Exposed, Image, Unsafe, Cell, CellOf, ImageOf, ExposedOf, SectorAddresses, Offset,
         Tracks, Sectors, Drives
<1> QED BY <1>1, <1>2

\* Only the drive of the transfer changes for the guest, and is open after it.
OtherDrives ==
  /\ OpenDrives' = OpenDrives \cup {drive}
  /\ \A d \in Drives \ {drive} : Shown'[d] = Shown[d] /\ Exposed'[d] = Exposed[d]
  /\ UNCHANGED <<drive, track, sector, full>>

\* A transfer that leaves a file, its length and what is pending in order.
LEMMA LeavesOK ==
  ASSUME DiskOK, NEW f \in Seq(Data), NEW len \in Nat \ {0}, NEW p \in Waiting,
         Len(Flushed(f, p)) <= len, ~full => Len(Flushed(f, p)) = len,
         Leaves(drive, f, len, p), Registers, dma' \in Data, A' \in {0, 1}
  PROVE  /\ DiskOK' /\ OtherDrives
         /\ Shown'[drive] = ImageOf(drive, f, p, TRUE, len) /\ Exposed'[drive] = ExposedOf(drive, p)
<1>1. /\ images \in [Drives -> Seq(Data)] /\ pending \in [Drives -> Waiting]
      /\ open \in [Drives -> BOOLEAN]
      /\ drivelen \in [Drives -> Nat] /\ drive \in Drives
      /\ track \in 0 .. Tracks(drive) - 1 /\ sector \in 1 .. Sectors(drive)
      /\ full \in BOOLEAN
  BY DEF DiskOK, Waiting
<1>2. /\ images' = [images EXCEPT ![drive] = f]
      /\ pending' = [pending EXCEPT ![drive] = p]
      /\ open' = [open EXCEPT ![drive] = TRUE]
      /\ drivelen' = [drivelen EXCEPT ![drive] = len]
      /\ drive' = drive /\ track' = track /\ sector' = sector /\ full' = full
  BY DEF Leaves, Registers
<1>3. /\ images' \in [Drives -> Seq(Data)] /\ pending' \in [Drives -> Waiting]
      /\ open' \in [Drives -> BOOLEAN] /\ drivelen' \in [Drives -> Nat]
  BY <1>1, <1>2
<1>4. /\ images'[drive] = f /\ pending'[drive] = p /\ open'[drive] = TRUE /\ drivelen'[drive] = len
      /\ \A d \in Drives \ {drive} : /\ images'[d] = images[d] /\ pending'[d] = pending[d]
                                     /\ open'[d] = open[d] /\ drivelen'[d] = drivelen[d]
  BY <1>1, <1>2
<1>5. ASSUME NEW d \in Drives
      PROVE  LET n == Len(Flushed(images'[d], pending'[d]))
             IN  IF open'[d] THEN n <= drivelen'[d] /\ drivelen'[d] > 0 /\ (~full' => n = drivelen'[d])
                 ELSE pending'[d] = Nothing
  <2>1. CASE d = drive
    BY <1>2, <1>4, <2>1
  <2>2. CASE d # drive
    BY <1>2, <1>4, <2>2 DEF DiskOK
  <2> QED BY <2>1, <2>2
<1>6. DiskOK'
  BY <1>1, <1>2, <1>3, <1>5 DEF DiskOK, Waiting, Drives, Sectors, Tracks, Flushed, Put, Nothing, Larger
<1>9. OtherDrives
  <2>1. OpenDrives' = OpenDrives \cup {drive}
    <3>1. OpenDrives' = {d \in Drives : open'[d]}
      BY DEF OpenDrives, Drives
    <3> QED BY <1>1, <1>4, <3>1 DEF OpenDrives
  <2>2. ASSUME NEW d \in Drives \ {drive} PROVE Shown'[d] = Shown[d] /\ Exposed'[d] = Exposed[d]
    <3>1. /\ images'[d] = images[d] /\ pending'[d] = pending[d]
          /\ open'[d] = open[d] /\ drivelen'[d] = drivelen[d]
      BY <1>4
    <3> QED BY <3>1, ShownIs
  <2> QED BY <1>2, <2>1, <2>2 DEF OtherDrives
<1>10. Shown'[drive] = ImageOf(drive, f, p, TRUE, len) /\ Exposed'[drive] = ExposedOf(drive, p)
  BY <1>1, <1>4, ShownIs
<1> QED BY <1>6, <1>9, <1>10

-----------------------------------------------------------------------------
(* What the drives are promised to do.                                     *)

\* What every call is shown to do: keep the cached lengths, and do to the drives
\* what CpmDrive allows.
DiskStepOK == DiskOK' /\ [UNCHANGED diskVars \/ P!Next]_(P!vars)

\* What CP/M has set, as the abstract drives see it.
Address == <<track, sector>>
Selection == [drive |-> drive, at |-> Address]
Selections == [drive : Drives, at : UNION {SectorAddresses(d) : d \in Drives}]

\* The track and the sector selected are on the drive.
LEMMA SelectedIsAddress ==
  ASSUME DiskOK
  PROVE  /\ Address \in SectorAddresses(drive)
         /\ Address[1] = track /\ Address[2] = sector
         /\ Offset(drive, track, sector) \in Nat
<1>1. drive \in Drives /\ track \in 0 .. Tracks(drive) - 1 /\ sector \in 1 .. Sectors(drive)
  BY DEF DiskOK
<1>2. Address \in SectorAddresses(drive) /\ Address[1] = track /\ Address[2] = sector
  BY <1>1 DEF Address, SectorAddresses
<1> QED BY <1>1, <1>2, OffsetIsInjective

\* A sector of an image, and of those that may be lost, by its place in the file.
LEMMA ImageIs ==
  ASSUME NEW d \in Drives, NEW f, NEW p, NEW o, NEW len, NEW a \in SectorAddresses(d)
  PROVE  /\ Offset(d, a[1], a[2]) \in Nat
         /\ ImageOf(d, f, p, o, len)[a] = CellOf(f, p, o, len, Offset(d, a[1], a[2]))
         /\ a \in ExposedOf(d, p) <=> Offset(d, a[1], a[2]) = p.at
         /\ Shown[d][a] = Cell(d, Offset(d, a[1], a[2]))
  BY OffsetIsInjective DEF ImageOf, ExposedOf, Shown, Image

\* Nothing may be lost when nothing is pending.
LEMMA NothingExposed ==
  ASSUME NEW d \in Drives
  PROVE  ExposedOf(d, Nothing) = {}
  BY OffsetIsInjective DEF ExposedOf, Nothing

\* A transfer does to the drives what it may.
LEMMA TransfersOK ==
  ASSUME OtherDrives
  PROVE  /\ P!Transfers([drive |-> drive, at |-> <<track, sector>>].drive)
         /\ [drive |-> drive, at |-> <<track, sector>>].drive = drive
         /\ [drive |-> drive, at |-> <<track, sector>>].at = Address
<1>1. /\ [drive |-> drive, at |-> <<track, sector>>].drive = drive
      /\ [drive |-> drive, at |-> <<track, sector>>].at = Address
  BY DEF Address
<1>2. P!Transfers([drive |-> drive, at |-> <<track, sector>>].drive)
  BY DEF OtherDrives, P!Transfers, Shown, Exposed, OpenDrives
<1> QED BY <1>1, <1>2

\* P!Holds, of an image shown.
LEMMA HoldsIs ==
  ASSUME NEW d, NEW a, Kept(Shown[d][a], Shown'[d][a])
  PROVE  P!Holds(d, a)
  BY DEF Kept, Same, Cells, P!Holds, P!Cells, Shown

\* A transfer that fails because the host is full.
LEMMA FailOK ==
  ASSUME DiskOK, DiskOK', OtherDrives, full, A' = 1, dma' = dma, Exposed'[drive] = {},
         \A a \in SectorAddresses(drive) :
           \/ Kept(Shown[drive][a], Shown'[drive][a])
           \/ a \in Exposed[drive] /\ Shown'[drive][a] \in Cells
           \/ Shown[drive][a] = Unwritten /\ Shown'[drive][a] = Lost
  PROVE  DiskStepOK
<1>1. \A a \in SectorAddresses(drive) :
        P!Holds(drive, a) \/ P!Loses(drive, a) \/ P!Spoils(drive, a)
  <2>1. TAKE a \in SectorAddresses(drive)
  <2>2. CASE Kept(Shown[drive][a], Shown'[drive][a])
    BY <2>2, HoldsIs
  <2>3. CASE a \in Exposed[drive] /\ Shown'[drive][a] \in Cells
    BY <2>3 DEF P!Loses, P!Cells, Cells, Shown, Exposed
  <2>4. CASE Shown[drive][a] = Unwritten /\ Shown'[drive][a] = Lost
    BY <2>4 DEF P!Spoils, Shown
  <2> QED BY <2>2, <2>3, <2>4
<1>2. P!Transfers([drive |-> drive, at |-> <<track, sector>>].drive)
  BY TransfersOK
<1>3. P!Fail
  BY <1>1, <1>2 DEF P!Fail, Exposed
<1> QED BY <1>3 DEF DiskStepOK, P!Next

\* A transfer that reads.
LEMMA ReadsOK ==
  ASSUME DiskOK, DiskOK', OtherDrives, A' = 0,
         \A a \in SectorAddresses(drive) : Kept(Shown[drive][a], Shown'[drive][a]),
         \A a \in Exposed'[drive] \ Exposed[drive] :
           drive \notin OpenDrives /\ Shown[drive][a] = Unwritten,
         \A a, b \in Exposed'[drive] : a = b,
         \/ Shown[drive][Address] \in Data /\ dma' = Shown[drive][Address]
         \/ Shown[drive][Address] = Unwritten /\ dma' = Blank
         \/ Shown[drive][Address] = Lost /\ dma' \in Data /\ Shown'[drive][Address] = dma'
  PROVE  DiskStepOK
<1>1. \A a \in SectorAddresses(drive) : P!Holds(drive, a)
  BY HoldsIs
<1>2. P!Transfers([drive |-> drive, at |-> <<track, sector>>].drive)
  BY TransfersOK
<1>3. P!InRange
  BY SelectedIsAddress DEF P!InRange, Address
<1>4. P!Read
  BY <1>1, <1>2, <1>3 DEF P!Read, Exposed, Shown, OpenDrives, Address
<1> QED BY <1>4 DEF DiskStepOK, P!Next

\* A transfer that writes.
LEMMA WritesOK ==
  ASSUME DiskOK, DiskOK', OtherDrives, A' = 0, dma' = dma,
         \A a \in SectorAddresses(drive) \ {Address} : Kept(Shown[drive][a], Shown'[drive][a]),
         Shown'[drive][Address] = dma, Exposed'[drive] = {Address}
  PROVE  DiskStepOK
<1>1. \A a \in SectorAddresses(drive) \ {Address} : P!Holds(drive, a)
  BY HoldsIs
<1>2. P!Transfers([drive |-> drive, at |-> <<track, sector>>].drive)
  BY TransfersOK
<1>3. P!InRange
  BY SelectedIsAddress DEF P!InRange, Address
<1>4. P!Write
  BY <1>1, <1>2, <1>3 DEF P!Write, Exposed, Shown, Address
<1> QED BY <1>4 DEF DiskStepOK, P!Next

-----------------------------------------------------------------------------
(* The steps.                                                              *)

\* A sector of a drive in order is what it was, as long as it is kept.
LEMMA ServedIs ==
  ASSUME DiskOK, NEW f \in Seq(Data), NEW len \in Nat \ {0}, NEW p \in Waiting,
         Serves(drive, f, len, p), NEW a \in SectorAddresses(drive)
  PROVE  LET n == Offset(drive, a[1], a[2])
         IN  /\ n \in Nat
             /\ Same(Shown[drive][a], CellOf(f, p, TRUE, len, n))
             /\ (drive \notin OpenDrives /\ n = p.at) => Shown[drive][a] = Unwritten
             /\ drive \in OpenDrives => (a \in Exposed[drive] <=> n = p.at)
<1>1. drive \in Drives
  BY DEF DiskOK
<1>2. PICK n \in Nat : n = Offset(drive, a[1], a[2])
  BY <1>1, ImageIs
<1>3. Shown[drive][a] = Cell(drive, n)
  BY <1>1, <1>2, ImageIs
<1>4. Exposed[drive] = ExposedOf(drive, pending[drive])
  BY <1>1, ShownIs
<1>5. a \in Exposed[drive] <=> n = pending[drive].at
  BY <1>2, <1>4 DEF ExposedOf
<1>6. drive \in OpenDrives <=> open[drive]
  BY <1>1 DEF OpenDrives
<1> QED BY <1>2, <1>3, <1>5, <1>6 DEF Serves

\* Reading gives the sector, or a blank one behind the end of the file.
LEMMA ReadOK ==
  ASSUME DiskOK, RdSector
  PROVE  DiskStepOK
<1> DEFINE n == Offset(drive, track, sector)
<1>1. /\ drive \in Drives /\ n \in Nat /\ dma \in Data
      /\ Address \in SectorAddresses(drive) /\ Address[1] = track /\ Address[2] = sector
  BY SelectedIsAddress DEF DiskOK
<1>2. PICK f \in Seq(Data), len \in Nat \ {0}, p \in Waiting :
        Realized(drive) = [file |-> f, len |-> len, pending |-> p] /\ Serves(drive, f, len, p)
  BY <1>1, RealizedIs
<1>3. PICK g \in Seq(Data) : g = Flushed(f, p)
  BY FlushedIs
<1>4. Len(g) \in Nat /\ Len(g) <= len /\ (~full => Len(g) = len)
  BY <1>2, <1>3 DEF Serves
<1>5. /\ Registers
      /\ \/ n >= len /\ Leaves(drive, f, len, p) /\ dma' = Blank /\ A' = 0
         \/ /\ ~(n >= len) /\ Leaves(drive, g, len, Nothing)
            /\ \/ n < Len(g) /\ dma' = g[n + 1] /\ A' = 0
               \/ ~(n < Len(g)) /\ dma' = dma /\ A' = 1
  BY <1>2, <1>3 DEF RdSector
<1>6. Nothing \in Waiting /\ Flushed(g, Nothing) = g /\ Nothing.at = -1 /\ Blank \in Data
  BY DiskAssumption DEF Waiting, Flushed, Nothing
<1> HIDE DEF n
<1>7. CASE n >= len /\ Leaves(drive, f, len, p) /\ dma' = Blank /\ A' = 0
  <2>1. /\ DiskOK' /\ OtherDrives
        /\ Shown'[drive] = ImageOf(drive, f, p, TRUE, len) /\ Exposed'[drive] = ExposedOf(drive, p)
    BY <1>2, <1>3, <1>4, <1>5, <1>6, <1>7, LeavesOK
  <2>2. ASSUME NEW a \in SectorAddresses(drive) PROVE Kept(Shown[drive][a], Shown'[drive][a])
    <3>1. Shown'[drive][a] = CellOf(f, p, TRUE, len, Offset(drive, a[1], a[2]))
      BY <2>1 DEF ImageOf
    <3>2. Same(Shown[drive][a], CellOf(f, p, TRUE, len, Offset(drive, a[1], a[2])))
      BY <1>2, ServedIs
    <3> QED BY <3>1, <3>2 DEF Kept
  <2>3. ASSUME NEW a \in Exposed'[drive] \ Exposed[drive]
        PROVE  drive \notin OpenDrives /\ Shown[drive][a] = Unwritten
    <3>1. a \in SectorAddresses(drive) /\ Offset(drive, a[1], a[2]) = p.at
      BY <2>1, <2>3 DEF ExposedOf
    <3>2. /\ (drive \notin OpenDrives /\ Offset(drive, a[1], a[2]) = p.at) => Shown[drive][a] = Unwritten
          /\ drive \in OpenDrives => (a \in Exposed[drive] <=> Offset(drive, a[1], a[2]) = p.at)
      BY <1>2, <3>1, ServedIs
    <3> QED BY <2>3, <3>1, <3>2
  <2>4. \A a, b \in Exposed'[drive] : a = b
    BY <1>1, <2>1, OffsetIsInjective DEF ExposedOf
  <2>5. Shown[drive][Address] = Unwritten
    <3>1. CellOf(f, p, TRUE, len, n) = Unwritten
      <4>1. Len(f) <= len /\ p.at < len
        <5>1. /\ Len(g) = IF p.at < 0 THEN Len(f) ELSE Larger(Len(f), p.at + 1)
              /\ Len(f) \in Nat /\ (p.at \in Nat \/ p.at = -1)
          BY <1>3, FlushedIs, WaitingIs
        <5> QED BY <1>4, <5>1 DEF Larger
      <4>2. n # p.at /\ ~(n < Len(f)) /\ ~(n < len)
        <5>1. Len(f) \in Nat /\ (p.at \in Nat \/ p.at = -1)
          BY WaitingIs
        <5> QED BY <1>1, <1>7, <4>1, <5>1
      <4> QED BY <4>2 DEF CellOf
    <3>2. Same(Shown[drive][Address], CellOf(f, p, TRUE, len, n))
      BY <1>1, <1>2, ServedIs DEF n
    <3> QED BY <3>1, <3>2, DiskAssumption DEF Same
  <2> QED BY <1>7, <2>1, <2>2, <2>3, <2>4, <2>5, ReadsOK
<1>8. CASE ~(n >= len) /\ Leaves(drive, g, len, Nothing)
  <2>1. /\ n < Len(g) => dma' = g[n + 1] /\ dma' \in Data /\ A' = 0
        /\ ~(n < Len(g)) => dma' = dma /\ A' = 1
    <3>1. n < Len(g) => g[n + 1] \in Data
      BY <1>1
    <3> QED BY <1>5, <1>8, <3>1
  <2>2. /\ DiskOK' /\ OtherDrives
        /\ Shown'[drive] = ImageOf(drive, g, Nothing, TRUE, len)
        /\ Exposed'[drive] = ExposedOf(drive, Nothing)
    <3>1. dma' \in Data /\ A' \in {0, 1}
      BY <1>1, <2>1
    <3> QED BY <1>4, <1>5, <1>6, <1>8, <3>1, LeavesOK
  <2>3. ASSUME NEW a \in SectorAddresses(drive) PROVE Kept(Shown[drive][a], Shown'[drive][a])
    <3>1. PICK m \in Nat : m = Offset(drive, a[1], a[2])
      BY <1>1, OffsetIsInjective
    <3>2. Shown'[drive][a] = CellOf(g, Nothing, TRUE, len, m)
      BY <2>2, <3>1 DEF ImageOf
    <3>3. Same(Shown[drive][a], CellOf(f, p, TRUE, len, m))
      BY <1>2, <3>1, ServedIs
    <3>4. Kept(CellOf(f, p, TRUE, len, m), CellOf(g, Nothing, TRUE, len, m))
      BY <1>3, <1>4, FlushKeeps
    <3> QED BY <3>2, <3>3, <3>4, SameThenKept
  <2>4. Exposed'[drive] = {}
    BY <1>1, <2>2, NothingExposed
  <2>5. CASE n < Len(g)
    <3>1. Shown'[drive][Address] = dma'
      <4>1. Shown'[drive][Address] = CellOf(g, Nothing, TRUE, len, n)
        BY <1>1, <2>2 DEF ImageOf, n
      <4>2. n # -1
        BY <1>1
      <4> QED BY <1>6, <2>1, <2>5, <4>1, <4>2 DEF CellOf
    <3>2. Kept(Shown[drive][Address], dma')
      BY <1>1, <2>3, <3>1
    <3>3. \/ Shown[drive][Address] \in Data /\ dma' = Shown[drive][Address]
          \/ Shown[drive][Address] = Unwritten /\ dma' = Blank
          \/ Shown[drive][Address] = Lost /\ dma' \in Data
      BY <2>1, <2>5, <3>2 DEF Kept, Same
    <3> QED BY <2>1, <2>2, <2>3, <2>4, <2>5, <3>1, <3>3, ReadsOK
  <2>6. CASE ~(n < Len(g))
    <3>1. full
      BY <1>1, <1>4, <1>8, <2>6
    <3> QED BY <2>1, <2>2, <2>3, <2>4, <2>6, <3>1, FailOK
  <2> QED BY <2>5, <2>6
<1> QED BY <1>5, <1>7, <1>8

\* Writing pads the file up to the sector.
LEMMA WriteOK ==
  ASSUME DiskOK, WrSector
  PROVE  DiskStepOK
<1> DEFINE n == Offset(drive, track, sector)
<1>1. /\ drive \in Drives /\ n \in Nat /\ dma \in Data /\ full \in BOOLEAN
      /\ Address \in SectorAddresses(drive) /\ Address[1] = track /\ Address[2] = sector
  BY SelectedIsAddress DEF DiskOK
<1>2. PICK f \in Seq(Data), len \in Nat \ {0}, p \in Waiting :
        Realized(drive) = [file |-> f, len |-> len, pending |-> p] /\ Serves(drive, f, len, p)
  BY <1>1, RealizedIs
<1>3. PICK g \in Seq(Data) : g = Flushed(f, p)
  BY FlushedIs
<1>4. Len(g) \in Nat /\ Len(g) <= len /\ (~full => Len(g) = len)
  BY <1>2, <1>3 DEF Serves
<1>5. PICK q : q = [at |-> n, data |-> dma]
  OBVIOUS
<1>6. q \in Waiting /\ q.at = n /\ q.data = dma
  BY <1>1, <1>5 DEF Waiting
<1>7. /\ Registers /\ A' = 0 /\ dma' = dma
      /\ Leaves(drive, Padded(g, len, n), Grown(len, n), q)
  BY <1>2, <1>3, <1>5 DEF WrSector
<1> HIDE DEF n
<1>8. PICK h \in Seq(Data) :
        /\ h = Padded(g, len, n)
        /\ Len(h) = IF n > len THEN n ELSE Len(g)
        /\ \A m \in Nat : m < Len(h) =>
             h[m + 1] = IF len <= m THEN Blank ELSE IF m < Len(g) THEN g[m + 1] ELSE Zero
  <2>1. CASE n > len
    <3>1. PICK k \in Nat : k = n - len
      <4>1. n - len \in Nat
        BY <1>1, <2>1
      <4> QED BY <4>1
    <3>2. PICK h \in Seq(Data) : h = Put(g, len, k, Blank)
      BY BlanksPut
    <3>3. h = Padded(g, len, n)
      BY <2>1, <3>1, <3>2 DEF Padded
    <3>4. Len(h) = IF k = 0 THEN Len(g) ELSE Larger(Len(g), len + k)
      BY <3>2, BlanksPut
    <3>5. \A m \in Nat : m < Len(h) =>
            h[m + 1] = IF len <= m /\ m < len + k THEN Blank
                       ELSE IF m < Len(g) THEN g[m + 1] ELSE Zero
      BY <3>2, BlanksPut
    <3>6. len + k = n /\ k # 0
      BY <1>1, <2>1, <3>1
    <3>7. Len(h) = n
      BY <1>1, <1>4, <2>1, <3>4, <3>6 DEF Larger
    <3>8. \A m \in Nat : m < Len(h) =>
            h[m + 1] = IF len <= m THEN Blank ELSE IF m < Len(g) THEN g[m + 1] ELSE Zero
      BY <3>5, <3>6, <3>7
    <3> QED BY <2>1, <3>3, <3>7, <3>8
  <2>2. CASE ~(n > len)
    <3>1. g = Padded(g, len, n)
      BY <2>2 DEF Padded
    <3>2. \A m \in Nat : m < Len(g) =>
               g[m + 1] = IF len <= m THEN Blank ELSE IF m < Len(g) THEN g[m + 1] ELSE Zero
      BY <1>1, <1>4
    <3> QED BY <2>2, <3>1, <3>2
  <2> QED BY <2>1, <2>2
<1>9. PICK l \in Nat \ {0} : l = Grown(len, n) /\ l = IF n + 1 > len THEN n + 1 ELSE len
  BY <1>1 DEF Grown, Larger
<1>10. Len(Flushed(h, q)) <= l /\ (~full => Len(Flushed(h, q)) = l)
  <2>1. Len(Flushed(h, q)) = Larger(Len(h), n + 1)
    <3>1. Len(Flushed(h, q)) = IF q.at < 0 THEN Len(h) ELSE Larger(Len(h), q.at + 1)
      BY <1>6, FlushedIs
    <3> QED BY <1>1, <1>6, <3>1
  <2> QED BY <1>1, <1>4, <1>8, <1>9, <2>1 DEF Larger
<1>11. /\ DiskOK' /\ OtherDrives
       /\ Shown'[drive] = ImageOf(drive, h, q, TRUE, l)
       /\ Exposed'[drive] = ExposedOf(drive, q)
  <2>1. dma' \in Data /\ A' \in {0, 1} /\ Leaves(drive, h, l, q)
    BY <1>1, <1>7, <1>8, <1>9
  <2> QED BY <1>6, <1>7, <1>10, <2>1, LeavesOK
<1>12. \A a \in SectorAddresses(drive) : Offset(drive, a[1], a[2]) = n <=> a = Address
  BY <1>1, OffsetIsInjective DEF n
<1>13. ASSUME NEW a \in SectorAddresses(drive) \ {Address}
       PROVE  Kept(Shown[drive][a], Shown'[drive][a])
  <2>1. PICK m \in Nat : m = Offset(drive, a[1], a[2]) /\ m # n
    BY <1>1, <1>12, OffsetIsInjective
  <2>2. Shown'[drive][a] = CellOf(h, q, TRUE, l, m)
    BY <1>11, <2>1 DEF ImageOf
  <2>3. Same(Shown[drive][a], CellOf(f, p, TRUE, len, m))
    BY <1>2, <2>1, ServedIs
  <2>4. Kept(CellOf(f, p, TRUE, len, m), CellOf(g, Nothing, TRUE, len, m))
    BY <1>3, <1>4, FlushKeeps
  <2>5. Kept(CellOf(g, Nothing, TRUE, len, m), CellOf(h, q, TRUE, l, m))
    <3>1. CellOf(h, q, TRUE, l, m) = IF m < Len(h) THEN h[m + 1] ELSE IF m < l THEN Lost ELSE Unwritten
      BY <1>6, <2>1 DEF CellOf
    <3>2. CellOf(g, Nothing, TRUE, len, m) = IF m < Len(g) THEN g[m + 1] ELSE IF m < len THEN Lost ELSE Unwritten
      BY DEF CellOf, Nothing
    <3>3. Zero \in Cells /\ Lost \in Cells
      BY DiskAssumption DEF Cells
    <3>7. /\ Len(h) \in Nat /\ Len(h) = IF n > len THEN n ELSE Len(g)
          /\ m < Len(h) =>
               h[m + 1] = IF len <= m THEN Blank ELSE IF m < Len(g) THEN g[m + 1] ELSE Zero
      BY <1>8
    <3>4. CASE m < Len(g)
      <4>1. m < Len(h) /\ ~(len <= m)
        BY <1>1, <1>4, <3>7, <3>4
      <4>2. CellOf(h, q, TRUE, l, m) = CellOf(g, Nothing, TRUE, len, m)
        BY <3>1, <3>2, <3>4, <3>7, <4>1
      <4> QED BY <4>2 DEF Kept, Same
    <3>5. CASE ~(m < Len(g)) /\ m < len
      <4>1. m < l /\ ~(len <= m)
        BY <1>1, <1>9, <3>5
      <4>2. CellOf(h, q, TRUE, l, m) \in {Zero, Lost}
        BY <3>1, <3>5, <3>7, <4>1
      <4> QED BY <3>2, <3>3, <3>5, <4>2 DEF Kept
    <3>6. CASE ~(m < Len(g)) /\ ~(m < len)
      <4>1. m < Len(h) \/ ~(m < l)
        BY <1>1, <1>4, <1>9, <2>1, <3>6, <3>7
      <4>2. len <= m
        BY <3>6
      <4>3. CellOf(h, q, TRUE, l, m) \in {Blank, Unwritten}
        BY <3>1, <3>7, <4>1, <4>2
      <4> QED BY <3>2, <3>6, <4>3 DEF Kept, Same
    <3> QED BY <3>4, <3>5, <3>6
  <2>6. CellOf(h, q, TRUE, l, m) \in Cells
    BY <1>6, CellIsCell
  <2>7. Kept(CellOf(f, p, TRUE, len, m), CellOf(h, q, TRUE, l, m))
    BY <2>4, <2>5, <2>6, KeptTwice
  <2> QED BY <2>2, <2>3, <2>7, SameThenKept
<1>14. Shown'[drive][Address] = dma
  <2>1. Shown'[drive][Address] = CellOf(h, q, TRUE, l, n)
    BY <1>1, <1>11 DEF ImageOf, n
  <2> QED BY <1>6, <2>1 DEF CellOf
<1>15. Exposed'[drive] = {Address}
  BY <1>1, <1>6, <1>11, <1>12 DEF ExposedOf
<1> QED BY <1>7, <1>11, <1>13, <1>14, <1>15, WritesOK

\* A seek that cannot flush the buffer loses what was pending.
LEMMA SeekFailsOK ==
  ASSUME DiskOK, SeekFails
  PROVE  DiskStepOK
<1>1. drive \in Drives /\ dma \in Data
  BY DEF DiskOK
<1>2. PICK f \in Seq(Data), len \in Nat \ {0}, p \in Waiting :
        Realized(drive) = [file |-> f, len |-> len, pending |-> p] /\ Serves(drive, f, len, p)
  BY <1>1, RealizedIs
<1>3. full /\ Leaves(drive, f, len, Nothing) /\ A' = 1 /\ Registers /\ dma' = dma
  BY <1>2 DEF SeekFails
<1>4. Nothing \in Waiting /\ Flushed(f, Nothing) = f /\ Nothing.at = -1
  BY DEF Waiting, Flushed, Nothing
<1>5. Len(f) <= len
  <2>1. /\ Len(Flushed(f, p)) <= len /\ Len(f) \in Nat /\ (p.at \in Nat \/ p.at = -1)
        /\ Len(Flushed(f, p)) = IF p.at < 0 THEN Len(f) ELSE Larger(Len(f), p.at + 1)
    BY <1>2, FlushedIs, WaitingIs DEF Serves
  <2> QED BY <2>1 DEF Larger
<1>6. /\ DiskOK' /\ OtherDrives
      /\ Shown'[drive] = ImageOf(drive, f, Nothing, TRUE, len)
      /\ Exposed'[drive] = ExposedOf(drive, Nothing)
  BY <1>1, <1>3, <1>4, <1>5, LeavesOK
<1>7. ASSUME NEW a \in SectorAddresses(drive)
      PROVE  \/ Kept(Shown[drive][a], Shown'[drive][a])
             \/ a \in Exposed[drive] /\ Shown'[drive][a] \in Cells
             \/ Shown[drive][a] = Unwritten /\ Shown'[drive][a] = Lost
  <2>1. PICK m \in Nat : m = Offset(drive, a[1], a[2])
    BY <1>1, OffsetIsInjective
  <2>2. Shown'[drive][a] = CellOf(f, Nothing, TRUE, len, m)
    BY <1>6, <2>1 DEF ImageOf
  <2>3. /\ Same(Shown[drive][a], CellOf(f, p, TRUE, len, m))
        /\ (drive \notin OpenDrives /\ m = p.at) => Shown[drive][a] = Unwritten
        /\ drive \in OpenDrives => (a \in Exposed[drive] <=> m = p.at)
    BY <1>2, <2>1, ServedIs
  <2>4. CASE m # p.at
    <3>1. CellOf(f, Nothing, TRUE, len, m) = CellOf(f, p, TRUE, len, m)
      BY <1>4, <2>1, <2>4 DEF CellOf
    <3> QED BY <2>2, <2>3, <3>1 DEF Kept
  <2>5. CASE m = p.at /\ drive \in OpenDrives
    BY <1>4, <2>2, <2>3, <2>5, CellIsCell
  <2>6. CASE m = p.at /\ drive \notin OpenDrives
    <3>1. open[drive] = FALSE
      BY <1>1, <2>6 DEF OpenDrives, DiskOK
    <3>2. Shown[drive][a] = Unwritten
      BY <2>3, <2>6
    <3>3. p # Nothing
      BY <1>4, <2>1, <2>6
    <3>4. f = <<>> /\ len = 1 /\ p.at = 0
      BY <1>2, <3>1, <3>3 DEF Realized
    <3>5. Len(f) = 0
      BY <3>4, EmptySeq
    <3>6. CellOf(f, Nothing, TRUE, len, m) = Lost
      BY <1>4, <2>6, <3>4, <3>5 DEF CellOf
    <3> QED BY <2>2, <3>2, <3>6
  <2> QED BY <2>4, <2>5, <2>6
<1>8. Exposed'[drive] = {}
  BY <1>1, <1>6, NothingExposed
<1> QED BY <1>3, <1>6, <1>7, <1>8, FailOK

\* Padding that fails half way leaves blank sectors, and sectors that are lost,
\* where nothing was written.
LEMMA PaddingFailsOK ==
  ASSUME DiskOK, NEW padded \in Nat, NEW kept \in Nat, PaddingFails(padded, kept)
  PROVE  DiskStepOK
<1>1. drive \in Drives /\ dma \in Data /\ Offset(drive, track, sector) \in Nat
  BY SelectedIsAddress DEF DiskOK
<1>2. PICK f \in Seq(Data), len \in Nat \ {0}, p \in Waiting :
        Realized(drive) = [file |-> f, len |-> len, pending |-> p] /\ Serves(drive, f, len, p)
  BY <1>1, RealizedIs
<1>3. PICK g \in Seq(Data) : g = Flushed(f, p)
  BY FlushedIs
<1>4. Len(g) \in Nat /\ Len(g) <= len
  BY <1>2, <1>3 DEF Serves
<1>5. PICK h \in Seq(Data) : h = Put(g, len, kept, Blank)
  BY BlanksPut
<1>6. Len(h) = IF kept = 0 THEN Len(g) ELSE Larger(Len(g), len + kept)
  BY <1>5, BlanksPut
<1>7. \A m \in Nat : m < Len(h) =>
        h[m + 1] = IF len <= m /\ m < len + kept THEN Blank
                   ELSE IF m < Len(g) THEN g[m + 1] ELSE Zero
  BY <1>5, BlanksPut
<1>8. /\ full /\ kept < padded /\ A' = 1 /\ Registers /\ dma' = dma
      /\ Leaves(drive, h, len + padded, Nothing)
  BY <1>2, <1>3, <1>5 DEF PaddingFails
<1>9. Nothing \in Waiting /\ Flushed(h, Nothing) = h /\ Nothing.at = -1
  BY DEF Waiting, Flushed, Nothing
<1>10. PICK l \in Nat \ {0} : l = len + padded
  OBVIOUS
<1>11. Len(h) <= l /\ Len(g) <= Len(h)
  BY <1>4, <1>6, <1>8, <1>10 DEF Larger
<1>12. /\ DiskOK' /\ OtherDrives
       /\ Shown'[drive] = ImageOf(drive, h, Nothing, TRUE, l)
       /\ Exposed'[drive] = ExposedOf(drive, Nothing)
  BY <1>1, <1>8, <1>9, <1>10, <1>11, LeavesOK
<1>13. ASSUME NEW a \in SectorAddresses(drive)
       PROVE  \/ Kept(Shown[drive][a], Shown'[drive][a])
              \/ Shown[drive][a] = Unwritten /\ Shown'[drive][a] = Lost
  <2>1. PICK m \in Nat : m = Offset(drive, a[1], a[2])
    BY <1>1, OffsetIsInjective
  <2>2. Shown'[drive][a] = CellOf(h, Nothing, TRUE, l, m)
    BY <1>12, <2>1 DEF ImageOf
  <2>3. Same(Shown[drive][a], CellOf(f, p, TRUE, len, m))
    BY <1>2, <2>1, ServedIs
  <2>4. Kept(CellOf(f, p, TRUE, len, m), CellOf(g, Nothing, TRUE, len, m))
    BY <1>3, <1>4, FlushKeeps
  <2>5. Kept(Shown[drive][a], CellOf(g, Nothing, TRUE, len, m))
    BY <2>3, <2>4, SameThenKept
  <2>6. CellOf(h, Nothing, TRUE, l, m) \in Cells
    BY <1>9, CellIsCell
  <2>7. CellOf(h, Nothing, TRUE, l, m) = IF m < Len(h) THEN h[m + 1] ELSE IF m < l THEN Lost ELSE Unwritten
    BY <1>9, <2>1 DEF CellOf
  <2>8. CellOf(g, Nothing, TRUE, len, m) = IF m < Len(g) THEN g[m + 1] ELSE IF m < len THEN Lost ELSE Unwritten
    BY <1>9, <2>1 DEF CellOf
  <2>9. /\ Len(h) \in Nat
        /\ m < Len(h) => h[m + 1] = IF len <= m /\ m < len + kept THEN Blank
                                    ELSE IF m < Len(g) THEN g[m + 1] ELSE Zero
    BY <1>7
  <2>10. CASE m < Len(g)
    <3>1. m < Len(h) /\ ~(len <= m)
      BY <1>4, <1>11, <2>9, <2>10
    <3>2. CellOf(h, Nothing, TRUE, l, m) = CellOf(g, Nothing, TRUE, len, m)
      BY <2>7, <2>8, <2>9, <2>10, <3>1
    <3> QED BY <2>2, <2>5, <3>2
  <2>11. CASE ~(m < Len(g)) /\ m < len
    <3>1. CellOf(g, Nothing, TRUE, len, m) = Lost
      BY <2>8, <2>11
    <3>2. Kept(Lost, CellOf(h, Nothing, TRUE, l, m))
      BY <2>6 DEF Kept
    <3> QED BY <2>2, <2>5, <2>6, <3>1, <3>2, KeptTwice
  <2>12. CASE ~(m < Len(g)) /\ ~(m < len)
    <3>1. CellOf(g, Nothing, TRUE, len, m) = Unwritten
      BY <2>8, <2>12
    <3>2. m < Len(h) => m < len + kept /\ len <= m
      BY <1>4, <1>6, <2>9, <2>12 DEF Larger
    <3>3. CellOf(h, Nothing, TRUE, l, m) \in {Blank, Lost, Unwritten}
      BY <2>7, <2>9, <3>2
    <3>4. Shown[drive][a] \in {Unwritten, Lost}
      BY <2>5, <3>1, DiskAssumption DEF Kept, Same
    <3> QED BY <2>2, <2>6, <3>3, <3>4 DEF Kept, Same
  <2> QED BY <2>10, <2>11, <2>12
<1>14. Exposed'[drive] = {}
  BY <1>1, <1>12, NothingExposed
<1> QED BY <1>8, <1>12, <1>13, <1>14, FailOK

\* A drive whose image cannot be opened fails, and changes nothing.
LEMMA NotOpenedOK ==
  ASSUME DiskOK, NotOpened
  PROVE  DiskStepOK
<1>1. /\ A' = 1 /\ UNCHANGED <<drive, track, sector, full>>
      /\ UNCHANGED <<images, pending, open, drivelen, dma>> /\ ~open[drive]
  BY DEF NotOpened, Registers, fileVars
<1>2. DiskOK'
  BY <1>1 DEF DiskOK, Drives, Tracks, Sectors, Flushed, Put, Larger, Nothing
<1>3. Shown' = Shown /\ Exposed' = Exposed /\ OpenDrives' = OpenDrives
  BY <1>1 DEF Shown, Exposed, OpenDrives, Unsafe, Drives, Image, Cell, SectorAddresses, Offset, Tracks, Sectors
<1>4. P!Refuse
  BY <1>1, <1>3 DEF P!Refuse, Shown, Exposed, OpenDrives
<1> QED BY <1>2, <1>4 DEF DiskStepOK, P!Next

\* A drive, a track and a sector of it are a selection.
LEMMA SelectionOK ==
  ASSUME NEW d \in Drives, NEW t \in 0 .. Tracks(d) - 1, NEW s \in 1 .. Sectors(d)
  PROVE  [drive |-> d, at |-> <<t, s>>] \in Selections
<1>1. <<t, s>> \in SectorAddresses(d)
  BY DEF SectorAddresses
<1> QED BY <1>1 DEF Selections

\* What is selected is on a drive.
LEMMA SelectedOK ==
  ASSUME DiskOK'
  PROVE  Selection' \in Selections /\ dma' \in Data
<1>1. drive' \in Drives /\ track' \in 0 .. Tracks(drive') - 1 /\ sector' \in 1 .. Sectors(drive')
  BY DEF DiskOK, Drives, Tracks, Sectors
<1>2. dma' \in Data
  BY DEF DiskOK
<1> QED BY <1>1, <1>2, SelectionOK DEF Selection, Address

\* A step that leaves the drives alone prepares a transfer.
LEMMA PreparedOK ==
  ASSUME DiskOK, UNCHANGED fileVars, A' = A, full' = full,
         drive' \in Drives, track' \in 0 .. Tracks(drive') - 1, sector' \in 1 .. Sectors(drive'),
         dma' \in Data
  PROVE  DiskStepOK
<1>1. UNCHANGED <<images, pending, open, drivelen>>
  BY DEF fileVars
<1>2. DiskOK'
  BY <1>1 DEF DiskOK, Drives, Tracks, Sectors, Flushed, Put, Larger, Nothing
<1>3. Shown' = Shown /\ Exposed' = Exposed /\ OpenDrives' = OpenDrives
  BY <1>1 DEF Shown, Exposed, OpenDrives, Unsafe, Drives, Image, Cell, SectorAddresses, Offset, Tracks, Sectors
<1>4. P!Prepare
  BY <1>2, <1>3, SelectedOK DEF P!Prepare, Shown, Exposed, OpenDrives, Selection, Selections, Address,
     P!Selections
<1> QED BY <1>2, <1>4 DEF DiskStepOK, P!Next

\* The calls that set up a transfer, and the guest's own writes.
LEMMA PreparationOK ==
  ASSUME DiskOK,
         \/ \E c \in 0 .. MaxDiscs : SelDisc(c)
         \/ Home
         \/ \E t \in 0 .. HdTracks + FdTracks : SetTrack(t)
         \/ \E s \in 1 .. HdSectors + FdSectors : SetSector(s)
         \/ \E x \in Data : Fill(x)
  PROVE  DiskStepOK
<1>1. /\ drive \in Drives /\ dma \in Data
      /\ track \in 0 .. Tracks(drive) - 1 /\ sector \in 1 .. Sectors(drive)
  BY DEF DiskOK
<1>2. \A d \in Drives : 0 \in 0 .. Tracks(d) - 1 /\ 1 \in 1 .. Sectors(d)
  BY Geometry
<1>3. MaxDiscs \in Nat \ {0} /\ Drives = 0 .. MaxDiscs - 1
  BY DiskAssumption DEF Drives
<1>4. /\ UNCHANGED fileVars /\ A' = A /\ full' = full
      /\ drive' \in Drives /\ dma' \in Data
      /\ track' \in 0 .. Tracks(drive') - 1 /\ sector' \in 1 .. Sectors(drive')
  <2>1. ASSUME NEW c \in 0 .. MaxDiscs, SelDisc(c)
        PROVE  <1>4!:
    <3>1. CASE c >= MaxDiscs
      BY <1>1, <2>1, <3>1 DEF SelDisc
    <3>2. CASE ~(c >= MaxDiscs)
      <4>1. c \in Drives
        BY <1>3, <3>2
      <4> QED BY <1>1, <1>2, <2>1, <3>2, <4>1 DEF SelDisc
    <3> QED BY <3>1, <3>2
  <2>2. CASE Home
    BY <1>1, <1>2, <2>2 DEF Home
  <2>3. ASSUME NEW t \in 0 .. HdTracks + FdTracks, SetTrack(t)
        PROVE  <1>4!:
    <3>1. t \in Nat /\ t < Tracks(drive) /\ Tracks(drive) \in Nat
      BY <1>1, <2>3, Geometry, DiskAssumption DEF SetTrack
    <3> QED BY <1>1, <2>3, <3>1 DEF SetTrack
  <2>4. ASSUME NEW s \in 1 .. HdSectors + FdSectors, SetSector(s)
        PROVE  <1>4!:
    <3>1. s \in Nat /\ 1 <= s /\ s <= Sectors(drive) /\ Sectors(drive) \in Nat
      BY <1>1, <2>4, Geometry, DiskAssumption DEF SetSector
    <3> QED BY <1>1, <2>4, <3>1 DEF SetSector
  <2>5. ASSUME NEW x \in Data, Fill(x)
        PROVE  <1>4!:
    BY <1>1, <2>5 DEF Fill
  <2> QED BY <2>1, <2>2, <2>3, <2>4, <2>5
<1> QED BY <1>4, PreparedOK

\* Booting closes the files, and may lose what is pending if the host is full.
LEMMA BootOK ==
  ASSUME DiskOK, NEW d \in Drives, NEW lost \in SUBSET {k \in Drives : pending[k] # Nothing},
         Boot(d, lost)
  PROVE  DiskStepOK
<1> DEFINE g(k) == IF k \in lost THEN images[k] ELSE Flushed(images[k], pending[k])
<1>1. /\ images \in [Drives -> Seq(Data)] /\ pending \in [Drives -> Waiting]
      /\ open \in [Drives -> BOOLEAN] /\ drivelen \in [Drives -> Nat]
  BY DEF DiskOK, Waiting
<1>2. /\ images' = [k \in Drives |-> g(k)]
      /\ pending' = [k \in Drives |-> Nothing] /\ open' = [k \in Drives |-> FALSE]
      /\ drivelen' = [k \in Drives |-> 0]
      /\ drive' = d /\ track' = 0 /\ sector' = 1 /\ dma' \in Data /\ A' = A /\ full' = full
      /\ (lost # {} => full) /\ A \in {0, 1} /\ full \in BOOLEAN
  BY DEF Boot, DiskOK
<1>3. \A k \in Drives : g(k) \in Seq(Data)
  BY <1>1, FlushedIs
<1> HIDE DEF g
<1>4. Nothing \in Waiting /\ Nothing.at = -1
  BY DEF Waiting, Nothing
<1>5. DiskOK'
  <2>1. /\ images' \in [Drives -> Seq(Data)] /\ pending' \in [Drives -> Waiting]
        /\ open' \in [Drives -> BOOLEAN] /\ drivelen' \in [Drives -> Nat]
    BY <1>2, <1>3, <1>4
  <2>2. 0 \in 0 .. Tracks(d) - 1 /\ 1 \in 1 .. Sectors(d)
    BY Geometry
  <2>3. \A k \in Drives : ~open'[k] /\ pending'[k] = Nothing
    BY <1>2
  <2> QED BY <1>2, <2>1, <2>2, <2>3
          DEF DiskOK, Waiting, Drives, Sectors, Tracks, Flushed, Put, Nothing, Larger
<1>6. /\ OpenDrives' = {} /\ Exposed' = [k \in Drives |-> {}]
  <2>1. OpenDrives' = {k \in Drives : open'[k]}
    BY DEF OpenDrives, Drives
  <2>2. Exposed' = [k \in Drives |-> Exposed'[k]]
    BY DEF Exposed, Drives
  <2>3. \A k \in Drives : Exposed'[k] = {}
    BY <1>2, ShownIs, NothingExposed
  <2>4. Exposed' = [k \in Drives |-> {}]
    BY <2>2, <2>3
  <2> QED BY <1>2, <2>1, <2>4
<1>7. ASSUME NEW k \in Drives, NEW a \in SectorAddresses(k)
      PROVE  \/ Kept(Shown[k][a], Shown'[k][a])
             \/ full /\ a \in Exposed[k] /\ Shown'[k][a] \in Cells
  <2>1. PICK m \in Nat : m = Offset(k, a[1], a[2])
    BY OffsetIsInjective
  <2>2. PICK f \in Seq(Data), p \in Waiting, o \in BOOLEAN, len \in Nat :
          f = images[k] /\ p = pending[k] /\ o = open[k] /\ len = drivelen[k]
    BY <1>1
  <2>3. Shown[k][a] = CellOf(f, p, o, len, m)
    BY <2>1, <2>2, ShownIs DEF ImageOf
  <2>4. Shown'[k][a] = CellOf(g(k), Nothing, FALSE, 0, m)
    <3>1. Shown'[k] = ImageOf(k, g(k), Nothing, FALSE, 0)
      BY <1>2, ShownIs
    <3> QED BY <2>1, <3>1 DEF ImageOf
  <2>5. CASE k \in lost
    <3>1. full /\ g(k) = f
      BY <1>2, <2>2, <2>5 DEF g
    <3>2. CASE m = p.at
      <4>1. a \in Exposed[k]
        <5>1. Exposed[k] = ExposedOf(k, p)
          BY <2>2, ShownIs
        <5> QED BY <2>1, <3>2, <5>1 DEF ExposedOf
      <4>2. 0 \in Nat /\ FALSE \in BOOLEAN
        OBVIOUS
      <4> QED BY <1>4, <2>4, <3>1, <4>1, <4>2, CellIsCell
    <3>3. CASE m # p.at
      <4>1. CellOf(f, Nothing, FALSE, 0, m) = IF m < Len(f) THEN f[m + 1] ELSE Unwritten
        BY <1>4, <2>1 DEF CellOf
      <4>2. CellOf(f, p, o, len, m) = IF m < Len(f) THEN f[m + 1]
                                      ELSE IF o /\ m < len THEN Lost ELSE Unwritten
        BY <3>3 DEF CellOf
      <4> QED BY <2>3, <2>4, <3>1, <4>1, <4>2 DEF Kept, Same, Cells
    <3> QED BY <3>2, <3>3
  <2>6. CASE k \notin lost /\ o
    <3>1. g(k) = Flushed(f, p)
      BY <2>2, <2>6 DEF g
    <3>2. Len(Flushed(f, p)) <= len
      BY <2>2, <2>6 DEF DiskOK
    <3>3. Kept(CellOf(f, p, TRUE, len, m), CellOf(Flushed(f, p), Nothing, FALSE, len, m))
      BY <3>2, FlushKeeps
    <3>4. CellOf(Flushed(f, p), Nothing, FALSE, len, m) = CellOf(Flushed(f, p), Nothing, FALSE, 0, m)
      BY DEF CellOf
    <3> QED BY <2>3, <2>4, <2>6, <3>1, <3>3, <3>4
  <2>7. CASE k \notin lost /\ ~o
    <3>1. p = Nothing /\ Flushed(f, p) = f
      BY <1>4, <2>2, <2>7 DEF DiskOK, Flushed
    <3>2. g(k) = f
      BY <2>2, <2>7, <3>1 DEF g
    <3>3. CellOf(f, p, o, len, m) = CellOf(f, Nothing, FALSE, 0, m)
      BY <2>7, <3>1 DEF CellOf
    <3> QED BY <2>3, <2>4, <3>2, <3>3 DEF Kept, Same
  <2> QED BY <2>5, <2>6, <2>7
<1>8. \A k \in Drives : \A a \in SectorAddresses(k) : P!Holds(k, a) \/ P!Loses(k, a)
  <2>1. ASSUME NEW k \in Drives, NEW a \in SectorAddresses(k) PROVE P!Holds(k, a) \/ P!Loses(k, a)
    <3>1. CASE Kept(Shown[k][a], Shown'[k][a])
      BY <3>1, HoldsIs
    <3>2. CASE full /\ a \in Exposed[k] /\ Shown'[k][a] \in Cells
      BY <3>2 DEF P!Loses, P!Cells, Cells, Shown, Exposed
    <3> QED BY <1>7, <3>1, <3>2
  <2> QED BY <2>1
<1>9. P!Boot
  BY <1>2, <1>5, <1>6, <1>8, SelectedOK
     DEF P!Boot, P!Selections, Shown, Exposed, OpenDrives, Selection, Selections, Address
<1> QED BY <1>5, <1>9 DEF DiskStepOK, P!Next

\* Every step is one of the drives.
LEMMA DiskStep == DiskOK /\ [DiskNext]_diskVars => DiskStepOK
<1> SUFFICES ASSUME DiskOK, [DiskNext]_diskVars PROVE DiskStepOK
  OBVIOUS
<1>1. CASE drive \in Used /\ Transfer
  <2>1. ASSUME NEW padded \in 1 .. Sectors(drive) * Tracks(drive), NEW kept \in 0 .. padded - 1,
               PaddingFails(padded, kept)
        PROVE  DiskStepOK
    <3>1. padded \in Nat /\ kept \in Nat
      OBVIOUS
    <3> QED BY <2>1, <3>1, PaddingFailsOK
  <2> QED BY <1>1, <2>1, ReadOK, WriteOK, SeekFailsOK, NotOpenedOK DEF Transfer
<1>2. ASSUME NEW d \in Drives, NEW lost \in SUBSET {k \in Drives : pending[k] # Nothing}, Boot(d, lost)
      PROVE  DiskStepOK
  BY <1>2, BootOK
<1>3. CASE UNCHANGED diskVars
  <2>1. UNCHANGED <<images, pending, open, drivelen, drive, track, sector, dma, A, full>>
    BY <1>3 DEF diskVars
  <2>2. DiskOK'
    BY <2>1 DEF DiskOK, Drives, Tracks, Sectors, Flushed, Put, Larger, Nothing
  <2> QED BY <1>3, <2>2 DEF DiskStepOK
<1> QED BY <1>1, <1>2, <1>3, PreparationOK DEF DiskNext

\* Nothing is open at first.
LEMMA DiskInitOK == DiskInit => DiskOK /\ P!Init
<1> SUFFICES ASSUME DiskInit PROVE DiskOK /\ P!Init
  OBVIOUS
<1>1. /\ images \in [Drives -> Seq(Data)] /\ pending = [d \in Drives |-> Nothing]
      /\ open = [d \in Drives |-> FALSE] /\ drivelen = [d \in Drives |-> 0]
      /\ drive = 0 /\ track = 0 /\ sector = 1
      /\ dma = Blank /\ A = 0 /\ full \in BOOLEAN
  <2>1. Images \cup {<<>>} \subseteq Seq(Data)
    BY DiskAssumption, EmptySeq
  <2> QED BY <2>1 DEF DiskInit
<1>2. 0 \in Drives /\ Blank \in Data
  BY DiskAssumption DEF Drives
<1>3. DiskOK
  <2>1. 0 \in 0 .. Tracks(0) - 1 /\ 1 \in 1 .. Sectors(0)
    BY <1>2, Geometry
  <2> QED BY <1>1, <1>2, <2>1 DEF DiskOK
<1>4. ASSUME NEW d \in Drives
      PROVE  Shown[d] \in [SectorAddresses(d) -> Data \cup {Unwritten}] /\ Exposed[d] = {}
  <2>1. PICK f \in Seq(Data) : f = images[d]
    BY <1>1
  <2>2. Shown[d] = ImageOf(d, f, Nothing, FALSE, 0) /\ Exposed[d] = ExposedOf(d, Nothing)
    BY <1>1, <2>1, ShownIs
  <2>3. ASSUME NEW a \in SectorAddresses(d)
        PROVE  CellOf(f, Nothing, FALSE, 0, Offset(d, a[1], a[2])) \in Data \cup {Unwritten}
    <3>1. PICK n \in Nat : n = Offset(d, a[1], a[2])
      BY OffsetIsInjective
    <3>2. n < Len(f) => f[n + 1] \in Data
      OBVIOUS
    <3>3. Nothing.at = -1
      BY DEF Nothing
    <3> QED BY <3>1, <3>2, <3>3 DEF CellOf
  <2>4. ImageOf(d, f, Nothing, FALSE, 0) \in [SectorAddresses(d) -> Data \cup {Unwritten}]
    BY <2>3 DEF ImageOf
  <2> QED BY <2>2, <2>4, NothingExposed
<1>5. Exposed = [d \in Drives |-> {}]
  BY <1>4 DEF Exposed
<1>6. OpenDrives = {}
  BY <1>1 DEF OpenDrives
<1>7. Selection \in Selections
  BY <1>3, SelectionOK DEF DiskOK, Selection, Address
<1>8. P!Init
  BY <1>1, <1>2, <1>4, <1>5, <1>6, <1>7
     DEF P!Init, P!Selections, Shown, Exposed, OpenDrives, Selection, Selections, Address
<1> QED BY <1>3, <1>8

\* The cached length of every drive that is open is the length of its file once
\* what is pending is written, as long as the host has room, and never less; what
\* is pending lies within it (bios.c: realizedisk, rdsector, wrsector, closeall).
THEOREM DiskInvariant == DiskSpec => []DiskOK
<1>1. DiskOK /\ [DiskNext]_diskVars => DiskOK'
  BY DiskStep DEF DiskStepOK
<1>2. QED
  BY <1>1, DiskInitOK, PTL DEF DiskSpec

\* The files of the drives are what CP/M is promised: arrays of sectors while the
\* host has room; on a full one the sector of each drive written last may be lost,
\* by the transfer that fails next or unnoticed by a boot, and no other sector.
THEOREM DisksAreDrives == DiskSpec => IsDrives
<1>1. DiskOK /\ [DiskNext]_diskVars => DiskOK' /\ [UNCHANGED diskVars \/ P!Next]_(P!vars)
  BY DiskStep DEF DiskStepOK
<1>2. QED
  BY <1>1, DiskInitOK, PTL DEF DiskSpec, IsDrives

-----------------------------------------------------------------------------
(* Drives and files together.                                              *)

\* Disks and files begin as both promise.
LEMMA DrivesInitOK == MCInit => DiskOK /\ P!Init /\ FilesOK /\ RcOK /\ Drive!Init
  BY DiskInitOK, FilesInitOK, DriveInit DEF MCInit

\* A step of one part leaves the other as it is.
LEMMA DrivesStep ==
  ASSUME Tidy, DiskOK, FilesOK, RcOK, [DiskPart \/ FilesPart]_<<part, diskVars, filesVars>>
  PROVE  /\ DiskOK' /\ [UNCHANGED diskVars \/ P!Next]_(P!vars)
         /\ FilesOK' /\ RcOK' /\ [UNCHANGED filesVars \/ Drive!Next]_(Drive!cvars)
<1>1. [DiskNext]_diskVars /\ [FilesNext]_filesVars
  BY DEF DiskPart, FilesPart
<1>2. DiskOK' /\ [UNCHANGED diskVars \/ P!Next]_(P!vars)
  BY <1>1, DiskStep DEF DiskStepOK
<1>3. FilesOK'
  BY <1>1, FilesStep
<1>4. RcOK' /\ (Drive!Next \/ UNCHANGED Drive!cvars)
  BY <1>1, <1>3, DriveStep
<1> QED BY <1>2, <1>3, <1>4

\* What the emulator remembers of its drives and of the files of a tidy program
\* is right: the cached length of every image that is open is the length of the
\* file with what is pending for it, or more once the host was full, and the
\* table of open files is one-to-one (bios.c: realizedisk, wrsector; bdos.c:
\* lookfp, storefp, delfp).
THEOREM DrivesInvariant == ASSUME Tidy PROVE MCSpec => []DrivesOK
<1>1. DiskOK /\ FilesOK /\ RcOK /\ [DiskPart \/ FilesPart]_<<part, diskVars, filesVars>>
        => (DiskOK /\ FilesOK /\ RcOK)'
  BY DrivesStep
<1>2. DiskOK /\ FilesOK => DrivesOK
  BY DEF FilesOK, DrivesOK
<1> QED BY <1>1, <1>2, DrivesInitOK, PTL DEF MCSpec

\* CP/M is given what it is promised: drives are arrays of sectors, and to a
\* tidy program files are records; only what a full host refuses is lost, and of
\* a drive no sector but the one written last (CpmDrive, CpmRecords).
THEOREM DrivesRefine == ASSUME Tidy PROVE MCSpec => DrivesAreKept
<1>1. DiskOK /\ FilesOK /\ RcOK /\ [DiskPart \/ FilesPart]_<<part, diskVars, filesVars>>
        => /\ (DiskOK /\ FilesOK /\ RcOK)'
           /\ [UNCHANGED diskVars \/ P!Next]_(P!vars)
           /\ [UNCHANGED filesVars \/ Drive!Next]_(Drive!cvars)
  BY DrivesStep
<1> QED BY <1>1, DrivesInitOK, PTL DEF MCSpec, DrivesAreKept, IsDrives, IsDrive
=============================================================================
