----------------------------- MODULE CpmConsole -----------------------------
(***************************************************************************)
(* What the CP/M emulator gives its guest of the host.  The console        *)
(* (bearos_cpm/src/vt.c).  Input: bytes the terminal sends become the      *)
(* control keys of WordStar, with a one-byte look-ahead (last) for the     *)
(* console status and a queue (stuff) for keys that stand for two.         *)
(* Output: the escape sequences of a VT52 become those of an ANSI          *)
(* terminal.  A byte that stands for itself is "x"; the bytes the code     *)
(* tells apart have names of their own.                                    *)
(*                                                                         *)
(* Then the BIOS functions that give a program files of the host and the   *)
(* time of day (openunix .. dotime of bios.c).  A file is known to the     *)
(* program by the number of an entry of cpm_file, kept in its FCB with the *)
(* next block.                                                             *)
(***************************************************************************)
EXTENDS Integers, Sequences, FiniteSets

CONSTANTS
  MaxTyped,     \* bound: bytes the terminal sends
  MaxSent,      \* bound: bytes the guest writes
  FifoSize      \* FIFO_SIZE

\* The keys of one sequence find room in stuff.
ASSUME ConsoleAssumption ==
  MaxTyped \in Nat /\ MaxSent \in Nat /\ FifoSize \in Nat /\ FifoSize >= 2

VARIABLES
  conTyped,     \* everything the terminal has sent
  conRead,      \* how many bytes of it were read
  conLast,      \* last: "none" or a byte
  conStuff,     \* stuff
  conAt,        \* where kget is: "idle", or the bytes read so far of a sequence
  conGiven,     \* what the guest was given
  vtState,      \* the state of vt52
  vtSent,       \* the bytes the guest wrote
  vtShown       \* what went to the terminal for them

conVars == <<conTyped, conRead, conLast, conStuff, conAt, conGiven>>
vtVars == <<vtState, vtSent, vtShown>>
consoleVars == <<conVars, vtVars>>

ConInit == /\ conTyped = <<>> /\ conRead = 0 /\ conLast = "none"
           /\ conStuff = <<>> /\ conAt = <<>> /\ conGiven = <<>>
           /\ vtState = 0 /\ vtSent = <<>> /\ vtShown = <<>>

-----------------------------------------------------------------------------
(* Input.                                                                  *)

Typing == {"esc", "[", "O", "A", "H", "3", "P", "x"}

Type == /\ Len(conTyped) < MaxTyped
        /\ \E b \in Typing : conTyped' = Append(conTyped, b)
        /\ UNCHANGED <<conRead, conLast, conStuff, conAt, conGiven, vtVars>>

\* kpoll: the next byte, from last or from the terminal.
Ready == conLast # "none" \/ conRead < Len(conTyped)
NextByte == IF conLast # "none" THEN conLast ELSE conTyped[conRead + 1]
Take == /\ conLast' = "none"
        /\ conRead' = IF conLast # "none" THEN conRead ELSE conRead + 1

\* kpush
Pushed(s, keys) ==
  LET new == s \o keys IN IF Len(new) > FifoSize THEN SubSeq(new, 1, FifoSize) ELSE new

\* Mutant of ConStat: the byte it polled is looked at, not kept.
ConStatDrops ==
  /\ conAt = <<>> /\ conLast = "none" /\ conRead < Len(conTyped)
  /\ conLast' = "none" /\ conRead' = conRead + 1
  /\ UNCHANGED <<conTyped, conStuff, conAt, conGiven, vtVars>>

\* constat, when it finds something it had not yet.
ConStat ==
  /\ conAt = <<>> /\ conLast = "none" /\ conRead < Len(conTyped)
  /\ conLast' = NextByte /\ conRead' = conRead + 1
  /\ UNCHANGED <<conTyped, conStuff, conAt, conGiven, vtVars>>

\* The value constat gives: what waits in stuff does not count.
Status == Ready

\* kget gives keys[1] and pushes the others.
Give(keys) == /\ conGiven' = Append(conGiven, Head(keys))
              /\ conStuff' = Pushed(conStuff, Tail(keys))
              /\ conAt' = <<>>

\* Mutant of GetStuffed: it waits for the status first.
GetStuffedLate == /\ conAt = <<>> /\ conStuff # <<>> /\ Ready
                  /\ conGiven' = Append(conGiven, Head(conStuff))
                  /\ conStuff' = Tail(conStuff)
                  /\ UNCHANGED <<conTyped, conRead, conLast, conAt, vtVars>>

\* kget, one read at a time.  A queued key comes first.
GetStuffed == /\ conAt = <<>> /\ conStuff # <<>>
              /\ conGiven' = Append(conGiven, Head(conStuff))
              /\ conStuff' = Tail(conStuff)
              /\ UNCHANGED <<conTyped, conRead, conLast, conAt, vtVars>>

GetPlain == /\ conAt = <<>> /\ conStuff = <<>> /\ Ready /\ NextByte # "esc"
            /\ Take /\ Give(<<NextByte>>)
            /\ UNCHANGED <<conTyped, vtVars>>

GetEsc == /\ conAt = <<>> /\ conStuff = <<>> /\ Ready /\ NextByte = "esc"
          /\ Take /\ conAt' = <<"esc">>
          /\ UNCHANGED <<conTyped, conStuff, conGiven, vtVars>>

\* Nothing follows the escape at once: the escape key.
LoneEsc == /\ conAt = <<"esc">> /\ ~Ready
           /\ Give(<<"esc">>)
           /\ UNCHANGED <<conTyped, conRead, conLast, vtVars>>

AfterEsc == /\ conAt = <<"esc">> /\ Ready
            /\ Take
            /\ IF NextByte \in {"[", "O"}
               THEN conAt' = <<"esc", NextByte>> /\ UNCHANGED <<conStuff, conGiven>>
               ELSE Give(<<"esc", NextByte>>)
            /\ UNCHANGED <<conTyped, vtVars>>

\* The keys of a sequence of three bytes.
Key3(s) == CASE s[3] = "A" -> <<"^E">>
             [] s[3] = "H" -> <<"^Q", "s">>
             [] s[2] = "O" /\ s[3] = "P" -> <<"INTR">>
             [] OTHER -> s

\* The third byte, for which kget waits.  ESC [ 3 waits for one more and
\* drops it.
ThirdByte ==
  /\ Len(conAt) = 2 /\ Ready
  /\ Take
  /\ IF conAt[2] = "[" /\ NextByte = "3"
     THEN conAt' = Append(conAt, NextByte) /\ UNCHANGED <<conStuff, conGiven>>
     ELSE Give(Key3(Append(conAt, NextByte)))
  /\ UNCHANGED <<conTyped, vtVars>>

FourthByte == /\ Len(conAt) = 3 /\ Ready
              /\ Take /\ Give(<<"^G">>)
              /\ UNCHANGED <<conTyped, vtVars>>

Get == GetStuffed \/ GetPlain \/ GetEsc \/ LoneEsc \/ AfterEsc \/ ThirdByte \/ FourthByte

-----------------------------------------------------------------------------
(* Output.                                                                 *)

\* What the guest may write; "0" stands for a character too.
Writing == {"esc", "Y", "E", "B", "L", "*", "0", "cls"}

\* vt52: the state after c, and what it sends.  "pos" is the cursor address
\* made of the two bytes before, "attr" an attribute, "line" an inserted line.
To(st, out) == [st |-> st, out |-> out]

VtEscape(c) == CASE c = "esc" -> To(1, <<"esc">>)
                 [] c = "Y" -> To(2, <<>>)
                 [] c = "E" -> To(1, <<"line">>)
                 [] c = "B" -> To(4, <<>>)
                 [] c = "L" -> To(6, <<>>)
                 [] c = "*" -> To(8, <<>>)
                 [] OTHER -> To(0, <<"esc", c>>)

\* Mutant of VtArgument: behind a cursor address the next byte is its column again.
VtArgumentStays(s, c) == CASE s = 3 -> To(2, <<"pos">>)
                           [] s = 4 -> To(0, IF c = "0" THEN <<"attr">> ELSE <<"esc", "B", c>>)
                           [] s \in {2, 6, 7, 8} -> To(s + 1, <<>>)
                           [] s = 9 -> To(0, <<>>)

VtArgument(s, c) == CASE s = 3 -> To(0, <<"pos">>)
                      [] s = 4 -> To(0, IF c = "0" THEN <<"attr">> ELSE <<"esc", "B", c>>)
                      [] s \in {2, 6, 7, 8} -> To(s + 1, <<>>)
                      [] s = 9 -> To(0, <<>>)

Vt(s, c) == CASE s = 0 /\ c = "esc" -> To(1, <<>>)
              [] s = 0 /\ c = "cls" -> To(0, <<"home", "clear">>)
              [] s = 0 /\ c \notin {"esc", "cls"} -> To(0, <<c>>)
              [] s = 1 -> VtEscape(c)
              [] s > 1 -> VtArgument(s, c)

Write == /\ Len(vtSent) < MaxSent
         /\ \E c \in Writing :
              LET v == Vt(vtState, c)
              IN  /\ vtState' = v.st
                  /\ vtSent' = Append(vtSent, c)
                  /\ vtShown' = vtShown \o v.out
         /\ UNCHANGED conVars

ConNext == Type \/ ConStat \/ Get \/ Write
ConSpec == ConInit /\ [][ConNext]_consoleVars /\ WF_consoleVars(Get)

-----------------------------------------------------------------------------
(* Properties.                                                             *)

\* What typed bytes may become: each byte itself, or a sequence its keys, for an
\* escape may have come alone.  ESC [ 3 eats the byte behind it.
Readings(s) ==
  LET from[i \in 1 .. Len(s) + 1] ==
        IF i > Len(s) THEN {<<>>}
        ELSE {<<s[i]>> \o r : r \in from[i + 1]}
             \cup (IF i + 2 <= Len(s) /\ s[i] = "esc" /\ s[i + 1] \in {"[", "O"}
                   THEN {Key3(SubSeq(s, i, i + 2)) \o r : r \in from[i + 3]} ELSE {})
             \cup (IF i + 3 <= Len(s) /\ SubSeq(s, i, i + 2) = <<"esc", "[", "3">>
                   THEN {<<"^G">> \o r : r \in from[i + 4]} ELSE {})
  IN  from[1]

\* Nothing typed is lost, doubled or overtaken on its way through last, stuff
\* and the sequences: what the guest was given, with what waits for it, is a
\* reading of what the terminal sent.
InputIsReading ==
  conGiven \o conStuff \o conAt \o (IF conLast = "none" THEN <<>> ELSE <<conLast>>)
    \in Readings(SubSeq(conTyped, 1, conRead))

\* A guest that waits for keys gets what was typed, but the part of a sequence
\* that has not been typed to its end.
AllIsGiven == <>[](Len(conTyped) = MaxTyped => conRead = MaxTyped /\ conStuff = <<>>)

\* The status says that a key waits when one does.
StatusIsTrue == conStuff # <<>> /\ conAt = <<>> => Status

\* The commands with bytes behind them, how many (the row and the column, the
\* attribute, the ends of a line, a point), and what they mean, by the last.
Commands == {"Y", "B", "L", "*"}
Arguments(c) == CASE c = "B" -> 1 [] c = "L" -> 4 [] OTHER -> 2
Meaning(c, last) == CASE c = "Y" -> <<"pos">>
                      [] c = "B" -> IF last = "0" THEN <<"attr">> ELSE <<"esc", "B", last>>
                      [] OTHER -> <<>>

\* The text read a whole sequence at a time, from byte i on; open is whether an
\* escape, or an inserted line that does not end one, stands before it.
Read(s) ==
  LET from[i \in 1 .. Len(s) + 1] ==
        [open \in BOOLEAN |->
           IF i > Len(s) THEN <<>>
           ELSE LET c == s[i]
                    end == i + Arguments(c)
                IN  CASE ~open /\ c = "esc" -> from[i + 1][TRUE]
                      [] ~open /\ c = "cls" -> <<"home", "clear">> \o from[i + 1][FALSE]
                      [] ~open /\ c \notin {"esc", "cls"} -> <<c>> \o from[i + 1][FALSE]
                      [] open /\ c \in Commands ->
                           IF end > Len(s) THEN <<>> ELSE Meaning(c, s[end]) \o from[end + 1][FALSE]
                      [] open /\ c = "esc" -> <<"esc">> \o from[i + 1][TRUE]
                      [] open /\ c = "E" -> <<"line">> \o from[i + 1][TRUE]
                      [] open /\ c \notin Commands \cup {"esc", "E"} ->
                           <<"esc", c>> \o from[i + 1][FALSE]]
  IN  from[1][FALSE]

\* However sequences follow one another, arguments included that look like
\* escapes and commands, the terminal is sent what the bytes mean when they are
\* taken apart a sequence at a time.
ScreenIsText == vtShown = Read(vtSent)

-----------------------------------------------------------------------------
(* Files of the host and the time of day.                                  *)

CONSTANTS
  UnixNames,   \* names of host files
  UnixFcbs,    \* FCBs of programs
  CpmFiles,    \* CPM_FILES
  MaxLength,   \* bound: blocks of a file that is written
  MaxLeaks,    \* bound: FILEs that are open and in no entry
  Years        \* bound: the years the time is asked in

ASSUME HostAssumption ==
  /\ "free" \notin UnixNames /\ "none" \notin UnixNames /\ IsFiniteSet(UnixFcbs)
  /\ CpmFiles \in Nat /\ MaxLength \in Nat /\ MaxLeaks \in Nat
  /\ Years \subseteq 78 .. 400

VARIABLES
  unixLen,     \* the length in bytes of each file, -1 if it does not exist
  unixTable,   \* cpm_file: the name of the file each FILE is open on, or "free"
  unixLeaked,  \* FILEs that are open and in no entry
  unixFcb,     \* FDOFFSET and BLKOFFSET of each FCB (what is put at SZOFFSET is
               \* never read)
  unixA,       \* register A
  unixOwn,     \* history: the file each FCB was opened on and not closed, or "none"
  unixTime     \* the date asked last, and the days put into the time table

unixVars == <<unixLen, unixTable, unixLeaked, unixFcb, unixA, unixOwn, unixTime>>

Block == 128
Ok == 0
Failed == 255
Blocks128(n) == (n + Block - 1) \div Block

UnixInit ==
  /\ unixLen \in [UnixNames -> {-1, Block + 100}]
  /\ unixTable = [i \in 0 .. CpmFiles - 1 |-> "free"]
  /\ unixLeaked = 0
  /\ unixFcb = [f \in UnixFcbs |-> [fd |-> 0, blk |-> 0]]
  /\ unixA = Ok
  /\ unixOwn = [f \in UnixFcbs |-> "none"]
  /\ unixTime = [year |-> 78, yday |-> 0, days |-> 0]

-----------------------------------------------------------------------------
(* Files.                                                                  *)

FreeEntries == {i \in DOMAIN unixTable : unixTable[i] = "free"}

\* cpm_file_alloc: the first free entry, or -1.
Entry == IF FreeEntries = {} THEN -1
         ELSE CHOOSE i \in FreeEntries : \A j \in FreeEntries : i <= j

\* The rest of openunix and createunix once fopen has succeeded.  Where no
\* entry is free the FILE stays open.
Assign(f, name) ==
  /\ Entry = -1 => unixLeaked < MaxLeaks
  /\ unixA' = IF Entry = -1 THEN Failed ELSE Ok
  /\ unixTable' = IF Entry = -1 THEN unixTable ELSE [unixTable EXCEPT ![Entry] = name]
  /\ unixLeaked' = IF Entry = -1 THEN unixLeaked + 1 ELSE unixLeaked
  /\ unixFcb' = [unixFcb EXCEPT ![f] = [fd |-> Entry, blk |-> 0]]
  /\ unixOwn' = IF Entry = -1 THEN unixOwn ELSE [unixOwn EXCEPT ![f] = name]

OpenUnix(f, name) ==
  /\ unixOwn[f] = "none"
  /\ IF unixLen[name] = -1
     THEN unixA' = Failed /\ UNCHANGED <<unixTable, unixLeaked, unixFcb, unixOwn>>
     ELSE Assign(f, name)
  /\ UNCHANGED <<unixLen, unixTime>>

CreateUnix(f, name) ==
  /\ unixOwn[f] = "none"
  /\ unixLen' = [unixLen EXCEPT ![name] = 0]
  /\ Assign(f, name)
  /\ UNCHANGED unixTime

\* Mutant of ReadUnix: a block that begins at the end of the file is read.
ReadUnixPast(f) ==
  LET blk == unixFcb[f].blk
      left == unixLen[unixTable[unixFcb[f].fd]] - (Block * blk)
  IN  /\ unixOwn[f] # "none"
      /\ IF left < 0 THEN unixA' = Failed /\ UNCHANGED unixFcb
         ELSE /\ unixA' = Ok
              /\ unixFcb' = [unixFcb EXCEPT ![f].blk = blk + 1]
      /\ UNCHANGED <<unixLen, unixTable, unixLeaked, unixOwn, unixTime>>

\* A program reads and writes an FCB it opened.  (wrunix would hand no FILE to
\* fseek otherwise.)
ReadUnix(f) ==
  LET blk == unixFcb[f].blk
      left == unixLen[unixTable[unixFcb[f].fd]] - (Block * blk)
  IN  /\ unixOwn[f] # "none"
      /\ IF left <= 0 THEN unixA' = Failed /\ UNCHANGED unixFcb
         ELSE /\ unixA' = Ok
              /\ unixFcb' = [unixFcb EXCEPT ![f].blk = blk + 1]
      /\ UNCHANGED <<unixLen, unixTable, unixLeaked, unixOwn, unixTime>>

WriteUnix(f) ==
  LET blk == unixFcb[f].blk
      name == unixTable[unixFcb[f].fd]
  IN  /\ unixOwn[f] # "none" /\ blk < MaxLength
      /\ \/ /\ unixA' = Ok
            /\ unixFcb' = [unixFcb EXCEPT ![f].blk = blk + 1]
            /\ unixLen' = [unixLen EXCEPT ![name] = IF @ > Block * (blk + 1) THEN @ ELSE Block * (blk + 1)]
         \/ unixA' = Failed /\ UNCHANGED <<unixFcb, unixLen>>
      /\ UNCHANGED <<unixTable, unixLeaked, unixOwn, unixTime>>

\* Mutant of CloseUnix: the FILE is closed, its entry stays.
CloseUnixKeeps(f) ==
  /\ unixOwn[f] # "none"
  /\ unixA' = Ok
  /\ unixOwn' = [unixOwn EXCEPT ![f] = "none"]
  /\ UNCHANGED <<unixTable, unixLen, unixLeaked, unixFcb, unixTime>>

\* closeunix with cpm_file_free: fclose may fail, the entry is free then too.
CloseUnix(f) ==
  /\ unixOwn[f] # "none"
  /\ unixA' \in {Ok, Failed}
  /\ unixTable' = [unixTable EXCEPT ![unixFcb[f].fd] = "free"]
  /\ unixOwn' = [unixOwn EXCEPT ![f] = "none"]
  /\ UNCHANGED <<unixLen, unixLeaked, unixFcb, unixTime>>

-----------------------------------------------------------------------------
(* Time.                                                                   *)

\* tm_year counts from 1900: the code's test for leap years is made on it.
LeapTest(y) == y % 4 = 0 /\ (y % 100 # 0 \/ y % 400 = 0)

\* Mutant of DaysSince1978: the current year is taken for a past one.
DaysSince1978Early(year, yday) ==
  (((year - 78) * 365) + yday + 1 + Cardinality({y \in 78 .. year : LeapTest(y)})) % 65536

\* (days is a word.)
DaysSince1978(year, yday) ==
  (((year - 78) * 365) + yday + 1 + Cardinality({y \in 78 .. year - 1 : LeapTest(y)})) % 65536

DoTime == \E year \in Years, yday \in {0, 58, 59, 60, 364} :
            /\ unixTime' = [year |-> year, yday |-> yday,
                            days |-> DaysSince1978(year, yday)]
            /\ UNCHANGED <<unixLen, unixTable, unixLeaked, unixFcb, unixA, unixOwn>>

FilesNext ==
  \E f \in UnixFcbs :
    \/ \E n \in UnixNames : OpenUnix(f, n) \/ CreateUnix(f, n)
    \/ ReadUnix(f) \/ WriteUnix(f) \/ CloseUnix(f)

UnixNext == FilesNext \/ DoTime

\* The console and the host's files beside each other.
HostInit == ConInit /\ UnixInit
HostNext == (ConNext /\ UNCHANGED unixVars) \/ (UnixNext /\ UNCHANGED consoleVars)
HostSpec == HostInit /\ [][HostNext]_<<consoleVars, unixVars>>

-----------------------------------------------------------------------------
(* Properties.                                                             *)

\* For a program that uses an FCB between open and close only: its number leads
\* to its own file and to no other FCB's FILE, and the entries in use are those
\* of the open FCBs, so that closing makes room; FILEs leak only while every
\* entry is taken.
FilesAreOwn ==
  LET open == {f \in UnixFcbs : unixOwn[f] # "none"}
  IN  /\ \A f \in open : /\ unixFcb[f].fd \in DOMAIN unixTable
                         /\ unixTable[unixFcb[f].fd] = unixOwn[f]
      /\ \A f, g \in open : unixFcb[f].fd = unixFcb[g].fd => f = g
      /\ Cardinality(DOMAIN unixTable \ FreeEntries) = Cardinality(open)

\* Reading never goes beyond the block that holds the end of the file, though
\* other FCBs write it or create it anew meanwhile.
ReadsEnd ==
  [][\A f \in UnixFcbs : (unixA' = Ok /\ unixFcb'[f].blk = unixFcb[f].blk + 1) =>
        unixFcb'[f].blk <= Blocks128(unixLen'[unixOwn[f]])]_unixVars

Leap(year) == year % 4 = 0 /\ (year % 100 # 0 \/ year % 400 = 0)

\* The days since the first of January 1978, the calendar's leap years counted.
TrueDays(year, yday) ==
  ((year - 78) * 365) + yday + 1 + Cardinality({y \in 1978 .. 1899 + year : Leap(y)})

\* The date is right until 2000, but for the days since 1978 being kept in a
\* word; from then on a day is missing, for the test takes 2000, its year 100,
\* for a common year.
DateIsRight ==
  unixTime.days > 0 =>
    LET t == unixTime
    IN  t.days = (TrueDays(t.year, t.yday) - (IF t.year > 100 THEN 1 ELSE 0)) % 65536

\* The host answers what it was asked: bytes of the terminal in either direction
\* in whatever pieces they come, files for the FCB they were opened on, the date.
HostAnswers == InputIsReading /\ ScreenIsText /\ FilesAreOwn /\ DateIsRight

\* What the comment in dotime says: "add in the number of days for the leap
\* years - dumb but accurate".
DateAccurate ==
  unixTime.days > 0 => unixTime.days = TrueDays(unixTime.year, unixTime.yday) % 65536
=============================================================================
