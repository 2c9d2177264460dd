---------------------------- MODULE FrotzSaving ----------------------------
(***************************************************************************)
(* How the state of a game is written down to be restored.                 *)
(*                                                                         *)
(* Saved games (bearos_frotz/src/quetzal.c): save_quetzal writes the bytes *)
(* of a file of chunks: what story it is and the program counter, memory   *)
(* as the exclusive or with the story's own, and the array of the stack    *)
(* taken apart into portable frames.  restore_quetzal reads them into the  *)
(* running game, which it changes chunk by chunk.  A game is the machine   *)
(* of FrotzCode; a file is the sequence of its bytes, and may end anywhere.*)
(*                                                                         *)
(* Undo (bearos_frotz/src/fastmem.c, mem_diff and mem_undiff): the         *)
(* exclusive or of two memories, with runs of zeros written as a 0 and a   *)
(* length in one byte or two.  A length is less than Short = 0x80 in one   *)
(* byte; the second byte counts up to Long = 0x100 of those, and a longer  *)
(* run is split.  Bytes are bits here.                                     *)
(***************************************************************************)
EXTENDS FrotzStack, FrotzCode

CONSTANTS Short, Long,
          MaxRun,       \* 0x100: the zeros that two bytes of a saved memory stand for
          Dynamic,      \* z_header.dynamic_size
          Refreshed,    \* the addresses below it that restart_header writes
          Identity,     \* release, serial number and checksum of the story
          SavePlays,    \* instructions between saving and restoring
          SaveSteps     \* bound: steps of a game that saves and restores
ASSUME SavingAssumption ==
  /\ {Short, Long, MaxRun, SaveSteps} \subseteq Nat /\ Dynamic \in 1 .. 65534
  /\ Refreshed \subseteq 0 .. Dynamic - 1 /\ Identity \in [1 .. 10 -> 0 .. 255]

\* ID_FORM, ID_IFZS, ...
Id == [FORM |-> <<70, 79, 82, 77>>, IFZS |-> <<73, 70, 90, 83>>, IFhd |-> <<73, 70, 104, 100>>,
       CMem |-> <<67, 77, 101, 109>>, UMem |-> <<85, 77, 101, 109>>, Stks |-> <<83, 116, 107, 115>>]
Word2(w) == <<w \div 256, w % 256>>
Long4(l) == Word2(l \div 65536) \o Word2(l % 65536)
WordOf(f, at) == 256 * f[at + 1] + f[at + 2]
LongOf(f, at) == 65536 * WordOf(f, at) + WordOf(f, at + 2)

-----------------------------------------------------------------------------
(* save_quetzal.                                                           *)

Chunk(id, body) == id \o Long4(Len(body)) \o body \o [i \in 1 .. Len(body) % 2 |-> 0]
Form(chunks) ==
  LET all == FoldLeft(LAMBDA a, c : a \o c, <<>>, chunks) IN Id.FORM \o Long4(4 + Len(all)) \o Id.IFZS \o all
HeaderChunk(g, identity) == Chunk(Id.IFhd, identity \o <<g.pc \div 65536>> \o Word2(g.pc % 65536))

\* Bytes that are the story's own are counted, and written when one differs;
\* those at the end are left out.
StoryByte(g, i) == CodeMemories[g.version][i]
ZeroRunsLong(j) ==
  IF j = 0 THEN <<>>
  ELSE FoldLeft(LAMBDA a, i : a \o <<0, MaxRun - 1>>, <<>>, [i \in 1 .. j \div MaxRun |-> i]) \o <<0, j % MaxRun>>
ZeroRuns(j) ==
  IF j = 0 THEN <<>>
  ELSE FoldLeft(LAMBDA a, i : a \o <<0, MaxRun - 1>>, <<>>, [i \in 1 .. (j - 1) \div MaxRun |-> i]) \o <<0, (j - 1) % MaxRun>>
Compressed(g) ==
  LET Cell(r, i) == IF g.mem[i] = StoryByte(g, i) THEN [r EXCEPT !.zeros = @ + 1]
                    ELSE [zeros |-> 0, out |-> r.out \o ZeroRuns(r.zeros) \o <<g.mem[i] ^^ StoryByte(g, i)>>]
  IN FoldLeft(Cell, [zeros |-> 0, out |-> <<>>], [i \in 1 .. Dynamic |-> i]).out

\* The words that are written of frame k: its locals and the values above them,
\* up to where the next frame was pushed.  The bottom has no frame.
GameWord(g, i) == g.stack[g.size - i]
GameFrames(g) ==
  LET From[f \in 0 .. g.size] == IF f = g.size THEN <<f>> ELSE Append(From[1 + GameWord(g, f + 1)], f) IN From[g.fp]
Above(g, chain, k) == IF k = Len(chain) THEN g.size - Len(g.stack) ELSE chain[k + 1] + 4
WordsOf(g, chain, k) == SubSeq(g.stack, g.size - chain[k] + 1, g.size - Above(g, chain, k))
ManyWords(ws) == FoldLeft(LAMBDA a, w : a \o Word2(w), <<>>, ws)

\* The pc of a function is the one behind the byte that names the result
\* variable; that byte is written too.
SavedFrame(g, chain, k) ==
  LET f == chain[k]
      kind == GameWord(g, f)
      at == 512 * GameWord(g, f + 3) + GameWord(g, f + 2)
      nvars == (kind \div 256) % 16
  IN (IF kind < 4096 THEN Long4(256 * (at + 1) + nvars) \o <<ByteAt(g, at)>> ELSE Long4(256 * at + 16 + nvars) \o <<0>>)
     \o <<2 ^ (kind % 256) - 1>> \o Word2(Len(WordsOf(g, chain, k)) - nvars) \o ManyWords(WordsOf(g, chain, k))
StackChunk(g) ==
  LET chain == GameFrames(g)
      main == IF g.version = 6 THEN <<>> ELSE <<0, 0, 0, 0, 0, 0>> \o Word2(Len(WordsOf(g, chain, 1))) \o ManyWords(WordsOf(g, chain, 1))
  IN Chunk(Id.Stks, FoldLeft(LAMBDA a, k : a \o SavedFrame(g, chain, k), main, [k \in 1 .. Len(chain) - 1 |-> k + 1]))

\* Not in a direct call, where it is a fatal error
SaveQuetzal(g) == Form(<<HeaderChunk(g, Identity), Chunk(Id.CMem, Compressed(g)), StackChunk(g)>>)

-----------------------------------------------------------------------------
(* restore_quetzal: a reader r has the game, the bytes read (at), what is  *)
(* left of the file by its own account and of the chunk, what it got, what *)
(* an error is worth (fatal), and ret, which is Reading until it returns.  *)
(* Lengths have no sign: one that went below zero is a large one.          *)

Reading == 1
Returning(r, ret) == [r EXCEPT !.ret = ret]
Has(f, r, n) == Len(f) >= r.at + n
Skipped(r) == [r EXCEPT !.at = @ + r.len]

ReadIFhd(f, r) ==
  IF "IFhd" \in r.got \/ r.len < 13 \/ ~Has(f, r, 13) \/ SubSeq(f, r.at + 1, r.at + 10) # Identity THEN Returning(r, r.fatal)
  ELSE [r EXCEPT !.got = @ \cup {"IFhd"}, !.fatal = -1, !.at = @ + r.len,
                 !.game.pc = 65536 * f[r.at + 11] + WordOf(f, r.at + 11)]

\* The stack outside of routines
ReadMain(f, r) ==
  LET n == WordOf(f, r.at + 6)
      ok == /\ r.len >= 8 /\ Has(f, r, 8) /\ \A i \in 1 .. 6 : f[r.at + i] = 0
            /\ n <= r.game.size /\ r.len - 8 >= 2 * n /\ Has(f, r, 8 + 2 * n)
  IN CASE r.game.version = 6 -> r
       [] r.game.version # 6 /\ ~ok -> Returning(r, -1)
       [] OTHER -> [r EXCEPT !.game.stack = [i \in 1 .. n |-> WordOf(f, r.at + 6 + 2 * i)], !.at = @ + 8 + 2 * n, !.len = @ - 8 - 2 * n]

\* The lowest bit of x
LowBit(x) == CHOOSE i \in 0 .. 8 : (i = 8 \/ (x \div 2 ^ i) % 2 = 1) /\ \A j \in 0 .. i - 1 : (x \div 2 ^ j) % 2 = 0
FrameAtByte(f, at) ==
  LET flags == f[at + 4]
      behind == 65536 * f[at + 1] + WordOf(f, at + 1)
  IN [procedure |-> (flags \div 16) % 2 = 1, pc |-> IF (flags \div 16) % 2 = 1 THEN behind ELSE behind - 1,
      nvars |-> flags % 16, var |-> f[at + 5], args |-> f[at + 6] + 1, count |-> (flags % 16) + WordOf(f, at + 6)]
PackedFrameBare(g, x) == <<x.pc \div 512, x.pc % 512, g.fp - 1, (IF x.procedure THEN 4096 ELSE 0) + LowBit(x.args)>>
PackedFrame(g, x) ==
  <<x.pc \div 512, x.pc % 512, g.fp - 1, 256 * x.nvars + (IF x.procedure THEN 4096 ELSE 0) + LowBit(x.args)>>
ReadFrame(f, r) ==
  LET x == FrameAtByte(f, r.at)
      top == r.game.size - Len(r.game.stack) - 4
      ok == /\ r.len \notin 1 .. 7 /\ top >= 0 /\ Has(f, r, 8)
            /\ x.procedure \/ ByteAt(r.game, x.pc) = x.var
            /\ x.args = 2 ^ LowBit(x.args)
            /\ top > x.count /\ r.len \notin 1 .. 2 * x.count - 1 /\ Has(f, r, 8 + 2 * x.count)
  IN IF ~ok THEN Returning(r, -1)
     ELSE [r EXCEPT !.game.stack = @ \o PackedFrame(r.game, x) \o [i \in 1 .. x.count |-> WordOf(f, r.at + 6 + 2 * i)],
                    !.game.fp = top, !.game.frame_count = @ + 1, !.at = @ + 8 + 2 * x.count, !.len = @ - 8 - 2 * x.count]
RECURSIVE ReadFrames(_, _)
ReadFrames(f, r) == IF r.ret # Reading \/ r.len = 0 THEN r ELSE ReadFrames(f, ReadFrame(f, r))
ReadStks(f, r) == \* the bytes of a second one are taken for chunks
  IF "Stks" \in r.got THEN r
  ELSE ReadFrames(f, ReadMain(f, [r EXCEPT !.got = @ \cup {"Stks"}, !.fatal = -1, !.game.stack = <<>>, !.game.fp = r.game.size,
                                            !.game.frame_count = 0]))

\* i bytes of memory are done.  A chunk that goes on behind dynamic memory, or
\* ends within a run, is not taken; one that ends early means a run.
StoryRun(r, n) == [r EXCEPT !.i = @ + n,
                            !.game.mem = SubSeq(@, 1, r.i) \o SubSeq(CodeMemories[r.game.version], r.i + 1, r.i + n) \o SubSeq(@, r.i + n + 1, Len(@))]
UpTo(n) == IF n < Dynamic THEN n ELSE Dynamic
RECURSIVE Uncompress(_, _)
UncompressRun(f, r) == \* without a length, a byte too many is skipped
  CASE r.len = 1 -> [r EXCEPT !.at = @ + 2]
    [] r.len > 1 /\ ~Has(f, r, 2) -> Returning(r, r.fatal)
    [] OTHER -> Uncompress(f, [StoryRun(r, UpTo(r.i + f[r.at + 2] + 1) - r.i) EXCEPT !.at = @ + 2, !.len = @ - 2])
Uncompress(f, r) ==
  CASE r.i > Dynamic -> Skipped(r)
    [] r.i <= Dynamic /\ r.len = 0 -> [StoryRun(r, Dynamic - r.i) EXCEPT !.got = @ \cup {"Memory"}]
    [] r.i <= Dynamic /\ r.len > 0 /\ ~Has(f, r, 1) -> Returning(r, r.fatal)
    [] r.i <= Dynamic /\ r.len > 0 /\ Has(f, r, 1) /\ f[r.at + 1] = 0 -> UncompressRun(f, r)
    [] OTHER -> Uncompress(f, [r EXCEPT !.game.mem[r.i + 1] = f[r.at + 1] ^^ StoryByte(r.game, r.i + 1), !.i = @ + 1, !.at = @ + 1, !.len = @ - 1])
ReadCMem(f, r) == IF "Memory" \in r.got THEN Skipped(r) ELSE Uncompress(f, [r EXCEPT !.i = 0])
ReadUMem(f, r) == \* what there is of one that was cut is read too
  LET n == UpTo(Len(f) - r.at)
  IN IF "Memory" \in r.got \/ r.len # Dynamic THEN Skipped(r)
     ELSE [Skipped(r) EXCEPT !.got = IF n = Dynamic THEN @ \cup {"Memory"} ELSE @,
                             !.game.mem = SubSeq(f, r.at + 1, r.at + n) \o SubSeq(@, n + 1, Len(@))]

ReadBody(f, r, id) ==
  CASE id = Id.IFhd -> ReadIFhd(f, r) [] id = Id.Stks -> ReadStks(f, r)
    [] id = Id.CMem -> ReadCMem(f, r) [] id = Id.UMem -> ReadUMem(f, r) [] OTHER -> Skipped(r)
ReadChunk(f, r) ==
  LET len == LongOf(f, r.at + 4)
  IN IF r.left \in 1 .. 7 \/ ~Has(f, r, 8) \/ r.left \in 8 .. 7 + len THEN Returning(r, 0)
     ELSE LET read == ReadBody(f, [r EXCEPT !.at = @ + 8, !.left = @ - 8 - len - (len % 2), !.len = len], SubSeq(f, r.at + 1, r.at + 4))
          IN [read EXCEPT !.at = @ + (len % 2)]
RECURSIVE ReadChunks(_, _)
ReadChunks(f, r) == IF r.ret # Reading \/ r.left = 0 THEN r ELSE ReadChunks(f, ReadChunk(f, r))
Completed(r) ==
  CASE r.ret # Reading -> r
    [] r.ret = Reading /\ r.got = {"IFhd", "Stks", "Memory"} -> Returning(r, 2)
    [] OTHER -> Returning(r, r.fatal)
RestoreQuetzal(f, g) ==
  LET r == [game |-> g, at |-> 12, left |-> 0, len |-> 0, i |-> 0, got |-> {}, fatal |-> 0, ret |-> Reading]
      ok == Len(f) >= 12 /\ SubSeq(f, 1, 4) = Id.FORM /\ SubSeq(f, 9, 12) = Id.IFZS /\ f[8] % 2 = 0 /\ LongOf(f, 4) >= 4
  IN IF ok THEN Completed(ReadChunks(f, [r EXCEPT !.left = LongOf(f, 4) - 4])) ELSE Returning(r, 0)

-----------------------------------------------------------------------------
(* The code of differences of undo.                                        *)

CellXor(c, d) == (c + d) % 2

Marker == 0

\* The bytes that stand for a run of j zeros, if there are any.
Run(j) ==
  LET k == j - 1
  IN  IF j = 0 THEN <<>>
      ELSE IF k < Short THEN <<Marker, k>>
      ELSE <<Marker, Short + (k % Short), k \div Short>>

\* A run that is too long for two bytes has a first part that just fits.
Runs(j) == IF j > Short * Long THEN Run(Short * Long) \o Run(j - Short * Long) ELSE Run(j)

\* mem_diff: zeros are counted, and written when a cell differs.  Those at the
\* end are left out.
Diff(a, b) ==
  LET Cell(r, i) ==
        LET c == CellXor(a[i], b[i])
        IN  IF c = 0 THEN [r EXCEPT !.zeros = @ + 1]
            ELSE [zeros |-> 0, out |-> r.out \o Runs(r.zeros) \o <<c>>]
  IN  FoldLeftDomain(Cell, [zeros |-> 0, out |-> <<>>], a).out

\* mem_undiff: the memory that differs from dest as the bytes from p on say.
RECURSIVE UndiffFrom(_, _, _, _)
UndiffFrom(diff, p, dest, at) ==
  IF p > Len(diff) THEN dest
  ELSE IF diff[p] # Marker
  THEN UndiffFrom(diff, p + 1, [dest EXCEPT ![at] = CellXor(@, diff[p])], at + 1)
  ELSE IF p + 1 > Len(diff) THEN dest
  ELSE IF diff[p + 1] < Short
  THEN UndiffFrom(diff, p + 2, dest, at + diff[p + 1] + 1)
  ELSE IF p + 2 > Len(diff) THEN dest
  ELSE UndiffFrom(diff, p + 3, dest, at + diff[p + 1] - Short + Short * diff[p + 2] + 1)

Undiff(diff, dest) == UndiffFrom(diff, 1, dest, 1)

-----------------------------------------------------------------------------
(* z_save and z_restore: the program counter is where the result goes.  A  *)
(* restored game so goes on where it was saved, with another result.       *)

VARIABLES
  svm,        \* the machine
  svFile,     \* the file on disk
  svSaved,    \* history: the machine when it was saved, or <<>>,
  svWhole,    \* whether the file has all of it,
  svDid,      \* and what restoring did: <<>>, or its result, whether what it read
              \* was whole, and the machine before
  svSteps     \* how many instructions were between
savingVars == <<svm, svFile, svSaved, svWhole, svDid, svSteps>>

Answered(g, ret) == IF g.version <= 3 THEN Branch(g, ret # 0) ELSE StoreResult(g, ret)
\* restart_header: what z_header has stays as it is.
HeaderOf(g, now) ==
  [g EXCEPT !.mem = SubSeq([i \in 1 .. Dynamic |-> IF i - 1 \in Refreshed THEN now.mem[i] ELSE g.mem[i]], 1, Dynamic)
                    \o SubSeq(g.mem, Dynamic + 1, Len(g.mem))]
ZRestore(g, r) ==
  CASE r.ret = 2 -> Answered(HeaderOf(r.game, g), 2)
    [] r.ret = 0 -> Answered(r.game, 0)
    [] OTHER -> Failed(g)

\* save and restore are instructions without operands; up to version 3 they
\* branch, later they store.
Instruction(v, n) ==
  [op |-> "save", n |-> IF v <= 3 THEN 5 + n ELSE n, form |-> IF v <= 3 THEN "none" ELSE "ext", args |-> <<>>,
   to |-> IF v <= 3 THEN -1 ELSE 16 + n, branch |-> IF v <= 3 THEN <<TRUE, TRUE, 8 + n>> ELSE <<>>, versions |-> {v}]
AtResult(m, n) == [Stepped(Placed(m, Instruction(m.version, n)), IF m.version <= 3 THEN 1 ELSE 3) EXCEPT !.zargs = <<>>]

\* Instructions are put where the saved game will not look for others.
Spared(ins) ==
  LET place == svm.pc .. svm.pc + Len(Assembled(ins)) - 1
  IN svSaved # <<>> => svSaved.pc \notin place /\ \A k \in DOMAIN Game(svSaved).frames : Game(svSaved).frames[k].back \notin place
Play ==
  /\ svDid = <<>> /\ svm.over = "" /\ svSteps < SaveSteps /\ svSteps' = svSteps + 1
  /\ \E ins \in SavePlays : /\ Legal(Game(svm), svm, ins) /\ Spared(ins)
                            /\ svm.version = 6 => ~Returns(ins)    \* it starts in a routine
                            /\ svm' = Execute(svm, ins)
  /\ UNCHANGED <<svFile, svSaved, svWhole, svDid>>
\* The game stores into its header.
Toggle ==
  /\ svDid = <<>> /\ svSteps < SaveSteps /\ svSteps' = svSteps + 1
  /\ \E a \in Refreshed : svm' = [svm EXCEPT !.mem[a + 1] = 1 - @]
  /\ UNCHANGED <<svFile, svSaved, svWhole, svDid>>

\* z_save says 1 whatever save_quetzal says, and when closing fails, what it said.
SaveAs(g, f, whole, ret) ==
  /\ svFile' = f /\ svSaved' = g /\ svWhole' = whole /\ svm' = Answered(g, ret)
  /\ UNCHANGED <<svDid, svSteps>>
\* A write failed, before the lengths were filled in.
Begun(f, n) == SubSeq(SubSeq(f, 1, 4) \o <<0, 0, 0, 0>> \o SubSeq(f, 9, Len(f)), 1, n)
Save ==
  /\ svSaved = <<>> /\ svm.over = ""
  /\ \E g \in {AtResult(svm, 0)} : \E f \in {SaveQuetzal(g)} :
       \/ SaveAs(g, f, TRUE, 1)
       \/ \E n \in {0, 7, Len(f) - 1}, ret \in {0, 1} : SaveAs(g, Begun(f, n), FALSE, ret)
CannotOpen ==
  /\ svDid = <<>> /\ svm.over = "" /\ svSteps < SaveSteps /\ svSteps' = svSteps + 1
  /\ svm' = Answered(AtResult(svm, 0), 0)
  /\ UNCHANGED <<svFile, svSaved, svWhole, svDid>>

\* The same game as other interpreters write it, with a chunk nobody knows, and
\* one of a program for another story
Rewritten(g) ==
  LET head == HeaderChunk(g, Identity)
      memory == Chunk(Id.UMem, SubSeq(g.mem, 1, Dynamic))
  IN {Form(<<head, memory, StackChunk(g)>>), Form(<<head, StackChunk(g), Chunk(Id.CMem, Compressed(g))>>),
      Form(<<head, Chunk(<<65, 65, 65, 65>>, <<1, 2, 3>>), memory, StackChunk(g)>>)}
Spoilt(g) ==
  LET head == HeaderChunk(g, [Identity EXCEPT ![10] = 255 - @])
  IN {Form(<<head, Chunk(Id.CMem, Compressed(g)), StackChunk(g)>>), Form(<<Chunk(Id.CMem, Compressed(g)), head, StackChunk(g)>>),
      Form(<<HeaderChunk(g, Identity), Chunk(Id.CMem, <<0>>), StackChunk(g)>>),
      Form(<<HeaderChunk(g, Identity), Chunk(Id.CMem, [i \in 1 .. Dynamic + 2 |-> 1]), StackChunk(g)>>)}
Files ==
  {[bytes |-> svFile, whole |-> svWhole]}
  \cup (IF svWhole THEN {[bytes |-> SubSeq(svFile, 1, n), whole |-> FALSE] : n \in 0 .. Len(svFile) - 1}
                        \cup {[bytes |-> f, whole |-> TRUE] : f \in Rewritten(svSaved)} \cup {[bytes |-> f, whole |-> FALSE] : f \in Spoilt(svSaved)}
       ELSE {})
Restore ==
  /\ svDid = <<>> /\ svSaved # <<>> /\ svm.over = "" /\ Spared(Instruction(svm.version, 1))
  /\ \E g \in {AtResult(svm, 1)} : \E file \in Files : \E r \in {RestoreQuetzal(file.bytes, g)} :
       svm' = ZRestore(g, r) /\ svDid' = [ret |-> r.ret, whole |-> file.whole, before |-> g]
  /\ UNCHANGED <<svFile, svSaved, svWhole, svSteps>>

SavingInit ==
  /\ \E v \in DOMAIN CodeMemories : svm = FoldLeft(Execute, NewMachine(v), Prologue[v])
  /\ svFile = <<>> /\ svSaved = <<>> /\ svWhole = FALSE /\ svDid = <<>> /\ svSteps = 0
SavingNext == Play \/ Toggle \/ Save \/ CannotOpen \/ Restore

-----------------------------------------------------------------------------
(* Properties.                                                             *)

\* A saved game that is restored goes on where it was saved, as it was, except
\* for its header; a file with all of it is restored, unless the stack was
\* full; and one that was cut, spoilt or left unfinished never is.
SavesComeBack ==
  svDid # <<>> =>
    /\ svDid.ret = 2 <=> svDid.whole /\ Len(svSaved.stack) < svSaved.size
    /\ svDid.ret = 2 =>
         svm = Answered(HeaderOf([svSaved EXCEPT !.mem = SubSeq(@, 1, Dynamic) \o SubSeq(svDid.before.mem, Dynamic + 1, Len(@))], svDid.before), 2)

\* "0 if an error occurred before any damage was done" (restore_quetzal)
ErrorsAreHarmless == svDid # <<>> /\ svDid.ret = 0 => svm = Answered(svDid.before, 0)

\* The array of FrotzStack in a game that saves and restores.
StackMemory == [a \in 1 .. 700 |-> CASE a - 1 \in DOMAIN Variable -> Variable[a - 1] [] a <= Dynamic -> CodeMemories[5][a] [] OTHER -> 0]
StackGame ==
  [version |-> 5, mem |-> StackMemory, pc |-> pc, fp |-> fp, stack |-> stack, zargs |-> zargs, frame_count |-> frame_count,
   over |-> "", size |-> StackSize]
\* A game that is saved is restored word for word, unless its stack is full.
SaveRestores ==
  host = <<>> /\ sp > 0 /\ ~finished =>
    RestoreQuetzal(SaveQuetzal(StackGame), [StackGame EXCEPT !.stack = <<1>>, !.pc = 0]).game = StackGame

\* The array is whole, and a saved game is the same array again, in the game
\* that was saved.
StackIsKept == ChainOK /\ SaveRestores /\ SavesComeBack
=============================================================================
