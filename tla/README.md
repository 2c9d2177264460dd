# A verification project for the BearOS utilities

`src/` is a collection of C programs for BearOS, an operating system for the
Raspberry Pi Pico: an editor, a CP/M emulator, an interpreter of interactive
fiction, two calculators, and small tools. This directory holds TLA+ modules
that model the parts of them that keep state, configurations that check the
models with TLC on small instances, and proofs that TLAPS checks for every
value of the constants.

The programs share nothing: each is one process without threads. What makes
them hard is not concurrency but the length and variety of the sequences of
commands, instructions or system calls they are given, caches that every
command has to keep right by hand, data packed into arrays and bytes whose
boundaries are met rarely, resources that run out half way, and state that
outlives the thing it refers to. The properties are aimed at those.

Contents: 1 the system; 2 the modules and how they correspond to the code;
3 the runs; 4 bounds; 5 fairness; 6 the proofs; 7 what is not modelled;
8 what the code gets wrong; 9 the plan.

## 1. The system

Each entry gives the state, the operations, the interactions, what is hard,
and what it means for the component to be right.

### bute, the editor (`bearos_bute/src`)

- **Gap buffer** (`bute.c`: `text_ptr`, `compare`, `copy`, `move_gap`,
  `close_gap`, `replace`, `new_file`, `load_file`). State: one allocation and
  the pointers `start`, `gap`, `rest`, `end`. Used by every other part of the
  editor. Hard: insertions larger than the gap, the gap at either end, pointers
  that step over the gap by an equality test, room for the terminator `strstr`
  needs. Right: it behaves as one text, and free memory is never read as text.
- **Undo list** (`replace`, `undo`, `redo`, `free_undo`, `reset_undo`). State:
  a doubly linked list of replacements, the pointers `undohead`, `undotail`,
  `undo`, and the flag `dirty`. Hard: a typed character is merged into the
  newest record, a new edit drops what was undone, saving empties the list.
  Right: undoing and redoing walk along the texts that were; a clean editor
  holds the saved text.
- **Editing commands** (`moveto`, `adjust_layout`, `lineup` .. `indent`,
  `cut_selection`, `paste_selection`, `find_text`, ...). State: the cursor as
  line start, line number and column, the top of the screen as position and
  line number, the anchor of the selection, the remembered column, the
  clipboard. All but the text are caches of it or depend on it. Hard: every
  command updates them itself. Right: they agree with the text after every
  sequence of commands, and cursor and top of screen keep the cursor visible.
- **Environment** (`bute_create`, `bute_destroy`, `find_editor`, `open_editor`,
  `save_editor`, `close_editor`, `quit_editor`, `bute_main`). State: a ring of
  editors linked both ways, the current one, files on disk. Hard: every
  question can be answered no, every write can fail. Right: the ring stays
  whole, one editor per file, and no edit disappears that was neither saved
  nor given up.
- **Terminal** (`term.c`): escape sequences, drawing, the prompt's line editor.

### cpm, the CP/M emulator (`bearos_cpm/src`)

- **BIOS disks** (`bios.c`: `realizedisk`, `rdsector`, `wrsector`, `seldisc`,
  `settrack`, `setsector`, `home`, `closeall`, `warmboot`). State: a host file
  per drive, opened at the first use, its cached length, and the selected
  drive, track and sector. Interacts with the guest by registers and the DMA
  address. Hard: files shorter than the disk, written behind their end through
  the buffer of a FILE, on a host that may be full, and closed under the program
  by a warm boot. Right: each drive is an array of sectors.
- **BDOS files** (`bdos.c`). State: the table `stfps` of open FILEs keyed by
  the address and the name of a file control block (FCB); the FCBs in guest
  memory hold position (EX, S2, CR) and record count (RC). Hard: FCBs move in
  memory, are overwritten and dropped; the position is split and put together
  at every call; close uses RC to shorten the file. Right: to a program a file
  is a sequence of records, whichever way it is read and written.
- **CPU** (`z80.c`): one function that decodes and executes, on registers,
  flags and 64 KB. Hard: half carry, overflow and decimal adjustment at the
  ends of a byte, and the forms behind an index prefix. Right: an instruction
  computes what integers say, in each of its forms.
- **Boot image** (`bios.c`: `warmboot`) in guest memory: jump vector, disk
  headers and the tables they point at. **Monitor** (`main.c`, `disassem.c`):
  the loop's flags `event`, `halt` and `sig`, set by the handler of SIGINT at
  any moment; trace, step, BIOS calls by an `out`. Right: no signal is lost, no
  call forgotten.
- **Console** (`vt.c`): one byte of look-ahead, keys that stand for two, the
  state of an escape sequence of the VT52. Right: what a program reads and
  writes does not depend on the pieces it comes in.
- **Host files and clock** (`bios.c`): six calls on a small table of FILEs.

### frotz, the Z-machine interpreter (`bearos_frotz/src`)

- **Memory and undo** (`fastmem.c`: `storeb`, `mem_diff`, `mem_undiff`,
  `save_undo`, `restore_undo`, `free_undo`, `z_restart`). State: the dynamic
  memory, `prev_zmp`, and a list of blocks, each the difference to the block
  before. Hard: one wrong byte spoils every older snapshot; slots and memory
  run out; the header's flags must survive. Right: undo gives back the game as
  it was saved.
- **Routines and the stack** (`process.c`: `call`, `ret`, `z_catch`, `z_throw`,
  `direct_call`, `interpret`; `variable.c`). State: one array of words that
  grows down, `sp`, `fp`, `frame_count`, `pc`, `zargs`. Hard: return address,
  caller, kind and counts are packed into four words; the interpreter calls
  itself for an instruction that waits. Right: a stack of frames.
- **Saved games** (`quetzal.c`; `z_save` and `z_restore` in `fastmem.c`): the
  stack rewritten into a portable form and back, a difference of the memory,
  and the program counter, each a chunk of a file. Hard: restoring changes the
  running game while it reads; files are cut off or another story's. Right: a
  saved game comes back as it was, and nothing else ever does.
- **Object tree** (`object.c`): entries and property lists in the bytes of the
  story. Hard: siblings are linked one way; properties have no index. Right: a
  forest of things, each with one list.
- **Text** (`text.c`): Z-characters with shifts and abbreviations, the
  dictionary, tokens. Right: what is encoded reads back and is found.
- **Arithmetic and tables** (`math.c`, `table.c`, `random.c`).
- **Output streams, line buffer and transcript** (`stream.c`, `redirect.c`,
  `buffer.c`, `files.c`) and **screen model** (`screen.c`) over the **dumb
  front end** (`dinit.c`, `dinput.c`, `doutput.c`, `dpic.c`). State: the word
  that waits, eight windows, nested tables, counts of lines since the last
  pause, the cells of the screen. Hard: the word that waits while stream,
  window, style or cursor change under it. Right: text is shown once, in its
  window and its looks, and seen before it scrolls away.
- **Input and hot keys** (`input.c`, `hotkey.c`), **blorb and sound**.

### bc (`bearos_bc/src`)

- **Numbers** (`number.c`): decimal numbers of any length with reference
  counts. Right: results have the scale and the digits of exact arithmetic,
  truncated.
- **Storage and execution** (`storage.c`, `execute.c`): stacks of values and of
  functions, arrays as sparse trees, auto variables that shadow. Right: on
  return every variable is what it was, and no number is freed while used.
- **Parsing and code generation** (`bc.y`, `scan.l`, generated `bc.c`,
  `scan.c`, `load.c`, `util.c`): the grammar's actions write a text of byte
  code with numbered labels, which the loader reads back. Hard: labels of
  nested loops and conditions, one value on the stack whichever way a
  condition goes. Right: the code does what the program says.
- **Line editing and strings**.

### calc, more, hexdump, cal, blink, show_jpeg

- **calc**: `tinyexpr.c` parses and evaluates, `calc.c` keeps variables and
  modes, `rationalize.c` finds fractions, `term.c` edits a line with history.
- **more** cuts lines into rows and pauses; **hexdump** elides rows that
  repeat; **cal** lays out months; **blink** and **show_jpeg** have no state
  worth a model (the decoder is third-party code).

## 2. The modules

Names of operators are those of the C functions, in camel case; a module's
header says which file it stands for, and the `map` of `PROJECT.json` gives the
lines of every definition. `MC...` modules give the constants their values.
Operators that nothing uses, right before a definition X and most with its name
in front (`XLate`, `XKeeps`, ...), are broken variants of X: they show that each
property can fail, and one for each is listed under `mutants`.

| module | models | promise it is checked against |
|---|---|---|
| `ButeText` | - | abstract: a text and replacements in it |
| `ButeBuffer` | gap buffer | `ButeText`, by the text read through the gap |
| `ButeHistory` | - | abstract: the texts that were, and where one is |
| `ButeUndoList` | undo list, as operators on a document | - |
| `ButeUndo` | one document edited, undone, redone, saved | `ButeHistory` |
| `ButeEditor` | every command of one editor window | the caches recomputed from the text |
| `ButeEnv` | ring of editors, files, questions | edits lost only by consent |
| `CpmDrive` | - | abstract: arrays of sectors |
| `CpmDisk` | BIOS disks | `CpmDrive` |
| `CpmRecords` | - | abstract: files of records with positions |
| `CpmFiles` | BDOS calls on FCBs | `CpmRecords` |
| `Z80` | the processor, as functions on a machine; lengths and targets of the disassembler | - |
| `CpmCpu` | programs run on it; the boot image; the monitor: loop, signals, calls, trace, step, commands | integer arithmetic, longer programs that do the same; no signal or call passed over |
| `CpmConsole` | input keys and VT52 output; host files, clock | reading all of the bytes at once; a file belongs to the FCB it was opened on; the calendar |
| `ZUndo` | - | abstract: a stack of snapshots |
| `FrotzUndo` | undo blocks, for any exact code of differences | `ZUndo` |
| `ZStack` | - | abstract: a stack of frames |
| `FrotzStack` | the array, calls, returns, catch and throw | `ZStack` |
| `FrotzSaving` | saved games, byte by byte, in a game that goes on in between; `mem_diff`, `mem_undiff` | restoring gives the game back, and no part of one; exactness, assumed by `FrotzUndo` |
| `ZWorld` | - | abstract: things in things, with attributes and properties |
| `FrotzObjects` | object table, both formats | `ZWorld` |
| `FrotzCode` | decoding of instructions, operands, results, branches, calls; variables, stacks of the game's own | what instructions mean to frames with variables (`Meant`) |
| `FrotzMath` | arithmetic, random numbers, tables | signed integers, sequences |
| `FrotzText` | encoder, decoder, dictionary, tokens, completion | inverse of each other; words found |
| `FrotzStreams` | screen image of the dumb front end, windows, wrapping, pauses; line buffer, streams, tables in memory, transcript, input lines | - |
| `FrotzOutput` | operations on windows, cursors, looks; a game that uses all of them | what was printed, kept beside in ghosts |
| `BcNumber` | operations on numbers, digit by digit, one after another | exact integers, cut |
| `BcStorage` | symbol table, trees of arrays | names to numbers; functions from indices |
| `BcCompile` | rules of the scanner and lines that `out_char` breaks; actions of the grammar, loader | texts without their comments and continuations; `BcMeaning`, by `BcMachine` |
| `BcMeaning` | - | abstract: what a program means, along its tree |
| `BcMachine` | stacks, calls, instructions, interrupts | `BcMeaning` |

`ButeBufferProofs`, `ButeProofs` (`ButeUndo`, `ButeEnv`), `ButeEditorProofs`,
`CpmDrivesProofs` (with `CpmFiles`), `CpmConsoleProofs` and `FrotzProofs`
(`FrotzUndo`, `FrotzStack`) hold the proofs about the modules they are named for (section 6), `SetInduction` the
induction they use.
`MCButeBuffer`, `MCButeSessions`, `MCButeEditor`, `MCCpmDrives`,
`MCCpmMachine`, `MCBc`, `MCFrotzMachine` and `MCFrotzOutput` instantiate them.

**How they compose.** `ButeBuffer` is shown to be a text, so `ButeUndoList`
works on texts; `ButeEditor` extends `ButeUndoList` and adds cursor, screen and
selection, so that undo runs inside the commands; `ButeEnv` takes an editor as
its text, its dirty flag and the text that undoing gives back, which
`ButeUndo` justifies (`CleanMeansSaved`). `CpmCpu` runs the boot image and the
listing of the disassembler on `Z80`; for its monitor an instruction is one of
the kinds the loop tells apart. `FrotzCode` computes with `FrotzMath`. `FrotzText` works on the memory of
`FrotzObjects`, whose names it decodes, and on the words of `FrotzMath`.
`FrotzSaving` extends `FrotzStack` and `FrotzCode`: its games are machines of
the latter, and the arrays of the former are saved and restored in every state.
`MCFrotzMachine` composes `FrotzUndo` with it: the constants `MemDiff` and `MemUndiff` are the program's own functions
there, and TLC evaluates the assumption that they are inverse on every pair of
memories. Image, windows, streams and the operations on windows
(`FrotzStreams`, `FrotzOutput`) are layers of one state, a record `o` that each
operator takes to the next, as each C file calls the one below. In bc, `BcMachine` runs what `BcCompile` loaded from the tree
that `BcMeaning` evaluates.

An MC module holds several components that never meet in the code (a variable
`part` says which one a behaviour is about, and the others rest). Its
properties are conjunctions of the components' named properties. A refinement
is there written `A!Init /\ [][UNCHANGED own \/ A!Next]_(A!vars)`: with
`UNCHANGED own` implying that `A!vars` do not change this is the same as the
abstract specification, and TLC need not compute the refinement mapping for
steps of another part.

**State and actions.**

- `ButeBuffer`: `ed` has the allocation as a function and the three pointers as
  offsets. Memory nobody wrote holds `Junk`, which is no character, so a read
  through the gap is seen. `Replace`, and `Search` (which closes the gap), are
  the two entry points that change it.
- `ButeUndoList`: a document is `text`, the records from `undohead` to
  `undotail`, `at` (how many of them precede `undo`), `head` (whether
  `undohead` is NULL, the first record, or a freed one), `dirty`. Where the
  code would follow a freed pointer the document becomes `undefined` and the
  model stops.
- `ButeEditor`: fields keep their names (`linepos`, `line`, `col`, `toppos`,
  `topline`, `anchor`, `lastcol`). One operator per command; `Next` dispatches
  as the keyboard loop does, with the update of selection and screen that the
  loop makes after each command.
- `ButeEnv`: `next` and `prev` are functions on the blocks malloc gave out; a
  command asks its questions in the order of the code and each answer, and each
  failure of a read or a write, is a choice. `loop` is the local pointer of the
  keyboard loop, which the code reads after it was freed.
- `CpmDisk`: files are sequences of sectors; `open`, `drivelen` and the
  registers keep their names. `images` is what has reached the host, `pending` the
  sector in the buffer of each FILE: `fwrite` only fills that, and `drivelen`
  grows at once. The next transfer's `fseek`, or the `fclose` of a boot, flushes it;
  on a host that is `full` the first may fail (`SeekFails`, `PaddingFails`, the
  latter with any part of the padding written) and the second lose it
  unnoticed (`Boot(d, lost)`). A file that is shorter than `drivelen` since then
  fails to be read (`RdSector`).
- `CpmFiles`: `table` is `stfps`; a FILE is closed, or has an inode and an
  offset in bytes; an FCB has the fields EX, S2, CR, RC. A call fills in the
  FCB, looks it up (which may change the table), and works on the FILE.
  Contents are left out: which record is transferred is the result. A host that
  is `refusing` may open nothing (`NotThere`), have something there that is no
  regular file (`NotAFile`), fail a write (`Stays`: the FILE has moved, and with
  random access the FCB), or fail the flush nobody asks about.
- `Z80`: a machine is a record of registers, the set of flag bits that are on,
  and the memory that was written. `Step` decodes by the fields of the opcode
  as the `switch` of the code groups them. In `CpmCpu` one action, `CpuRun`,
  executes one instruction of a program that ends.
- The monitor in `CpmCpu`: `monAt` is where the loop is, so that the handler of SIGINT
  (`Interrupt`) may run between any two reads of its flags.
- `CpmConsole`: `conAt` is the part of an escape sequence `kget` has read; the
  bytes that have come and not been read may be none at any moment, which is
  the time-out after ESC.
  For host files `unixTable` is `cpm_file`; FILEs that no entry names are counted.
- `FrotzUndo`: `undo` is the list, `curr_undo` a position in it; the variable
  `saved` is a history variable, the snapshots not yet undone or forgotten,
  which nothing in the actions' guards reads. It is what makes the invariant
  inductive and the refinement a matter of one step.
- `FrotzStack`: `stack` is the array from its bottom to `*sp`, words packed as
  in the code; `host` holds the operands saved on the C stack by each
  `direct_call` that runs.
- `FrotzCode`: a machine `m` has memory, stack, `pc`, `fp`, `frame_count` and
  `zargs`; `Interpret` is one turn of the loop, with operands loaded in the order
  of the code, since each that names the stack takes a word. `Meant` executes the
  same instruction, before it was assembled, on a record of frames, and the
  property compares the two after every instruction.
- `FrotzSaving`: a file is the sequence of its bytes. `SaveQuetzal` writes it;
  `RestoreQuetzal` takes a reader, with the game as it has become, through the
  file chunk by chunk and returns the code's 2, 0 or -1. `svm` is the running
  machine, `svSaved` a history variable: the machine that was saved. Between
  saving and restoring it executes instructions (`Play`) and its header changes
  (`Toggle`); `Files` has what it may find: what was written, that cut off at
  every length, the same game as others write it, and games of other stories.
- `FrotzObjects`: `mem` is the bytes of the table and of the properties,
  addressed as in the code; an operation is the sequence of its `storeb`s.
- `FrotzOutput`: `out` is the record of cells, windows, line buffer, tables and
  flags; `did` is the last operation. The game may also store the two flags of its
  header that output looks at, transcript and fixed font (`Flags`). Ghosts keep what was printed (`said`),
  the rows that scrolled away (`gone`) and whether one went unseen (`lost`).
- `BcNumber`: `calcTask` is an operation with its operands; `bc_sqrt` is one step
  per round of Newton's iteration.
- `BcMachine`: `bcVm` has `pc`, the two stacks, the stacks of values of every
  name, the heap of arrays and what was written. A step is one instruction;
  `Sigint` sets the flag before any of them.

## 3. The runs

| run | question | result |
|---|---|---|
| `bute_buffer` | Is the gap buffer well formed, do `compare` and `copy` read the text, is each operation one on a text, and does `strstr` see all of it? | holds |
| `bute_sessions` | Do undo and redo walk along the texts that were, through merging, dropping and saving; is a clean editor as saved? Does the ring stay whole, one editor to a file, and no edit lost unasked? | holds, up to where `undohead` dangles |
| `bute_undo_head` | Is `undohead` the start of the list? | violated |
| `bute_editor` | Do cursor, line number, remembered column, match and top of screen follow the text; do cut and paste, indent and unindent, give text and selection back? | holds; the caches for the commands named in `Reliable`, and for `moveto` as far as it goes |
| `bute_editor_anchor` | Does the selection lie in the text? | violated |
| `cpm_drives` | Is each drive an array of sectors, through buffers, growth, boots and a host that is full? Is the BDOS a drive of records, and its table one-to-one, also if the host refuses? | holds, but for the last sector written to each drive of a full host; the BDOS for tidy programs |
| `cpm_files_close` | Does closing leave a file as long as it is? | violated |
| `cpm_machine` | Is every instruction exact, in each of its forms? Do signals, typed bytes and written bytes arrive, whatever they meet on the way? Is the image a boot writes what processor and BDOS make of it? | holds |
| `bc` | Are results exact to the last digit, do texts read back, do names and arrays keep apart, and does the byte code of a program do what the program means, through errors and interrupts? Does it end? | holds |
| `frotz_machine` | Is undo a stack of snapshots, the array a stack of frames, the object table a world of things? Does a saved game come back whole, and no other? Do words, tables and texts keep their meaning? | holds, saved games unless the stack was full |
| `frotz_output` | Is what is printed shown once, in its window and looks, and seen before it scrolls away; do transcript and tables hold their text? | holds |
| `frotz_erase` | Is the screen blank after it was erased? | violated |

The properties of the grouped runs, and what they are made of:

- `bute_sessions`: `UndoListOK` (`TypeOK`, `CleanMeansSaved`), `RingOK`,
  `RefinesHistory`, `NothingIsLost`, `OpenIsUnique`.
- `cpm_drives`: `DrivesOK` (`DiskOK`: the cached length is that the open file
  has once its buffer is flushed, or more if the host was full; `TableOK`: the
  FILE table is one-to-one), `DrivesAreKept` (both refinements).
- `bute_editor`: `LinesAreCounted`, `FoundIsSelected`, `CutThenPaste`,
  `IndentThenUnindent`, `DownThenUp`. Where a find or a paste has to end within the last line
  the cursor goes to the end of that line (`Landing`, and section 8).
- `cpm_machine`: `InstructionsAreExact` (`AluExact` and `DecimalExact` against
  integers; `WideIsChain`, a 16-bit sum is the chain of two of 8 bits;
  `BlocksExact`; `IndexIsHL`; `CallReturns`), `ImageIsRead`
  (`DisassemblyFollows`, `EntriesReachHost`, `HeadersLead`), `HostAnswers`
  (`InputIsReading`, `ScreenIsText`, `FilesAreOwn`, `DateIsRight`),
  `NothingIsPassed` (`CallsAreNext`, `TraceSeesAll`, `ReadsEnd`) and the
  liveness `NothingWaits` (`Ends`, `SignalReachesUser`, `AllIsGiven`).
- `bc`: `ArithmeticIsExact`, `TextIsWhatIsMeant`, `StorageIsKept`,
  `LinesAreMeant` and the liveness `EverythingStops` (a root ends, an
  interrupted line gets back to the prompt).
- `frotz_machine`: `UndoOK`, `StackIsKept` (`ChainOK`; `SaveRestores`, in every
  state of the array; `SavesComeBack`, in a game), `WordsAndTables` (`QuotientAndRest`,
  `ShiftsAgree`, `CopiesAreWhole`, `ScansFindFirst`), `ObjectsAreWhole`, `TextIsReadBack`,
  `InstructionsAreMeant` (`CodeIsMeant`, `FramesAreCounted`), and the refinements `IsUndo`, `IsZStack`, `ObjectsAreThings`.
- `frotz_output`: `TextIsShown` (`WordsOnScreen`, `LettersOnScreen`,
  `StatusIsWhole`), `NothingUnseen`, `StreamsHoldText` (`TranscriptIsText`,
  `TablesHoldText`, `LinesFit`), `LooksAgree` (cursors, colours, styles) and
  the action property `PrintsInWindow`.

Every property of a passing run has a mutant of the code that breaks it, listed
in `PROJECT.json`: a dropped reset, an off-by-one, a step left out. Conjunctions
have more of them in the modules, at least one for each part.

`CHECK_DEADLOCK FALSE` stands where the system stops: bute when it is quit, a
program that ends, a session of bc that is over, the games after a fatal error
or at the bound of their steps, undo lists at the bound. `bute_buffer` and
`cpm_drives` check deadlock.

## 4. Bounds

All bounds are constants with "bound" in their comment, or sets the MC modules
define.

- `bute_buffer`: `MINTEXTBUFFER` 2 (1 KB in the code) and insertions of up to
  3, so an insertion fits the gap, fills it, or outgrows it; texts up to 5
  characters put both parts of the text and the gap in every proportion. The
  proofs remove these bounds.
- `bute_sessions`: texts of 3, lists of 2 records (one merged, one behind it,
  and both undone), insertions of a character, a run, and nothing; three
  editors, two names, two texts; three are the fewest for a ring whose next and
  previous differ. The proofs remove these bounds.
- `bute_editor`: a screen of 2 lines by 4 columns with tabs of 8, so one tab is
  wider than the screen; texts of up to 3 of a letter, a newline, a blank and a
  tab, which gives empty lines, lines above and below the screen, and a column
  that is clipped and remembered; undo in sessions of their own with 2 records.
- `cpm_drives`: a hard disc of two tracks of two sectors and a floppy of one
  sector, so that the two geometries confuse if they can, and a write may be
  three sectors behind the end; sectors are 0xE5 or not. Records of 2 bytes,
  extents of 2 records, EX of 2 extents, and a file of up to 9 bytes: two and a
  half extents, S2 in use, files that end within a record (up to 5 bytes, an
  extent and a part of the next, on a host that may refuse); or two such files of
  up to 2 bytes, for the table. Writes that are lost stay within the same bounds. Two
  FCBs, two FILEs; a symmetry of names, addresses and FILEs, which nothing
  distinguishes. The proofs remove these bounds.
- `cpm_machine`: the real widths, with eight operands where bits, halves and
  signs end (and all flags that go in); for decimals the digits where one half
  is adjusted, the other, both; blocks that overlap either way; every opcode
  for the disassembler, every entry of the BIOS, the headers of all drives. Two signals, which
  is one in the handling of another; four bytes typed, the longest sequence
  that is a key; five bytes written, the longest of the VT52; a FIFO of 4; three FCBs on two
  entries; years on both sides of 80 and 100, of leap years and after them.
- `bc`: the recursive product starts at 4 digits (80 in the code), so it recurs
  once and twice on rows of up to 4 and 8; a long of 12 bits; bytes of 16, so
  an address or a label needs one and two; nodes of 2 and trees of depth 3 (64
  and 4 in the code); tables that grow by 3 up to 9 (32 and 32767). Texts of
  all rows of up to 3 characters and longer ones of those that comments and
  line breaks are made of. Sessions of at most a few lines: all pairs of 14
  operands under each operator, loops of all triples of 5 bodies, five
  functions that recurse, shadow, fail, and take arrays both ways.
- `frotz_machine`: six cells of a bit; `Short` and `Long` make runs of zeros of
  3 and more split as 0x80 and 0x8000 do; two slots (so a slot is reused, an
  undone one dropped, and the oldest freed). A stack of nine words, room for
  two frames with a value or three bare ones, so calls overflow; one argument,
  local, value and nested loop; the addresses 3 and 600 need one and two of the
  words a return address has. Three objects, so that one is first, in the
  middle or last of its siblings, in any order; both formats; properties of 1
  to 3 bytes. Operands of 16 bits at the ends of the signed range. Words of up
  to three characters (six of two) over every alphabet, lines of three.
  Instructions: stories of 200 bytes in versions 3, 5, 6 and 8, which between
  them have every packing of addresses and every table of opcodes; a prologue
  that calls a routine with values on its stack, and then any two of about a
  hundred and fifty instructions, so each also meets what another one left; a
  stack of 20 words, which calls fill. Saved games: in each of these versions
  16 bytes of dynamic memory with runs of up to 3 zeros (0x100 in the code), so
  runs are split; up to two instructions between saving and restoring, which
  change a global, push, call, return, or fail to open a file; and every length
  a file may be cut to.
- `frotz_output`: four rows of twenty columns, a buffer of 200, and three or
  four operations, each group of them (`part`) with the texts that fill a row,
  break at a hyphen, or scroll a screenful away. Three rows are the fewest that
  scroll under a status line.

## 5. Fairness

What the user, the guest program or the game does next is up to them; nobody
has to press a key. Where something must happen, it is the program's own step,
and weak fairness of it is what one process with nothing beside it gives:

- `cpm_machine`: `WF(CpuRun)` and `WF(Loop)`, since the emulator's loop goes on
  whatever the guest does, and with them a program ends and a signal that was
  raised reaches the monitor; the steps that wait for a key (`Key`, commands)
  have none. `WF(Get)`, since a guest that asks for input is given what has
  come: it is the guest that asks for ever which `AllIsGiven` is about.
- `bc`: `SqrtFair` and `BcFair` are weak fairness of a round of Newton's
  iteration and of an instruction, written out as "infinitely often taken or
  infinitely often not pending", which here is the same and cheaper to check:
  a round and an instruction are pending until they are taken. The interrupt
  has no fairness; that it stops a line is claimed after it came.

## 6. The proofs

`PROJECT.json` lists the theorems with the properties they state. Each holds
for every value of the constants its module's named assumptions allow; TLC
evaluates those assumptions in the runs. The steps are always the same: an
inductive invariant, `Init => Inv`, one lemma for each operation that changes
state, and a last theorem that puts them together.

`SetInduction` (`NatLeast`, `NatSetInduction`) has induction on the naturals
for sets: "0 is in S, and with n also n + 1". The set may be defined by a
recursive function, which is how walks along a ring, chains of texts and rows
of records are reasoned about.

**`ButeBufferProofs`** (every alphabet, gap size `MinText`, length and content
of insertions and files):

- `BufferOKInvariant`: `Spec => []BufferOK`. `BufferOK` says that the pointers
  are ordered, inside the allocation, and that every byte outside the gap is a
  character. It is inductive: `SlideGapKeepsText` and `GrowGapKeepsText` show
  for the two branches of `move_gap` that the text is the same byte by byte,
  `ReplaceInReplaces` follows the three ways `replace` erases.
- `ImplementsText`: `Spec => RefinesText`, every step is a step of `ButeText`.
  `SpliceByRuns` reduces "the text is the splice" to three runs of bytes, the
  form in which the buffer's steps are known.
- `SearchSeesWholeText`: after `close_gap` the whole text lies before a free
  byte that holds the terminator.
- `ReadsSeeTextInvariant`: `copy` and `compare`, which walk memory with a
  pointer that skips the gap by an equality test, read the text. By induction
  on the steps of the walk: the pointer is never inside the gap.

**`ButeProofs`, undo** (every alphabet, files, insertions and bounds):

- `UndoListInvariant`: `UndoSpec => []UndoListOK`. The property speaks of the
  text being edited and of the saved one, and says nothing of the texts between.
  The invariant `ChainOK` adds them: there is a text before the first record and
  one after each, every record leads from one to the next (`Follows`), the
  document is at one of them, the first is the saved one. Merging a character
  into the newest record, forgetting what was undone and saving each give such a
  chain again.
- `UndoIsHistory`: `UndoSpec => RefinesHistory`. The refinement computes the
  texts by undoing and redoing from the current one with two recursive
  functions; `SeenIsChain` shows that these are the chain, which makes every
  command a step of `ButeHistory`.

**`ButeProofs`, editors** (every set of files, number of editors, command line):

- `RingOKInvariant`: `EnvSpec => []RingOK`. The invariant `IsRing` says that
  some order of all live editors, without repetition, is the order of `next` and
  backwards of `prev`, beginning with the current one. Such an order is what
  each pointer operation can be followed in: `CreateKeepsRing` inserts a second
  element, `DestroyKeepsRing` takes the first and begins with the last,
  switching rotates. The command line and quitting are recursive functions, and
  kept by induction.
- `EnvLosesNothing`: `EnvSpec => NothingIsLost`, from the same invariant and
  that a clean editor holds its saved text.
- `EnvOpensOne`: `EnvSpec => OpenIsUnique`: the walk of `find_editor` meets every
  editor because the order has them all.

**`ButeEditorProofs`** (every alphabet, text, size of the screen, width of tabs and
set of sessions):

- `CountedAlways`: `Spec => [](... => LinesAreCounted)`, for sessions without the
  commands of `Overshooting`. Those of `Miscounting` lose count of lines, and
  `undo` may leave the cursor behind its line, section 8; the run has sessions
  with `undo`, in which all but the cursor's column is claimed. The invariant is
  `EditorInv`; its part `Good` says what `LinesAreCounted` says, counted with
  `IsLine` and `Count` instead of the program's own walks, and two things more:
  - no negative character stands before the cursor's line (`Clear`). `get_char`
    cannot be told from the end of the text there, so `next_line` fails; were
    there one, `scroll_down` would lose the top of the screen. Commands keep
    this because they get to a line only by walking to it, and type after it.
  - the records in effect can be undone one after the other, each within the
    text the later ones leave (`Undoable`), so no undo would move the gap out of
    the buffer; these sessions do not need it, a proof about those with `undo` will.

  `MaybeAbove` and `MaybeBelow` are what holds between the assignments of a
  command, when the cursor's line has changed and the screen has not yet
  scrolled. Loops are functions of their number of steps: `StepsAre` has them
  exist, `StepsStay` carries an invariant along them. `MovetoGood` shows that
  the walk of `moveto` ends where it was sent, or on a line that none follows, of
  which it takes the end (`MovetoEnds`, `StoppedGood`): `MovesFinal` counts its steps by the
  positions it has left. `MovetoLands` says which of the two it is, of texts
  without negative characters: `Landing`.
- `DownThenUpAlways`: `Spec => [](... => DownThenUp)`, in the same sessions. The line above the line below is
  the line the cursor came from (`InLineOnce`), and `lastcol` is untouched.
- `FoundAlways`, `CutThenPasteAlways`: in the same sessions, and in texts without
  negative characters, the match that is selected begins where the text was
  found and ends where `moveto` lands (`MovetoLands`), which is the end of
  the match unless that lies in the last line; and what was cut and pasted gives the text back, since
  `SplicedBack` puts it where it was, with the cursor where `moveto` lands.
- `IndentThenUnindentAlways`: `Spec => [](... => IndentThenUnindent)`, in sessions
  without the commands of `Overshooting`. `Place` is where a character of the
  selection lies after `indent`: two further for each line begun before it.
  `IndentedText` shows that it lies there, behind its blanks if it begins a
  line. The loop of `unindent` is then always before such a place, with what it
  copied being the selection up to there (`Before`), or behind the blanks
  (`Behind`); `UnindentStepIs` has a case for each. `GrownIs`: the cursor and
  the anchor move by what was counted, forwards and back.

**`CpmDrivesProofs`, files** (any number of names, FCBs, FILEs and entries; records and
extents of any size; programs that are `Tidy`, see section 7):

- `FilesInvariant`: `Tidy` gives `FilesSpec => []TableOK`. The table is keyed by
  the address of an FCB and, if that fails, by name; `FcbsOK` ties it to the
  FCBs the program has open: one for each entry, no two of one file, and no open
  FCB at an address that an entry of another file still has.
- `FilesAreRecords`: `Tidy` gives `FilesSpec => IsDrive`. The position is put
  together from EX, S2 and CR at each call and taken apart again; `PosnIs` and
  the lemmas before it are the arithmetic of that. The invariant `RcOK` is what
  `close` needs: RC covers the last extent of the file, so nothing is cut off. It
  holds of a host that refuses nothing; on another a write whose flush failed has
  moved the FCB and not the file, and `CpmRecords` then lets `close` cut.

**`CpmDrivesProofs`, disks** (every geometry, every set of disk images):

- `DiskInvariant`: `DiskSpec => []DiskOK`, the cached length: that of the file
  once what is pending is flushed, and never less, also on a full host.
- `DisksAreDrives`: `DiskSpec => IsDrives`. What a drive holds for the guest
  (`Cell`) is the sector that is pending, else what its file holds, 0xE5 behind
  its length, and what was lost in between. Flushing does not change it (`FlushKeeps`), padding
  only adds 0xE5 where nothing was written (`BlanksPut`), and `OffsetIsInjective`
  keeps two sectors apart. So what `CpmDrive` promises holds on a full host too: the
  last sector written to each drive (`unsafe`) may be lost by the next transfer
  of that drive, which fails, or by a boot, which says nothing; 0xE5 that padding
  failed to write may be lost; no other sector is.
- `DrivesInvariant`, `DrivesRefine`: both components together, the properties of
  the run `cpm_drives`.

**`CpmConsoleProofs`** (every queue of keys that has room for the two of a
sequence, every number and length of files and number of FCBs):

- `HostAnswersInvariant`: `HostSpec => []HostAnswers`, the property of the run
  `cpm_machine`, of the console and the host's files beside each other. Its
  invariant has four parts, one for each device.
  - `ConInv`: the bytes taken from the terminal are some `s`, then the sequence
    `conAt` under way, then `last`; and what was given, with what waits in
    `stuff`, is a reading of `s`. A step of `kget` moves bytes from one part to the
    next, and only at the end of a sequence do they join `s`.
  - `ScreenInv`: there is a byte `i` such that *whatever is written next*, the
    terminal has been shown exactly what the reference reads before `i`; `vt_state`
    says how many bytes from `i` on it holds back. The property itself, which
    speaks of what has been written so far, is not inductive: the meaning of an
    escape depends on bytes yet to come. `ReadingsFunction` shows that the
    reading, a function defined from its last value to its first, exists.
  - `FilesInv`: every open FCB has its entry, no two the same, and every entry in
    use is that of an open FCB; hence as many entries are in use as FCBs are open,
    by the bijection between them.
  - `DateInv`, with `LeapYears`: for every year up to 2300 the loop counts one
    leap year less than the calendar from 2001 on, and none less before: `tm_year`
    counts from 1900, so the test takes 2000, its year 100, for a common year, and
    agrees with the calendar on all others up to 2299.
- `ReadsEndAlways`: `HostSpec => ReadsEnd`, the part of `NothingIsPassed` about
  files.

**`FrotzProofs`, undo** (every memory, number of slots, and code of differences):

- `UndoOKInvariant`: `Spec => []UndoOK`. That undo gives back the right memory
  is not inductive, since the memory of a block is found only by undoing all
  the later ones. `Chain` says so block by block, with `saved`: undoing the
  difference of block i from snapshot i gives snapshot i-1, and `prev_zmp` is
  the snapshot of `curr_undo`. Each step disturbs one link: `SaveKeepsChain`
  (whose list has lost blocks at both ends, `KeptBlocks`), `RestoreKeepsChain`.
- `ImplementsZUndo`: `Spec => IsUndo`.

**`FrotzProofs`, routines** (every stack size up to 64K words, every content of the
words, calls and direct calls nested to any depth; games that are legal, section 7):

- `ChainOKAlways`: `StackSpec => []ChainOK`. The array is read from its bottom, so
  that pushing changes no index: a frame is known by the number of words up to its
  fourth. `StackInv` is that *there is* a row `d` of such numbers (`StackOf(d)`):
  it begins with 0, each frame holds the place of the one before in its second
  word (`Frames`), it lies above that one's locals (`Apart`), all words between
  are what games store (`Plain`), and `fp`, `frame_count` and the direct calls that
  wait are those of the row. A call makes the row longer, a return shorter, a
  throw cuts it anywhere; the other instructions leave it.
- `ImplementsZStack`: `StackSpec => IsZStack`. `ShownAre` shows that the frames the
  specification reads along the links are `Decoded(d)`, the ones the row gives;
  each instruction then changes the top one as `ZStack` says (`TopBecomes`), and
  the words of a frame give back the numbers they were put together from
  (`PackedParts`, `AddressParts`).

**The assumptions.** For the buffer: `Junk` is no character and `MinText` is
positive. For undo of frotz `UndoAssumption`, that
`MemUndiff(MemDiff(a, b), a) = b`; TLC evaluates it for the program's code of
differences over all memories of six bits. For files: sizes are positive, a free
entry, a closed FILE and a vacant FCB are not mistaken for ones in use. For
disks: there are drives, each has a positive number of tracks and sectors. For
the editing commands (`EditorAssumption`): a newline and a blank are not negative,
as in ASCII, the screen and tabs have a size, files are no longer than the bound on texts, and sessions that
undo keep records. For the console: `FIFO_SIZE` is at least 2. For host files: a
free entry and a closed FCB are not mistaken for a name, FCBs are finitely many, and the clock is between
1978 and 2300. For the stack of frotz (`StackAssumption`): it has at most 64K words,
since indices are kept in them; program counters have the 19 bits a frame has for
them; calls have at most 7 arguments and routines 15 locals, which their encoding
bounds.

**Only model-checked.** Of `bute_editor`, in sessions with `undo`, that lines are
counted and matches found; in those and in sessions with the commands that lose
count, that cut and paste, indent and unindent undo each other; the machine and monitor of cpm; bc; of frotz saved games, arithmetic, objects, text and output.
Out of the prover's reach are
liveness and ENABLED; the `RECURSIVE` operators of `BcNumber`, `BcStorage`,
`BcCompile`, `BcMeaning`, `BcMachine`, `FrotzText`, `FrotzObjects` and
`FrotzSaving`, and with them that `mem_diff` is exact; the bit operations of `Z80`
(hence `CpmCpu`), `FrotzMath` and `FrotzOutput`. Within its reach and not proved
yet: those of `bute_editor`, by a weaker invariant than `Good`, of a cursor whose line
is counted and whose column may be anything.

## 7. What is not modelled

The components of section 1 with no module; `PROJECT.json` has each with its
reason. Within the modelled ones:

- **bute**: drawing and wording; the prompts are the answers a user gives;
  bytes above 0x7F (the constant `Negative` is there, and empty in the runs).
- **cpm**: the directory search, attributes, console calls and `chdir` of the
  BDOS, the case of file names, several drives; the interrupts RESET, NMI and
  INTR, which nothing raises, and MEM_BREAK, which is not built; showing and
  changing memory and registers in the monitor, loading files; printer, punch
  and reader. An emulator that is killed, which loses the sector pending for each
  drive; a flush that writes a part of a sector, on a host whose blocks 128 does
  not divide.
- **frotz**: errors that are not fatal (they are taken to be, as with the option
  that ignores none), a game that stores into read-only memory, the instructions
  `FrotzCode` decodes and other modules execute; files of a part of memory
  (`save` and `restore` with arguments), names of files; `print_form` and where in memory a string lies; pictures,
  mouse clicks, a screen that changes its size, fonts but 1 (the fixed one by style or flag excepted); interrupt routines
  are counted only; the commands of the dumb front end that begin with a
  backslash; recording and replaying; write errors of the transcript.
- **bc**: what bison and flex generate; an argument of the wrong kind (an array
  for a variable, or the reverse), behind which `process_params` steps twice
  through its list (storage.c:1052) and the rest of the call is undefined; strings, `read`, `random` and `halt` as
  instructions; reference counts and the free list of numbers; options.

**Restrictions of the passing runs.** The code does not keep its promise in
these cases, and the properties leave them out by name.

- `bute_editor` leaves `wordright`, `indent`, `unindent` and `redo` out of
  what the caches are checked after, and `undo` out of what the cursor's column is.
  A find or a paste that should end in the last line ends at its end (`Landing`).
- `cpm_drives` allows that a full host loses the last sector written to each drive,
  and that `close` cuts a file when the host refuses. It has tidy programs: they open a file by one FCB, close it before
  they put another FCB at its address, open no file behind its last extent, go
  to another extent by opening it, and ask for the position only after an
  access that succeeded. Each of these is a guard with `Tidy` in it, and the
  code goes wrong without it.
- `frotz_machine` has games that do not throw across a direct call nor push on
  a full stack; that get and put properties of one or two bytes; dictionaries
  with separators (with none, 256 bytes are read as such), text without ' ' and
  '^' in alphabet 2, and escapes that are whole (in versions 1 and 2 a 5 within
  one locks the shift). U+0400 is not lowered. Completion offers stale letters
  for words that go on with z, but nothing in this port calls it.
- `frotz_output` leaves out: text behind a gap (shown two wide, counted as one,
  so a letter is lost in the lower right corner); text in an upper window that
  is clipped; a row that is drawn twice before it is shown (`again`); text that
  a split finds in the buffer (`torn`); windows of version 6 that reach beyond
  the screen, and words longer than one (`odd`); the colour of window 0 in
  version 6, which leaves the hardware's behind (`faded`); a new line by
  `print_char` with buffering off, which is none; preloaded input near the
  right margin, which is fatal.

## 8. What the code gets wrong

- `bute_undo_head`: after undoing everything and typing, `undohead` points at a
  freed record, which redo and saving follow.
- `bute_editor_anchor`: an empty selection survives erasing and then lies
  behind the end of the text.
- `cpm_files_close`: RC still counts another extent when EX was changed by the
  program or by a random read that failed; close then shortens the file. A
  program that only reads can empty it.
- `frotz_erase`: `erase_window -1` splits and selects after it has erased, which
  flushes the line buffer onto the blank screen.

More are stated at the end of their modules, and the code violates them
too; no run checks them, since they add no question: `ButeEditor.MatchIsSelected` (`moveto`
on the last line goes to the line's end and breaks, bute.c:924-928, so that in "xx"
the find of "x" selects both; a paste or an undo there leaves the cursor at the end of the
line, and an undo that shortens it leaves the cursor behind the text), `CpmCpu.BiosFirst` (a
signal between an `out` and the halt it asks for lets the guest run on with the
call pending), `CpmConsole.DateAccurate` (a leap day too few from 2001 on),
`CpmConsole.StatusIsTrue` (the second key of a pair is not announced until
something else is typed). `BcNumber.LongOrZero` says of a number that is too
large for a long that it becomes 0; it may become another number.
`FrotzSaving.ErrorsAreHarmless` repeats the comment at the head of
`restore_quetzal`, that it returns 0 "if an error occurred before any damage was
done": a file that ends right after its header chunk makes it return 0 when the
program counter is the saved one already, and the game goes on there.

`z_save` says 1 to the game whatever `save_quetzal` returned, and 1 also when
closing fails after it had returned 1. A `CMem` chunk that ends within a run
makes the reader skip a byte too many, so that the `UMem` chunk it hopes for is
not found; one that is too long writes one byte behind dynamic memory; a second
`Stks` chunk is not skipped but read as chunks; and a game whose stack is full
to its last word is saved but not restored.

On a full host a sector that was written with A = 0 may be lost when `closeall` does
not look at what `fclose` returns (bios.c:109), and reads as 0xE5, with A = 0,
afterwards; `writeseq` does not look at `fflush` (bdos.c:764-771), so that a record
may be reported as written, with the FCB behind it, that is not in the file.

The disassembler misreads RST, FD prefixes and `(ix+d)` behind DD. The headers
of the last floppies lie outside the image, and the stack of a boot inside the
allocation vector of hard disc 0. The scanner of bc does not count a newline
that is quoted right behind another, and a function of the math library that is
defined anew does not grow the table of its names. In bute
`wordright` and indentation go wrong on a small screen, an environment is read
from a freed editor, and a short write is taken for success.

## 9. The plan

Done: bute but for its terminal; cpm but for the directory search; the memory,
objects, text, stack, saved games, output and screen of frotz; bc but for line editing;
proofs about the gap buffer, the undo list, the environment and the editing
commands of bute, the disks, files, console and clock of cpm, and undo and the stack of frotz.

Next:

1. **frotz**: hot keys composed with `FrotzUndo` and `FrotzStack`, with the
   replay of input.
2. **cpm**: the directory search added to `CpmFiles`; the monitor's commands on
   memory.
3. **calc and tools**: the grammar of expressions and the folding of constants
   over small integers; variables; the line editor with history, shared with bc
   and bute; rows of `more`; elision of `hexdump`; dates of `cal`.
4. **Theorems**: `LinesAreCounted` in sessions with `undo`; the invariant of the
   monitor that ties its flags together, and `CallsAreNext` from it, once `CpmCpu`
   does not rest on `Z80`.
