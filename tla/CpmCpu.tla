------------------------------- MODULE CpmCpu -------------------------------
(***************************************************************************)
(* Programs run on the processor of Z80.tla, one instruction a step        *)
(* (infloop of z80_emulator), and what they must have computed when they   *)
(* reach their end.  What an instruction computes is compared with integer *)
(* arithmetic, with a longer program that does the same, or with the       *)
(* instruction it is a variant of.  Then how the emulator stops: its loop  *)
(* step by step, signals, BIOS calls and the monitor.                      *)
(***************************************************************************)
EXTENDS Z80

CONSTANTS
  Operands,   \* bytes the operations on A are tried with
  Decimals,   \* bytes of two decimal digits
  Words,      \* words for the 16 bit sums
  Blocks,     \* <<hl, de, bc>>: the blocks that are moved and searched
  Base        \* address of the programs

VARIABLES
  cpu,        \* the machine
  cpuStart,   \* the machine the program began with
  cpuTest     \* the program: its kind, its code, where it ends

cpuVars == <<cpu, cpuStart, cpuTest>>

-----------------------------------------------------------------------------
(* What a boot leaves in the memory of the processor (warmboot of          *)
(* bearos_cpm/src/bios.c): the jumps at page 0, an entry for each BIOS     *)
(* function that hands it to the host through port FFh, the parameter      *)
(* blocks and headers of the drives, and a stack that boots again.  The    *)
(* CCP and the BDOS image loaded between them are left out.                *)

Ccp == \hD400
Bdos == \hDC00
Cbios == \hEA00
Entries == 30
Stack == \hEF00
MaxDiscs == 16
HardDiscs == 2
Floppies == MaxDiscs - HardDiscs

\* DPBSIZE, DPHSIZE, ALVSIZE, HALVSIZE and SECTORSIZE
BlockSize == 15
HeaderSize == 16
AllocSize == 33
HardAllocSize == 306
DirBufSize == 128

HardBlock == Cbios + (Entries * 8)
FloppyBlock == HardBlock + BlockSize
DirBuf == FloppyBlock + BlockSize
HardHeader(i) == DirBuf + DirBufSize + (HeaderSize * i)
FloppyHeader(i) == HardHeader(HardDiscs) + (HeaderSize * i)
FloppyAlloc(i) == FloppyHeader(Floppies) + (AllocSize * i)
HardAlloc(i) == FloppyAlloc(Floppies) + (HardAllocSize * i)
TimeBuf == HardAlloc(HardDiscs)
EndOfBios == TimeBuf + 5

\* Mutant of EntryCode: the entries are packed by their instructions.
EntryCodePacked(i) == Cbios + (Entries * 3) + (i * 4)

\* The code of entry i, and the jump to it.
EntryCode(i) == Cbios + (Entries * 3) + (i * 5)
EntryJump(i) == Cbios + (3 * i)

\* Bytes and little-endian words to put at an address.
Bytes(a, s) == [x \in a .. a + Len(s) - 1 |-> s[x - a + 1]]
Lo(w) == w % 256
Hi(w) == w \div 256
JumpTo(w) == <<\hC3, Lo(w), Hi(w)>>

Header(a, block, alloc) ==
  Bytes(a, <<0, 0, 0, 0, 0, 0, 0, 0, Lo(DirBuf), Hi(DirBuf), Lo(block), Hi(block), 0, 0,
             Lo(alloc), Hi(alloc)>>)

\* sectors a track, block shift, block mask, capacity, entries of the directory,
\* blocks they take, reserved tracks
Parameters(a, spt, shift, capacity, entries, alloc) ==
  Bytes(a, <<Lo(spt), Hi(spt), shift, 2 ^ shift - 1, 0, Lo(capacity), Hi(capacity),
             Lo(entries), Hi(entries), alloc[1], alloc[2], 0, 0, 2, 0>>)

\* Everything warmboot writes, the drive selected being drive.
Written(drive) ==
  {Bytes(0, JumpTo(Cbios + 3) \o <<0, drive>> \o JumpTo(Bdos + 6)),
   Parameters(HardBlock, 64, 4, 2441, 1023, <<\hFF, \hFF>>),
   Parameters(FloppyBlock, 26, 3, 242, 63, <<\hC0, 0>>),
   Bytes(Stack - 16, [i \in 1 .. 16 |-> IF i % 2 = 1 THEN Lo(Cbios + 3) ELSE Hi(Cbios + 3)])}
  \cup {Bytes(EntryJump(i), JumpTo(EntryCode(i))) : i \in 0 .. Entries - 1}
  \cup {Bytes(EntryCode(i), <<\h3E, i, \hD3, \hFF, \hC9>>) : i \in 0 .. Entries - 1}
  \cup {Header(HardHeader(i), HardBlock, HardAlloc(i)) : i \in 0 .. HardDiscs - 1}
  \cup {Header(FloppyHeader(i), FloppyBlock, FloppyAlloc(i)) : i \in 0 .. Floppies - 1}

\* The machine after the boot.
Booted(drive) ==
  [Z80Reset EXCEPT !.pc = Ccp, !.sp = Stack - 16, !.r[C] = drive,
                   !.mem = LET w == Written(drive)
                           IN  [x \in UNION {DOMAIN m : m \in w} |->
                                  (CHOOSE m \in w : x \in DOMAIN m)[x]]]

\* Mutant of HeaderFor: the hard discs have the headers of floppies.
HeaderOfFloppy(drive) == FloppyHeader(drive)

\* seldisc: the header it gives for a drive.
HeaderFor(drive) == IF drive < HardDiscs THEN HardHeader(drive) ELSE FloppyHeader(drive)

\* What the guest reads in a header: its parameter block and its allocation vector.
BlockOf(z, header) == MemW(z, header + 10)
AllocOf(z, header) == MemW(z, header + 14)

-----------------------------------------------------------------------------
(* Machines and programs.                                                  *)

\* z with the bytes of code from a on.
Placed(z, a, code) == [z EXCEPT !.mem = [x \in a .. a + Len(code) - 1 |-> code[x - a + 1]] @@ @]

Test(kind, code) == [kind |-> kind, code |-> code, end |-> Base + Len(code)]

\* The machine before the program, from what the registers hold.
Before(t, r, f, sp, ix, mem) ==
  Placed([Z80Reset EXCEPT !.r = [i \in {B, C, D, E, H, L, A} |-> IF i \in DOMAIN r THEN r[i] ELSE 0],
                          !.f = f, !.sp = sp, !.xy[0] = ix, !.xy[1] = ix, !.mem = mem, !.pc = Base],
         Base, t.code)

Words3(hl, de, bc) == H :> High(hl) @@ L :> Low(hl) @@ D :> High(de) @@ E :> Low(de)
                      @@ B :> High(bc) @@ C :> Low(bc)

\* <A op B> for the operations add, adc, sub, sbc, and, xor, or, cp.
AluTests == {Test("alu", <<\h80 + (8 * op)>>) : op \in 0 .. 7}
\* The first four, then daa.
BcdTests == {Test("bcd", <<\h80 + (8 * op), \h27>>) : op \in 0 .. 3}
\* adc or sbc hl,de byte by byte, through A.
WideTests == {Test("wide", <<\h7D, t + 3, \h6F, \h7C, t + 2, \h67>>) : t \in {\h88, \h98}}
\* The block instructions.
MoveTests == {Test("move", <<\hED, t>>) : t \in {\hB0, \hB8}}
FindTests == {Test("find", <<\hED, t>>) : t \in {\hB1, \hB9}}
\* An instruction on (ix+d), to be compared with that on (hl).
IndexOps == {<<\hDD, t, d>> : t \in {\h34, \h35, \h46, \h66, \h70, \h7E, \h8E, \h96, \hBE}, d \in {1, \hFF}}
            \cup {<<\hFD, \hCB, d, t>> : t \in {\h06, \h0E, \h16, \h1E, \h26, \h2E, \h3E, \h46, \h9E, \hFE}, d \in {1, \hFF}}
IndexTests == {Test("index", op) : op \in IndexOps}
\* call cc to: push af; xor a; pop af; ret
CallTests == {Test("call", <<c, \h3D, \h03>>) : c \in {\hC4, \hCC, \hD4, \hDC, \hEC, \hF4, \hCD}}
Callee == <<\hF5, \hAF, \hF1, \hC9>>
\* Any one instruction, with a displacement and an operand behind it.
CodeTests == {Test("code", <<t, 5, 0>>) : t \in Byte \ {\hCB, \hED, \hDD, \hFD}}
             \cup {Test("code", <<p, t, 5, 0>>) : p \in {\hCB, \hED, \hDD}, t \in Byte \ {\hCB}}

\* A call of a BIOS entry, and the two ways back to the BIOS: page 0 and a ret
\* to the stack a boot leaves.
BiosTests == {Test("bios", <<\hCD, Lo(EntryJump(n)), Hi(EntryJump(n))>>) : n \in 0 .. Entries - 1}
             \cup {Test("bios", <<t>>) : t \in {\hC7, \hC9}}

Machines(t) ==
  CASE t.kind = "alu" -> {Before(t, A :> a @@ B :> b, f, 0, 0, <<>>) :
                             a \in Operands, b \in Operands, f \in SUBSET {Carry}}
    [] t.kind = "bcd" -> {Before(t, A :> a @@ B :> b, f, 0, 0, <<>>) :
                             a \in Decimals, b \in Decimals, f \in SUBSET {Carry}}
    [] t.kind = "wide" -> {Before(t, Words3(h, d, 0), f, 0, 0, <<>>) :
                             h \in Words, d \in Words, f \in SUBSET {Carry}}
    [] t.kind \in {"move", "find"} ->
         {Before(t, Words3(b[1], b[2], b[3]) @@ A :> a, {}, 0, 0,
                 [x \in \h80 .. \h86 |-> x - \h7F]) : b \in Blocks, a \in {2, 9}}
    [] t.kind = "index" ->
         {Before(t, Words3(h, 0, 2) @@ A :> \h9A, f, 0, W(h - Signed(t.code[3])), h :> v) :
                 h \in {0, \h80, \hFFFF}, v \in {1, \h7F, \h80, \hFF}, f \in SUBSET {Carry}}
    [] t.kind = "call" -> {Placed(Before(t, A :> 7, f, s, 0, <<>>), \h33D, Callee) :
                             f \in SUBSET {Carry, Zero, Parity, Sign}, s \in {0, 1, \h300}}
    [] t.kind = "bios" -> {Placed([Booted(0) EXCEPT !.pc = Base], Base, t.code)}
    [] t.kind = "code" -> {Before(t, Words3(\h80, \h90, \h201), f, \h300, \h80, \h300 :> 8) : f \in {{}, {Carry, Zero, Parity, Sign}}}

Tests == AluTests \cup BcdTests \cup WideTests \cup MoveTests \cup FindTests \cup IndexTests
         \cup CallTests \cup CodeTests \cup BiosTests

-----------------------------------------------------------------------------
(* Behaviour.                                                              *)

CpuInit == /\ cpuTest \in Tests
           /\ cpu \in Machines(cpuTest)
           /\ cpuStart = cpu

CpuDone == CASE cpuTest.kind = "code" -> cpu # cpuStart
             [] cpuTest.kind = "bios" -> cpu.out # <<>>
             [] OTHER -> cpu.pc = cpuTest.end

\* infloop: fetch, decode, execute; ports give the byte A5h.
CpuRun == /\ ~CpuDone
          /\ cpu' = Run1(cpu, \hA5)
          /\ UNCHANGED <<cpuStart, cpuTest>>

CpuNext == CpuRun
CpuSpec == CpuInit /\ [][CpuNext]_cpuVars /\ WF_cpuVars(CpuRun)

-----------------------------------------------------------------------------
(* What the programs compute.                                              *)

Ended(kind) == CpuDone /\ cpuTest.kind = kind
CarryIn == IF Carry \in cpuStart.f THEN 1 ELSE 0
Op == Y(cpuTest.code[1])

\* The flags after an operation on A tell what they mean: the carry whether the
\* unsigned result left 0 .. 255, the overflow whether the signed one left
\* -128 .. 127, and A holds the result cut to a byte; cp leaves A alone, and
\* after it the carry orders unsigned bytes, sign and overflow signed ones.
AluExact ==
  (Ended("alu") /\ Op \in {0, 1, 2, 3, 7}) =>
    LET a == cpuStart.r[A]
        b == cpuStart.r[B]
        c == IF Op \in {1, 3} THEN CarryIn ELSE 0
        sub == Op \in {2, 3, 7}
        u == IF sub THEN a - b - c ELSE a + b + c
        s == IF sub THEN Signed(a) - Signed(b) - c ELSE Signed(a) + Signed(b) + c
        h == IF sub THEN (a % 16) - (b % 16) - c ELSE (a % 16) + (b % 16) + c
    IN  /\ cpu.r[A] = IF Op = 7 THEN a ELSE u % 256
        /\ cpu.f = {x \in {Carry, Negative, Overflow, Half, Zero, Sign} :
                       CASE x = Carry -> u \notin 0 .. 255
                         [] x = Negative -> sub
                         [] x = Overflow -> s \notin -128 .. 127
                         [] x = Half -> h \notin 0 .. 15
                         [] x = Zero -> u % 256 = 0
                         [] x = Sign -> u % 256 > 127}

FromBcd(b) == (10 * (b \div 16)) + (b % 16)

\* daa after an addition or a subtraction of decimal bytes: A holds the decimal
\* result cut to two digits and the carry says whether it was cut.
DecimalExact ==
  Ended("bcd") =>
    LET c == IF Op \in {1, 3} THEN CarryIn ELSE 0
        a == FromBcd(cpuStart.r[A])
        b == FromBcd(cpuStart.r[B])
        v == IF Op > 1 THEN a - b - c ELSE a + b + c
    IN  FromBcd(cpu.r[A]) = v % 100 /\ (Carry \in cpu.f) = (v \notin 0 .. 99)

\* adc and sbc on hl are the same as the operation on its low bytes and then on
\* its high bytes: result, carry, half carry, overflow and sign.  The zero flag
\* is that of the result unless the result wrapped to 0: the code looks at the
\* longword before it cuts it.
WideIsChain ==
  Ended("wide") =>
    LET once == Arith16(cpuStart, Pair(cpuStart, D), cpuTest.code[2] > \h98)
    IN  /\ HL(once) = HL(cpu)
        /\ once.f \ {Zero} = cpu.f \ {Zero}
        /\ (Zero \in once.f) = (HL(cpu) = 0 /\ (Carry \notin cpu.f))

\* A repeated move has copied one byte after another from hl to de, in its own
\* direction also where the blocks overlap, and left bc at 0; a repeated search
\* has stopped behind the first byte that equals A, with zero on, or at the end
\* of the block.
BlocksExact ==
  cpuTest.kind \in {"move", "find"} =>
  LET n == Pair(cpuStart, B)
      d == IF Bit(cpuTest.code[2], 3) THEN -1 ELSE 1
      from(i) == W(HL(cpuStart) + (d * i))
      copied[i \in 0 .. n] == IF i = 0 THEN cpuStart
                              ELSE SetMem(copied[i - 1], Pair(cpuStart, D) + (d * (i - 1)),
                                          Mem(copied[i - 1], from(i - 1)))
      hits == {i \in 0 .. n - 1 : Mem(cpuStart, from(i)) = cpu.r[A]}
      stop == IF hits = {} THEN n ELSE 1 + CHOOSE i \in hits : \A j \in hits : i <= j
  IN  /\ Ended("move") => /\ \A x \in DOMAIN cpu.mem \cup DOMAIN copied[n].mem : Mem(cpu, x) = Mem(copied[n], x)
                          /\ Pair(cpu, B) = 0 /\ Overflow \notin cpu.f
                          /\ HL(cpu) = from(n)
      /\ Ended("find") => /\ HL(cpu) = from(stop) /\ Pair(cpu, B) = n - stop
                          /\ (Zero \in cpu.f) = (hits # {})
                          /\ cpu.mem = cpuStart.mem

\* An instruction on (ix+d) or (iy+d) does what its plain form does on (hl) when
\* hl is ix+d, for displacements of either sign and round the end of memory.
IndexIsHL ==
  Ended("index") =>
    LET code == cpuTest.code
        plain == IF Len(code) = 3 THEN Execute([cpuStart EXCEPT !.pc = W(Base + 1)], code[2], 0)
                 ELSE BitInstr([cpuStart EXCEPT !.pc = W(Base + 1)], code[4])
    IN  /\ cpu.r = plain.r
        /\ cpu.f = plain.f
        /\ \A x \in DOMAIN cpu.mem \cup DOMAIN plain.mem : Mem(cpu, x) = Mem(plain, x)

\* A call, conditional or not, that is taken and returns, or is not taken, comes
\* out behind itself with every register and flag, SP too, as it found them,
\* even when the stack wraps round the end of memory.
CallReturns ==
  Ended("call") => [cpu EXCEPT !.mem = <<>>] = [cpuStart EXCEPT !.mem = <<>>, !.pc = cpuTest.end]

\* What the disassembler gets wrong: rst is read as an operation with a byte;
\* FD is read as a call; behind DD the displacement of (ix+d) is missed but
\* for ld (ix+d),n, and opcodes that have no indexed form are read as plain
\* ones with their operands, which the processor refuses.
Misread(code) ==
  \/ code[1] % 8 = 7 /\ code[1] >= \hC0
  \/ code[1] = \hDD /\ code[2] \notin {\h36, \h21, \h22, \h2A, \h09, \h19, \h29, \h39, \h23, \h2B,
                                       \hE9, \hE1, \hE3, \hE5, \hF9}

\* Everything else it reads in step with the processor: the instruction it
\* shows has the length the processor goes on by, and the target it shows for a
\* relative jump is where the processor lands, or goes on behind it.
DisassemblyFollows ==
  (Ended("code") /\ ~Misread(cpuTest.code)) =>
    LET t == cpuTest.code[1]
        next == W(Base + DisassemLength(cpuStart, Base))
    IN  \/ cpu.halt
        \/ cpu.pc = next
        \/ t \in {\h10, \h18, \h20, \h28, \h30, \h38} /\ cpu.pc = RelativeTarget(cpuStart, Base)
        \/ t \in {\hED, \hDD} /\ cpuTest.code[2] \in {\h45, \h4D, \hB0, \hB1, \hB2, \hB3, \hB8, \hB9, \hBA, \hBB, \hE9}
        \/ t >= \hC0 /\ t % 8 \in {0, 2, 4} /\ cpu.pc \in {8, 5}
        \/ t \in {\hC3, \hCD, \hC9, \hE9}

\* After a boot each BIOS entry hands its own number to the host, once, and
\* stands in front of the return to its caller; the jump at address 0 and a ret
\* to the stack the boot left hand over that of the warm boot.
EntriesReachHost ==
  Ended("bios") =>
    /\ cpu.out = << <<\hFF, IF Len(cpuTest.code) = 3 THEN (cpuTest.code[2] - Lo(Cbios)) \div 3 ELSE 1>> >>
    /\ Mem(cpu, cpu.pc) = \hC9
    /\ Len(cpuTest.code) = 3 => Top(cpu) = cpuTest.end

\* The header seldisc gives for a drive leads to the parameters of such a drive,
\* and no two drives share an allocation vector; but for the last floppies, whose
\* header is looked for behind the headers.  The tables do not overlap one
\* another, though the stack lies in the allocation vector of hard disc 0.
HeadersLead ==
  (cpuTest.kind = "bios" /\ Len(cpuTest.code) = 1 /\ cpu = cpuStart) =>
    LET known == 0 .. MaxDiscs - HardDiscs - 1
    IN  /\ \A d \in known : BlockOf(cpuStart, HeaderFor(d)) = IF d < HardDiscs THEN HardBlock ELSE FloppyBlock
        /\ \A d, e \in known : AllocOf(cpuStart, HeaderFor(d)) = AllocOf(cpuStart, HeaderFor(e)) => d = e
        /\ \A v, w \in Written(0) : v = w \/ DOMAIN v \cap DOMAIN w = {}
        /\ Stack - 16 >= HardAlloc(0) /\ Stack < HardAlloc(1)

\* Every program ends: a block instruction is repeated bc times and no more.
Ends == <>CpuDone

-----------------------------------------------------------------------------
(* How the emulator stops: the loop of z80_emulator (z80.c), the handler of *)
(* SIGINT that may run between any two of its steps, BIOS calls, and the   *)
(* monitor behind them (haltcpu, command, input, output and interrupt of   *)
(* main.c).  event and halt are two flags the loop reads and clears one    *)
(* after the other, so the loop is one action per step of it.  An          *)
(* instruction is one of the kinds the loop treats differently.            *)

CONSTANTS
  BiosFns,       \* functions of the BIOS
  NoFn,          \* no function
  MaxSignals     \* bound: signals in a behaviour

VARIABLES
  monAt,         \* the step the loop is at
  monBack,       \* where command() returns to
  monEvent, monHalt, monSig,     \* z80->event, halt, sig
  monCall,       \* z80->biosfn while z80->syscall, or NoFn
  monTrace, monStep,             \* z80->trace, step
  monSignals,    \* history: signals so far
  monShown,      \* history: the trace has shown the instruction to come
  monQuiet,      \* history: haltcpu went to the user for a signal; the call that
                 \* waited for it, or the trace, waits on
  monFresh       \* history: the trace was turned on or the guest booted from the
                 \* monitor, and the trace has shown nothing since

flags == <<monEvent, monHalt, monSig>>
modes == <<monTrace, monStep>>
history == <<monShown, monQuiet, monFresh>>
monVars == <<monAt, monBack, flags, monCall, modes, monSignals, history>>

\* top: the head of infloop; cleared: event is cleared, halt not yet read;
\* halted: haltcpu has cleared halt; signalled: it has found sig set;
\* unsignalled: it has not; bios: behind the trace; execute: before the
\* instruction; command: the monitor; read: waiting for a key; quit.
MonInit ==
  /\ monAt = "top" /\ monBack = "execute"
  /\ monEvent = FALSE /\ monHalt = FALSE /\ monSig = FALSE
  /\ monCall = NoFn
  /\ monTrace = FALSE /\ monStep = FALSE
  /\ monSignals = 0 /\ monShown = FALSE /\ monQuiet = FALSE /\ monFresh = FALSE

At(a, b) == monAt = a /\ monAt' = b

-----------------------------------------------------------------------------
(* The loop.                                                               *)

LookForEvent ==
  /\ At("top", IF monEvent THEN "cleared" ELSE "execute")
  /\ monEvent' = FALSE
  /\ UNCHANGED <<monBack, monHalt, monSig, monCall, modes, monSignals, history>>

LookForHalt ==
  /\ At("cleared", IF monHalt THEN "halted" ELSE "execute")
  /\ monHalt' = FALSE
  /\ UNCHANGED <<monBack, monEvent, monSig, monCall, modes, monSignals, history>>

\* haltcpu: a signal comes first, and nothing else then.
LookForSignal ==
  /\ At("halted", IF monSig THEN "signalled" ELSE "unsignalled")
  /\ UNCHANGED <<monBack, flags, monCall, modes, monSignals, history>>

TakeSignal ==
  /\ At("signalled", "command")
  /\ monSig' = FALSE /\ monBack' = "execute" /\ monQuiet' = TRUE
  /\ UNCHANGED <<monEvent, monHalt, monCall, modes, monSignals, monShown, monFresh>>

\* Mutant of Trace: behind the monitor the loop goes on with the instruction.
TraceThenExecute ==
  /\ At("unsignalled", IF monTrace /\ monStep THEN "command" ELSE "bios")
  /\ monBack' = "execute"
  /\ monEvent' = (monEvent \/ monTrace) /\ monHalt' = (monHalt \/ monTrace)
  /\ monShown' = monTrace /\ monQuiet' = FALSE /\ monFresh' = FALSE
  /\ UNCHANGED <<monSig, monCall, modes, monSignals>>

\* Mutant of Trace: it is not armed again.
TraceOnce ==
  /\ At("unsignalled", IF monTrace /\ monStep THEN "command" ELSE "bios")
  /\ monBack' = "bios"
  /\ monShown' = monTrace /\ monQuiet' = FALSE /\ monFresh' = FALSE
  /\ UNCHANGED <<flags, monCall, modes, monSignals>>

\* Tracing arms the flags again, shows the instruction to come and may stop there.
Trace ==
  /\ At("unsignalled", IF monTrace /\ monStep THEN "command" ELSE "bios")
  /\ monBack' = "bios"
  /\ monEvent' = (monEvent \/ monTrace) /\ monHalt' = (monHalt \/ monTrace)
  /\ monShown' = monTrace /\ monQuiet' = FALSE /\ monFresh' = FALSE
  /\ UNCHANGED <<monSig, monCall, modes, monSignals>>

\* The BIOS call that waits, if one does.  CONIN waits for a key.
Bios ==
  /\ \/ At("bios", "execute")
     \/ At("bios", "read") /\ monCall # NoFn
  /\ monBack' = "execute"
  /\ monCall' = NoFn
  /\ UNCHANGED <<flags, modes, monSignals, history>>

Next1 == monShown' = FALSE /\ monQuiet' = (monQuiet /\ monCall # NoFn) /\ UNCHANGED monFresh

\* An instruction: ...
Plain == /\ At("execute", "top") /\ Next1
         /\ UNCHANGED <<monBack, flags, monCall, modes, monSignals>>

\* ... out (FFh),a: output() leaves the call for haltcpu;
OutFF == /\ At("execute", "top")
         /\ monShown' = FALSE /\ monQuiet' = FALSE /\ UNCHANGED monFresh
         /\ monEvent' = TRUE /\ monHalt' = TRUE
         /\ \E fn \in BiosFns : monCall' = fn
         /\ UNCHANGED <<monBack, monSig, modes, monSignals>>

\* ... halt;
Halt == /\ At("execute", "top") /\ Next1
        /\ monEvent' = TRUE /\ monHalt' = TRUE
        /\ UNCHANGED <<monBack, monSig, monCall, modes, monSignals>>

\* ... an opcode that is none: undefinstr;
Illegal == /\ At("execute", "command") /\ Next1 /\ monBack' = "top"
           /\ UNCHANGED <<flags, monCall, modes, monSignals>>

\* ... in a,(0): input() waits for a key.
In0 == /\ At("execute", "read") /\ Next1 /\ monBack' = "top"
       /\ UNCHANGED <<flags, monCall, modes, monSignals>>

Execute1 == Plain \/ OutFF \/ Halt \/ Illegal \/ In0

\* A key comes; F1 to F4 lead to the monitor, and then the read goes on.
Key == /\ monAt = "read" /\ monAt' = monBack
       /\ UNCHANGED <<monBack, flags, monCall, modes, monSignals, history>>
FunctionKey == /\ At("read", "readCommand")
               /\ UNCHANGED <<monBack, flags, monCall, modes, monSignals, history>>

-----------------------------------------------------------------------------
(* command(), entered from the loop or from a read.                        *)

InCommand == monAt \in {"command", "readCommand"}
Leave == monAt' = IF monAt = "command" THEN monBack ELSE "read"

\* t and s
Toggle == /\ InCommand
          /\ \/ monTrace' = ~monTrace /\ monFresh' = TRUE /\ UNCHANGED monStep
             \/ monStep' = ~monStep /\ UNCHANGED <<monTrace, monFresh>>
          /\ UNCHANGED <<monAt, monBack, flags, monCall, monSignals, monShown, monQuiet>>

\* c and g, and return where it steps: the trace is armed.
Continue == /\ InCommand /\ Leave
            /\ monEvent' = (monEvent \/ monTrace) /\ monHalt' = (monHalt \/ monTrace)
            /\ UNCHANGED <<monBack, monSig, monCall, modes, monSignals, history>>

\* b: sysreset leaves the flags, the trace and a waiting call as they are.
BootNow == /\ InCommand /\ Leave
           /\ monFresh' = TRUE
           /\ UNCHANGED <<monBack, flags, monCall, modes, monSignals, monShown, monQuiet>>

QuitNow == /\ InCommand /\ monAt' = "quit"
           /\ UNCHANGED <<monBack, flags, monCall, modes, monSignals, history>>

-----------------------------------------------------------------------------
(* Signals and behaviour.                                                  *)

\* Mutant of Interrupt: the handler leaves halt to whoever set it before.
InterruptNoHalt ==
  /\ monSignals < MaxSignals
  /\ monSignals' = monSignals + 1
  /\ monEvent' = TRUE /\ monSig' = TRUE
  /\ monAt' \in IF monAt = "read" THEN {"read", "readCommand"} ELSE {monAt}
  /\ UNCHANGED <<monBack, monHalt, monCall, modes, history>>

\* interrupt: it may come at any step.  A read it interrupts fails with EINTR,
\* and input() calls the monitor, or the C library takes up the read again.
Interrupt ==
  /\ monSignals < MaxSignals
  /\ monSignals' = monSignals + 1
  /\ monEvent' = TRUE /\ monHalt' = TRUE /\ monSig' = TRUE
  /\ monAt' \in IF monAt = "read" THEN {"read", "readCommand"} ELSE {monAt}
  /\ UNCHANGED <<monBack, monCall, modes, history>>

Loop == LookForEvent \/ LookForHalt \/ LookForSignal \/ TakeSignal \/ Trace \/ Bios \/ Execute1

MonNext == \/ monAt # "quit" /\ Interrupt
           \/ Loop
           \/ Key \/ FunctionKey
           \/ Toggle \/ Continue \/ BootNow \/ QuitNow

\* The loop runs on; nobody has to type, or to leave the monitor.
MonSpec == MonInit /\ [][MonNext]_monVars /\ WF_monVars(Loop)

-----------------------------------------------------------------------------
(* Properties.                                                             *)

\* A signal is never lost between the two flags: whenever it comes, the monitor
\* asks the user, or a read that began already waits for a key.
SignalReachesUser == monSig ~> (InCommand \/ monAt \in {"read", "quit"})

\* A BIOS call is made before the next instruction, unless haltcpu found a signal
\* with it: only then does the guest run on without what it called for.
CallsAreNext == [][Execute1 /\ monCall # NoFn => monQuiet]_monVars

\* Once the trace has begun to show instructions it misses none, but the one
\* behind a signal, until it is turned off or the monitor boots the guest, which
\* does not arm it again.
TraceSeesAll ==
  [][Execute1 /\ monTrace /\ ~monShown => monQuiet \/ monFresh]_monVars

\* What the comment in output() says: the call is made before the next
\* instruction.
BiosFirst == [][Execute1 => monCall = NoFn]_monVars
=============================================================================
