---------------------------- MODULE MCCpmMachine ----------------------------
(***************************************************************************)
(* The CP/M emulator but for its files and disks: the processor with its   *)
(* boot image and the disassembler, the loop with signals and monitor, the *)
(* console's two directions and the BIOS files, one part to a behaviour.   *)
(***************************************************************************)
EXTENDS CpmCpu, CpmConsole

MCBlocks == {<<\h80, \h82, 3>>, <<\h82, \h80, 3>>, <<\h82, \h83, 2>>, <<\h81, \h81, 4>>,
             <<\h84, \h82, 3>>}
MCYears == {78, 79, 80, 81, 99, 100, 101, 104, 105, 126}

VARIABLE part

mcVars == <<part, cpuVars, monVars, conVars, vtVars, unixVars>>

\* The processor's variables where another part is looked at: a program that ended.
CpuIdle == /\ cpuTest = Test("code", <<0>>)
           /\ cpuStart = [Z80Reset EXCEPT !.pc = Base]
           /\ cpu = Run1(cpuStart, 0)
MCLengths == [n \in UnixNames |-> IF n = "u" THEN 228 ELSE -1]

MCInit == /\ part \in {"cpu", "monitor", "input", "screen", "files", "clock"}
          /\ IF part = "cpu" THEN CpuInit ELSE CpuIdle
          /\ MonInit /\ ConInit
          /\ UnixInit /\ unixLen = IF part = "files" THEN MCLengths ELSE [n \in UnixNames |-> -1]

InPart(p) == part = p /\ UNCHANGED part

CpuPart == InPart("cpu") /\ CpuNext /\ UNCHANGED <<monVars, conVars, vtVars, unixVars>>
MonPart == InPart("monitor") /\ MonNext /\ UNCHANGED <<cpuVars, conVars, vtVars, unixVars>>
InputPart == InPart("input") /\ (Type \/ ConStat \/ Get) /\ UNCHANGED <<cpuVars, monVars, unixVars>>
ScreenPart == InPart("screen") /\ Write /\ UNCHANGED <<cpuVars, monVars, unixVars>>
FilesPart == InPart("files") /\ FilesNext /\ UNCHANGED <<cpuVars, monVars, conVars, vtVars>>

ClockPart == InPart("clock") /\ DoTime /\ UNCHANGED <<cpuVars, monVars, conVars, vtVars>>

MCNext == CpuPart \/ MonPart \/ InputPart \/ ScreenPart \/ FilesPart \/ ClockPart

MCSpec == /\ MCInit /\ [][MCNext]_mcVars
          /\ WF_cpuVars(part = "cpu" /\ CpuRun)
          /\ WF_monVars(part = "monitor" /\ Loop)
          /\ WF_consoleVars(part = "input" /\ Get)

\* Whatever bytes an instruction works on, it computes what integer arithmetic
\* says, in every form it has and from whatever address its operand comes.
InstructionsAreExact == part = "cpu" => AluExact /\ DecimalExact /\ WideIsChain /\ BlocksExact /\ IndexIsHL /\ CallReturns

\* What is built from instructions is what the processor makes of it: the listing
\* of the disassembler, the entries of the BIOS and its tables of drives.
ImageIsRead == part = "cpu" => DisassemblyFollows /\ EntriesReachHost /\ HeadersLead

\* No step goes past what was due: a BIOS call that waits, an instruction the
\* trace was to show, the end of a host file.
NothingIsPassed == CallsAreNext /\ TraceSeesAll /\ ReadsEnd

\* Nothing that was begun waits for ever: programs end, a signal reaches the user
\* and what is typed reaches the program.
NothingWaits == Ends /\ SignalReachesUser /\ AllIsGiven
=============================================================================
