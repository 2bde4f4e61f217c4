# The AVR emulator in TLA+

This directory is the verification project of the AVR emulator in `src/`: TLA+
modules translated from its C code, TLC configurations that check them on small
instances, and theorems about them that TLAPS proves for every value of the
constants. Paths such as `avr_mcu.c` are those of `src/src/...` and
`src/include/...`.

1. [The system](#1-the-system)
2. [Modules and how they correspond to the code](#2-modules-and-how-they-correspond-to-the-code)
3. [What the runs check](#3-what-the-runs-check)
4. [What is proved](#4-what-is-proved)
5. [Findings](#5-findings)
6. [What is not modelled](#6-what-is-not-modelled)
7. [Plan](#7-plan)

## 1. The system

A single-threaded C program. There is one core (the codec, the arithmetic, the
`AvrMCU` struct and its API) and three frontends on top of it. Nothing is
persistent and there are no threads; what is hard is arithmetic at the ends of
ranges, multi-step operations that may fail half way, long sequences of legal
calls, loops over data the caller chose, and frontends that keep copies of the
state.

| Component | State | Operations | What makes it correct |
|---|---|---|---|
| Instruction codec, `avr_instruction.c:5-616` | none; the decoder writes into a struct of its caller, which `avr_mcu_step` does not initialise | `avr_encode_instruction`, `avr_decode_instruction_word` | the two are inverse to each other; no word belongs to two operations; illegal operands are refused, legal ones are not; fields that stay unwritten are never read |
| ALU, `avr_instruction.c:618-753` | none | the five flag functions | the bitwise formulas mean the carries, borrows, overflows and signs they stand for |
| Execution, `avr_instruction.c:755-1137` | through the struct | 24 operations | a failing instruction changes nothing; `sp` stays in range; flags that an operation does not own survive |
| Microcontroller, `avr_mcu.c` | the `AvrMCU` struct: registers, `pc`, SREG, flash, SRAM, port B, external input, `sp`, `cycle_count`, breakpoints | the access functions, `avr_mcu_create`, `avr_mcu_reset`, `avr_mcu_load_program`, `avr_mcu_step` | every field keeps its range; failing calls change nothing |
| Run loop, `avr_mcu.c:431-462` | a counter, while it runs | `avr_mcu_run` | it counts what it executes, honours breakpoints but can resume from one, tells the true reason, returns |
| Intel HEX loader, `avr_mcu.c:205-371` | cursor, staged copy of flash, end-of-file flag, while it runs | `avr_mcu_load_intel_hex` | it loads the image or nothing; it returns |
| Debug, `avr_debug.c` | snapshots; a log of at most 64 events per step | `avr_debug_snapshot`, `avr_debug_step_with_events`, a line of assembly and a sentence for an instruction | the log is the whole difference between two snapshots; the texts name every operand, fit their buffers and tell where a jump goes |
| TUI, `avr_tui.c` | machine, run flag, snapshot on the screen, previous snapshot, status | the main loop and its keys | the screen shows the machine; what the documents say of running, pausing and the demo |
| GUI, `avr_gui.c` | machine, run flag, speed, time of the last step, snapshot and previous snapshot, log of the last step, quit flag | a queue of key, mouse and window events, one timed step and one frame per round | the screen shows the machine and its change tracker does not contradict it; it runs on while left running, and ends on request |
| Demo program, `main.c` | an MCU | one fixed program, stepped and printed | - |

The components interact by calls only. A host calls the MCU API;
`avr_mcu_run` calls `avr_mcu_step`, which calls the decoder and then
`avr_execute_instruction`, which works through the access functions and the flag
functions. The frontends call the API between key presses and timer ticks, and
read the machine through snapshots.

The behaviours that are hard to test are listed with their lines under
`hazards` in `PROJECT.json`, each with the properties that watch it: CALL's two
stores (`avr_instruction.c:1107`), four different bounds checks on `sp` (1070),
uninitialised decoder output (`avr_mcu.c:376`), flag formulas wrong for a few
operand pairs only (618), the if-chain of 24 masks (388), the breakpoint
exception at the start of a run (`avr_mcu.c:444`), the wrapping cycle counter
(390), image bytes applied before the image is known to be valid (369), damaged
texts (306), record lengths read from the text (278), rows and buffers of
fixed size (`avr_gui.c:508`, `avr_tui.c:126`), frontends that act
on a copy of the state (`avr_tui.c:366`, `avr_gui.c:685`), and events of keys,
mouse and clock in any order (`avr_gui.c:699`).

## 2. Modules and how they correspond to the code

```
AvrBits --- AvrInstruction --- AvrDisassembly
   |                 |                 |
   |              AvrAlu               |
   |                 |                 |
   |              AvrMcu -----------AvrDebug --- AvrTracker --- AvrGui
   |              |  |  \              |                        |
   |           MCMcu | AvrDemo --------+------------------------|
   |                 |                 |                        |
   |              AvrRun ------------AvrTui                     |
   |                                   |                        |
   |                               AvrMirror, refined by AvrTui and AvrGui
   |---- AvrStack, refined by MCStack (over AvrMcu)
    \--- AvrHexLoader
```

Each of AvrInstruction with AvrDisassembly (`MCCodec`), AvrAlu, AvrMcu, AvrRun,
AvrHexLoader, AvrTracker (`MCDebug`), AvrTui and AvrGui has an MC module.

- **AvrBits**: bytes, words, bytes as sets of bits. `& | ^` on ports become set
  operations; conversions to `uint8_t` and `uint16_t` are `% 256` and `% 65536`.
- **AvrInstruction**: the codec as operators. The two long if-chains are given
  as one opcode table, a mask as the two ends of the operand field, and one
  operator for each field of the struct. `Decode(w, out)` takes the struct the
  caller hands in and keeps the fields that the branch of the decoder does not
  assign. `Encodable` is the conjunction of the encoder's early returns.
- **AvrAlu**: each flag function returns the set of flags it raises. The formulas
  are those of the code, bit by bit, not their meaning: the meaning is the
  property.
- **AvrMcu**: one variable per field of `AvrMCU`. `PINB` is not stored, as in the
  code (`Pins`). Every API call runs to completion, so it is one step. `call` and
  `ret` record what was called and what it returned. `Accepts(i)` gathers the
  checks that let an instruction reach its end, and one operator per operation
  says what it does then; `Abandon` is a failing instruction, in which CALL may
  have made its first store (`StoreReturnAddress` keeps the order of the two
  stores). In `Step` the decoder is given any element of `Garbage`, the contents
  of the uninitialised struct.
- **AvrRun**: one iteration of `avr_mcu_run` per step, `StartRun` and the three
  exits `StopAtLimit`, `StopAtBreakpoint` and a failing `Iterate`. `entry_cycles`
  is a history variable. **MCRun** adds another, `trail`, the addresses from which the
  current call has executed: what a call reports is judged by the path it took and
  not by the loop's own counter.
- **AvrHexLoader**: one iteration of the loader's loop per step. The text is a
  sequence of tokens: a byte stands for its two digits, so that character
  conversion is left out while framing, lengths, checksums and order are kept. A
  character that is no digit, or a digit without a partner, is `Junk`.
- **AvrStack**: the abstract specification of PUSH, POP, CALL and RET, a bounded
  stack of bytes with addresses that travel as two of them. **MCStack** maps it
  to `sp` and SRAM: the stack is what lies in SRAM from `sp` up.
- **AvrDisassembly**: the two texts of an instruction. A text is its operation, which
  stands for the fixed words, and the values printed among them in their order;
  the number of characters of the fixed words is kept, so that the length of a
  text, and with it what the two functions return, is known.
- **AvrDebug**: `Snapshot`, the copy that a frontend shows, and the log of a step:
  `Compared` has all comparisons in the order of the code, and `Logged` makes them one
  after the other, pushing an event where the values differ and there is room.
- **AvrTracker**: the log that the GUI keeps (`last_events`) and the rows that its
  change tracker makes of it.
- **AvrDemo**: the demo program, which both frontends contain in the same words, as
  the instructions that `load_demo` encodes. **AvrMirror** is what the program
  promises: an output that moves only to levels the input had when it was looked
  at, and settles with it. `Sampled` maps R17 and the place in the program to the
  look that is still on its way to PB5.
- **AvrTui**: the TUI's main loop over AvrRun. `at` is the place in the loop; a
  batch starts `avr_mcu_run`, whose iterations are then AvrRun's steps; each key
  is an action.
- **AvrGui**: the GUI's main loop over AvrTracker. While `at = "events"` any number
  of events is handled; `Drained` is the end of the queue, with the timed step
  when one is due; `NextFrame` lets time pass. The buttons Step, Run and Reset do
  what the keys `s`, `r` and `x` do and are the same actions; `PinClick` differs
  from `InputKey` by its look at the direction. Speeds are kept in quarters of a
  hertz and times in ticks of 1/16 s, which makes every speed of the ladder 0.25,
  0.5, ..., 16 Hz and every interval a whole number. Of the previous snapshot the
  model keeps the pc; `stepped_pc` is a history variable.

The modules with `MC` in front instantiate these for TLC; those with `Proofs`
behind hold the theorems: `AvrInstructionProofs` (with the lemmas on bytes and
words), `AvrAluProofs`, `AvrCodecProofs`, `AvrMcuProofs` (with the lemmas on the
demo), `AvrStackProofs`, `AvrTuiProofs` (run loop and TUI), `AvrTrackerProofs` (log of a
step, GUI and its change tracker) and `AvrHexLoaderProofs`. An operator whose comment begins with "Mutant of" is
no part of the model: it is the definition it names with a plausible bug,
which `PROJECT.json` uses to show that a property can fail.

## 3. What the runs check

| Run | Instance | Shows |
|---|---|---|
| `codec` | all 65536 words with two contents of the uninitialised struct; every operand of every operation and the values just outside its range; flash of 1024 words as in the source | `PatternsDisjoint`: the order of the if-chain decides nothing. `DecodeThenEncode`: a word that decodes encodes to itself. `EncodeThenDecode`: an accepted instruction survives. `TextsTellTheWord`: both texts name every operand of a word and none that it lacks. `TextsFit`: no text is cut off by the buffers of the frontends |
| `alu` | all 65536 pairs of bytes | `AddFlagsCorrect`, `SubFlagsCorrect`, `StepFlagsCorrect`: the formulas mean what the flags mean in arithmetic |
| `mcu` | 4 words of flash, 3 bytes of SRAM; values on both sides of every check | `TypeOK`; `FailureAtomic`; `StackPointerStaysInRange`; `UninitialisedFieldsUnread`; `BitOpsMoveOnePin`; `FlagsDiscipline`: S stays N xor V, I and T are never touched, and H and C survive all but additions, subtractions and comparisons |
| `run` | 3 words of flash, limits 0 and 3, cycle counter modulo 3; the host loads programs, sets and clears breakpoints, moves the pc, steps and resets between runs | `RunTypeOK`; `CountsEveryCycle`; `EndsAtTheFirstReason`: judged by the path that a call took, it ends at the first limit, breakpoint or failure, and counts what it executed; `ResultIsTrue`; `RunReturns` |
| `stack` | 3 bytes of SRAM, return addresses with two distinct bytes, stores through X anywhere | `IsAStack`: PUSH, POP, CALL and RET implement AvrStack |
| `hex` | 4 bytes of flash; images valid and not; one token replaced, lost, repeated, or the end cut off | `TypeOK`. `LoadsTheImage`: what loads after one fault is the image that was sent, and intact images load if and only if they are valid. `LoadsExactlyTheImages`: of all texts that arrive, the complete images are loaded, byte by byte, and all others rejected. `FlashChangesOnlyOnAccept`; `LoadReturns` |
| `tui` | the real demo in a flash of its length; breakpoints at the `IN`; inputs PB0 and PB5 | `ScreenIsCurrent`; `DemoNeverFails`; `MirrorsTheInput`: the interface implements AvrMirror; `DemoMirrors` |
| `debug` | 4 words of flash full of one instruction, 3 bytes of SRAM; each operation on operands at both sides of its checks, pins driven between steps; a log of 3 events | `LogIsTheDifference`: redoing the events on the old view gives the new one, undoing them the old. `TrackerShowsAll`: nine rows are enough. `JumpsGoWhereTheTextsSay` |
| `gui` | the real demo; speeds from 0.25 to 16 Hz with frames of 1/2 s, or pins, clicks and a breakpoint with frames of 4 s | `ScreenIsCurrent`; `TrackerAgreesWithPanels`; `ClickMovesThePin`; `QuitEnds`; `RunsOn`; `MirrorsTheInput`; `DemoMirrors` |
| `gui_last_instruction` | as `gui` | violated: see [Findings](#5-findings) |
| `stack_comment` | as `stack` | violated: see [Findings](#5-findings) |
| `tui_breakpoint` | as `tui` | violated: see [Findings](#5-findings) |

**Bounds, and why they are enough.** The codec and the flag functions are
checked at their full width. In the machine the code compares with the sizes of
flash and SRAM but never computes with them, so a few cells on each side of each
comparison meet all cases: three bytes of SRAM hold a CALL and a PUSH and no
more, so full, nearly full, nearly empty and empty all differ. Registers and
flags keep their real width; the values are those at which the flags change. In
`mcu` a run of the host stays with one subject (arithmetic, memory, ports,
stack, branches, a program), because calls of different subjects touch disjoint
fields; the bounds on starting values are in `MCMcu.tla`. `FlagsDiscipline` and
`FailureAtomic` are properties of single steps, for which what matters is that
every kind of step is taken from varied states. The cycle counter wraps at 2 or 3
instead of 2^32, so that the wrap happens inside runs. In `run` a limit of 3
over three words lets a run cross a breakpoint, return to the one it started at,
leave flash, meet a word that does not decode, and hit its limit. In `hex` the
flash is filled first, so that bytes which keep their old contents are told from
bytes that were cleared; a single fault is what an 8-bit sum can be expected to
catch. In `tui` a second breakpoint address would add states and no new
behaviour: the loop treats all addresses alike. In `debug` the flash is full of one
instruction, so that each operation is executed over and over in the states it
has brought about, and only what it reads varies at the start. Its log holds three
events instead of 64: that the property holds all the same shows that no step
makes more than three, so that the 64 of the source cannot run out. In `gui` the
user is occupied either with the speed or with the pins, because the two touch
disjoint state, and the counter of cycles is left out of the snapshot by a modulus
of 1, because the GUI only prints it. Frames of half a second stand for the 16 ms
and more of the source: what matters is that some intervals are several frames
long and some shorter than one. `elapsed` stops at the longest interval, beyond
which every value means the same.

The model's host passes no null pointers. Deadlock is checked in `mcu`, `run`,
`stack` and `debug`: some call is always possible, and inside a run an iteration.
`CHECK_DEADLOCK FALSE` is stated where a run really ends: the sweeps of `codec`
and `alu`, the host of `hex` after its last load, and the TUI and GUI when the user
quits.

**Fairness.** `WF(Loop)` in AvrRun and `WF(Parse)` in AvrHexLoader: a C function
that has been called keeps executing. Nothing obliges the host to call: `StartRun`
and `Begin` have no fairness. In AvrTui the whole loop is weakly fair, because
`getch` is put in non-blocking mode (`nodelay`, `avr_tui.c:323`); that a key is
pressed is never assumed. In AvrGui the steps out of a load and a frame are weakly
fair, for `SDL_Delay` returns, and the end of the queue is strongly fair:
`SDL_PollEvent` may find another event any number of times, but a user is slower
than the loop, so it finds none again and again. Weak fairness is not enough
there, because a reset leaves the place where the queue is polled; without the
assumption a flood of events would keep the loop from stepping and from quitting.
`RunReturns` holds for
programs that loop for ever, by the limit; `LoadReturns` says that every
iteration of the loader advances.

## 4. What is proved

Every theorem holds for all constants that satisfy the assumptions named in the
modules: any flash of 1 to 1024 words (10 bits are what a CALL can name), any
SRAM of 2 to 65534 bytes, any cycle modulus, any sets of host values of the C
types, any contents of the uninitialised struct; for the frontends, a flash that
holds the demo and any set of the eight input keys or pins; for the loader, any text
and any size of flash. Three theorems (`DecodingSurvives`, `WordsSurvive`,
`TextsDetermineTheWord`) say in their hypotheses that flash has the 1024 words of the
source: in a smaller one the decoder accepts a CALL whose target the encoder refuses.
Four theorems on the log of a step say that it has room for three events or more; the
source has 64, and with two the log of a CALL would lack a byte.

| Theorem | Statement | Argument |
|---|---|---|
| `AvrInstructionProofs!DecodeType` | any word that decodes gives a well-typed instruction | `DecodeOperation` chooses a first match, which exists; each field by the classes of operations |
| `AvrInstructionProofs!EncodingSurvives` | an accepted instruction is encoded to a word that decodes to the same operation and operands, whatever the decoder's struct held | each class of operations has a layout (`Packing`); the operand bits stay below the opcode (`EncodableRanges`), so the word matches the operation's pattern and, by `OnePattern`, no other; each field is read back by division |
| `AvrInstructionProofs!DecodingSurvives` | a word that decodes is encoded to itself | the word is its opcode plus its operand field; the fields the decoder reads put the field together again |
| `AvrCodecProofs!OneOperationPerWord`, `WordsSurvive`, `CandidatesSurvive` | `Spec => []PatternsDisjoint`, `[]DecodeThenEncode`, `[]EncodeThenDecode` | from the two theorems above and an invariant of the sweep (its word is a word, its candidate an instruction) |
| `AvrCodecProofs!TextsDetermineTheWord` | `Spec => []TextsTellTheWord` | what each class of operations prints (`FormatPrints`, `ExplainPrints`) is read back to an instruction with the same operands, which `EncodedAlike` encodes to the same word; a relative target is turned back into its offset, across the wrap at 65536, because an offset is shorter than half of the range (`OffsetRecovered`) |
| `AvrCodecProofs!TextsAlwaysFit` | `Spec => []TextsFit` | no printed value is wider than seven characters, whatever the value and the pc (`Widths`), summed by class of operations (`LineFits`, `SentenceFits`) |
| `AvrAluProofs!AddFlagsAlwaysCorrect`, `SubFlagsAlwaysCorrect`, `StepFlagsAlwaysCorrect` | the flags of ADD, SUB, CP, CPI, INC, DEC on all bytes | each bit test becomes a comparison (`Bit7Upper`, `Bit3Upper`), the truncated result a sum with a carry (`ByteWraps`), the rest is linear arithmetic by cases. `MCAlu` checks the same by enumeration |
| `AvrMcuProofs!TypeCorrect` | `Spec => []TypeOK` | `TypeOK` is inductive. One lemma per group of operations, on the results of the flag functions, `WordOf`, `NextPc` and the port functions |
| `AvrMcuProofs!FailuresAreAtomic` | `Spec => FailureAtomic` | the only call that fails after a store is CALL. Its first store goes to the higher address, which is the one that may be out of range: if it succeeds the second does too. This needs `TypeOK` and the check `sp >= 2` |
| `AvrMcuProofs!StackPointerBounded` | `Spec => StackPointerStaysInRange` | by cases of the four stack operations; for all others `sp` is unchanged |
| `AvrMcuProofs!FlagsKept` | `Spec => FlagsDiscipline` | every flag function yields S as N xor V and neither I nor T (`FlagFunctionsGood`); the flags that are kept are joined to it. What keeps H and C joins flags that contain neither (`ExecuteKeepsCarries`) |
| `AvrMcuProofs!BitOpsLocal` | `Spec => BitOpsMoveOnePin` | by the register that is written, over the three parts of a pin's level |
| `AvrMcuProofs!GarbageUnread` | `Spec => UninitialisedFieldsUnread` | two decodings of one word agree on what their operation reads (`GarbageNotRead`), and instructions that agree there are accepted and performed alike (`SameExecute`) |
| `AvrStackProofs!StackIsAStack` | `MCSpec => IsAStack`, the refinement of AvrStack | the abstract stack is the SRAM from `sp` up, a sequence; a step of each stack operation is the abstract one, a store through X changes one byte of it or none, everything else stutters |
| `AvrTuiProofs!RunTypeCorrect` | `RunSpec => []RunTypeOK` | over `NextTypeOK` of the machine |
| `AvrTuiProofs!CyclesCounted` | `RunSpec => []CountsEveryCycle` | inductive with `RunTypeOK`; the wrap needs `CountModulo`: `((a + b) % m + 1) % m = (a + b + 1) % m` |
| `AvrTuiProofs!ResultsTrue` | `RunSpec => ResultIsTrue` | the inductive invariant is `RunTypeOK`, `CountsEveryCycle` and `WithinLimit` (`executed <= max_cycles`); a failed step leaves the word and the machine it was refused with (`FailedStepStays`), and acceptance does not depend on the uninitialised fields |
| `AvrTuiProofs!RunsEndAtTheFirstReason` | `TrailSpec => EndsAtTheFirstReason`, under any host | the inductive invariant is `TrailInv`: half way through a call the trail has one pc for each counted instruction, and none behind the first is a breakpoint; with `WithinLimit`, each way out of the loop is the first reason its path met |
| `AvrHexLoaderProofs!HexTypeCorrect`, `FlashOnlyOnAccept` | `Spec => []TypeOK`, `Spec => FlashChangesOnlyOnAccept` | a complete record lies inside the text (`RecordInText`), so what is read is a byte and the cursor stays at most at the NUL |
| `AvrHexLoaderProofs!RecordLands` | a data record puts each byte at its address, low byte first, and leaves the rest of the image alone | by the parity of the address |
| `AvrHexLoaderProofs!ExactlyTheImagesLoad` | `Spec => LoadsExactlyTheImages` | from the invariant `ParseInv`, see below |
| `AvrHexLoaderProofs!OneWrongTokenIsNoticed` | an image of which one token is another is no image | see "One fault on the way" below |
| `AvrHexLoaderProofs!LostTokenIsNoticed`, `AddedTokenIsNoticed`, `CutIsNoticed` | a text and the same text without a token, or cut off, are images both only if blanks alone make the difference | see below |
| `AvrTuiProofs!TuiScreenIsCurrent`, `TuiDemoNeverFails` | `TuiSpec => []ScreenIsCurrent`, `[]DemoNeverFails` | from the invariant `TuiInv`, see below |
| `AvrTrackerProofs!GuiScreenIsCurrent`, `ClicksMoveThePin` | `GuiSpec => []ScreenIsCurrent`, `ClickMovesThePin` | from the invariant `GuiInv` |
| `AvrTuiProofs!TuiMirrors`, `AvrTrackerProofs!GuiMirrors` | `TuiSpec => MirrorsTheInput`, `GuiSpec => MirrorsTheInput`, the refinement of AvrMirror | the initial states map to `Mirror!Init`, and under the invariants every key, event and iteration is a `MirrorStep`: a toggle, a look, a drive, a reset or a stutter |
| `AvrTrackerProofs!TrackerNeverContradicts` | `GuiSpec => []TrackerAgreesWithPanels` | from the invariant `TrackInv`, see below |
| `AvrTrackerProofs!JumpsGoWhereTheySay` | `MCSpec => JumpsGoWhereTheTextsSay` | `TextsOfJumps`: both texts of a jump end in the same target; `JumpPerformed`: it is the pc that execution computes, or the next one |
| `AvrTrackerProofs!TheLogIsTheDifference`, `GuiLogsTheDifference` | `MCSpec => LogIsTheDifference`, and the same of every step of `GuiSpec` | `LogOfEveryStep`, see below |
| `AvrTrackerProofs!TheTrackerShowsAll`, `GuiTrackerShowsAll` | `MCSpec => []TrackerShowsAll`, `GuiSpec => []TrackerShowsAll` | `LogOfEveryStep`, see below |

**The invariant of the frontends.** Neither `ScreenIsCurrent` nor `DemoNeverFails`
nor the refinement is inductive. `ScreenIsCurrent` speaks of the place where keys
are read, and has to hold as well where a key sends the loop; the digit keys write
what is on the screen, so the refinement (a toggle flips PB0 and nothing else)
needs it too. That the demo never fails needs to know where it is and what it has
done by then: `DemoLoaded` (its ten words are in flash, except between a reset and
the `load_demo` behind it) and `DemoState` (the pc is in 0..9; R16 and R18 hold
their masks once they are loaded; the direction is set from 2 on; at the branch, Z
tells bit 0 of the sample). `DemoStep` says what each of the ten words does, through
`EncodingSurvives`: what `load_demo` encodes is what the machine executes, whatever
the decoder's struct held. In the TUI a batch that has ended also must not have
ended on an invalid instruction. `TuiInv` and `GuiInv` are the conjunctions, with
the types.

**The invariant of the loader.** That a call loads exactly the images speaks of the
whole text, and the loader sees one record at a time. `ParseInv` says what is known
half way, at the cursor: every record before it is well-formed and ends before it
(`WellFormedBefore`), nothing but blanks lies between them (`NothingBetween`), the
data records are inside flash and an end-of-file record that was seen is the last one
(`EndsBefore`), and every byte of the staged copy is what the last of these records
that covers it says, or what flash holds (`Written`). A blank moves the cursor, a
record adds itself (`RecordParsed`, with `RecordLands` for its bytes). At the NUL all
records are before the cursor, so what is accepted is an image (`AcceptedIsImage`);
and each reason to stop contradicts one clause of `IsImage` (`RejectedIsNoImage`).

**One fault on the way.** These four theorems are about any two texts of which one is the
other with a fault; with `ExactlyTheImagesLoad`, the faulty one is rejected. An
image is described token by token (`Shape`, `ImageShape`): a token is a colon, a
blank or a byte; the bytes behind a colon are as many as the first of them says and
five more, only colons or blanks follow them, every byte belongs to one record, and the
bytes of a record sum to zero. So a colon or a blank that is changed leaves bytes without
a record or adds a record without bytes, a smaller count leaves bytes behind and a greater
one takes a colon, a blank or the end for a byte (`NoCountIsLess`). Any other byte that is changed changes the
sum (`NoSumDiffers`, by `SumChanges`), and one that is lost or added changes the number
of bytes behind the count; what is left is a count that is lost or added, with its
neighbour taken for it: that neighbour has to differ from it by one, and the sum is then
off by the rest (`NoByteMore`, by `SumOneMore`). A sum here is the fold of the community
modules, a recursive function over sets. That it exists and may be taken in any order is
proved by induction on the size of the set (`SumsExist`, `AnyTerm`), with the
induction stated for one set of counter-examples, which needs no operator parameter
(`LeastElement`, `Induction`).

**The log of a step.** The argument is about any machine that satisfies `TypeOK` and any
instruction. Every step changes little (`PerformChangesLittle`): the pc with the flags and
one register or one byte; the pc with a port register; or, for CALL, the pc and
two neighbouring bytes of SRAM. So of all comparisons at most three differ, at known
places (`WhereItDiffers`), the log is exactly these, in their order, and with
room for three none is dropped (`ShortLog`). Each event leads from one view to the
next and back (`Leads`, one lemma per kind of event), and three in a row lead from the
view before the step to the one behind it, and back (`RedoThree`, `UndoThree`). For the
panel, an event has no row if it is the pc's, at most eight if it is the pins', and
one otherwise: three that can occur together have at most nine. The runs of a
frontend come in through `DebugInv` (`TypeOK` and one instruction everywhere in flash)
and `GuiInv`.

**The invariant of the tracker.** `TrackerAgreesWithPanels` holds between events and at a
frame, but a reset passes through `at = "load"`, where the screen is still that of the
old machine. `TrackInv` adds to `GuiInv` that the log is empty there. A step fills the log
with new values that are those of the snapshot it takes (`NewValueShown`); every other
event keeps registers, SRAM, flags and port registers as they are (`StillTracked`) or
clears the log.

**Changes that the proofs asked for.** The demo has to fit into flash; this is an
assumption of the two frontends, and the demo module only names it (`DemoFits`),
so that the machine's theorems do not depend on it. The log and the rows of the panel
are written as recursive functions that follow the loops of the code, which can be
reasoned about from one index to the next. The greatest word and the greatest
signed integer of 16 bits have names (`MaxWord`, `MaxInt16`), because the provers write a
range between two numerals out, all 65536 members of it.
The run of the loader states `LoadsExactlyTheImages` of every text, as the theorem does; that intact valid images
are accepted is part of `LoadsTheImage`, which is about images and their damage.

**Only model-checked**: liveness (`RunReturns`, `LoadReturns`, `DemoMirrors`, `QuitEnds`,
`RunsOn`), because fairness and ENABLED are outside the prover's reach; and one
invariant of the loader's run, `LoadsTheImage`. What any text loads is proved
(`ExactlyTheImagesLoad`), and so is that one token wrong, lost or added, or a cut, never
makes another image. What is left to TLC is the tie to images as a programmer prints them, a sequence of records put one behind the other by the
recursive operators of the community modules, and that an image with a blank less or more
loads the same bytes.

## 5. Findings

- **The stack pointer** (`stack_comment`). `avr_mcu.h:39` calls `sp` the "address of
  the next free SRAM byte below the stack top", and `README.md:163-164` says the
  same. PUSH decrements `sp` and stores at the new `sp`
  (`avr_instruction.c:1064-1082`), so that `sp` is the address of the byte at the
  top, not of a free one. The four instructions agree with one another
  (`IsAStack`); the comment describes the real chip's convention.
- **Breakpoints in the TUI** (`tui_breakpoint`). `TUI-README.md:198-199` says that
  the running demo pauses when it returns to the breakpoint at line 3, and
  `README.md:65-66` that breakpoint stops pause execution. `run_batch` calls
  `avr_mcu_run` with a limit of `TUI_RUN_BATCH_SIZE`, which is 1
  (`avr_tui.c:11`); `avr_mcu_run` does not stop at the first instruction of a
  call (`avr_mcu.c:442-449`), so with batches of one instruction it never stops
  at any. The counterexample sets a breakpoint at 3, runs, and is still running
  when the loop is back at 3. (`TUI-README.md` also speaks of batches of 64;
  with those a breakpoint would be missed only at the end of a batch.)
- **The last instruction in the GUI** (`gui_last_instruction`). The panel "CHANGE
  TRACKER (THIS STEP)" has a line "Last instruction:" (`avr_gui.c:511`, 519) above
  the changes of the last step. `draw_change_tracker` takes it from
  `previous_snapshot`, which `refresh_snapshot` replaces at every refresh, those of
  toggled inputs included. The counterexample steps one instruction and toggles an
  input: the line now names the instruction that comes next, above the changes of
  the one before. (Before the first step, and after a reset, it names the zeroed
  struct or what was on the screen before.)

Observations that are no findings, because no document says otherwise:

- The GUI's timed step does not ask for breakpoints; `b` marks an address and
  nothing stops there. `plan/master-plan:61` asks for a "breakpoint/stop
  indication" only.
- The log has no event for `sp`: a PUSH of a byte that lies there already, or a RET to
  its own address, changes the machine, and the tracker shows "No changes this
  step." The announced list of events (`README.md`, Phase 10) has no `sp` either.
- A speed between two keys is halved or doubled without touching the time of the
  last step, so a faster speed takes effect at once, also for the interval that
  is already running.

## 6. What is not modelled

- Null arguments: no caller outside the tests passes one.
- Wording, drawing, colours and layout, the captions of `avr_debug_flag_name`, the
  start and end of ncurses and SDL with their error paths, and in the TUI the
  previous snapshot, which selects what is highlighted and nothing else.
- Which rectangle of the window a click hits: `PinClick` is a click on a pin's row.
  The rectangles of buttons and rows do not overlap.
- The status lines of the GUI, which no decision depends on.
- `main.c`, which loads a fixed program, steps it a fixed number of times and prints:
  a single behaviour of AvrMcu. The tests, which were read for the behaviour they
  expect.
- A full event log as a case of its own: a step makes at most three events
  (`LogOfEveryStep`), so the test in `push_event` (`avr_debug.c:26`) never drops one.
- AND, OR and EOR on bytes against another definition: the operators of C are
  translated to those of sets, and no second reading of them says more.
- Characters of an Intel HEX text below the level of two-digit bytes.
- A loader whose image is then run: the loader writes flash and nothing else, and
  AvrMcu's host may write any word to any address of flash, so the composition
  would check nothing that the parts do not.

## 7. Plan

The order follows what the rest depends on: the codec and the machine carry all
behaviour, the run loop and the loader are the two loops over data of the caller,
the frontends come last.

1. *Done:* AvrBits, AvrInstruction, AvrAlu, AvrMcu, AvrRun, AvrStack, AvrHexLoader,
   AvrTui; their runs; the theorems above.
2. *Done:* AvrDisassembly and AvrDebug with its event log; AvrTracker; AvrDemo and its
   abstract specification AvrMirror; AvrGui; the runs `debug`, `gui` and
   `gui_last_instruction`, and more properties in `codec` and `tui`.
3. *Done:* the theorems about the machine's single steps, the codec, the result of a
   run, the loader's types, the refinement of AvrStack, and both frontends with the
   refinement of AvrMirror.
4. *Done:* the theorems about the texts of instructions, the log of a step, the change
   tracker, and what the loader accepts. What is left to TLC is named at the end of
   section 4.
