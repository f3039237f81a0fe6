# Verification of yavm

yavm holds two LC-3 virtual machines, one in C (`lc3_vm_c`) and the beginning of
one in Java (`lc3_vm_java`), and a C program that prints the headers of an ELF
object file (`c_vm_c`). This directory models them in TLA+, checks the models
with TLC and proves theorems about them with TLAPS.

## 1. Inventory

| Component | State | Operations | Interacts with |
|---|---|---|---|
| Word arithmetic (`vm.c`) | none | `signExtend`, `zeroExtend`, `toLittleEndian16`, `+ ~ &` on `uint16_t` | every handler, the loader |
| Instruction execution (`vm.c`, `vm.h`) | `registers[10]`, `running`, the local `instruction` | `emulate`, one handler per opcode, `updateFlags` | memory, traps |
| Memory and device registers | `memory[65535]` | `memoryRead` (KBSR, KBDR, DSR, DDR), `memoryWrite` | keyboard path |
| Keyboard path | kernel queue, FILE buffer, end-of-file indicator (C library and kernel) | `select`, `getchar` | `memoryRead`, `trapGetc`, `trapIn` |
| Trap procedures | output | `trapGetc`, `trapOut`, `trapPuts`, `trapIn`, `trapPutsp`, `trapHalt` | memory, keyboard, `running` |
| Image loader | the file, `origin`, `ptr`, `read` | `readImageFile` | memory |
| Process and terminal (`main.c`, `vm.c`) | terminal settings, `original_tio`, the SIGINT action | `main`, `setup`, `disableInputBuffering`, `handleInterrupt`; other signals; the next run | all of the above |
| Java main loop and loader (`Main.java`) | `memory`, `registers`, `running` | `main`, `readImageFile` | an image file whose contents it drops |
| Java instruction handlers | the same, in `int`s | `addOp` ... `jumpRegister`, `puts` ... `halt` | nothing calls them: the cases of the switch are empty |
| ELF header reader (`elf.c`, `main.c`) | three buffers, three parsed headers | `initMemoryBank`, `readObjectFile`, `parse*`, `destroyMemoryBank` | a file |
| ELF names and printing (`elf.c`, `elf.h`) | output | `stringify*`, `print*Data` | the parsed headers |

What is hard in this code:

* **Keys arrive while the guest runs.** `select()` sees the kernel's queue,
  `getchar()` reads ahead into the FILE buffer, and KBDR, GETC and IN share the
  two. Order, loss, blocking and staleness of a poll are all at stake.
* **SIGINT arrives anywhere**, between `signal()` and `tcgetattr()` too, other
  signals are not handled at all, and the terminal's settings outlive the process:
  the next run finds them as this one left them. Left all zero, they change what
  `getchar()` does: it reports the end of the input where it should wait for a key.
* **Edges of 16 bits**: an array one cell short of the address space, which a
  guest can store behind, offsets that wrap, sign extension, a file that ends in the middle of a word.
* **Flags that are not always updated**, and a flag that is never read: loops and
  calls of a guest do not go where its author sent them.
* **`int`s that nothing wraps** to 16 bits in the Java handlers, and indices that
  are register numbers where register contents were meant.
* **Nothing is checked**: both `fread()`s of the loader, the short reads of the
  ELF reader, locals that are used before they are assigned.

`PROJECT.json` lists each of these at its line under `hazards`, with the
properties that cover it.

## 2. Modules

| Module | Models | State and actions |
|---|---|---|
| `Words` | the arithmetic | operators only, none recursive: `SignExtend(x, half)` takes the sign bit instead of its number, `BitAnd` halves its operands; `Bit(n, p)` is the bit of place value `p` |
| `WordPairs` | what the operators of C do to each bit | two variables that sweep over pairs of words, a grid of them in the run, all of them in the theorems |
| `Stdin` | standard input as `vm.c` uses it | one record (kernel queue, closed, whether reads wait, FILE buffer, end of file, history of what was taken); `Readable` is `select()`, `Getchar` the set of outcomes of `getchar()`, empty while it blocks |
| `Lc3` | `emulate()` | `Fetch`, `LeaveLoop`, one action per handler and per trap procedure, and the user's `Type` and `Hangup` |
| `KeyQueue` | the abstract promise of the keyboard path | a queue: `Arrive`, `Receive`, `Close`, `ReportEnd` |
| `Loader` | `readImageFile()` | one action per statement, one per round of the swapping loop |
| `Yavm` | the process, run after run | instantiates `Loader` and `Lc3` on the same `memory` and `stdin`, and adds `main()`, `setup()`, SIGINT (`Interrupt`), other signals (`Terminate`), the terminal, and the next run (`RunAgain`); `found` remembers the settings a run found |
| `Elf` | `c_vm_c` | one action per `fread()` and per function of `main()`; a C integer is the sequence of its bytes, most significant first; `printed` is what the three print functions wrote |
| `JavaVm` | `Main.main()` | `ReadImageFile` and one round of the loop, `Execute` |
| `JavaHandlers` | the handlers and trap procedures of `Main.java` | `Fetch`, `LeaveLoop`, one action per handler and per trap procedure; an `int` wraps at 32 bits (`ToInt`) |
| `JavaAsC` | the handlers of the two machines side by side | `JavaHandlers`, and a history variable `cond`: the R_COND that `vm.c` would have. The two sources call `updateFlags()` after different handlers, so it is not in the Java state. `C` instantiates `Lc3` on that state modulo 2^16 |
| `Twins` | `emulate()` beside itself | `Lc3`, and a variable `cond`: the R_COND of a twin that shares everything else; `Twin` instantiates `Lc3` on the twin's registers |
| `WordsProofs`, `WordPairsProofs`, `Lc3Proofs`, `LoaderProofs`, `YavmProofs`, `ElfProofs`, `JavaVmProofs`, `JavaHandlersProofs` | theorems | see section 5 |
| `MC*` | finite instances | alphabets of instructions, guests, files |

Correspondence, where it is not one to one:

* `memory` is a function on the cells something was stored in; every other cell
  of the C array holds the 0 it starts with. Address 0xFFFF has no element:
  `memoryWrite()` stores there all the same, in the two bytes behind the array, and so does
  `MemoryWrite`; `StoresHitMemory` is the property this violates. A load from there may return any word of
  `Behind`: what was stored last, or any of the constant `Beyond`, because the behaviour is undefined and
  the bytes may be anybody's. A build may place another variable there, and a store would then change it; this is
  outside of the model, in which the two bytes are nobody's, as the padding that gcc leaves behind
  `memory[]` on x86-64 is. PUTS and PUTSP read on past the end over at most `MaxStray` words of `Behind`.
* A fetch and the handler that follows it are two steps, and keys may arrive
  between them. A handler is one step, `trapPuts` and its loop included: nothing
  outside the process can see or change `memory[]` and `registers[]`. The poll
  and the `getchar()` of one KBDR read are one step as well; a key that arrives
  between the two calls only makes a poll that said ready stay right
  (`ReadyIsStable`).
* `getchar()` that finds nothing blocks: the action is not enabled. On a terminal with all-zero
  settings it does not block (VMIN and VTIME are 0 and ICANON is off): `read()` returns 0, and
  the library reports the end of the file. `Stdin` has the field `waits` for it, which `Tcsetattr` of `Yavm`
  sets: where `tcsetattr()` puts zeroed settings on a terminal, and in a run that finds them there.
* `stdout` is the sequence of texts that were flushed. The texts that
  the traps print themselves are tokens outside the range of bytes.
* In `Elf` a value that has a name of its own stands for that name; `Unnamed` and
  `ProcessorSpecific` are the two texts that several values share.
* In `JavaHandlers` each handler is called for the opcode its empty case names, on
  an image that is in `memory[]`: what the machine would be, not what
  `main()` does today (that is `JavaVm`). The dispatch is not in the source: `Machine`, `Next`, `Trap`, `TrapVector`
  and `noTrap` follow `emulate()` and `trap()` of `vm.c`, and `PROJECT.json` maps none of them to a line of `Main.java`. `Character.isLetter()` is a constant
  operator. The loops of `puts()` and `putsp()` that never end are the phase `"spinning"`,
  in which what they print for ever is written once.
* The terminal's settings are three values: the shell's, raw, and the all-zero
  `struct termios` that `original_tio` is before `tcgetattr()`.
* The mutations that stand before some definitions (`FetchAlways`, `GiveAgain`, ...)
  are not part of any specification. They are plausible mistakes in the
  code, kept to show that a property would notice them; `PROJECT.json` pairs
  each property with one.

## 3. Runs

| Run | Question | Result |
|---|---|---|
| `words` | Does the arithmetic do to each bit what `& ~ << >> \|` and the masks of the source do? | yes, on a grid of 12870 operand pairs; `zeroExtend()` extends only fields of at most 8 bits, and wider ones that have their upper bits in them already |
| `lc3_isa` | Guests of any three of 24 instruction words, beside a twin that differs in R_COND alone: types, flags, HALT | holds; every step of the machine is a step of the twin (`CondIsNeverRead`); ADD, NOT, LD, LDR and LEA make R_COND describe their result and nothing else touches it (`FlagsFollowResult`): it is stale after AND, LDI, JSR and GETC |
| `lc3_io` | Any three of ten instructions around the keyboard: is the path a queue? | yes: `KeysInOrder`, i.e. `KeyQueue` is implemented; a ready poll is stable (`ReadyIsStable`), and the machine waits only in GETC and IN, with no key left and stdin open (`OnlyGetcAndInWait`) |
| `lc3_store` | Is a store always to an element of `memory[]`? | no; see section 4 |
| `guests` | Eleven guests that echo, poll, loop or call, and one of every other opcode, with no bound on their steps: is every key served and echoed, which loops and calls end? | waiting guests get every key; polling ones only when another key arrives or stdin is closed (`StrandedUntilNextKey`, `ClosingDrains`); `LoopsAndCalls` says which loops and calls never end |
| `loader` | What does memory hold when `readImageFile()` returns? | the words that fit, each swapped once; the last byte of an odd file unswapped |
| `yavm` | What terminal does the process leave and the next run find, what does the guest start on, what does a file print? | raw after HALT and after a wrong path, restored by Ctrl-C, all zero by Ctrl-C before `tcgetattr()`; what is not the shell's is never put back by a later run, and a run that finds it all zero may see the end of an input that is still open (`FalseEndOfInput`) |
| `elf` | What is refused, what is parsed of the rest, and which names are printed? | see `ElfHeaderAsStored`, `ProgramHeaderAsStored`, `RefusedForTheFirstFlaw`, `PrintedNames` |
| `elf_magic`, `elf_dump` | Is what the comments say true? | no; see section 4 |
| `java` | How does the Java machine end? | in an exception, always |
| `java_handlers` | Guests of any three of 27 instruction words on the Java handlers: do they do what `vm.c` does, and how do guests end? | nine opcodes do, modulo 2^16 (`SameAsC`); no branch can make a loop (`EveryGuestEnds`) |

Bounds, and why they are enough:

* `StdioBufSize = 2` with three or four keys: one `read()` can take one key, fill
  the buffer, or leave a key in the kernel, which are all the relations there are
  between buffer and queue. The real buffer is larger, and the theorems hold for
  every size.
* `MaxSteps = 8` (`lc3_io`) and `10` (`lc3_isa`) steps of `emulate()`, that is four
  and five instructions, for guests of three: enough to go round a loop once,
  to execute a word the guest stored, and to return through R7. The guests of
  `guests` have no such bound, because liveness is checked on them. No run uses
  symmetry.
* The trailing words of the guests are pointers to 0xFFFE, 0xFFFF and the device
  registers, so that every edge of `memory[]` is read and written.
* `lc3_isa`: a read past the array finds one of two words (`Beyond = {0, 40}`), one of which ends
  a text, and a text runs over at most one of them (`MaxStray = 1`). The twin starts
  with any of the three flags. No key is typed: what depends on keys is the question of `lc3_io` and
  `guests`, and `CondDoesNotMatter` holds for them all.
* `guests`: four keys of three values, and a hang-up at any moment: enough for two keys in the
  buffer with one in the kernel behind them and one already taken.
* `loader`: `MaxLength = 5` bytes after the origin, over three byte values, and
  origins 0x3000 and the last three addresses: files that fit, that fit exactly
  and that are cut off after two, one and no words, even and odd.
* `lc3_store`: the guests and bounds of `lc3_isa`.
* `yavm`: thirteen files: guests of at most three instructions that echo, wait or halt, and
  eight that print a text, three of them cut off in the middle of a word; two keys, and a
  hang-up at any moment; any number of runs, each with any file. `PrintsItsText` finds the text of a file in its
  bytes; the `ASSUME` of `MCYavm` compares what it finds with the texts the files were made from.
* `elf`: every one of the 64 header bytes set to four values in a 32-bit and a
  64-bit file, eight combinations of several flaws with two bad magics, eleven
  lengths around the ends of the three headers, types, machines and segments
  at and next to the values that have a name, and big-endian files. The bytes of the files
  differ from field to field, so that a wrong offset shows.
* `java_handlers`: `MemorySize = 12` cells, so that an address one past the end is as near as
  one below 0, guests of three words of an alphabet with each handler and addressing mode
  and offsets to both sides, one key, and `MaxCalls = 2` jumps by JSRR, the only
  instruction that can go backwards. The letters of `SomeLetters` are the Unicode blocks
  that instruction words of the alphabet fall into.
* `java`: `UINT16_MAX = 300` cells instead of 65536 (the loop does the same at
  every cell, and the theorem holds for every size).

`CHECK_DEADLOCK FALSE` is set where the system stops: after HALT, in a `getchar()` nobody
answers, at the bound on steps, at the end of the process, of `readImageFile()` or
of `main()`. A guest that
polls or loops for ever is found by the liveness properties, not by deadlock.

Fairness. `WF_vars(Emulate)`, `WF_vars(Process)` and `WF_vars(Next)` in `Loader`,
`Elf` and `JavaVm`, and `WF_vars(Machine)` in `JavaHandlers` say that a process that can take a step is scheduled, which is
all the code relies on. The user is never obliged to type or to close stdin
and SIGINT never has to come: where a property is about what happens after a
key or a close, the key or the close is its premise.

## 4. Findings

* `lc3_store`: `memory[UINT16_MAX]` (`vm.h:73`) has 65535 elements and `memoryWrite()` (`vm.c:75`) tests
  nothing, so that a guest's store to 0xFFFF goes behind the array. `Main.java:7` says of the same declaration
  "65536 slots of 16-bit addressable memory", and gives its `UINT16_MAX` the value 65536.
* `elf_magic`: `elf.c:139` joins four comparisons with `&&`, two of them with
  decimal numbers, so a file is refused only when all four bytes are wrong.
* `elf_dump`, first: the addresses of a 32-bit file are stored as four bytes and
  swapped as eight (`elf.c:233`, `239`, `245`).
* `elf_dump`, second, in the same trace: `ph_type` (and `ph_flags`) take their last byte from
  offset 1 of the buffer and their first is or-ed into an uninitialized local.

Facts that no text of the repository contradicts, stated by properties or by the
actions and worth knowing: branches ignore R_COND (`CondIsNeverRead`, and the loop of
`LoopsAndCalls` that never ends), only five handlers update it, those of AND and LDI are not
among them (`FlagsFollowResult`), IN does not assign R0 (`TrapIn`), JMP always goes
through R6 (`Jmp`: bits 13 to 15 of the instruction, 110 for this opcode), so that a subroutine
returns only if R6 holds the link, JSRR R7 jumps to the instruction after itself
(`LoopsAndCalls`), every guest starts at 0x3000
(`GuestStartsClean`), HALT leaves the terminal raw (`TerminalAtExit`), and a run
that finds it so takes that for the user's settings (`NothingBringsItBack`), a run that finds it zeroed
reports the end of an input that is open as soon as `getchar()` finds no key (`FalseEndOfInput`), polled keys may be
stranded (`StrandedUntilNextKey`), big-endian ELF files are decoded as
little-endian ones, so that their type and machine are not recognised, 0x12 passes the check of the
ABI without having a name (`PrintedNames`), the flags are not swapped (`ElfHeaderAsStored`),
`parseSectionHeader()` has no `return`, so that what is printed of the section header
is arbitrary, and the Java machine starts at address 0 because nothing uses `PC_START`.

Were the Java handlers called, ADD, AND, NOT, LD, LDI, LEA, ST, BR and JSR would do what
those of `vm.c` do to every word they do not throw at (`SameAsC`), while the flags of an `int`
outside of 0 to 65535 say positive whatever its word is (`FlagsAgreeOnWords`). JMP always throws,
LDR, STR, STI and JSRR take the number of a register for its contents, a
negative offset is a large positive one, and PUTS of a letter prints it for ever:
whatever the image, the machine halts, throws, prints one letter for ever or waits for a
key, unless it keeps using JSRR (`EveryGuestEnds`).

## 5. Proofs

The theorems hold for every value of the constants: any image, any set of keys,
any size of the FILE buffer, anything past the end of the array. They assume the
`ASSUME`s of the modules (keys are bytes, images are words on subscripts of the
array, the buffer holds at least one byte), which TLC evaluates in the runs.

* `Lc3Proofs!Invariance` proves `Inv == TypeOK /\ EndOfInputIsLast`. The second
  conjunct says that, as long as reads wait, the end is reported after the close and the last key. It is
  needed for the refinement: an end of file reported too early
  would let a later `getchar()` report it again before a key typed in between.
  It is inductive together with `TypeOK` because `Type` is guarded by
  `~stdin.closed`. `EmulateStep` has one case per action; `TypeStep` and
  `HangupStep` are the user's. `NextStep` concludes `KeysStep`, which `Yavm` needs as well: `Inv` is kept, and the
  step is one of the queue, or an `EarlyEnd`, possible only where reads do not wait.
  `Lc3` by itself is run on an input whose reads wait (`ReadsWait`). `TypeCorrect` claims no bound of
  `memory[]`: a guest stores behind it.
* `Lc3Proofs!ReadsAnswer`: `memoryRead()` has an outcome at every address and for every standard input. At KBDR
  this rests on the poll: what `Readable` finds ready, `Getchar` answers. It is the half of
  `OnlyGetcAndInWait` that can be stated without ENABLED.
* `Lc3Proofs!KeyboardIsAQueue`: every step of `Lc3` is a step of `KeyQueue` or a stutter under
  the mapping `pending <- buf \o tty`. The lemmas at the top of the module say that
  `Refill` moves bytes without changing the pending sequence, and that
  `Getchar` either takes its head or finds it empty and closed.
* `Lc3Proofs!ReadinessIsStable` uses the same lemmas: a step that takes nothing leaves
  queue and end alone. `Lc3Proofs!HaltIsForEver` needs its own invariant, that no
  handler is under way once `running` is FALSE.
* `Lc3Proofs!FlagsAreOfTheResult` proves the action property from `Inv`: a step of the five
  handlers assigns a register and describes it (`FlaggedStep`), and every other step leaves R_COND as it is
  (`UnflaggedStep`), an assignment included, because no three bits of an instruction spell the number of R_COND.
* `Lc3Proofs!CondDoesNotMatter` is about `Twins`: the fields, operands, memory and outcomes of
  `getchar()` that a handler reads are those the twin reads (`Same...`), and an assignment of the machine is one of the
  twin (`TwinAssign`, `TwinAssignAndFlag`). `TypeOK` is needed to know that a register a handler
  reads is never R_COND: the fields of an instruction have three bits.
* `Lc3Proofs!StrandedKeys`: `MemoryRead` takes no key unless `Readable` (`LoadsArePolled`), so that
  of all handlers only those of GETC and IN can take one that select() does not see.
* `Lc3Proofs!EchoIsTyped`: `EchoInv` ties the program counter of an echoing guest to what it has
  echoed. Its memory never changes, since it holds nothing but GETC, OUT, IN and HALT; the counter
  stays inside it; and R0 holds a key that is not echoed yet exactly at an OUT (`KeyInHand`, or
  `EndInHand` when the 255 of the end of input is under way, else `NothingInHand`). That reads wait, and so `EndOfInputIsLast`, is what
  makes the 255s come after the keys, and the histories `stdin.taken` and `stdout`
  are compared position by position. The length of the guest and of the input is arbitrary.
* `Lc3Proofs!PrintStep`: `PrintInv(trap, n)` follows LEA, PUTS or PUTSP and HALT. `TextFound` says that the
  text PUTS reads ends at its 0 and nowhere else, so that nothing past the array matters.
  What PUTSP prints is a fold over the words (`FlattenSeq`, a recursive function); `PackedIs` finds
  its value by taking the first prefix that would differ (`Least`, from `WFMin` of the library) and
  looking at the word that was added to it (`CharsStep`), where a proof by induction would need a
  theorem with an operator as its parameter.
* `WordsProofs` bounds every operator (the sum, sign extension and conjunction of
  words are words) and proves that sign extension keeps the value of the field
  (`SignExtendValue`), that each bit of a conjunction is the product of the operands' bits
  (`BitAndBits`), that adding a complement and one subtracts, with the sign of the difference
  while that fits (`ComplementSubtracts`), that `zeroExtend()` keeps fields of at most 8 bits
  (`ZeroExtendValue`), and that swapping bytes is an involution. From these follow, in
  `WordPairsProofs`, the properties of `WordPairs` for all pairs of words: they need nothing but that
  `x` and `y` are words, whatever the strides.
  A word is given by its sixteen bits (`SameBits`), and an or is a sum less a conjunction, which is
  De Morgan's law (`DeMorgan`, for 2, 4, 8 and 16 bits); that is what decides for which fields
  `zeroExtend()` is right.
* `LoaderProofs`: the inductive `Inv` is `TypeOK`, `SwappedUpToPtr` and, for each step of
  `readImageFile()`, what is in `memory` there: nothing before the second `fread()`
  (`NothingStored`), the origin the file starts with (`OriginRead`), exactly the cells of the
  words that fit and of an odd byte (`Layout`), all of them swapped once the loop is over
  (`AllSwapped`). `ItemsFit` carries it: what the second `fread()` stores ends within
  `memory[]`, and so does the pointer of the loop. `EachSwappedOnce` and `ImageIsLoaded` follow.
* `YavmProofs`: `SettingsInv` relates the settings of the terminal, those saved and
  those found, at each stage of `main()` and of the SIGINT handler; `StageInv` says that the default
  action for SIGINT is met only before the handler is installed, without which an
  interrupt could kill a process whose terminal is raw. With `TerminalAtExit` they are
  inductive over all runs and signals, and give `LeftAtExit`, `Restorable` and `StaysRaw`. The
  steps of the loader and of the emulator matter only in what they leave alone, so
  nothing about them has to be expanded.
* `YavmProofs!TypeCorrect` and `StartsClean` are compositional. The module takes `LoaderProofs` and
  `Lc3Proofs` as instances, proves their assumptions from `YavmAssumption`, and uses their step
  lemmas: `MachineInv` is the invariant of the emulator, the types of the loader's locals and, until
  `emulate()` is entered, the whole invariant of the loader with registers of 0 and nothing taken
  or printed. Each component must keep what the other relies on in the variables they share:
  what the loader stores are words inside `memory[]`, a guest never touches the loader's
  locals, and the next run starts on a `Fresh` process. The `Same...` lemmas only say that a
  definition of one instance is that of the other.
* `YavmProofs!EachRunIsAQueue` carries the queue over to the process: a step of `Yavm` is a step of
  the emulator or of its user, and with it one of `KeyQueue` or a stutter, or leaves keys and end
  alone (the loader, the signals, the handler), or starts another run on an empty queue. The exception is `ZeroedEnd`:
  a run that found the terminal zeroed may report the end of the input while it is open; no key is
  taken, lost or moved by that. `EndsAreSent` says that it happens in no other run. Both rest on
  `ReadsInv`: reads wait unless the terminal is zeroed, and the end is reported only when stdin
  was closed or the terminal was found zeroed. `SettingsInv` rules out a zeroed terminal in a run that found another one
  until its SIGINT handler sets it, after which nothing is read.
* `YavmProofs!TextIsPrinted` composes them once more, from the bytes of a file to `stdout`.
  `LoaderProofs!CellIsStored` turns `LoadedAsStored` into the word of each cell: a pair of bytes exchanged, the
  odd byte as it is, and 0 behind the file. So the cells from 0x3000 on are the instructions and the text
  that `HoldsText` finds in the file (`TextLoaded`), with which the emulator enters
  `emulate()` in a state of `PrintInv` (`TextEntered`). `TextInv` says that it stays in one until
  `emulate()` returns, over any number of runs and whatever signals come (`TextRuns`, `TextKept`); the
  status `"returned"` is that of a run that was not killed. `TextWords` and `TextSpelled` spell
  out what PUTS and PUTSP printed in characters of the file.
* `ElfProofs`: the inductive `Inv` says for each step of `main()` where the file is read next
  (`Reading`), that each buffer is zeros or the slice of the file its `fread()` started at
  (`Buffers`), that a header is parsed from these bytes, and only once no check has failed (`Headers`),
  that a message is that of the first flaw (`Messages`), and which headers have been printed (`Prints`).
  It describes the parsed fields as the code computes them; `Swap16`, `Swap32`, `Swap64` (the
  byte-swapping functions reverse bytes), `ElfFieldsValue`, `SegmentValue` and `FlawsAre` turn that into what
  the five properties say of the file.
* `JavaHandlersProofs`: `Inv` says that registers, cells and the instruction are `int`s of 32 bits and
  that nothing runs on after an exception. Registers do grow past 16 bits, so it
  cannot say that they are words; it need not, because 2^32 is a multiple of 2^16 and every
  operator of the handlers commutes with `% 65536` (`ToIntValue`, `signExtendValue`, `And32Value`,
  `NotValue`). `JavaIsC` has a lemma for each of the nine opcodes, for `Fetch` and for `LeaveLoop`: a step that does
  not throw is the step of `vm.c`. `FlagsOfInts` is about `updateFlags()` on any `int`.
* `JavaVmProofs!CounterBounded`: the invariant adds that `memory` has exactly
  `UINT16_MAX` cells, which is what decides when the read throws.

Only model-checked are the liveness properties (`EveryKeyIsServed`, `ClosingDrains`, `LoopsAndCalls`,
`HaltTerminates`, `LoadEnds`, `HaltEnds`, `Ends`, `EndsInException`, `EveryGuestEnds`), which depend on fairness, and
`OnlyGetcAndInWait`, which is about ENABLED; both are out of the prover's reach.
Every other invariant and every action property that holds in a run has a theorem, with the
bounds of the run lifted: `EchoIsTyped` holds for guests of any length, `TextIsPrinted` for texts of any length, and
the theorems about `WordPairs` for all pairs of words. What the findings
say is shown by a counterexample each and needs no theorem.

## 6. Not modelled

* `checkKey()`, the poll of KBSR in a function of its own that nothing calls, and `instructions.c`,
  which is empty.
* `stringifySectionHeaderType()`, which nothing calls, and the wording and layout of what `elf.c` prints.
* The moment the prompt of `trapIn()` appears (`vm.c:336`): it is in the buffer of `stdout` while
  `getchar()` blocks, and when the library writes it is not in the source.
* The value of `parseSectionHeader()` (`elf.c:526`): it is arbitrary, and so is it in the model.
* A build of `elf.c` for another architecture than x86-64: its `#else` branches close
  braces that were not opened, and do not compile.
* What the C library does when SIGINT arrives inside one of its own
  calls and the handler then calls `printf()` and `exit()` (`vm.c:39`).
* `select()` returning an error, and `calloc()` finding no memory.
* A key between the poll and the `getchar()` of one KBDR read: `ReadyIsStable` and the theorem `ReadsAnswer`
  say why the two calls may be one step.
* What a store to 0xFFFF does to another variable, if a build has one behind `memory[]`.
* An exception of `System.in.read()`, and a read of `Main.java` that is under way when the user
  closes the input: the end of input is the result -1 at any moment.
* Samples, object files and build files.

## 7. Plan

Done: `Words`, `WordPairs`, `Stdin`, `KeyQueue`, `Lc3`, `Loader`, `Yavm`, `Elf`, `JavaVm`, `JavaHandlers`,
`JavaAsC`, `Twins`, their runs, and the proofs of section 5. What is left is what section 6 lists: it
is outside the source, or nothing calls it.
