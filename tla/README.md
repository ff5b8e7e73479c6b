# Verification of aarch64-emu

TLA+ modules for the AArch64 emulator of this repository, model-checked with
TLC and, where marked, proved with TLAPS for every value of the constants.
The emulator (`src/src`) interprets an ELF image of a guest kernel; the README
of the repository names xv6. The guest is not part of the repository: what it
does is modelled from what the emulator's code supports and asks of it, and
those definitions are marked `external` in `PROJECT.json`.

## 1. Inventory

| Part | Code | State | Operations | What is hard |
|---|---|---|---|---|
| Main loop | `emulator.cc` `execute_loop`, `run` | `timer_count`, the CPU | advance the timer, `check_interrupt`, fetch, `decode_start` | order of interrupts and instructions |
| Exceptions | `cpu.cc` `check_interrupt`, `cause_interrupt`, SVC, ERET, `decode_pstate`, moves of ELR, SPSR, SP_EL0, VBAR, DAIF | `pc sp el daif SP_EL0 SP_EL1 ELR_EL1 SPSR_EL1 VBAR_EL1 ICC_IAR1_EL1` | take an interrupt, system call, return, mask, unmask | entry does not mask; registers overwritten by nesting; SPSR cannot be written |
| Arithmetic | `cpu.cc` additions, subtractions, CCMP, `check_b_flag` | `nzcv` | set flags, test them | carry, sign and overflow at the ends of the range |
| Data processing | `cpu.cc` `decode_data_processing_*`, `decode_logical_*`, `decode_bitfield`, `decode_move_wide_imm`, `decode_pc_rel`; `utils.h` | the registers | one result per instruction | W forms on 64-bit registers, fields at the borders of their parts |
| Loads, stores, calls | `cpu.cc` `decode_ldst_*`, branches | `xregs[32]`, `sp`, memory | STP/LDP, STR/LDR with write-back, BL, RET | frames across nested calls and handlers; register 31 |
| Exclusives | `cpu.cc` `decode_ldst_exclusive`, `decode_ldst_ordered` | none (no monitor) | LDXR, STXR, LDAR, STLR | an interrupt between LDXR and STXR |
| MMU | `mmu.cc` | TTBR0, TTBR1, TCR, SCTLR; the tables are in RAM | `mmu_translate` for each access | tables change while they are walked |
| UART | `uart.cc`, `read_stdin` in `emulator.cc` | receive array, two indices, DR, FR, IMSC, ICR | reader thread publishes, `is_interrupting`, register loads and stores | two threads without a lock; an array and 8-bit indices; one data register |
| Virtio block | `virtio.cc` | MMIO registers, `id`, the queue in RAM | configuration, notify, `disk_access` | device, driver and handler share the rings; one notification register |
| Bus, RAM, GIC | `bus.cc`, `mem.cc`, `gic.cc` | RAM mapping, GIC registers | decode an address, load, store | limits of the regions |
| Loader, lifecycle | `loader.cc`, `emulator.cc` | mappings, `init_done_`, the CPU object, the reader thread | load, run, leave the loop, free | leaving the loop with a live thread |

They interact by calls in the CPU thread: the loop calls the CPU, the CPU
translates through the MMU, the MMU and the CPU reach RAM and the devices
through the bus, and `check_interrupt` calls into the devices, where the disk
transfer takes place. The only second thread is `read_stdin`, which shares
`uart_rx_buff` and `uart_rx_idx` with the UART.

What makes each part correct: a trap returns to what it interrupted and each
level keeps its stack pointer; user code is preempted; a typed character
arrives once and in order; a disk request is served once and reported; a
branch follows the comparison it names; a lock excludes; a return goes to the
caller; an access reaches the frame the kernel mapped. `PROJECT.json` lists
under `hazards` where each of these could break.

## 2. Modules

`X` extends `Y` is written `X < Y`; "implements" is a refinement.

| Module | Models | Relations |
|---|---|---|
| `BankedStack` | one stack pointer per exception level | |
| `Exceptions` | loop, interrupts, SVC, ERET, PSTATE and banked registers | implements `BankedStack` |
| `KernelTraps` | processes, trap path, scheduler and disk sleep of a kernel | `< Exceptions`, composed step by step |
| `UartStream` | the console: characters in order, once each | |
| `Uart` | reader thread, UART, the guest's driver | implements `UartStream` while a session fits |
| `AtomicDisk` | an atomic disk with submitted, served and collected requests | |
| `VirtioBlk` | notification, `disk_access`, rings, driver, handler | implements `AtomicDisk` |
| `AluFlags` | flag-setting instructions, CCMP and conditions | |
| `Exclusive` | LDXR/STXR/STLR lock, timer, device handler | |
| `CallFrames` | BL, RET, STP/LDP and STR/LDR frames, a handler on the same stack | |
| `Mmu` | table walk, TTBR0/1, the kernel's table building | |
| `Words` | registers as sets of bits, the helpers of `utils.h` | |
| `DataProcessing` | data processing that sets no flag, pc-relative addresses | `< Words` |
| `LoadStore` | addresses, widths and extension of single-register accesses, `Bus`, `Mem` | `< Words` |
| `Gic` | the registers of `Gic::store` and `Gic::load` | |
| `VirtioMmio` | the virtio registers, `Virtqueue::update`, the driver's configuration | `< VirtioBlk` |
| `Lifecycle` | constructor, loop, reader thread and destructors of the process | `< Uart` |
| `MC*` | values of constants for TLC | each `<` its module; `MCAlu` `< MCAluFlags, DataProcessing, LoadStore, Gic` |
| `Words_proofs` | lemmas: powers of two, congruence, the number a register holds, its helpers | `< Words`, TLAPS |
| `Instructions_proofs` | theorems about data processing, loads and stores, exclusives | `< DataProcessing, LoadStore, Exclusive, Words_proofs` |
| other `*_proofs` | theorems | each `<` its module and TLAPS; `AluFlags_proofs` also `< Gic`; `KernelTraps_proofs`, `Lifecycle_proofs` and `VirtioMmio_proofs` are also about the `Exceptions`, `Uart` and `VirtioBlk` they extend |

### How they correspond to the code

**Exceptions.** `phase = "check"` and `"exec"` are the two halves of an
iteration of `execute_loop`. `CheckInterrupt` is `check_interrupt` with its
early return and the priority disk, timer, UART; `CauseInterrupt` is
`cause_interrupt`; both it and `SVC` share `EnterEL1`. The instruction is any
the guest may execute at its level (`AnyLevel`, `Privileged`). Addresses are
opaque except for bit 63, the only bit ERET looks at. `MSR_SPSR` does what the
code does: it reads. `tick` is `timer_count` modulo the period; `quiet` is a
history variable. `Halt` is the path through `unsupported()` to `exit`, so the
run `exceptions` disables the deadlock check; no other run does.

**KernelTraps.** Each kernel step is a conjunction of an instruction of
`Exceptions` and its effect on the kernel's own state. The kernel follows the
architecture: it does not mask on entry by hand, and it holds its lock, which
masks, from the notification until it has left the CPU. `clobbered` records
that an exception overwrote a register the kernel still needed. What a guest
does afterwards is not modelled, so `clobbered` is final. The lock masks with any
immediate that names D and I, the unlock and the scheduler unmask with any that
names I (`Masks`, `Unmasks`): DAIFClr clears all four bits whatever it names.

**Uart.** One action per branch of `is_interrupting` and per register access;
`Fgets` and `Publish` are the two halves of the reader's loop, `Publish` one
turn of the inner `for`. `imsc` starts at either value because the code does
not initialise it. Leaving the array is undefined behaviour and sets
`overrun`, after which nothing is said. The data register may be written at any
moment at which nothing received waits in it (`Send`): `Uart::store` has no
guard, only the guest keeps what was received. The module has the steps of both
threads; the specification that composes and schedules them is `Lifecycle`'s.

**Lifecycle.** `phase` is the place of the main thread: construction (with the
ways it fails), `execute_loop`, the `munmap` and the end of its scope, the
destruction of the emulator in `main`, the end of the process. `init_done_` has
no initializer, so a failed construction may enter the loop, where the CPU
pointer is null. The reader and the CPU of `Uart` run while their thread does.
The destructor of a joinable `std::thread` ends the process: `LeaveLoop`.

**VirtioBlk.** `DiskAccess` is atomic because `is_interrupting`,
`disk_access` and `cause_interrupt` run in one call. `avail.word` keeps the
ring as 16-bit words since the code reads it at a fixed byte offset.
A submission is one step because the kernel's lock masks interrupts. The device
follows whatever head it reads; where that leads to no chain of three, what it
transfers is undefined, and `astray` records it, after which nothing is said.
With one request outstanding it never is (`VirtioMmio_proofs`).

**VirtioMmio.** `StoreRegister` and `LoadRegister` are the two switches of
`virtio.cc`; a register that the device refuses ends the emulator. The driver
stores the four registers the queue depends on in any order. `virtqueue` is the
`std::optional`; an update while it is empty is undefined, and modelled as
either ending the process (a checked library) or changing nothing visible. The
device's work, `VirtioBlk`, begins once the driver has stored all four.

**AluFlags.** Words have `2 * Half` values. `Flags32` and `Flags64` are the two
different algorithms of `add_imm_s32` and `add_imm_s`. The second has no wide
sum to compare with: `Branch64` is about all operands for equality and overflow
and about differences below 2^63 for the unsigned order (section 5).

**Words, DataProcessing.** A register is the set of its one bits, so that a
logical operation is the set operation and a shift a translation. Each operator
named for an instruction is the body of its `decode_` function; `Execute` keeps
what it read and wrote in `last`, and any instruction may come next with any
contents of its operands. `Expected` is the architecture's result, bit by bit
or as a number, and shares no operator with the translation but `Combine` and
`ElementSize`. `Value` is the number a register holds, a sum over its bits;
`Value`, `Sums` and the powers of two (`Power`) are recursive functions, not
operators, so that they can be proved about. `Departs` lists where the code is
known to differ, each clause as narrow as the checks allow; everything else must
agree. An instruction on which the emulator exits is not an action.

**LoadStore.** `Window` is the address decoding of `bus.cc`, with its inclusive
upper bounds. A store changes `ram` byte by byte; a load answers what memory
holds, or anything from a device. Memory is `Mapped` bytes, the bus lets
`RamSize` through: an access behind the mapping has the outcome `"outside"`.
`load32` looks at a fifth byte, so `LoadTouches` differs from `Length`.
`OffsetDeparts` and `ResultDeparts` list where addresses and results differ from
the architecture's; of a result that departs, the bits named by `RightBits` are
right all the same.

**Gic.** `Cell` says which byte of the object's fields holds a byte of a
register: one word for 32 bytes of a bank, and an 8-bit index for priorities.

**Exclusive.** A step per instruction of an acquire loop and of the release.
The timer only interrupts user code; the devices interrupt anything unmasked, a
handler before it masks and after it unmasks included, so that activations of
the handler lie on top of each other (`depth`).

**CallFrames.** `Pair` is `decode_ldst_register_pair`, `STR` and `LDR` are
`decode_ldst_reg_immediate`, for base register 31. The program is nondeterministic:
any nesting of calls, leaf or not, up to a bound. `Spec` keeps its frames with
pairs, as compilers do; `SingleSpec` pushes the link register alone, as the
assembly under `src/tests/data` does. `RET` to address 0 ends the emulator in
the code; no return address is 0.

**Mmu.** `L1`, `L2`, `L3` and `Translate` are the functions of `mmu.cc`; the page
offset and attribute bits are left out. The kernel's operations are single
stores. `space` is what the kernel wants, `Translate` what an access gets. The
emulator has no TLB, so no invalidation appears.

## 3. Runs

| Run | Bounds | Shows |
|---|---|---|
| `exceptions` | 1 user address, 5 kernel addresses, 2 stacks, period 3 | `TypeOK`; `PreemptedInTime` with its strengthening `QuietBehindTick`; `RefinesBankedStack` |
| `traps` | 2 processes, period 3, traps nested 2 deep, 3 immediates of DAIFSet and DAIFClr | `ReturnsToInterrupted`, `OwnStack`, `RightIrq`, `UserUnmasked`, `OneRequest`, `OnlyUartClobbers`, and `SleeperWakes` |
| `uart` | array of 9, index modulo 10, `fgets` size 3, 9 characters, poll every 3rd call; every way the process starts and ends, the terminal closed at any moment | `StreamsWhileItFits`, `NoOverrunWhileItFits`, `AllDelivered`, `ReaderTargetLives` |
| `virtio` | 2 page numbers, 2 page sizes and 2 queue sizes, configured in every order; then 2 processes, 2 sectors, 2 values, 4 descriptors, 3-bit indices | `QueueWhereDriverPut`, `RefinesDisk`, `DoneIsServed`, `EveryRequestDone` |
| `alu` | compares on words of 3 bits, all operand pairs; other instructions on words of 8 bits, 8 register contents, all shift amounts and bit-mask encodings; accesses to 12 mapped bytes from 7 bases; 10 GIC registers | `Branch32`, `Branch64`, `ChainedEqual`, `Agrees`, `UpperHalfStaysClear`, `AccessAgrees`, `OutsideOnlyAtEnd`, `ReadsBack` |
| `lock` | 3 threads, handlers nested 2 deep | `MutualExclusion`, `ExclusiveStore`, `HandlerEnds` |
| `frames` | 3 open calls, frames of 3 cells, 2 return sites | `SavedLinks`, `ReturnsToCaller`, `HandlerTransparent` |
| `mmu` | tables of 2 entries, 5 table frames, 2 processes, start levels 1 and 2 | `ProcessTranslation`, `KernelTranslation` |
| `spsr` | as `traps`, no UART | violation: MSR SPSR_EL1 does not restore |
| `alu_negative` | as `alu` | violation: 64-bit N |
| `virtio_two` | 2 requests outstanding, 8 descriptors | violation: the ring entry is not the one served |
| `push` | as `frames` | violation: a pushed link register is not popped |

Every passing run also checks its module's type invariant, except `alu` and
`lock`, whose types are part of the proofs or fixed by a single assignment.

The four machines of `alu` share no state. They run in one specification,
`MCSpec`, in which one of them moves while the others rest in an initial state:
the sum of their state graphs, not the product.

**Why the bounds are enough.** The timer period 3 leaves checks before, at and
after the multiple, and the theorem covers every period. Two processes are
enough for one to sleep while the other runs, traps and is preempted; two nested
traps give a handler inside a system call and inside a handler. The three
immediates are all four bits, D with I, and I alone: one that unmasks but does
not mask. Two handlers on top of a thread are all that can meet in the lock's
unmasked places; a third repeats the second. In `uart` the
second line is longer than one `fgets`, so a terminator appears in the stream;
nine characters fill the array exactly and pass its end, both ways out of it
(the reader's and `is_interrupting`'s) are reached, and the index wraps, one
place behind the array's end, as 256 lies behind that of the code's array. Three-bit ring indices wrap
twice per four requests. Three calls let the handler's function lie on top of a
caller and a callee. Eight bits are the smallest word whose halves, quarters and
eighths (the 32, 16 and 8 bits of the code) differ; the register contents have
every combination of the two sign bits, of clear and set upper halves, and the
neighbours of a border. The 12 mapped bytes are more than one 8-byte access and
less than two, so each width meets the beginning, the end and what lies behind
it; one base lies in each device window, one outside all of them. The GIC
registers pair each way of sharing a field with one of not sharing it. After
configuration, requests are made for one place of the queue only, since
`disk_access` depends on the place in nothing that `QueueWhereDriverPut` does
not fix. Five table frames hold the kernel's tables and two processes that start
at level 2, or one at level 1 whose frames the next process takes over.

**Fairness.** `KSpec`: the loop of `execute_loop` never waits, so some next step
is taken. `Uart`: the reader thread, the polling in `check_interrupt` and the
guest's handler each go on while their thread runs (two operating-system
threads, and a guest that unmasks again); nothing of `main` is fair, so
`AllDelivered` is about emulators that go on running. `VirtioBlk`: a
notification is looked at, since the guest unmasks, and the handler goes on.
`Exclusive`: the CPU executes an instruction in every iteration; `Timer` and
`Device` are not fair, so nothing depends on interrupts arriving. Nothing in
`check_interrupt` bounds them either: `HandlerEnds` says that each handler gets
the lock, and that they return unless the devices interrupt forever. `Exceptions`,
`CallFrames` and `Mmu` state safety only.

## 4. Proofs

Every theorem is about the specification that a run checks, or one of the
machines of `alu` by itself, for every value of its constants that satisfies the
assumptions at the end of this section.

| Theorem | Statement | Argument |
|---|---|---|
| `TypeCorrect` | `Spec => []TypeOK` (Exceptions) | one lemma for the check, one for the instructions |
| `QuietCorrect`, `PreemptionBound` | user code that runs unmasked is interrupted within any timer period | `PreemptedInTime` is not inductive; `QuietBehindTick` is: a quiet check advances `tick`, and `tick` returns to 0 only at a check that interrupts user code |
| `ImplementsBankedStack` | `Spec => BS!Spec` | under `TypeOK` each action maps to a step of `BankedStack` or to a stutter |
| `KernelTypes`, `KernelOnOwnStack`, `UserRunsUnmasked`, `HandlesTakenIrq` | the four invariants of `KernelTraps`; `KTypeOK` types the registers, the trap frames and the history of open traps, clobbered or not | `KernelInv`, below |
| `TrapsAreTransparent`, `SingleRequest`, `WindowsAreUarts` | its three action properties | `KernelInv` before the step |
| `KernelIsGuest`, `KernelPreempts` | `KSpec => [][Next]_vars`, hence the preemption bound of `Exceptions` for this kernel | each step of the kernel is a conjunction with an instruction of `Exceptions` |
| `UartTypes`, `NoOverrun` | nothing is stored outside the receive array while the session fits | `BufferInv`, below |
| `ImplementsUartStream` | `FullSpec => StreamsWhileItFits`: each step is one of `UartStream` or a stutter, for every size and every session that fits | `StreamInv`, below |
| `ReaderNeverDangles` | `FullSpec => []ReaderTargetLives` (Lifecycle) | `LifeInv`: a thread exists only in the loop, behind it until its scope ends, or when the process has ended; in the first two the cpu is alive |
| `QueueFound` | `FullSpec => []QueueWhereDriverPut` | what the driver has stored says which registers the device has, and the last of the four updates the queue |
| `VirtioTypes`, `ReportedIsServed`, `ImplementsAtomicDisk` | types, `DoneIsServed` and `RefinesDisk`, with one request outstanding | `RequestStage`, below |
| `Branch32Correct` | every condition behind a 32-bit compare means the comparison, for words of any size | `Result` is the difference modulo the word; then carry, sign and overflow one by one |
| `Branch64Correct` | behind a 64-bit compare of any operands EQ, NE and V are right, and the unsigned conditions while `x - y` is below 2^63 | the carry from the top bits: it is lost only if both terms and the sum have theirs set |
| `ChainsCorrect` | Z at the end of a CCMP chain of any length | an invariant that relates `nzcv`, the last operands and the history `chain` |
| `RegistersReadBack` | the GIC's registers read back, for any set of registers | a register stored to holds its bytes; registers whose cells meet share a field (`SharedCell`) |
| `ResultsAgree`, `UpperHalvesStayClear` | `Agrees` and `UpperHalfStaysClear`: data processing computes what the architecture says and W forms leave the upper half clear, for every word size that is a power of two, any register contents and fields | one lemma per instruction over the arithmetic of `Words_proofs`, below |
| `AccessesAgree` | for every map, any contents, addresses and offsets outside `OffsetDeparts`: stores change the named bytes only, loads return them, extended as named unless `ResultDeparts` (then `RightBits` of the result are right) | `Did` below: what the last access was computed from |
| `AccessesStayInside` | what leaves the mapping is a load at its end: up to 8 bytes from the address for register offsets and literals, the fifth byte of a word | `Did` below: what the last access was computed from |
| `KernelMutualExclusion`, `KernelStoresExclusively` | the lock excludes, for any number of threads | `LockInv`: whoever is between masking and unmasking is the context that runs, and nobody stored since its LDXR |
| `FrameTypes`, `LinksAreKept`, `CallsReturn`, `HandlerIsTransparent` | all four properties of `CallFrames`, for frames and calls of any size and depth | `Chain` and `AtPlace`, below |
| `MmuTypes`, `ProcessesSeeTheirOwn`, `KernelSeesItsOwn` | both translations are the kernel's mapping | `Forest`, below |

**The trap path** (`KernelTraps_proofs`). None of the properties is inductive:
that an ERET returns to what was interrupted needs what is on the stack, which
needs the place of the code that will restore it. `KernelInv` says, as long as
nothing is clobbered: each context's open traps alternate between levels as
nesting does, each saved frame holds the return state of its trap (`StacksInv`);
which context may be at which place with how many traps open (`PlaceInv`);
which banked registers still hold the last trap's values there (`RegisterInv`);
where IRQs are masked (`MaskInv`); a disk request in flight has an owner who
sleeps (`RequestInv`). A step that clobbers needs only the types.

**The receive array** (`Lifecycle_proofs`). As long as the index has not wrapped,
it counts the characters `fgets` took plus one terminator for each full chunk,
so that it stays inside the array while the session fits; the terminator behind a
short chunk, which ends a line, lies where the next chunk begins (`ChunkOf`,
`Counted`). Once everything below the array's end is written, no place holds what
was never written. For the stream, `Published` says that the array up to the end
of the chunk in hand holds the lines in order, with counts `c[s]` of the
characters before each place; `Collected` ties the driver's side to the counts;
and `Console` says that nothing received waits in the data register when a
character is put there, since the interrupt is armed only while the driver is
idle; characters to send come and go there without harm at those times. That is
why neither the missing lock nor the register shared with the transmit side loses
anything, as long as the guest sends nothing between an interrupt and its load. The proof found two errors of the model, both corrected: the earlier
property, that nothing is stored outside before the index reached the end, is
false as soon as the eight-bit index wraps before the array's size divides it,
which the bounds then used did not show; and `TakenByFgets` left open which of
two lengths is taken of a line that is longer than a chunk. `delivered` keeps
what the driver read without the NULs, as the console does, instead of a
selection from all of it, which no prover could follow.

**The disk** (`VirtioMmio_proofs`). `disk_access` reads a fixed word of the
available ring. With one request outstanding a chain is always descriptors 0, 1
and 2, so every entry of the ring is 0 and the fixed word is the head of the only
chain. Each request is in one of the stages of `RequestStage` by the
notification, the status byte and the distance of the two used indices, modulo
their width. The hypothesis `MaxOutstanding = 1` is not a convenience: with two
the run `virtio_two` shows the statement false, and one at a time is what the
kernel does. `QueueFound` does without it.

**Calls** (`CallFrames_proofs`). The open calls fall into those of the program
and those of the function the handler calls. In each of the two every function
but the last has its frame, right below the one before (`Chain`), and the place
in the last function says what sp, x29 and x30 are (`AtPlace`). A function writes
below its caller's sp, so what the other frames and the handler saved stays. The
cells that the calls still to come may need bound the stack from below.

**Tables** (`Mmu_proofs`). The tables are a forest: a frame in use is the table
of one space, at one level, for one prefix of the indices, a frame in the pool
has no valid entry, and the kernel's mapping is what a walk finds (`Owned`,
`Apart`, `FreeIsEmpty`, `Knows`). Then a store to an entry is seen by exactly the
addresses that lead through it, and a frame that returns to the pool is on
nobody's way. The forest is stated of a memory, so that the lemmas compare the
memories before and after a store.

**Numbers** (`Words_proofs`). A register is a set of bits, its number `Value(a)`
a sum over them. That the two recursive functions satisfy their equations
(`PowerIs`, `SumsIs`) follows from `RecursiveFunction`, which is proved from the
least element of a set of naturals; sets of natural numbers closed under
successor stand in for induction over the bits. From them: a number and its bit
set determine each other (`Bitset` and `Value` are inverse modulo the word), the
low bits are a remainder, a shift is a product or a quotient, a complement the
difference from the largest word, and sign extension subtracts a word's size.
Results of W and X forms are then congruences (`Congruent`) that sums,
differences and products preserve.

**Instructions** (`Instructions_proofs`). `Agrees` compares the last
instruction's result with its operands, so the work is one lemma per instruction
(`...Agrees`): that the code's shifts and masks give the architecture's bit or
number, outside `Departs`. The inductive invariant is `Agrees`,
`UpperHalfStaysClear` and that the last instruction is one of the known kinds.
For bit fields the two decompositions by `imms >= immr` are compared bit by bit.
For accesses the invariant `Did` keeps what the load or store was computed from,
since the properties are about `ram` after it: a store changes exactly the bytes
from the effective address (`AddressIsEffective`), a load's extension is that of
the number its bytes hold (`LoadResultIs`). The proofs found one error of the
model: `Quotient` was a `CASE` with overlapping arms, whose value TLA+ leaves
open where TLC takes the first; `Quotient` and `Window` are now the chains of
conditions that the code has.

**Assumptions.** The named `ASSUME`s of the modules and nothing else; TLC
evaluates each in a run.

| Assumption | Says | Why |
|---|---|---|
| `AddrAssumption`, `GuestAssumption`, `TimerAssumption` | user and kernel addresses are disjoint, `Succ` and `Vector` are functions, masks are sets of DAIF bits, the period is positive | bit 63; `timer_count % period` |
| `KernelAssumption`, `ProgramAssumption` | the kernel has an immediate to mask with; the program's order: where each place of the kernel leads | the guest; it is what `Succ` is for this kernel |
| `SizeAssumption`, `LinesAssumption` | the array is indexed by its index's type, a chunk has room for a character, a line ends in a newline and has no NUL | `uart.h`, `fgets` |
| `QueueAssumption`, `DiskAssumption`, `LayoutAssumption` | queues of 3 to 16 descriptors, indices that the size divides, finitely many processes, page addresses below the word | `queue_num_max`, 16-bit indices, 32-bit page frame register |
| `FrameAssumption` | a frame has at least the pair and a cell for data; code addresses, return sites and data differ | STP needs two cells |
| `MmuAssumption` | more than one entry in a table, pages outside the pool, `NoFrame` is no frame | 512 entries; the guest's allocator |
| `LogDwordAssumption`, `RegistersAssumption` | words of 8 bits or more, a power of two; a page's bits and an immediate's fit in a word together, and so does an immediate times four | 64 bits; ADRP's 21 bits and 12, branches' 19 bits and 2 |
| `MapAssumption` | the windows do not overlap, memory is not larger than its window, bases are words, an immediate offset is not wider than a word | `bus.h`, `mem.h`; 9 bits of 64 |
| `HalfAssumption`, `CcmpAssumption`, `GicAssumption`, `ContextAssumption` | a positive word size, flags of the right type, offsets inside the registers' ranges, threads that are not the numbers of handlers | |

**Only model-checked.**

- Liveness (`SleeperWakes`, `AllDelivered`, `EveryRequestDone`, `HandlerEnds`):
  needs fairness and ENABLED, which the provers do not treat.
- The values of `DataProcessing`'s departures: what the code computes where
  `Departs`, `OffsetDeparts` or `ResultDeparts` hold is stated nowhere but in
  the translation.

Every other invariant and action property of a passing run has a theorem.

## 5. Disagreements

Four runs end in a violation; `findings` in `PROJECT.json` quotes both sides.

- `spsr`: `cpu.cc:2502` executes MSR SPSR_EL1 as MRS.
- `alu_negative`: `cpu.cc:543` takes the 64-bit N from the second operand.
- `virtio_two`: `virtio.cc:76` reads a fixed place behind the available ring.
  The kernel's one outstanding request at a time hides it.
- `push`: `cpu.cc:1274` writes a stack pointer back to `xregs[31]`. Compilers
  keep frames with pairs, which `frames` shows to be right.

Observed while reading, without a run; a hazard of `PROJECT.json` that names no
property is one of these or of section 6:

- `cpu.cc:544` computes the 64-bit C, which `cpu.h:52` calls carry, without the
  case in which both terms have their top bit set and the sum too. Behind a
  compare of `x` with `y`, C is clear although `x >= y` when `x - y` is 2^63 or
  more: HS, HI, LO and LS are wrong, as for a kernel address compared with 0 or
  with a bound of user addresses. `Branch64` leaves out exactly these operands.
- `check_interrupt` tests bit 9 of `daif`, which `cpu.h` calls D, where IRQs
  are masked by I (bit 7). A guest that sets all four bits is not affected.
- STXR always succeeds. In user code the timer can switch threads between LDXR
  and STXR; the `lock` run is about kernel code, which masks.
- `size == 11` in the exclusive and ordered loads is decimal, so 64-bit loads
  keep 32 bits (`ResultDeparts`).
- The walk from level 0 (39 bits and more) keeps 16 bits of the next table's
  frame number, which no frame of RAM fits in.
- `l3_translate` asserts that bit 1 of a page entry is clear, where the
  architecture sets it; the Makefile defines NDEBUG.
- Data processing (`Departs`): right shifts, divisions and ASR of W forms see
  the upper half; bitfields are cut at 32 bits, and BFM ORs the new field into
  the old; a divisor is zero by its number, and SDIV is unsigned; SXTH extends
  8 bits; ADR does not extend its immediate.
- Selections have no width; MVN, SBFM and SDIV of a W register set its upper
  half (`UpperHalfStaysClear`).
- Accesses: SXTW of an offset register takes the sign behind the shift and no
  extension drops the upper half (`OffsetDeparts`); signed loads with a register
  offset do not extend, LDRSB and LDRSH of a W register keep its upper half
  (`ResultDeparts`), and with a register offset do nothing.
- Loads of words, literals and register offsets look behind the bytes they
  need (`OutsideOnlyAtEnd`); the bus passes addresses on that nothing is mapped at.
- Priorities and banks of the GIC alias (`Shares`): `gic.cc:20` keeps 8 bits of
  the interrupt's number, and 32 bytes of a bank share a word.
- STATUS 0 of the virtio device keeps the used index (`virtio.h:114` calls it a
  reset). QUEUE_ALIGN, which a legacy driver may store, ends the emulator.
- MRS of some plain registers (VBAR_EL1 among them) executes as MSR, and nothing
  writes `CurrentEL`.
- A last line without a newline publishes ten places of the receive array.
- TST and the logical instructions write `xregs[31]`, which `MOV` and the
  stores then read as the zero register.

## 6. Not modelled

- System registers that are plain storage (a move stores or loads one field
  that nothing else reads), barriers, cache and TLB instructions (no effect).
- EXTR, one-source and vector instructions, ROR as a shift type.
- `xregs[31]` as a register the logical instructions write: `DataProcessing` and
  `LoadStore` take register contents as inputs and keep no register file.
- The loader's copying of segments, its entry and `init_sp`.
- Transfers of more than 65535 bytes, where the 16-bit counter of the loop
  never reaches its end: the guest's block has two sectors.
- A virtio reset after use, and a second queue.
- A terminal closed in the middle of a line.
- UART LCR_H and CR; TCR and TTBR1 after boot; the walk from level 0.
- The tests and `create_testdata.cc`, written for an older class layout.

## 7. Plan

1. `Machine`: bus decoding composed with the CPU's loop, the UART and the disk,
   replacing the free choices of `Exceptions`.
2. A register file with register 31, for sequences of instructions.
3. The theorems of `Words_proofs` for the one-source instructions and EXTR.
