# Dionnex: models and proofs

Dionnex is a monolithic 32-bit x86 kernel in C. This directory holds TLA+
models of its parts, the TLC instances that check them and TLAPS proofs of the
properties that matter most. `PROJECT.json` lists components, runs, the map from
definitions to source lines, findings, hazards and theorems.

    cd tla
    tlc -workers 2 -config MCPMM.cfg MCPMM      # a run
    tlapm PMM_proofs.tla                        # the proofs of a component

## 1. The system

The kernel runs on one processor. Concurrency comes from interrupts (IRQ0 timer,
IRQ1 keyboard), which may come between any two instructions of the kernel thread
(start-up, then the shell), and from ring 3 processes. Interrupt handlers,
exceptions and system calls run with interrupts disabled, so each of them is a
single step unless it waits.

| Component | State | Operations | Used by | Hard part |
|---|---|---|---|---|
| PMM (`mm/pmm.c`) | bitmap, `total_pages`, `free_pages` | `pmm_init`, `pmm_alloc_page`, `pmm_free_page` | all below | counter against bitmap, overlapping map entries, partial last word |
| Heap (`mm/heap.c`) | block list | `heap_init`, `kmalloc`, `kcalloc`, `krealloc`, `kfree` | processes, files, modules | splitting, merging, growth through a shared PMM |
| VMM (`mm/vmm.c`) | page directory and tables | `vmm_init`, map, unmap, translate | processes, `sbrk`, `mmap` | unchecked allocation of tables |
| Processes (`kernel/process.c`) | `proc_list`, `current_process`, `next_pid` | create, exit, destroy, lookup | system calls, shell | one `next` field in two lists, use after free |
| Process scheduler (`kernel/scheduler_process.c`) | `sched_queue`, `vruntime` | add, remove, schedule, tick | IRQ0, exit | who really runs; first dispatch; wrap of `vruntime` |
| System calls (`kernel/syscall.c`) | table | 21 calls | user programs | waits with interrupts off |
| Interrupts (`kernel/idt.c`, `drivers/pic.c`, `apic.c`) | handlers, in-service IRQs | dispatch, acknowledge | drivers | a handler that never returns |
| Timer (`kernel/timer.c`) | ticks | tick, sleep | waits, schedulers | wrap, `hlt` |
| Tasks (`sched/*`) | task list, stacks | create, exit, `schedule`, `context_switch` | timer | stack frames, starvation |
| Keyboard (`drivers/keyboard.c`) | ring buffer, shift, caps | handler, read | shell, `read` | handler between any two steps of a read |
| Kernel log (`kernel/klog.c`) | ring buffer | log, dump, read, clear | all | wrap in the middle of a message |
| File systems (`fs/*`) | nodes, 32 slots | mount, lookup, create, delete, read, write | shell, `open` | stale handles, offsets |
| Modules (`kernel/module*.c`) | list of modules | load, unload | shell, system calls | failure paths, reload of an image relocated in place |
| Clock (`drivers/rtc.c`) | none (registers of the chip) | `rtc_init`, `rtc_read_time`, `rtc_get_ticks` | start-up, `date` | the chip counts on during a read; four formats |
| Disk (`drivers/ata.c`) | drives found | `ata_init`, identify, read, write | start-up; transfers have no caller | polling without limit, a sector that fails in the middle |
| Screen (`drivers/vga.c`, `vesa.c`) | cells, cursor | putchar, scroll, clear | all output | wrapping, scrolling, backspace |
| Shell (`kernel/shell.c`) | line, words | editor, parser, commands | user | agreement of line and screen; commands reach every part |
| PCI, ACPI, SMP, initrd, serial, strings | none | | | |

The repository has no tests, and its README is one line; the comments and
messages of the code are its only statements of intent. As committed it does not
build (`kernel/multiboot.h` and `stdarg.h` are missing; `vfs.c:160` uses
`dir->finddir` and `shell.c:157` uses `node->length`, which do not exist;
`elf_validate` is defined twice; `syscall.c:26` names `syscall_isr_stub` where
the assembly defines `syscall_isr`; `rtc_get_unix_time` and
`DIONNEX_HEAP_SIZE_DEFAULT` are undefined). The models follow what the functions
do, not whether they link: `finddir` is the operation of the node, `length` its
size, `rtc_get_unix_time` is `rtc_get_ticks`. Some functions have no caller in
the kernel (the loaders of `elf.c`, `sched_proc_remove`, the task functions, disk
transfers, `vfs_create` and `vfs_delete`, the registry of `module.c`); those that
are exported to kernel modules or declared in headers are modelled as if called
in any order.

## 2. The modules

Operators carry the names of the C functions and variables they model. Names in
other forms (`Split`, `IsBest`, `Charged`) are parts of a function. Operators
marked `Mutant:` are not part of a specification: each is a plausible mistake in
the definition below it, and shows that a property can tell the difference.
Variables marked `history:` record what happened for the properties; no guard of
a function of the kernel reads them.

**PageAllocator** is what the PMM promises: a set of free pages from which
`Alloc` takes the lowest.

**PMM** models `mm/pmm.c`. `bitmap` is the set of bits that are 1. `pmm_init` is
one action per loop iteration (`SizeMemory`, `FreeRegionPage`, `NextRegion`,
`FreeFallbackPage`, `EndFreeing`, `ReservePage`, `EndReserving`), because the
counter is updated inside the loops. The word-by-word scan of `pmm_alloc_page` is
"the lowest clear bit", with the failure when that bit lies beyond
`total_pages`. The environment frees pages it holds, pages that are free already
and addresses beyond memory. Multiboot addresses are unbounded numbers of which
the code sees the remainder modulo `AddrSpace`; the start of a region is rounded
down to a page, as in `PAGE_INDEX` (`pmm.c:70`). The assumption
`KernelFitsAssumption` says that the kernel image and the bitmap lie in memory
that the bitmap describes.

**Heap** models `mm/heap.c` over `PageAllocator`. The list is the sequence of its
blocks; `live` records what callers hold. `magic` and payload are left out: the
model's callers only free what they hold. `OtherAlloc` is `pmm_alloc_page` called
by another part of the kernel, before `heap_init` (`vmm_init`) or after it (tasks,
processes), as `OtherUsers` says. `heap.c` takes for granted that its pages
follow one another (`Contiguous`) and that an expansion gets all its pages
(`~short`). Both fail in the instance, and blocks then cover pages of
others; that they do not overlap one another, `HoldersMatchBlocks` and
`NoFreeNeighbours` still hold. `heap_coalesce` and the two counts are recursive
functions over the list, so that they can be reasoned about.

**AddressSpace** models `mm/vmm.c` and everything that maps: `vesa_init`,
`process_create`, `elf_load_segments`, `sys_sbrk`, `sys_mmap`, `sys_munmap`,
`sys_exec`. `vm` is the state of memory: free frames, the page directory, the page
tables by the frame they lie in. The functions of `vmm.c` are operators on such a
value, and the loops of the calls (`MapRun`, `MapSame`, `UnmapRun`, `SegMapped`,
`elf_load_segments`) are recursive functions over their turns, so that memory may
run out at any page. There is one directory, as in the code: each process gets a
frame for a directory that is then never used. The kernel reaches the directory
and the tables at their physical address, which works while the page there is
mapped to itself (`Touched`, `Reached`). A table beyond the identity mapped first 4 MB,
or one whose page a call has unmapped or mapped elsewhere, is not reached: the
kernel faults or writes over what is mapped there; it is lost (`panic`), and the
model ends. Sizes wrap around at `AddrBytes`. `AddressAssumption` says that page
0 and the framebuffer are no RAM, and that the heap begins at a page and lies
inside the address space; `ProgramAssumption` that arguments are 32-bit numbers
and images are linked for pages of the user, which `elf_load_segments` does not
check. History: `owed` (pages that
successful calls have promised), `noTable` and `skipped` (an allocation whose
failure the code does not report), `holds` (contents of a frame), a process's
`view` (what was mapped for it).

**Processes** models `kernel/process.c`, `kernel/scheduler_process.c`, the process
calls of `kernel/syscall.c` and `irq_handler`/`isr_handler`. A process is a slot
of the heap; a freed slot keeps its contents until it is handed out again. Lists
are `next` pointers, walked at most once around. `cpu` is what the processor
really executes, `current_process` what the kernel believes; `irq0` and `intr`
are the state of the interrupt controller and of the interrupt flag.
`KernelDispatch` says whether kernel code calls `schedule_process()` itself: it is
exported by its header, but nothing calls it before a process runs, so `FALSE` is
the kernel as committed and `TRUE` a kernel that uses the interface. The kernel
thread enables interrupts only at the end of start-up; until a process runs, a
tick changes nothing, so the model lets ticks come from the start.

**Keyboard** models `drivers/keyboard.c`; **CharQueue** is its promise. Each
scancode class is an action; `keyboard_read` is the four steps call, test (to
`hlt` or on), load, advance.

**Klog** models the ring of `kernel/klog.c`; **LogWindow** is its promise. A
formatted message is any non-empty sequence of characters; it is pushed one
character per step. Its names begin with `Klog`, so that one module can hold the
proofs of both rings.

**Files** models `fs/vfs.c`, `fs/ramfs.c`, `fs/procfs.c` and their callers: `echo`
and `cat` of the shell, and kernel modules that create, delete, open, read,
write and mount. The tree is the pointers `children` (`child`) and `next_sibling`
(`sib`); a RAM file is its slot of `ramfs_files`, where the size and the name are
kept twice (`size`, `nsize`, `name`, `nname`), as in the code. A path is the
sequence of its names, a lookup a recursive function over it, a walk over
siblings a recursive function that visits no more nodes than there are. Offsets and sizes wrap around at `Mod`. **FileStore** is
the promise: a map from names to contents, in which a gap left by a write behind
the end may hold anything.

**Modules** models `kernel/module_loader.c` with its callers (`kernel_main`,
`insmod`, the `init_module` system call), and `kernel/module.c`. A heap block is a
range of `Span` addresses. A load is one of `LoadRefused` (before memory is
taken), `LoadFails` (after the image has been relocated) and `LoadSucceeds`.
`symval` is the symbol table in the image, which the loader overwrites; images
with `fresh` are copied from a file before every load.

**RTC**, **ATA**, **Terminal** and **Tasks** model `drivers/rtc.c`,
`drivers/ata.c`, `drivers/vga.c` with the editor and parser of `kernel/shell.c`,
and `sched/*` with the tick of `kernel/timer.c`. **KernelMain** composes them in
the order of `kernel_main`: the clock is read, the disks are probed, the shell
starts. `stage` says where the kernel thread is; from the first prompt
(`FreshShell`) it goes one of four ways: command lines, the `date` command, disk
transfers, kernel tasks. These share no variable, so that one way at a time
loses no behaviour. The clock chip and the drives act between any two steps.

- RTC: a pass reads six registers, one per step, while `BeginUpdate` and
  `EndUpdate` of the chip may come in between; a register read during an update
  shows the old or the new value. `Converted` is the decoding of BCD and of
  12-hour format, `rtc_get_ticks` the arithmetic of the day count.
  `RTCAssumption` says that the chip shows times of day when a command starts and
  is updated less than 59 times during it: `rtc_read_time` compares all fields
  of two passes, which a minute apart could agree in their seconds.
  `CalendarAssumption` says that it shows dates of the calendar and that a command
  does not start on the last day of 2099, after which two digits of a year begin
  again. `times` are the seconds the chip has shown since the first pass began.
- ATA: a status register is the set of its bits, a poll is a guard on it. Drives
  are disks, packet devices, disks that fail, nothing, or a floating bus; an
  answer, an error and the delayed storing of a written sector are steps of
  the drive.
- Terminal: the screen is a function from cells to characters, `vga_putchar` an
  operator on it, `vga_write` a recursive function along the text. `shell_parse`
  is the two walks of the parser over blanks. `TerminalAssumption` keeps the
  characters of a cell apart from the control characters, `PrintAssumption` says
  that the prompt is one line and that no output has a "\r".
- Tasks: the list is the `next` pointers. `schedule` selects, charges and
  switches; `context_switch` reads its arguments 36 and 40 bytes above the stack
  pointer, where the return address and the first argument are, so that after it
  the processor is `"lost"`.

The `MC` modules give the instances; `*_proofs` hold the theorems.

## 3. The runs

| Run | Instance | Checks |
|---|---|---|
| `pmm` | 9 or 10 pages of 4 addresses, words of 4 bits; maps with a hole, with overlap and a partial page, with a region that starts in the middle of a page, with memory above the address space, `mem_upper` only, nothing | `TypeOK`, `FreeCountExact`, `FailureMeansFull`, `HeldAreSafe`, `OnlyRamHandedOut`, `ImplementsPromise` |
| `heap` | pages of 16 bytes, header 3, four free pages of which others may take any; requests 0, 1, 12, 20 bytes, three at a time | `BlocksPlaced`, `HoldersMatchBlocks`, `NoFreeNeighbours`, `NoByteLost` |
| `memory` | 12 frames, or 22 of which 20 are below the limit of the identity map; a framebuffer of one page; `mmap` anywhere, at a hint, over the heap, over a page table of the kernel, with a length that wraps; two processes, five calls | `FramesHaveOneUse`, `PromisedPagesMapped`, `SegmentsLoaded` |
| `processes` | three slots, three pids, `vruntime` modulo 16 | `TypeOK`, `RunningIsCurrent`, `StartedOnce`, `ProcListExact`, `FreedNeverRuns`, `ZombiesStayZombies` |
| `keyboard` | four places, a letter, a symbol, a key without character | `PlaceIsReaders`, `ImplementsQueue`, `ReadsReturn` |
| `klog` | three places, two characters, messages up to four | `IndicesAgree`, `ImplementsWindow` |
| `files` | two slots of two bytes, numbers modulo 16, one node that modules mount at two places, twice | `PathFindsFile`, `CopiesInBounds`, `HandleNamesItsFile`, `ImplementsStore` |
| `modules` | five images (complete, from a file, with an unknown symbol, without tables, with another `module_init`), five blocks, three loads | `BlocksAccountedFor`, `ModuleListsExact`, `RelocationsExact` |
| `kernel_main` | three dates, four formats, two updates per reading; three boards; screen of 3 by 4, lines of five characters; three sets of frames, four ticks | `ReadingIsTrue`, `DateAndStampAgree`, `TransferExact`, `ScreenShowsCommand`, `ParseFindsWords`, `IdleKeepsProcessor`, `TaskListWhole`, `FramesAccounted`, `BootReachesPrompt` |

`TypeOK` is checked by TLC in PMM and Processes. It is proved there and in Heap and
AddressSpace, and is part of the proved invariants of the rings (`KlogTypeOK` in
Klog); in Files, Modules and KernelMain the proofs have their own typing
conjuncts, and `TypeOK` states the types for a reader.

Runs that show a disagreement between the code and what it says of itself:

| Run | What TLC finds |
|---|---|
| `proc_boot` | no tick ever starts the first process ("Started init process") |
| `isolation` | the second `process_create` replaces the pages of the first process ("user address space") |
| `modules_reload` | insmod, rmmod, insmod of a module of the initial RAM disk calls `module_init` at a wrong address |

Several properties hold on a condition, because the code goes wrong without it
and says nothing about the case. Each condition is a defect of the kernel as
committed, and the instances reach it:

| Property | Condition | Without it |
|---|---|---|
| `OnlyRamHandedOut` | no map entry above 4 GB, available regions start on page boundaries | `pmm_init` ignores the high words and frees pages that are no memory; a start in the middle of a page is rounded down (`pmm.c:70`), and a page that is partly no memory is freed |
| `BlocksPlaced` (pages) | `Sound` | merged blocks cover pages of others; an expansion cut short reaches beyond memory |
| `NoByteLost` | `~short` | the block is larger than the pages that were given |
| `FramesHaveOneUse` | `~noTable` | page 0 becomes a page table, for several directory entries |
| `PromisedPagesMapped` | memory did not run out, `brk` not below the heap; the kernel not lost, which happens only when no frame below 4 MB is left or a call has unmapped or mapped over a page of the kernel | `sbrk` and `mmap` report success for pages they do not have; `mmap`, `munmap` and `sbrk` look at no address (`syscall.c:208`), so that a process reaches the page tables |
| `PathFindsFile` (paths) | a node is mounted once, not over the root, and under another name than `/ram` and `/proc` | the list of siblings is cut or closed to a ring; a module's node hides the RAM files |
| `CopiesInBounds` | offset + size does not wrap | the bound is passed and the kernel writes through memory |
| `HandleNamesItsFile` | the file is not deleted | the handle names what takes the slot next |
| `RelocationsExact` (addresses) | the image was not relocated before | addresses are added twice |
| `ReadingIsTrue`, `DateAndStampAgree` | 24-hour format, or (for `ReadingIsTrue`) an hour other than 0 and 12 | noon becomes midnight, midnight stays 12 |
| `TransferExact` | sector below 2^28; the last sector of a write | another sector; nobody reads the status after the last one |
| `ScreenShowsCommand` | no backspace met column 0, no "\r" in an output | the shell takes back a character that stays on the screen |
| `IdleKeepsProcessor` | `kernel_task` has not exited | the next switch destroys the kernel |
| `BootReachesPrompt` | no floating bus | the poll at `ata.c:56` never ends |

`FreedNeverRuns` and `ZombiesStayZombies` hold although `process_destroy` leaves
the freed `process_t` in `sched_queue` and a tick leaves the old code running:
the state DEAD keeps the scheduler away until the slot is handed out again.

*Why the bounds are enough.* The memory code compares sizes and page numbers and
never depends on their magnitude; the instances contain every boundary (partial
last word and page, exact fit, remainder too small to split, zero, exhaustion at
any page of a call, tables below and beyond the identity map, lengths that wrap).
Five calls (`MaxCalls`) create two processes, destroy one, and leave two calls
for what it left behind. With three slots, lists have a head, a middle and an
end, a freed slot can be reused while the queue still reaches it, and two others
can be scheduled meanwhile; `vruntime` modulo 16 wraps within eight ticks and
keeps what matters of 2^32, that it is even. Rings of three and four places wrap
around and fill up. Two file slots fill up, and a slot is reused under an open
handle; two bytes have an inside, an end and a beyond; a node mounted twice
(`MaxMounts`) is already enough to close the list. Three loads (`MaxLoads`) give a
failure, a success and a reload, or two modules beside each other, in any order;
the registry is a list and a counter, for which one name is enough to register,
refuse, unregister and register again. Two updates
(`MaxUpdates`) fall into both passes of a reading, at the end of a year and of
February in a leap year and before noon; the chip really updates once a second,
while a reading takes microseconds. Lines of five (`CmdMax`) hold three words
with blanks between them, are longer than a row of four cells, and two lines
(`MaxLines`) scroll the screen. Three created tasks (`MaxCreated`) make a list
with a middle; four ticks (`MaxTicks`) are two calls of `schedule`. Other named
bounds: `MaxLive`, `MaxPid`, `MaxMessage`; `sys_fork` is bounded by the parent's
pid. Symmetry is used for process slots in `memory`, `isolation` and `processes`, which check no
liveness property.

Deadlock checking is off where the system may stop: Heap and AddressSpace (after
a panic nothing happens, and the calls are bounded), Processes (a kernel that
walks a cyclic list or halts with interrupts off stops), Files (a lookup that
hangs, a copy that crashes), Modules (a jump to a wrong address), KernelMain (a
floating bus, a lost processor, bounded lines and ticks). It is on elsewhere.

*Fairness.* `ReadsReturn`: weak fairness of the steps of `keyboard_read` (the
kernel thread is the only thread) and of IRQ0 (the PIT runs at 1000 Hz and its
handler returns while no process is started). `BootReachesPrompt`: weak fairness
of the steps of `kernel_main` up to the shell (it is the only thread, and
interrupts are off until then), of the end of an update (the chip takes 2 ms), and
of a busy drive, which is the assumption the driver makes by polling without a
limit. Commands, transfers and ticks are not fair. `AddedProcessesRun` is refuted
under weak fairness of IRQ0 and of the start-up code. All other properties are
safety properties and assume no fairness.

## 4. The proofs

Every theorem holds for all values of the constants that satisfy the module's
`ASSUME`s, which TLC evaluates in the runs. The invariants below were first
checked by TLC on the instances of section 3.

| Theorem (module `..._proofs`) | States |
|---|---|
| PMM: `TypeCorrect`, `FreeCountCorrect`, `AllocationSafe`, `AllocationComplete` | `TypeOK`, `FreeCountExact`, `HeldAreSafe`, `FailureMeansFull` |
| PMM: `AllocatorKeepsPromise`, `HandsOutRam` | `ImplementsPromise`, `OnlyRamHandedOut` |
| Processes: `TypeCorrect`, `SingleRunning`, `NeverRestarted` | `TypeOK`, `RunningIsCurrent`, `StartedOnce` |
| Processes: `FreedSlotsDoNotRun`, `ZombiesNeverReturn`, `ProcListCorrect` | `FreedNeverRuns`, `ZombiesStayZombies`, `ProcListExact` |
| AddressSpace: `AddressTypeCorrect`, `FramesHaveOneUseAlways` | `TypeOK`, `FramesHaveOneUse` |
| AddressSpace: `PromisedPagesAlwaysMapped`, `SegmentsAlwaysLoaded` | `PromisedPagesMapped`, `SegmentsLoaded` |
| Rings: `ReaderUndisturbed`, `QueueCorrect` (Keyboard) | `PlaceIsReaders`, `ImplementsQueue` |
| Rings: `IndicesCorrect`, `WindowCorrect` (Klog) | `IndicesAgree`, `ImplementsWindow` |
| Files: `HandleKeepsFile`, `CopiesStayInside`, `PathsCorrect`, `RamfsKeepsPromise` | `HandleNamesItsFile`, `CopiesInBounds`, `PathFindsFile`, `ImplementsStore` |
| Modules: `BlocksCorrect`, `ListsCorrect`, `RelocationCorrect` | `BlocksAccountedFor`, `ModuleListsExact`, `RelocationsExact` |
| Heap: `HeapTypeCorrect`, `HoldersCorrect`, `CoalescingComplete` | `TypeOK`, `HoldersMatchBlocks`, `NoFreeNeighbours` |
| Heap: `BytesCorrect`, `PlacementCorrect` | `NoByteLost`, `BlocksPlaced` |
| KernelMain: `IdleKeepsIt`, `TaskListCorrect`, `FramesCorrect` | `IdleKeepsProcessor`, `TaskListWhole`, `FramesAccounted` |
| KernelMain: `TransferCorrect`, `ReadingCorrect`, `StampCorrect` | `TransferExact`, `ReadingIsTrue`, `DateAndStampAgree` |
| KernelMain: `ScreenCorrect`, `ParseCorrect` | `ScreenShowsCommand`, `ParseFindsWords` |
| KernelMain: `PromptKnowsDisks` | the safety half of `BootReachesPrompt` |

**PMM_proofs.** `IInv` is `TypeOK`, `FreeCountExact`, `HeldAreSafe` and `LoopInv`.
`FreeCountExact` is not inductive alone: the loop over the fallback range counts
a page without testing its bit, which is right only because the bits from the
loop variable on are still set, and bits beyond `total_pages` must stay set for
the scan of `pmm_alloc_page` to be complete. `LoopInv` says both, and which ranges
are reserved already. One lemma per action; `FreeSetChange` is the one fact about
cardinalities. `ScanInv` says more: which bits are clear at every point of
`pmm_init`, namely those of the pages that the loops have declared so far, less
the ones reserved so far. At the end these are `Usable`, what `PageAllocator` starts
from: the steps of `pmm_init` stutter (`InitStutters`), every later step is `Alloc`
of the lowest page, `Free` or a stutter (`AllocatorKeepsPromise`), and a page that
is handed out lies in an available region (`HandsOutRam`, from `DeclaredIsRam`,
the arithmetic of rounded addresses).

**Processes_proofs.** `IInv` is `TypeOK`, `RunningIsCurrent` and `VruntimeParity`.
A process is entered when its `vruntime` is 0; that it is never entered twice
(`NeverRestarted`) rests on parity: `vruntime` becomes 1 at the start and grows by
10 modulo an even number, so it stays odd. `ScheduleStep` shows what
`schedule_process` preserves for any states and run times it is called with, and
is used by tick, exit and dispatch. `SafeInv` adds `FreedNeverRuns` and
`KernelThreadInv`: until the first process runs, `sched_queue` and `proc_list` are
the same list up to the slot being added, so that what the kernel thread stores
through one it does not break in the other. `ZombiesNeverReturn` is the action
property over the steps of `SafeInv`. `ListInv` says that a sequence of distinct
slots lists `proc_list`; the walks of the code, recursive functions, follow it
(`ListFits` bounds its length by the number of slots).

**Rings_proofs.** For the keyboard `IInv` is `TypeOK` and `PlaceIsReaders`.
`QueueCorrect` is the refinement of `CharQueue`: a stored key is `Put`
(`StoreIsPut`), the last step of `keyboard_read` is `Get` (`AdvanceIsGet`, which
needs `PlaceIsReaders`), all other steps stutter. Lemmas `Wrap` and `Remainder`
remove `%` first. For the kernel log `KlogInv` is `KlogTypeOK` and
`IndicesAgree`; `WindowCorrect` is the refinement of `LogWindow`, with the cases
of a ring that is not full and one that is.

**AddressSpace_proofs.** `AddressInv` has four parts. `VmInv` is about memory:
types (`VmType`); each frame has one use, among directories, tables and user
pages, as long as no table allocation failed (`One`); a directory or a table
lies beyond the identity map only when no frame below is free (`Low`), because
`pmm_alloc_page` takes the lowest; and the kernel is lost only then, or when one
of its pages is not mapped to itself (`PanicInv`). `FramesHaveOneUse` is not
inductive alone: it lacks the types of entries and tables, that page 0 becomes a
table only when no frame is left, and that page 0, which such a table would take,
is not mapped for a user. `ProcInv` gives the types of the slots.
`Promised` says that the pages owed are mapped, and the last part is
`SegmentsLoaded`; while the machine boots, user pages are mapped to themselves
only (`Same`), which the framebuffer needs.
Operations are followed one by one, from `Touched` and `WithTable` up to whole
calls. `After` says what all of them but unmapping keep, `Unmapping` what that
one keeps, `Keeps` what a load leaves of the segments before it, and `Alike` that
an operation in which the kernel is lost has changed nothing else. A loop is
shown to exist and to keep these by induction over its turns (`UpTo`). The
arithmetic of pages that wrap around, of the pages of a segment and of the break
is in lemmas of its own (`SegPagesAre`, `BreakPages`), and so is the access to the
nine fields of `vm` (`Vm`, `FieldSet`), which the provers do not find by themselves.

**Files_proofs.** `FilesInv`: the tree has its types, the table of files is
`Sound` (no name twice; the size and the name of the node are those of the slot),
a handle names its file, and no copy has left its array. `TreeInv`: as long as
the tree is intact, the children of the root are a `Chain`, a finite list without
repetition on which `/ram` and `/proc` are, and a node that was never mounted is
not on it, which is why one more mount keeps it a list. `RamfsKeepsPromise` maps
the table to the map from names to contents (`ContentsOf`): create, delete and
write are its steps of the same name, whichever slot they find; all else
stutters.

**Modules_proofs.** `ListsInv` and `BlocksInv`: the blocks in use are those of the
registry and, twice as many as there are modules, those of the loader, each with
one owner; that the blocks are counted exactly needs that no two entries of the
list share one. `RelocInv`: the symbol table of an image that no load has touched
is as built, and an entry of the list was right when it was made. The second
half is stated about the entry alone, since later loads overwrite the symbol
table again.

**Heap_proofs.** `HeapInv` is `TypeOK`, `PagesInv` (pages of the heap lie below
all free pages, because `pmm_alloc_page` takes the lowest) and `ListInv`: once
`heap_init` has returned the list is `Good`, and its used blocks and what the
callers hold are one to one (`Hold`). `Good` says what the properties need and
what keeps it so: the blocks lie one after another (`Ordered`) and below every
free page (`Clear`), no two neighbours are free (`NoPair`), they are in the pages
of the heap (`Inside`) if these follow one another, and weigh as much as its pages
(`Weighs`) if no expansion was cut short. `Clear` is what `BlocksPlaced` lacks to
be inductive: the next expansion begins behind all blocks. One lemma for each
change of a list (replaced, parted, appended, merged) says what it keeps;
`SplitKeeps`, `GrowKeeps`, `ReleaseKeeps` and `MallocKeeps` put them together.
`heap_coalesce` and `heap_get_free` are recursive functions: that such a function
exists (`PassExists`, `TotalExists`) and what it computes (`CoalesceKeeps`,
`BytesAddUp`) are shown by induction on the length, which the library gives only
as the well-foundedness of `<` on the naturals; lemma `UpTo` is that induction
for a set of numbers.

**KernelMain_proofs.** The theorems are about the whole composition; a lemma per
component (`TaskSteps`, `AtaSteps`, `RtcSteps`) says which steps touch it.

- Tasks: `TaskInv`. While the kernel has the processor, `kernel_task` either heads
  a list of all tasks, none of which has ever run, or has exited and is alone;
  as no other task has less than `vruntime` 0 and ties go to the head of the
  list, `schedule` always selects it (`IdlePreferred`). The list is again a
  sequence that the walks follow. `FrameInv`: every task has the three
  frames that were lowest when it was created, so that no other frame lies between them
  and none that is free lies below.
- ATA: `DiskInv` follows a transfer sector by sector; a written sector is `pending`
  in the drive until it accepts the next command, so that only the last may be
  missing when the driver returns. `ProbeInv` ties the status register to the
  kind of the drive asked, and the drives known and counted to the loop variable.
- RTC: `ClockInv`. `After(x, y, n)` says that y is n seconds after x as far as less
  than a minute can tell, without any arithmetic on dates: the seconds modulo 60,
  and the other fields equal until the first carry and equal again from it on. Each
  pass over the registers is described relative to the time its first register
  was read (`ThisPass`, `LastPass`); two passes that agree (`EqualPasses`) can then
  have seen no carry, and the registers decode to a time the chip showed
  (`DecodedTime`, for all four formats). `StampInv` counts the seconds of a command,
  which takes two readings: an update of the chip is one second of the calendar
  (`NextSecondCounts`), so that what is shown lies between its beginning and now.
  An update that is under way when a command begins is over before the first pass;
  the invariant begins its count with it (`Began`). The recursive day count has a
  closed form (`DaysBeforeIs`, by induction on the years), and `CivilDays` shows that
  the arithmetic of `rtc_get_ticks`, with years that begin in March, computes it.
- Terminal: `TermInv`. `Shows` says that a text stands before a place of the screen,
  as far as it is on it, and blanks from there on. Each of the three parts of
  `vga_putchar` keeps it (`PutcharShows`): the text grows by a character, loses its
  last one, or is forgotten, for the empty text is shown by every screen that is
  blank from the cursor on. That is the half of the invariant that survives the
  output of a command; the next prompt (`WriteShows`, by induction on its length)
  gives the other half again. For the parser, what is left of the line after each
  walk is the line from some place on (`Rest`); the words the property finds by
  where they start are those that the walks find (`ParseIs`).

Only model-checked is liveness (`ReadsReturn`, `BootReachesPrompt`), which is out
of the prover's reach. Every safety property that a passing run checks is also
stated by a theorem.

## 5. Not modelled

Left out for good, as they keep no state that a property is about: the serial
line and drawing in the framebuffer, the dumps of panic and debugging, reads of
PCI, ACPI, CPUID and MP tables, descriptor tables, the programming of PIC, APIC
and PIT, string functions and number formatting, the search in the initial RAM
disk, the contents of `/proc`, directory and module listings, and user programs
(any order of system calls is allowed instead). `klog` formats into a buffer
without a bound (`klog.c:77`); the formatter is not modelled, so no property
shows it. Of the system calls, `open`, `close` and `write` pass on to functions
that are modelled; those that only read are left out.

Seen while modelling, and covered by no property, because constants or a comment
away from any state decide them or the code does not say what it intends:
`kcalloc` multiplies without looking for a wrap (`heap.c:169`); the page of the
initial stack pointer is not mapped (`process.c:83`); munmap and
`process_destroy` give no frame back (`syscall.c:218`); a process started by the tick
never acknowledges IRQ0 (`idt.c:57`, modelled by `irq0`); a sleeping system call
executes `hlt` with interrupts off (`timer.c:50`, modelled: the call never leaves
its wait); `apic_init` maps its registers before there is a page directory
(`main.c:75`); a file name of 64 characters is cut off when stored and not when
looked up (`ramfs.c:111`); `timer_ticks + delay` wraps after 49 days
(`timer.c:48`).
