# A TLA+ verification development of SeliOS

SeliOS is a 32-bit x86 hobby kernel: about 2,600 lines of C and assembler, one
CPU, no locks. Its concurrency comes from interrupts: the keyboard interrupt
runs the whole shell, and the timer interrupt may switch stacks between any two
instructions. This directory models the kernel in TLA+, checks the models with
TLC on small instances, and proves theorems about them with TLAPS.

Paths below are relative to the repository; `kernel/` is `src/kernel/`.

## 1. Inventory

| Component | State | Operations | Talks to |
|---|---|---|---|
| Boot, `kernel/kmain.c` | `matrix_active`, `fs_root`, RAM and kernel sizes | one straight line; lock-screen loop; idle loop | calls everything once |
| Threads, `kernel/thread.c`, `switch_task.s` | the circle of `thread_t`, `current_thread`, one stack for each thread | `init_threads`, `create_thread`, `create_user_thread` (never called), `thread_yield`, `switch_task` | heap; entered from the timer handler and from the tasks |
| Interrupt path, `interrupt.s`, `interrupt_handler.c`, `idt.c`, `pic.c`, `keyboard.c` | the IDT, the 8259's registers, the interrupt flag | stubs, dispatch, EOI | timer: `thread_yield`; keyboard: terminal; int 0x80 (nothing raises it) |
| Timer, `timer.c` | the PIT's divisor | `init_timer` | ticks |
| Tasks, `src/program.c` | none | loop: `sti`, test `matrix_active`, print and delay, or yield | console, `thread_yield` |
| Terminal, `terminal.c` | `input_buffer`, `buffer_len`, `shell_active`, `matrix_active` | `init_terminal`, `terminal_handle_scan`, `terminal_run_command` | runs in the keyboard interrupt; console, VFS |
| Console, `utils.c` | VGA buffer, `cursor_pos`, active colours | `putchar`, `printf`, `clear_screen`, ... | called from kmain, the tasks and the keyboard interrupt |
| Frame allocator, `memory.c` | `bitmap` | `init_memory`, `allocate_frame`, `free_frame` (never called) | heap, paging, processes |
| Heap, `alloc.c` | the free list in memory, `freep`, `heap_end` | `malloc`, `free`, `morecore` | frame allocator, paging; called by threads, RAM disk |
| Paging, `paging.c` | page directory, one page table, the TLB | `map_page`, `map_user_page`, `init_paging`, `create_user_page_directory` | frame allocator |
| Processes, `process.c` | `process_t` | `create_process` (not in the Makefile) | heap, paging, frame allocator |
| RAM disk and VFS, `initrd.c`, `fs.c`, `string.c` | node table, one static `dirent` | mount, read, readdir, finddir | heap; called by kmain and by `ls`, `cat` |
| RAM disk packer, `tools/make_initrd.c` | none | packs two files | its image is what `initrd.c` reads |
| Segments, TSS, `gdt.c`, `tss.h`, `user_mode.s` | constant tables | written once at boot; `enter_user_mode` (never called) | the CPU |
| Serial port, `serial.c`, `io.s` | the UART's registers | `serial_init`, `serial_write_char` with a busy wait | kmain, for one line |

What is hard, and what makes a component correct:

- **Threads and interrupts.** Interleaving of kmain, tasks, a voluntary
  `thread_yield` (with interrupts on) and the timer's `thread_yield`. Correct
  when every suspended thread can be resumed exactly where it was, nothing but
  a saved context is ever loaded, `hlt` is never entered with interrupts off,
  no wake-up is lost, every task gets the CPU and gives it back.
- **Frame allocator.** Boundaries (the kernel's last, partial frame; the end of
  RAM) and exhaustion. Correct when it hands out only frames nobody holds,
  nothing precious, and fails only when everything is held.
- **Heap.** Long sequences of splits and joins; a `morecore` that fails half
  way. Correct when blocks never overlap, a failure means that there is no
  free stretch that is long enough, and every call returns.
- **Terminal and console.** A line editor that writes through a colour-code
  filter and a scrolling screen, shared with printing tasks. Correct when what
  stands left of the cursor is what Enter will run.
- **Paging.** One page table for all directory entries (aliases), remapping
  without `invlpg`. The kernel's own pages and the heap's can stay only until
  the heap or a temporary address comes to their slots: correct when nothing
  moves them before.
- **RAM disk.** Bounds of `initrd_read`; packer and reader agree on a layout;
  a command from the keyboard interrupt may come in the middle of the mount.
- **Boot.** Devices are programmed while they run: the order of the bytes, of
  the tables and of the `sti`. Nothing reserves the memory the loader filled,
  and nobody tests what `malloc` returns.

PROJECT.json lists each hazard at its line, with the properties that cover it
or the reason why none does yet.

## 2. Plan

| Step | Modules | Status |
|---|---|---|
| 1 | `RoundRobin` (abstract), `Scheduler`, `SchedulerProofs` | done |
| 2 | `FramePool` (abstract), `FrameAllocator`; `BootProofs` | done |
| 3 | `StorageAllocator` (abstract), `Heap`, `HeapProofs` | done |
| 4 | `Console`, `Terminal`, `TerminalProofs` | done |
| 5 | `Paging`: page directory, shared page table, TLB, `create_process`; `PagingProofs` | done |
| 6 | `SharedScreen`: `putchar_color` load by load, the tasks and q; `SharedScreenProofs` | done |
| 7 | `Strings`, `FileStore` (abstract), `RamDisk` with the packer; `RamDiskProofs` | done |
| 8 | `Context`: the words on every stack, user threads, segments, TSS; `ContextProofs` | done |
| 9 | `BootMemory`: `FrameAllocator` under kmain, heap, RAM disk and threads; in `BootProofs` | done |
| 10 | `Devices`: UART, gates, 8259s and 8254 under kmain; in `BootProofs` | done |

Every safety property that a run checks, action properties and refinements
included, is now also a theorem; the liveness properties stay with TLC (section
5).

## 3. Modules

### Scheduler

`Scheduler.tla` starts at the lock screen with interrupts on. Variables keep
the source's names; `stack[t]` is the abstraction of a kernel stack: the frames
that a suspended thread has on it, a base frame (the forged frame of
`create_thread` or the one that a voluntary `thread_yield` leaves) and possibly
an interrupt frame on top. A stack pointer is a stack together with the frames
below it. `eip` is the program point of the thread on the CPU; for suspended
threads it is in the frames.

| Actions | Code |
|---|---|
| `LockScreen`, `Mount`, `init_threads`, `create_thread`, `publish_thread`, `init_timer` | `kmain.c:107-139`, `thread.c:13-51`, `timer.c` |
| `TaskSti`, `TaskTest`, `TaskPrint`, `TaskDelay` | the loop of `task_a` and `task_b` |
| `YieldPick`, `YieldFetch`, `YieldPublish`, `SwitchSave`, `SwitchLoad` | a `thread_yield` with interrupts on, memory access by memory access; the argument `current_thread->esp` and the store to `current_thread` come in either order, as `current_thread` is not volatile |
| `Raise`, `Interrupt`, `TimerHandler`, `KeyboardHandler` | the 8259, the gates and `interrupt_handler`; the gates are interrupt gates, so a handler is one action |

A handler that switches stacks leaves its own interrupt frame behind; the
thread that is resumed returns through `iret` (`RestoreInterrupted`) or through
`ret` into its loop (`RestoreYielded`). Loading anything else is
`RestoreBroken`, after which the CPU is at "crashed".

`RoundRobin.tla` is the promise: a CPU that goes round a circle, and threads
that stay exactly where they were. The refinement mapping reads a thread's
place off the CPU or off its saved frames. `lock`, `lockHlt` and `asleep` are
three points, since an interrupt between the test of `shell_active` and the
`hlt` is the classic lost wake-up. `shell_active` is not volatile; the model
re-reads it in every turn of the loop. The `asm volatile` in the loop does not
oblige the compiler to do that (it names no memory), GCC does it.

The parameter `FastTyping` says whether the user may complete the command
`matrix` while the idle tasks are still yielding. With `FALSE` (nobody types
that fast: the tasks give the CPU back within microseconds) everything below
holds. With `TRUE` it does not: see the findings.

### Frame allocator

`FrameAllocator.tla`: a byte of the bitmap is the set of its one bits. `held`
is the callers' knowledge. `free_frame` has no caller in the kernel; in the
model only a holder gives a frame back. `FrameAssumption` states what the code
takes for granted: the RAM that GRUB reports has a bit in the bitmap (128 MB),
and so has the kernel's end. `FramePool.tla` is the promise.

### Heap

`Heap.tla` follows `alloc.c` statement by statement where it loops: one test of
the search loop, one page of `morecore`, one test of `free`'s loop for each
action. `ptr` and `size` are the headers in memory, at every address, so stale
and overwritten headers are there as in the machine; a caller writes over all
of its block but the header. `held` and `arena` are not in the code: the blocks
callers hold, and the pages that reached the free list. Pages mapped before
`allocate_frame` fails never reach it: the code leaks them, and so does the
model. `HeapAssumption` excludes requests that wrap around 2^32.

`StorageAllocator.tla` is the promise: a block of enough units in memory nobody
holds, growth only for a request that no free stretch serves, and failure only
when there is still none.

### Console and terminal

`Console.tla` has the operators of `utils.c` on a screen (cells and
`cursor_pos`); `Terminal.tla` the shell. A key is what `kbd_map` makes of a
scancode; a key is one action, as the keyboard interrupt is not interrupted.
A task is split at its test of `matrix_active`, so that one may still print
after q. Commands that only print are one command. Two simplifications are
named in the module: no key is hit in the instant in which a task still prints
after q, and `matrix` is not run before the first prompt (`Patient`);
`init_terminal` is one step. A character is printed in one step here;
`SharedScreen` takes it apart.

`SharedScreen.tla` is `putchar_color` in the loads and stores of `cursor_pos`
that GCC makes of it, by several tasks between which the timer switches
anywhere. `hits` counts the interrupts that struck inside it, `stale` are the
tasks that lost the CPU between their test of `cursor_pos` and their store;
neither is in the code. q is one step, in its interrupt. The cells, the delay
loops and texts with colour codes in files are left out; commands come in
kmain's idle loop.

### Paging and processes

`Paging.tla`: a page is a part of the address space (the identity map, the
kernel's from 0xC0000000 on, the heap's from 0xC0400000 on) and a number in it,
of which `pd_index` and `pt_index` take the directory entry and the slot of the
page table. `map_page` enters its one table wherever it is asked to, so pages
with the same slot are the same entry: the heap's pages come to the slots of
the screen (184), the kernel (from 256 on) and the temporary addresses, and
after 1024 pages to their own. `first_page_table` and `page_directory`
keep their names; `tlb` is external: an access fills it (`Reach`, `Touch`), the
CPU may drop an entry at any time (`Evict`), and only loading CR3 empties it.
`ram` holds what was written into frames as directories and tables, `given` the
frame `morecore` got for each page of the heap, `asked` what `create_process`
asked `map_user_page` to map.

| Actions | Code |
|---|---|
| `init_paging`, `GrowHeap` | `paging.c:69-99`, one page of `morecore` |
| `create_user_page_directory`, `ClearDirectory`, `LoadCR3`, `AllocatePage` | `paging.c:121-152`, `process.c:20-61` |
| `FindTable`, `ZeroTable`, `BenchTable`, `WriteEntry` | `map_user_page`, split where the TLB matters |

Every failing `allocate_frame` takes the path the code takes, also where the
code does not test it (a directory, a table or a stack at frame 0). The model
lets `create_process` go on even when its own temporary mapping has moved a
page of the kernel (see the findings); a real run may end there. `process.c`
is not in the Makefile, and nothing calls `create_process`.

One assumption on the constants, `PagingAssumption`: the frames that
`allocate_frame` hands out are neither frame 0 nor the kernel's, which
`FrameAllocator` establishes; nothing of the kernel lies above 4 MB; and all
frames together, 128 MB at most, are fewer than the pages from 0xC0400000 to the
end of the addresses. So `GrowHeap` has the guard that `morecore` has, a frame,
and no other.

### RAM disk

`Strings.tla` has `strcpy`, `strncpy` and `strcmp` on arrays of characters.
`RamDisk.tla` goes from `make_initrd.c` to the screen: the packer writes an
image of two files (or of files it cannot open), kmain finds GRUB's module and
mounts it store by store (`MakeRoot`, `MakeNodes`, `FillNode`, `Publish`), and
`ls`, `cat` and the calls of `fs.c` read it. The shell runs in the keyboard
interrupt, and it is unlocked before the mount, so a command may come between
any two of these stores; it is one step. Of the image, headers are records and
all behind them characters; offsets keep their 32 bits (`WORD`).
`FileStore.tla` is the promise: a list of files that appears in one step.

### Context

`Context.tla` is what is on the stacks, word by word: what the CPU pushes, what
the stubs of `interrupt.s` and `switch_task.s` push and pop, what
`interrupt_handler` reads there, and what `create_thread` and
`create_user_thread` forge. `Scheduler` has the order of the switches,
`Context` their contents. A word is tagged with what it is (a number, EFLAGS, an
address in somebody's code or stack, somebody's `esp` field), and code that
takes one for something else finds no such tag. `interrupt_handler` takes its structures by value, so
GCC may store arguments of a last call there: `Outgoing` has both outcomes.
`left` is what a thread had when it left its code, `back` how it has come back;
neither is in the code. Segments and gates are their privileges, from the
access bytes. A thread computes something between two entries into the kernel;
a voluntary `thread_yield` is not interrupted here (`Scheduler` has that); the
show starts only from kmain's idle loop, with all its threads created
(`ContextAssumption`: there is at least one). `Deepest` bounds how deep a stack
gets, which the proof establishes.

### Boot

`BootMemory.tla` puts kmain on top of `FrameAllocator` (`EXTENDS`, its actions
are conjuncts of kmain's; `BootInit`, `BootNext` and `BootSpec` are the whole
machine's): the pages that the loader has filled begin right
behind the kernel (in QEMU, the list of modules and then the image); `Spare`
are the two frames that kmain takes and leaves; `Grow` and `MapPage` are
`morecore` under the four requests of boot, `OutOfFrames` the `NULL` that
`initrd.c` and `thread.c` do not test, and `Frame` where such a `NULL` leads
through the page table. Whether a free block serves a request is left open:
that is `Heap`'s matter. `link.ld` puts the kernel at the end of the low
memory, and the screen's frame lies below it, where a `NULL` that is written
through leads if one goes far enough; `BootMemoryAssumption` says so.

`Devices.tla` has kmain's code as data, a sequence of port writes and other
instructions, and the devices as state machines that a write moves: the 16550
with its latch bit, the two 8259s with their four initialisation words, the
8254 with its two bytes. The greeting goes through `printf` and `putchar`, which
keep colour codes to themselves (`DevicesAssumption`: it has none). The devices run on: characters leave the port, the
timer ticks, keys come, at any moment of the boot. They are external, modelled
after what the code's own comments and the data sheets it cites say of them.

## 4. Runs

| Run | Properties | Bounds |
|---|---|---|
| `scheduler` | `TypeOK`, `ContextIntegrity`, `NoCrash`, `NeverSleepsDeaf`, `ImplementsRoundRobin`, `EveryTaskPrints`, `HaltReturnsControl`, `ShellWakes` | three tasks: one more than the code's, so that a circle of four shows wrong links; nothing else is bounded |
| `scheduler_fast` | `ContextIntegrity`, violated with `FastTyping` | two tasks |
| `frame_allocator` | `TypeOK`, `NothingPreciousHandedOut`, `ImplementsPool` | 16 bits in two bytes, 13 frames of RAM and a part of one, three low frames, a kernel that ends one byte into its second frame |
| `heap` | `TypeOK`, `FreeListExact`, `ImplementsAllocator`, `CallsReturn` | pages of two units, three frames; requests of 1, 2, 3 and 5 units: less than a page, a page, and two that need several pages, so that a morecore fails with no page or with some mapped, and up to six blocks join on either side |
| `terminal` | `TypeOK`, `LineInSync` | a screen of four rows of four, a line of three characters: every text wraps, and the screen scrolls at every position of the line |
| `paging` | `TypeOK`, `KernelMapped`, `HeapMapped` | five slots: two that only the heap uses, the screen's, the kernel's (which is also the temporary address, as slot 256 is in the machine), the workbench; six frames, of which other callers hold any: the heap takes every slot in turn and its own first one again, and there are exactly enough for one page of heap and a whole process with one page and a stack |
| `ram_disk` | `TypeOK`, `MountedWhole`, `ImplementsStore` | names of up to three characters, of which one is the beginning of the other; files that are empty, shorter, longer than `cat`'s buffer of three, with a zero inside, or missing; reads at and behind every end |
| `context` | `TypeOK`, `RegistersKept`, `PlaceKept`, `SystemCallServed` | kmain, a kernel thread and a user thread: every pair of kinds is switched in both directions, in the timer and voluntarily; two values in each register |
| `context_key` | `RegistersExact`, violated | the same |
| `shared_screen` | `TypeOK`, `CursorCreep`, `HardwareCursor`, `ColourRestored` | two tasks, a screen of two rows of two, three interrupts inside `putchar_color`: one more than tasks, so that a bound by the tasks would fail |
| `boot_memory` | `BootTypeOK`, `ImageKept`, `KernelKept` | 16 bits, 12 frames of RAM and a part of one, of which three are free for the heap: memory runs out at the nodes, a thread or a stack, with no page or with some mapped; up to three pages behind the kernel, up to four files, whose nodes at `NULL` reach up to the screen's frame |
| `devices` | `DevicesTypeOK`, `EveryInterruptHasAGate`, `SerialInOrder`, `RightRates`, `GreetingSent`, `KeysRead` | kmain's own port writes; a greeting of three characters on a queue of one, so that a forgotten wait shows; keys at any moment, also before the first word to the 8259 |

What each of them shows is in PROJECT.json, run by run. A run takes seconds;
`scheduler` takes a bit more than a minute.

No run has a state constraint: all state spaces are finite by themselves, but
for `SharedScreen`, where `MaxHits` in the guard of `Strike` bounds how often an
interrupt strikes (the proofs have no bound).
The run of `Paging` does not check for deadlock: `create_process` ends.

**Fairness** (`FairSpec` of `Scheduler`). The PIT never stops, so the timer is
raised again and again; a handler, once entered, runs to its end. A thread or
a pending interrupt gets strong fairness: it is disabled whenever another
thread runs or the flag is off, and a thread that gets the CPU for a slice of
10 ms executes some of its instructions. Keys are never fair: nobody has to press one. In
`Heap`, a call that has begun is executed (weak fairness of `Step`). In
`Devices`, the CPU and the UART go on, an interrupt that is let through again
and again is taken (its line stays up), and `SlowTimer` says that handlers are
shorter than the timer's period: the CPU is out of handlers with no tick
waiting again and again. Without it, ticks could starve the keyboard's line.

### Findings

Two disagreements between the code and its documentation are runs, in code that
runs on every machine:

1. `ContextIntegrity` under `FastTyping` (`scheduler_fast`): `thread_yield`
   stores `current_thread` before the old context is saved, with interrupts on
   when a task calls it. If `matrix` starts in that window, the timer saves the
   task's stack pointer in the wrong thread. The window is small, as the idle
   tasks yield only until kmain is back in `hlt`; a `cli` around the voluntary
   yield closes it.
2. `RegistersExact` (`context_key`): a key gives the interrupted code back with
   another EBP, since GCC stores the argument of the last call,
   `pic_acknowledge(33)`, over the saved registers that `interrupt_handler` got
   by value. What each path does keep is `RegistersKept`.

The other configurations are experiments on cases that the runs above leave
out: with a larger parameter, with code that nothing calls yet, or with a
comment of the code stated as a property. Each of them ends with its property
violated, and the trace shows how.

| Configuration (module) | Property | What the trace shows |
|---|---|---|
| `SchedulerInstant` (`MCScheduler`) | `KilledInstantly` | `terminal.c:44` says "Kill the threads instantly": a task between its test of `matrix_active` and its `printf` prints once more, over the fresh prompt |
| `TerminalTab` (`MCTerminal`) | `BackspaceErasesInput` | a Tab is stored in `input_buffer` but swallowed by `putchar` as a colour code; the next Backspace erases the prompt or a character that is still in the buffer |
| `PagingHeap` (`MCPaging`) | `MappedForGood` | `morecore` stops only when there is no frame: the 185th page of the heap takes the slot of the screen, the 257th that of the kernel's first page (`KernelMapped` says that nothing happens before) |
| `PagingTemp` (`MCPaging`) | `SafeAddress` | the "safe virtual address" of `paging.c:130`, 0xC0500000, has the slot of 0xC0100000, the first page of the kernel, in the only page table: creating a process moves that page |
| `PagingBench` (`MCPaging`) | `UserMapped` | the workbench 0xC0600000 is remapped without `invlpg`: blanking the stack's page table through the stale entry erases the table of the program's pages |
| `RamDiskWrap` (`MCRamDisk`) | `ReadStaysInFile` | `initrd_read` adds offset and size in 32 bits, and a size near 2^32 passes its test; no caller asks for that |
| `RamDiskCat` (`MCRamDisk`) | `CatShowsPayload` | `cat` reads once into 256 bytes; the rest of a longer file never appears |
| `ContextUser` (`Context`) | `UserThreadInRing3` | `create_user_thread` forges a frame for `iret`, and `switch_task` enters it by `ret`, in ring 0; nothing calls it yet |
| `ContextRing3` (`Context`) | `UserModeHearsInterrupts` | nobody stores `esp0` and `ss0` into the TSS: the first interrupt in ring 3 is the end; nothing calls `enter_user_mode` yet |
| `SharedScreenHalt` (`MCSharedScreen`) | `HaltKeepsCursor` | a task that q has interrupted between its load and its store of `cursor_pos` takes the cursor back into the show after the halt message |
| `SharedScreenCursor` (`MCSharedScreen`) | `HardwareCursorAlways` | q strikes between the index and the data of the last write of `fb_move_cursor`; the task then sends its stale byte after the cursor of the new prompt, and the hardware cursor stays wrong |
| `BootMemoryLarge` (`BootMemory`) | `ImageKept` | with four pages behind the kernel: the frames that the loader has filled are not reserved, by luck the first three are never written |
| `DevicesEarlyKey` (`MCDevices`) | `EveryKeyRead` | a key between the loader's last look at the keyboard and `pic_init` leaves the line high, ICW1 forgets its edge, and nothing reads the key away: the keyboard stays silent (on a real 8259; emulators may recover with the next key). `KeysRead` is about every key that the 8259 has heard since its ICW1 |
| `DevicesOthers` (`MCDevices`) | `EveryInterruptHasAGate` | `pic_init` opens all lines, `init_idt` has gates for two of them |
| `DevicesSpeed` (`MCDevices`) | `LineSpeed` | both bytes of the divisor go to the same register; the speed is 38400 baud only where the firmware has left zero in the other |

Some limits of the code are assumptions of the models, and no configuration
goes beyond them. RAM beyond 128 MB has no bit in the bitmap (`memory.c:43`,
`FrameAssumption`). `free_frame` clears the bit of any address; nothing calls
it (`memory.c:32`). A request near 2^32 bytes wraps (`alloc.c:68`,
`HeapAssumption`). `init_terminal` resets the
line editor while the keyboard may be editing (`terminal.c:30`; one step in
`Terminal`). `shell_active` is not volatile (`kmain.c:107`; the model re-reads
it, as GCC does).

## 5. Proofs

All theorems are checked by TLAPS without any fact taken on trust.

`SchedulerProofs.tla` proves for every number of tasks the safety
properties and the refinement that `scheduler` checks for three. Its assumption beside `SchedulerAssumption` is `SlowTyping`
(`FastTyping = FALSE`), without which the first finding refutes
`ContextIntegrity`. The properties are not inductive: that the timer's yield
saves into the right thread needs `current_thread = cpu` whenever a show runs,
which needs that the show only starts while kmain is settled and that a
voluntary yield in progress implies either no show or a `current_thread`
consistent with its window. `IInv` states that: the shape of the circle, who
`current_thread` is at each program point, what the registers of a yield in
progress hold, and which stacks hold which frames. `Refinement` then maps each
action to `Run`, `Spawn`, `HandOver` or a stutter.

`BootProofs.tla` proves all three properties of `frame_allocator` for every
bitmap, frame size, RAM size and kernel that `FrameAssumption` admits.
`BitmapInv` says that a bit is one exactly when its frame is held or unusable;
it rests on lemmas about setting one bit and about the loops of `init_memory`,
and on the arithmetic of addresses (the inclusive, rounded-up end of the
kernel's frames).

`PagingProofs.tla` proves the three properties of `paging` for every number of
slots and frames and wherever kernel, screen and temporary addresses lie, under
`PagingAssumption` alone. `KernelMapped` and `HeapMapped` say both when a page is
mapped and when it is gone, and neither is inductive. The TLB must not know a
page before it is mapped; what overwrites a slot must be another frame than the
one before, which `FrameInv` gets from the frames that are free, the heap's and
the process's being apart; and the temporary pages are remapped through a table
that the flow of control has to have reached. `IInv` says which part of
`create_process` has mapped what (`FlowInv`, `TableInv`). `HomesKept` says once
which slots a mapping leaves alone, `TemporaryPages` and `TemporaryAccess` that
the temporary pages disturb no others; lemmas on residues (`Divided`, `Apart`,
`Round`) say which pages of the heap share a slot. That the heap never comes to
the end of the addresses is `CountInv`: its pages and the free frames together
are never more than the frames there were, so a frame to take leaves a page to
map (`RoomLeft`). Then there is one lemma for each action.

`RamDiskProofs.tla` proves `TypeOK` and `MountedWhole` of `ram_disk` for every
image, name and memory: `Progress` says how many nodes are filled at each point
of the mount, and commands leave the mount alone. `Refinement` proves
`ImplementsStore` from the same invariant. The strings of `initrd.c` are arrays
with a zero somewhere, those of `FileStore` sequences; `Holds` ties one to the
other, and lemmas on `strcpy`, `strncpy` and `strcmp` say what they do to it, so
that the name which the packer cut to its field is the one `finddir` finds.
`ReadPart` says that what `initrd_read` takes out of the image is the asked part
of the file, clipped at its end, although offsets are those of the image and
wrap at 2^32; `Buffer` what `cat` prints of it. The hypothesis `RequestsFit`
(offset and size of a read do not wrap) is needed: without it `RamDiskWrap`
refutes the promise.

`SharedScreenProofs.tla` proves all four properties of `shared_screen` for any
number of tasks, any text and any number of interrupts. `CursorCreep` is not inductive: a
task that lost the CPU behind its test may take the cursor one cell further at
any later time. What the cursor has crept and what the stale tasks still may
add (`Owed`, the cardinality of `stale`) is never more than the interrupts that
struck have paid for (`Paid`), and a test that is not stale still holds
(`FreshTest`). `HardwareCursor` rests on `Undisturbed`: as long as no interrupt
has struck inside `putchar_color`, at most one task is in it (`Alone`), and the
two bytes that the cursor's registers lack are those that this task still has to
send (`Sent`). `ColourRestored` is about what comes, not about what is:
`Closing` says that as long as the colour is green, some task's text has a grey
ahead, or the show is on and q will print its own. For that `ColourAssumption`
says of the tasks' texts what is in `program.c`: every green is followed by a
grey.

`BootProofs.tla` goes on to kmain on top of the allocator, whose invariant
carries over. It proves `BootTypeOK` and `KernelKept` for every memory, kernel
and image, and `ImageKept` for an image of at most three pages behind the kernel (with
four, `BootMemoryLarge` refutes it). `BootInv` says that the frames up to the kernel's
end and the two behind it are taken before the heap takes its first, since
`allocate_frame` finds the lowest free frame and nothing is freed; so all pages
of the heap lie above. `FewFiles` is assumed: the RAM disk's nodes are smaller
than the memory below the screen, where they are written when `malloc` returns
`NULL`, and a node and a `thread_t` are no larger than a page. It is just enough
that neither the screen's frame nor the kernel's is reached.

`HeapProofs.tla` proves `TypeOK`, `FreeListExact` and `ImplementsAllocator` for
every page size, number of frames and set of requests, from `HeapAssumption`
alone. That the list is exact between two calls says nothing of the middle of a
call, and the loops walk through links that are stored in the blocks
themselves. So `IInv` fixes a set of blocks and says that at every step they
are a `Circle`: they do not touch (`Apart`), they consist of the units that
nobody has at that moment (`Covers`, `Spare`), and every link leads to the next
one up (`Linked`). Beside it stand how far the heap has grown and what a
failing `morecore` has left (`Growth`), the block that `free` has in its hands
(`Argument`), the intact headers of the callers' blocks (`Blocks`) and where
the loops are (`Pointers`). Three lemmas on circles, whatever they are made
of, carry the pointer surgery: `TakeOut` and `Shorten` for `malloc`, `Attach`
and `JoinIn` for the four ways in which `free` joins a block to its
neighbours; `SameCircle` says that what callers write in their blocks does not
matter. The refinement needs more: `Searched` says that the blocks between
`freep` and `prevp` were tested and found small, so that the whole circle was
when the search is back; and by `InOneBlock` a free stretch lies in one block,
since no two touch. So no stretch is long enough when the heap grows or `NULL`
is returned.

`TerminalProofs.tla` proves `TypeOK` and `LineInSync` for every screen, line
length, number of tasks and set of texts that `ConsoleAssumption` and
`TerminalAssumption` admit, if what is echoed is visible (`Echoed`: no key is a
colour code; with a Tab, `TerminalTab` refutes it). `IInv` says that the line,
with as many digits behind the prompt as tasks have printed late, stands left
of the cursor at every step outside the show, before the boot as after it, and
that the show and its last digits come only with an empty line. `printf` goes
through a text with a recursive function, and `Least` (a set of natural numbers
has a least element) takes the place of induction: `Printing` and `PromptShown`
look at the first character at which they would fail.

`ContextProofs.tla` proves the four properties of `context` for any number of
threads of both kinds and any values in the registers. None is inductive: that a
register comes back after a tick says nothing of the many steps for which its
value is on a stack that others do not touch. `IInv` says what is on every
stack at every step, word by word. A thread's own part (`Base`) is empty, or the
rest of a forged `iret` frame; the stack of one that is away (`Suspended`) is
the one `create_thread` forged, or on its `Base` the return address of a call
(`Called`) or an interrupt's frame (`Interrupted`), and on that what
`switch_task` has pushed (`Asleep`). `Running` says which of these the CPU
stands on in the handler, in `thread_yield` and on each of the two ways back,
and which saved registers are still the ones that `left` has, after what GCC may
have stored over them (`OutgoingIs`). For each frame a lemma says what each of
its words is, and what is left when it is popped; that the pops of a frame find
their own words is then what the actions' lemmas show. `SystemCallServed` is an
action property and follows from the same invariant, since `cpu_state` is read
off such a frame. That the circle of threads is one circle is in `TypeOK` as a
closed set that is all there is, and it gives that `thread_yield` never switches
to the thread it comes from (`NobodyAlone`).

`BootProofs.tla` ends with kmain and the devices, and proves the four safety
properties of `devices` for every greeting, room in the transmit queue and
frequency. The code is a sequence there, so the first lemmas take it apart:
`Programme` says which instruction stands at each place, `Decode` and `Ports`
what a place can be from which an instruction is executed. Then `DevicesInv`
can say for each register what it holds at each place: the divisor's low byte
and the latch bit (`SpeedByPlace`), the four words of each 8259
(`ControllersByPlace`), the gates and tables (`TablesByPlace`), the bytes of the
count (`CountByPlace`). `SerialInOrder` is not inductive: a write could find the
queue full. `SentByPlace` says how many characters are written when kmain is at
a place, and that the queue is empty between a wait and its character; hence
each finds room. `OnlyOurs` says what each 8259 may have been asked for, and
`TakenFirst` and `TakenBehind` which vector the CPU is then given: 32 or 33,
with its gate, since interrupts are off before both stand (`Quiet`).
`DevicesTypeOK` and `SerialInOrder` need no hypothesis, and hold of any firmware
and lines. The two others say where they stop: `EveryInterruptHasAGate` is for
the timer and the keyboard (with another line, `DevicesOthers` refutes it);
`RightRates` for a firmware that has left no high divisor (else `DevicesSpeed`
refutes it) and a frequency above 18, below which the count does not fit in the
16 bits that `set_pit_count` sends.

A caution for whoever extends the proofs: the SMT translation of tlapm 1.4.5 may
identify two record literals that stand at different quantifier depths in one
obligation (for two constants a and b that are declared next to each other,
`[d |-> 1, s |-> a] # [d |-> 1, s |-> b]` and, under `\A k \in S`,
`[d |-> 1, s |-> k] # [d |-> 1, s |-> b]` prove `FALSE`). `PagingProofs` therefore opens the definitions of the pages
only in the lemma `Addresses`, one literal at a time. It also takes
`DOMAIN s = 1 .. n` and `Len(s) = n` for the same fact of every `s`, and
`Len(s) >= 0` with it, so that `Len` next to a function on another domain than
`1 .. n` proves `FALSE`: `Printed` therefore counts from 1, and `Cell` stays
closed where lengths occur. Three tests guard against a leaf that rests on
either: no leaf of the proof modules proves `FALSE` in place of its goal, but
for those inside proofs by contradiction and in cases that cannot be; the proofs still pass when unused
constants and variables are declared between the ones of the specifications,
which changes every index the translation confuses; and the obligations about
sequences, in `TerminalProofs`, `BootProofs`, `SharedScreenProofs`,
`RamDiskProofs` and `ContextProofs`, are still proved when the second axiom is
cut down to its sound direction. The prover also does not open `:>` and `@@`:
`Context` has `With` for them.

Model-checked only: the liveness properties (`EveryTaskPrints`,
`HaltReturnsControl`, `ShellWakes`, `CallsReturn`, `GreetingSent`, `KeysRead`;
liveness under fairness is outside the prover's reach).

## 6. Not modelled

Of `create_process`, the last copy of the program into its pages. Of
`utils.c`, `print_hex` and the colours of cells; of `kmain.c`, the drawing of
the lock screen and the dead code behind the idle loop. The encodings of the
descriptor tables and the flat bases and limits of the segments; of the
loader, only where it leaves memory. Exceptions have no gate, and the model has
none either: what would raise one ends in `crashed`, `dead` or `up = FALSE`.
`multiboot.h` declares many fields of which kmain reads four. The `Makefile`,
`link.ld` (but for the kernel's address), `user.ld` and the toolchain script
are not part of the running system.
