# A TLA+ verification of MSDOS for iOS (DOSPad / DOSBox)

The repository is DOSPad: an iOS front end (`src/dospad`) around the DOSBox
emulator (`src/dosbox`), on top of vendored SDL, SDL_net, Mongoose and minizip.
This directory models the parts of it whose correctness depends on the order of
many steps, model-checks them with TLC on small instances and proves, with
TLAPS, what matters most for every instance.

Contents: [inventory](#1-inventory) · [the models](#2-the-models) ·
[the runs](#3-the-runs) · [fairness](#4-fairness) · [the proofs](#5-the-proofs) ·
[disagreements with the code](#6-where-the-code-and-what-is-said-of-it-disagree) ·
[what is not modelled](#7-what-is-not-modelled) · [plan](#8-plan)

In paths below `dosbox/` stands for `src/dosbox/src/`.

## 1. Inventory

The emulator is one thread: `Normal_Loop` (`dosbox/dosbox.cpp`) alternates
between `PIC_RunQueue`, which calls the event handlers of the devices and starts
interrupts, and a processor core that runs the emulated program for a slice of
cycles. Everything else is reached from there: port handlers and callbacks from
the core, device handlers from the queue, the DOS kernel and the BIOS from
callbacks. What is concurrent is the *emulated* machine: interrupts nest in
handlers, events run between any two slices, a program may do anything between
two of them. On iOS the emulator's thread is the main thread of the app.

| component | state | operations | works with | what makes it correct |
|---|---|---|---|---|
| DOS memory arena, `dos/dos_memory.cpp` | the chain of memory control blocks (inside the memory it manages), strategy, link state of upper memory | allocate, resize, free, end of a process, build, link and unlink UMBs | INT 21h, `DOS_Execute`, XMS (UMBs), LOADFIX | the blocks tile the memory; no call about one block touches another; reported sizes can be had |
| interrupt controllers, `hardware/pic.cpp` | request, mask and in-service flags of 16 lines, the cached word `PIC_IRQCheck`, the cached active line, registers of two chips | raise, lower, mask, ICW and OCW commands, `PIC_runIRQs` | all devices, the processor's flag | caches tell the truth; priorities are kept; no line is lost or blocked |
| BIOS interrupt handlers, `cpu/callback.cpp`, `ints/bios.cpp` | the frames on the program's stack | the handlers of lines 0, 1, 8, 9, 12 | controllers | each ends its own interrupt and no other |
| event queue and ticks, `hardware/pic.cpp`, `Normal_Loop` | a pool of 512 entries in two linked lists, cycle counters, the entry whose handler runs | add, remove, run, tick | all devices, processor cores | no entry lost or used twice; handlers run in order and on time |
| keyboard controller, `hardware/keyboard.cpp` | ring of codes, port 60h, one timer event, repeat, command state | key, tick, transfer, port reads and writes, clear | mapper, event queue, line 1, BIOS | codes come in order, one at a time, and never stop coming |
| page allocator, XMS, EMS, VCPI: `hardware/memory.cpp`, `ints/xms.cpp`, `ints/ems.cpp` | links of the pages above 1 MB, handle tables | allocate, resize, move, copy, exchange, free, lock | INT 67h, the XMS entry point | a page has one owner; contents survive moves |
| BIOS keyboard, `ints/bios_keyboard.cpp` | shift flags, prefix and pause flags, the ring at 40:1E | INT 09, INT 16 | keyboard controller | a break code undoes its make code; the ring never overruns |
| life cycle, `src/dospad/Shared/AppDelegate.m`, `main.m`, `DosEmuThread.m` | the pause flag, the command history | pause, resume, save, load | `GFX_Events`, the shell | a resumed app runs again; the history survives |
| DOS processes, `dos/dos_execute.cpp` | the PSPs, environments | exec, terminate | arena, files | a process that ends leaves nothing, and takes nothing from others |
| DOS files, `dos/dos_files.cpp`, `dos/dos_classes.cpp` | handle tables of the processes, table of open files with counts | open, close, dup, force-dup, inherit | drives, PSP | counts equal the handles; no handle outlives its file |
| FAT images, `dos/drive_fat.cpp` | allocation table, directory, one sector buffer and copies of length and first cluster in every handle | create, open, read, write, seek, truncate, close, unlink, rename | DOS files | chains end and share no cluster; a handle touches the sectors of its file only |
| mixer, `hardware/mixer.cpp` | a ring of samples, counts of samples done and needed, of the ring and of each channel | tick, fill up, enable, audio callback | SDL's audio thread, sound cards | each sample is played once, and the counts of the two threads agree |
| timer, `hardware/timer.cpp` | three counters and their latches | port writes, event | event queue, line 0, speaker | counts are monotonic within a period |
| DMA, drives, CD-ROM, shell, processor cores, video, sound chips, mouse, serial ports, mapper, configuration, views, vendored code | | | | formats, instruction semantics or drawing; see section 7 |

What is hard in this code, and where a unit test would hardly look:

* **Long sequences of legal calls.** The arena and the page allocator keep their
  structure in links that every call rewrites; a size off by one at a split shows
  many calls later, as a header read from program data.
* **Nesting.** Interrupts that end in another order than they began; an EOI that
  ends the interrupt of somebody else; masks that change under raised lines.
* **Re-entrancy.** Handlers add and remove events while `PIC_RunQueue` walks the
  very queue, holding an entry that is in neither list.
* **Cached conditions.** `PIC_IRQCheck`, `PIC_Special_Mode`, `PIC_IRQActive`,
  `scheduled`, `p60changed` are copies of what could be computed, each
  assigned in several places.
* **Limits.** A full pool, a full ring, no free page, a slice of no cycles, the end
  of a millisecond that an instruction overruns.
* **Shared things with copies.** Handles of several processes on one file, with a count
  each; handles on one FAT file, each with a buffer and a length of its own.
* **A real second thread.** The audio thread takes samples from the ring the
  emulator fills; `Enable` changes a channel before it takes the lock.
* **Waiting.** The chain event → interrupt → read → next event of the keyboard, and
  the pause of the app, which waits on the thread that would end it.

`PROJECT.json` lists the hazards at their lines with the properties that cover
them, and why the rest is not covered.

## 2. The models

### DosMemory, MemoryLoops, MemoryArena, MCDosMemory — `dos_memory.cpp`

`mcb` maps the segment of each header on a chain to its type (`M`/`Z`), owner and
size, exactly the fields in emulated memory: where a block ends follows from the
size alone, so a wrong size is a wrong tiling. One action per entry point:
`AllocateMemory`, `ResizeMemory`, `FreeMemory`, `FreeProcessMemory`,
`SetMemAllocStrategy`, `BuildUMBChain`, `LinkUMBsToMemChain`; `SwitchProcess` is
`dos.psp(x)`. Compressing is part of the calls that do it. `ret` is what the last
call told its caller, which properties such as *a size that was reported can be
had* are about.

The loops are closed forms (`Compress`, `Chosen`, `LargestFree`), so that they can
be proved about. `MemoryLoops` holds the loops themselves, that of `DOS_CompressMemory` and
the search of `DOS_AllocateMemory`, turn by turn, with the local variables of the code in a
record; `LoopsAgree` says that they end and do what the closed forms say. The run compares
them in every reachable arena, and `DosMemoryProofs` proves it.

`MemoryArena` is the abstract specification: a set of reservations that never
overlap, and that only calls about them change. `ImplementsArena` maps the blocks
that are not free to it.

Abstractions: segments are scaled down; MCB names and the PCjr layout are left
out. Programs resize blocks of programs and free blocks that are not DOS's own:
the code does not check either, and what it does to a program that breaks this rule
is not a property of the arena.

### PicIrq — the controllers of `pic.cpp`

The flags `irqs[i].active/masked/inservice` are sets of lines; `PIC_IRQCheck` is
the set of the bits of that word, `pics` the registers of both chips. Devices
raise and lower lines at any time; a program writes any mask and the commands of
`Commands` in any order. `pc` says whether the emulator is in its loop, runs the
program, or has ended by `E_Exit`. `RunQueue` is the call of `PIC_runIRQs` that
ends `PIC_RunQueue`; every code path that shortens the time slice (a mask that leaves
a request, STI with a request pending) leads back to the loop.

Left out: the vectors, the values read back, and `PIC_IRQOnSecondPicActive`, which
is written and never read.

### IrqHandlers — `callback.cpp`, `bios.cpp`

`PicIrq` with a stack of handlers. Each handler of the BIOS is the sequence of what
the controllers see of it (`sti`, `cli`, its EOIs, `iret`, and `call` for code a
program may have hooked, which may enable interrupts). A program's own handler on
another line is part of the module; what the clock handler does to it is in section 6.

### PicQueue, EventQueue — the event queue of `pic.cpp`

The entries and their `next` pointers, `free_entry` and `next_entry` as in the code;
`PIC_RunQueue` is cut where handlers are called (`EnterQueue`, `Dispatch`,
`HandlerReturns`, `LeaveQueue`), with its local variables as state, so that a handler
may add and remove events, its own included, in between. A program calls from port
handlers in the middle of an instruction, tick handlers in the middle of a tick.
Times are whole numbers of grains, `Grain` to a cycle, in place of floating point.

`EventQueue` is the abstract specification: a sequence of events in the order of
their times, first come first served among equal times; `ImplementsQueue` maps
pointers and entries to it (`Pending`, `Running`).

Left out: the list of tick handlers (they are one caller), the adjustment of
`CPU_CycleMax`, rounding of the floating point index.

### Keyboard, KeyStream — `keyboard.cpp`

`keyb` is the structure of that name, with two more fields that stand for other
components: `transfers`, the events of `KEYBOARD_TransferBuffer` in the timer's
queue, and `irq`, line 1. The functions of the file are functions of the structure,
composed as the code calls them (a command clears the buffer and adds the
acknowledgement; a repeat calls `KEYBOARD_AddKey`). The user presses and releases
keys; the mapper or a pause clears the buffer; the program takes its interrupts,
polls, and writes commands.

`KeyStream` is the abstract specification: a bounded stream of codes that are shown
in port 60h in their order, an unread code staying there until it is read or the
controller answers a question of the program.

Left out: port 61h, and `active` and `scanning`, which nothing reads. The typematic
times are one tick or two. The timer's pool of entries is taken to be large enough
(that of 512 entries is shared; `PIC_AddEvent` drops an event when it is full).

### PagePool, ExtendedMemory, HandleMemory — `memory.cpp`, `xms.cpp`, `ems.cpp`

`PagePool` is the page allocator as operators on the table of links
(`memory.mhandles`): best fit for blocks in one piece, best runs one after the other
for scattered ones, and `MEM_ReAllocatePages` with all its branches. `ExtendedMemory`
is the calls of XMS, EMS and VCPI that use it, with the contents of the pages:
`XMS_MoveMemory` counts pages from the first one, `MemoryRegion` follows the
links. `exited` is `E_Exit`, which EMS calls when a handle without pages asks for
pages that are not there. `overrun` is history: the loop of `MEM_AllocatePages` that takes
a run has no bound (`memory.cpp:305`), so after the last page of the pool it may go on
behind the table (`Overruns`) and write links there, into memory that is something else.
`EMM_AllocateBehindTable` and `EMM_ReallocateBehindTable` are these steps; nothing is
modelled of what follows them, and the properties speak of the time before (section 6).

`HandleMemory` is the abstract specification: a handle stands for a sequence of
pages that keeps its contents whatever happens to other handles, and wherever it
is moved. `KeepsContents` maps the tables, links and pages to it.

Abstractions: contents are one value to a page; programs free only VCPI pages they
have. `XMS_FreeMemory` does not look at the lock count, and the model does not
either. The page frame, saved maps and handle names are not modelled.

### DosFiles, OpenFiles, MCDosFiles — `dos_files.cpp`, `dos_classes.cpp`, `dos_execute.cpp`

`Files` is the table of open files, each with its reference count; `files` the handle
table of every PSP, `parent` and `psp` as in the PSP and in `dos.psp()`. The actions are
the calls that change them: open and create (`Open`), `Close`, `Duplicate`,
`ForceDuplicate`, 21/46h with a handle behind the table (`ForceDuplicateBehind`), 21/55h
(`ChildPSP`), `Execute`, and `Terminate` for all ways to end a
program, resident or not. The loops over a handle table (`CopyFileTable`,
`CloseFiles`) are closed forms: what they leave does not depend on their order.

`ForceDuplicateBehind` is a call that succeeds, counts a reference and puts it in no table.
`lost` is history: how many such references each file has. `CountsExact` says that a count
is the handles plus `lost`.

`OpenFiles` is the abstract specification: an open file *is* the set of the handles that
name it, and no count appears. What was given to a handle behind the table is given to
`Nobody` (`Lose`), who never lets go. `ImplementsOpenFiles` maps each file to its set, so
that a file is closed exactly with its last handle, or never when it was lost, and no call
changes handles it is not about.

Abstractions: reads, writes and seeks change neither table. 21/26h, which copies a
table of handles without counting, and 21/67h, which replaces the table, are left out
(section 6).

### FatDrive, MCFatDrive — `drive_fat.cpp`

`fat` is the allocation table, `root` the root directory with its end mark and
erased entries, `handles` the `fatFile` objects with their own position, length,
first cluster and sector. A cluster is one sector; sector 0 stands for what
`getClustFirstSect(0)` computes, a sector of the directory. A call for n bytes is n
calls for one byte as far as this state goes, so reads and writes move one byte.
The loops that follow a chain (`getAbsoluteSectFromChain`, `appendCluster`,
`deleteClustChain`) are one recursive function, `Walk`, which stays at the last cluster;
`LastOf`, `Further` and `Chain` are what each loop takes from it. `Init` is an image that
is blank or has one file, of any length that fits. `tame` is history: the files that
were used with one handle at a time and that have a sector for the byte after their last,
as they have while writes find room. A file on the image that fills its last sector
exactly has none (section 6). `astray` is history too: a call that names a file searched a
full directory without end mark, went on into the sectors of files and took their data for
an entry (`FindInData`), or a write on a handle that found no room before put its byte
behind the buffer (`WriteBehindBuffer`). Both are steps of the code and of the model;
nothing is modelled of what follows, and the invariants speak of the time before (section 6).

Abstractions: contents, subdirectories, times and attributes. Programs do not unlink
or rename a file that is open (section 6).

### Mixer — `mixer.cpp`

The ring is `work`, a count of samples per channel and cell, so that a sample added
twice, left over or left out can be told; a cell is named by its distance from
`mixer.pos`. `SDL_LockAudio` makes each call one step, except `Enable(true)`, which sets
the flag before it takes the lock: it is two (`Enable`, `Enabled`), and while the emulator
is between them only the audio thread can move. `Taken` is the number of samples that a
callback may take, with its four cases. `since` is history: from where on the samples of a
channel are complete.

Abstractions: rates; a tick asks for any number of samples up to a bound, and a generator
gives what it was asked for, or a bounded number more, or disables its own channel.

### KeyboardBios — `bios_keyboard.cpp`

`IRQ1_Handler` as a function of the code, with the flag bytes as sets of bits, the prefix
and pause bits among them, and the ring at 40:1E with its two pointers. A handler in the
loop of the Pause key runs the machine, so the user's next keys call it again; `depth`
counts the handlers that wait there. `down` and `toggled` are history: which keys
are held and which locks were pressed an odd number of times. Interrupt 16h takes keys
from the ring, adds some and tells what waits.

Abstractions: a key in the ring is the key and whether it is an enhanced one; the codes
of characters, keyboard layouts and the lights are left out. Codes come in order and
none is lost; `Keyboard` says when that is so.

### AppPause — `AppDelegate.m`, `main.m`, `sdlmain.cpp`, `DosEmuThread.m`

The notifications of iOS wait until the run loop of the main thread delivers them, and
`SDL_PollEvent` is what turns it, since `DosEmuThread` dispatches `SDL_main` to the main
queue. `dospad_should_pause` sleeps on that thread while the flag is set.

## 3. The runs

| run | instance | shows |
|---|---|---|
| `dos_memory` | programs have 4 paragraphs of conventional and 3 of upper memory, headers included; two processes, requests of 1 and 2 paragraphs, all strategies, link states 0, 1, 3 | 35,112 states: tiling, ends of chains, cover block; loops = closed forms; reported sizes are the largest that can be had; allocation takes free memory only; other blocks are kept; nothing is left of a process; implements `MemoryArena` |
| `pic_nested` | lines 0, 3, 8; all masks; both kinds of EOI | the word of requests is exact, the active line is the highest in service, none interrupts a higher one, none waits for ever, the timer is not missed by a program that enables interrupts for one instruction |
| `pic_modes` | lines 3, 8; special mask mode, auto EOI, initialisation in any order, single step | no line in service is forgotten, whatever the modes |
| `irq_bios` | the handlers of lines 0, 1, 8, 9, 12, nested at will | handlers end their own interrupts and nest by priority |
| `queue` | 3 entries, a millisecond of 4 cycles, half-cycle resolution | 91,140 states: no entry lost or in two lists, nothing overdue while a program runs, implements `EventQueue`, every event runs |
| `keyboard` | a ring of 2 codes, one key with a prefix and Pause, the commands that take a parameter | `scheduled` tells the truth, the chain never breaks, no unread code is replaced, only held keys repeat, implements `KeyStream`, all codes are read in the end |
| `extended_memory` | 4 pages, XMS blocks of 1 and 2 pages, EMS handles of 0 to 2 pages besides the system's, two VCPI pages | 82,918 states: until links are written behind the table, every page has one owner and none leaks; programs find what they wrote |
| `dos_files` | three files, tables of two handles, the shell and two programs, one reference without a handle | 163,424 states: counts equal the handles and the references made without one, a place without a process has no handles; implements `OpenFiles` |
| `fat` | two clusters of one sector of two bytes, two directory entries, two names, two handles that write, at first an empty image | 405,496 states: until a search takes data for an entry or a write goes behind its buffer, chains end and share nothing; a handle's sector belongs to its file; positions and sectors agree |
| `mixer` | a ring of 8 samples, blocks of 2, one channel, up to 9 samples in arrears | 18,035 states: the counts never pass below zero, no channel falls behind what is played, every sample is in the ring once |
| `bios_keyboard` | nine keys, two held at a time, a ring of two keys, one pause within a pause | 825,468 states: the flags follow the keys that are held and the locks; keys come out in the order they went in |
| `app_pause` | four notifications may wait | violation: an application that became active again may sleep for ever (section 6) |

Why the bounds are enough to be interesting:

* *Arena.* Small as it is, conventional memory holds two blocks of one paragraph, or
  one of two and an empty one, besides the blocks of DOS and of LOADFIX, and upper
  memory as many: blocks are split with and without a rest, joined with the next and
  merged three at a time, at the start, in the middle and at the end of a chain, with
  neighbours that are free, of either process or of DOS, while UMBs are linked and
  unlinked around them. Empty blocks, which the code creates when a rest is just a
  header, occur. Requests of 0 are covered by the proofs, not by this run.
  Processes are symmetric.
* *Controllers.* Three lines suffice for two nested interrupts and a third that
  waits, over both controllers, with line 2 between them. The proofs cover any set
  of lines. The modes are in a run of their own, since they multiply.
* *Queue.* With three entries the pool is exhausted while a handler runs; delays of
  half a cycle and of two cycles fall between cycles, on them, and past the end of
  the millisecond. One call per handler is bound `MaxCalls`; handlers run again and again.
* *Keyboard.* A ring of two is full after one key with a prefix, so codes are
  dropped whole and in halves and positions wrap at once; the proofs cover rings of
  any size.
* *Extended memory.* Four pages fragment: a block of XMS that grows is extended
  in place, moved, or refused; scattered blocks of EMS are cut and linked. `MaxVcpi`
  bounds the pages programs have from VCPI, `MaxWritten` the pages with other
  contents than zero: one page that can be told from all others shows every
  misplaced page. Free runs of two pages and of the last page of the pool, with one in use
  between them, are among the arenas reached, so the loop does run on behind the table.
  `MaxLocks` stands for 255. XMS blocks of size 0 are left out
  because of what they do (section 6).
* *Files.* A file has up to six handles, in three tables; two files are needed so that
  forcing a duplicate closes another one, and the third so that a place in the table is used
  again while both are open. `MaxLost` bounds the references without a handle: with one,
  its file keeps a place for ever and the others do not. The two programs are symmetric;
  resident ones keep their handles for ever.
* *FAT.* Two clusters are enough for a file whose second cluster is freed, taken by
  another, or missing because the disk is full; two bytes to a sector put each byte at
  an edge. `MaxLength` bounds positions and lengths at three bytes: a write that ends a sector,
  the first of the next cluster, and one that finds the disk full are within it, and so is
  the write behind the buffer. Two names and two entries fill the directory, so that a
  search runs on behind it. `Modes` is {TRUE}: a handle opened only to read goes through the
  states of one opened to write that nothing is written to, and the proofs take both. Names
  and handles are symmetric.
* *Mixer.* With 9 samples in arrears a ring of 8 overflows, and the callback that comes
  back takes more than the ring holds. Channels touch one another only through the counts
  `done` and `needed`, which a tick changes in the same way whoever is enabled, so that one
  channel shows what there is; the proofs cover any set of channels.
* *BIOS keyboard.* The keys are one of each kind `IRQ1_Handler` tells apart: plain modifier,
  pair with a prefix, lock, the lock that is a keypad key, Pause, enhanced key. `MaxHeld`
  bounds the keys held, `MaxDepth` the pauses within pauses: one within another is where
  the outer handler uses flags that the inner one has changed.
* *Application.* Four notifications are a whole trip to the home screen and back.

Deadlock is checked except in `pic_modes` and `extended_memory`, where `E_Exit` ends the
emulator, in `extended_memory` and `fat`, where nothing is modelled after an overrun or a
call that went astray, in `dos_files`, where resident programs may hold everything there is, and in
`app_pause`, where the sleep that is shown is one.

Every property of a passing run is shown to depend on the code by a mutant (see
`PROJECT.json`): a definition with a plausible bug, kept beside the original, under
which TLC finds the property violated.

## 4. Fairness

* `PicIrq!FairSpec`: `RunQueue`, since `Normal_Loop` calls `PIC_RunQueue` whenever
  it is in its loop, and `SliceEnd`, since a slice has finitely many cycles. Nothing is
  assumed of devices or programs. `NeverStuck` leaves out single stepping, where
  `PIC_RunQueue` does not look at the lines. `TimerServed` says: if line 0 stays
  raised and unmasked for ever, a program that executes STI again and again with no
  interrupt in service cannot do so for ever.
* `PicQueue!FairSpec`: the steps of the loop, handlers returning included, and of the
  program, instructions ending included. Each is a C++ function that runs to its
  end. Events have positive delays, as those of all devices have; a handler that
  re-adds an event without delay would keep `PIC_RunQueue` in its loop for ever.
* `Keyboard!FairSpec`: the timer runs the event (this is `EventsRun` of the
  queue), and the processor takes the interrupt and its handler reads the port, which
  holds of every program that does not mask line 1 for ever. `Drains` is
  stated for the case that typing and programming stop.
* `AppPause!Spec`: the main thread, which iOS schedules. Nothing is assumed of the user.

## 5. The proofs

All are of the form `Spec => []Inv`, `Spec => [][A]_vars` or a refinement, by an inductive
invariant, for every value of the constants that satisfies the assumptions of the
module. A theorem whose property a run checks names the property as it stands in that run.

* `DosMemoryProofs`. `TypeCorrect` and `ArenaCorrect` rest on `IInv`: `Sound(mcb)`, that the
  chain tiles the memory, ends where it must and has its cover block, together with
  the type of the other variables and one fact the invariants do not state: UMBs
  are linked only if there are any. Each chain operator gets a lemma that it keeps
  soundness, from least and greatest elements of bounded sets of numbers
  (`CompressSound`, `SplitSound`, `AbsorbSound`, `OwnersSound`). The action properties
  need more than soundness: what a call leaves alone. That is one lemma to a call
  (`AllocateSame`, `ResizeSame`, `FreeSame`, `FreeProcessSame`, `BuildSame`, `LinkSame`),
  all in the form `SameBut(m, c, S)`: the blocks in use are the same in both arenas but
  for those in `S`. From these follow `OthersAreKept`, `EndLeavesNothing`,
  `AllocationIsFree` and the refinement `ImplementsTheArena`, whose steps change one
  reservation or give up all of one owner. `ReportsAreRight` says what a failed call
  tells its caller; its invariant, `Reported`, adds to `IInv` that an allocation leaves
  nothing to be merged, so that the largest block it saw is the largest there is.
  `LoopsAlwaysAgree` ties all this to the loops of the code. Of compressing, every turn keeps
  `Compressing`: the chain is sound, merging the rest of it gives what merging the whole
  would have given, and nothing behind is left to merge. Of the search, every turn keeps
  `Searching`: what it remembers (`Remembers`) is the block the strategy prefers among the parts
  of both passes that have been visited, and the largest free block that is too small. When it
  is over these parts are the passes, so that what it has is `Chosen`, or `LargestFree`. Both
  loops end since each turn goes on to a higher segment or merges one away, and the search
  starts from the low end once at most.
  Assumed: the order of the segments, of which none that has a header is 0, as `found_seg` is
  0 for no block (`ArenaAssumption`; `DOS_MEM_START` is 0x16f, `dos_inc.h:89`), that free, DOS
  and LOADFIX are no processes, and that requests are numbers.
* `PicIrqProofs`. `TypeCorrect`, `RequestsExact`, `NoneForgotten` and `HighestRemembered`
  are inductive together with `NormalMode` (without the command the special mode is never
  on), because the next active line is searched among those in service and the comparison
  of priorities is only as good as the remembered line. `NestsByPriority` is an action
  property that follows from `HighestIsActive` and the guard of `RunIRQs`. For the handlers
  of the BIOS, `OwnServiceIsEnded` and `HandlersNest` hold with frames nested to any depth.
  `HandlersInv` says that the lines in service are those of the frames that have not sent
  their EOI, that such a frame is outranked by all frames above it, and that only the
  innermost frame may have interrupts disabled: the two EOIs of a handler then end its
  own line and nothing else. Hypothesis: `BiosOnly`, that interrupts come on lines 0, 1,
  8, 9 and 12. With a program's handler on line 3 the first statement is false (section 6).
* `PicQueueProofs`. `EveryEntryIsKept`, `EventsAreOnTime` and `ImplementsTheQueue`, from one
  invariant, `QueueInv`. Its part about the pool (`Pools`) gives the two lists as functions
  from places to entries: they follow the pointers, are apart, hold with the entry
  whose handler runs all entries there are, and the queue is in the order of the
  times. An operation is then a change of one place (`PutList`, `DropList`); the walk of
  the removals, which unlinks entries while it follows them, is followed place by place
  (`WalkStep`), with the queue as it will be when the rest stays (`Thinned`). Its
  other parts are about cycles: `Phases` says what the counters are in each phase of
  the loop, and `SliceInv` that no event is due before the cycle at which
  the slice *ends*. `OnTime`, which speaks of the cycle that has been reached, is not
  inductive without it. Arithmetic with `Grain` and the truncation of a difference of times
  is in lemmas of its own (`GrainMonotone`, `TruncatedIs`, `AddNumbers`), since it is not
  linear. `AlwaysOrderly` is about the abstract queue alone, so that with the refinement
  the order of the times and the capacity are facts about the pointers.
* `KeyboardProofs` (`TypeCorrect`, `ScheduledTellsTheTruth`, `NeverDead`,
  `UnreadCodesAreSafe`, `RepeatsAreHeld`, `Implements`). `Sound(s)` is a property of the
  structure which every function of the file keeps, so the lemmas are one to a
  function and compose as the functions do. `Implements` proves the refinement of
  `KeyStream` step by step, from lemmas about the ring as a sequence
  (`RingAfterAdd`, `RingAfterTransfer`, `PutMore`).
* `KeyboardProofs`, second part, about `KeyboardBios`. `FlagsAreRight`: when no code waits the flag bytes tell which keys
  are held and which locks are on. In between they do not, so the invariant says how far a
  key has come (`InFlight`): the flags tell the keys from before its last change, and the
  prefix and pause bits tell which of its codes are left. Handlers that wait in the loop of
  the Pause key change nothing in this: the key has been dealt with before its handler
  waits, and on leaving the loop no flags are written. `KeysAreInOrder`: interrupt 16h takes
  the keys in the order they came, from lemmas about the ring at 40:1E with its two pointers
  as a sequence, for rings of any size. Assumed: the keys are among those the model knows
  (`KeysAssumption`).
* `ExtendedMemoryProofs`. `PagesAreOwned` and `ContentsAreKept`. `IInv` says that there
  are paths: each block of n pages has a sequence of n pages linked in this order, the
  paths are apart, and they meet every page that is not free. The loops of the code that
  follow the links are recursive functions; that they meet just the pages of a path is
  shown once, by the least place where it would fail (`PathBlock`). The free runs that
  scattered blocks take, best ones first, are put in order by their rank (`Rank`,
  `AtPlace`). A call then changes one path (`OnePath`), and for the refinement of
  `HandleMemory` the contents: a handle shows those of the pages on its path
  (`SeenIs`), no page of another handle is touched (`Apart`), and what is on both the old
  and the new path keeps what it held (`SameContents`). Both hold until `overrun`: the first
  says so itself, and the step that sets it changes nothing of the state the second maps.
  Hypothesis of both: `XmsAsked`, that programs ask XMS for at least one kilobyte; with 0
  the first is false (section 6).
* `MixerProofs` (`TypeCorrect`, `ChannelsKeepUp`, `RingIsExact`), for every size of blocks,
  prebuffer and ring that `MixerAssumption` admits. No channel that is on is behind the
  mixer: inductive together with the types and `OneAtATime`, that at most one channel is
  between its flag and the lock (only the emulator's thread switches channels on, and it
  waits there). `RingIsExact` needs to know of the cells that nothing is said of in the
  property: `Row` says that past the last sample of a channel all cells are empty, and that
  no cell it has not come to a second time has more than one sample. A channel that has run
  round the ring may have two samples in a cell; the property says nothing of it.
* `DosFilesProofs` (`CountsAreExact`, `Implements`). Counts are compared with the number of
  handles, and of the references made without one (`lost`), by the cardinality of finite sets: one lemma for an entry that is set
  (`SetOneCounts`), two for a table that is filled or emptied (`FillCounts`, `EmptyCounts`).
  `TablesAgree` is inductive together with `Waiting`, that the running process and the
  shell are the ends of a line of live processes, each the parent of the next: without it a
  process could end and return to one that has ended. `Implements` proves the refinement of
  `OpenFiles`; once counts are exact the sets follow from the tables of handles and from
  `lost` (`OpenedOf`), and the steps are four changes of these (`ShareJoins`, `FillShares`,
  `EmptyLoses`, `BehindMaps`). Lost files without handles look alike, so that the lemmas have
  to show of a file that changes that it is told from them by a handle (`Apart`).
* `FatDriveProofs` (`ChainsStaySound`, `SectorsStayOwn`, `HandlesStayPositioned`). A chain is
  a path: its clusters in order, all different, which `Walk` follows (`ChainIs`). None of the three
  invariants is inductive, for they speak of the chains of the directory and of handles that
  have a sector, while a handle of a file that was truncated under it goes on with a first
  cluster that may be in the directory no more, and will write it there again. So `IInv` takes
  all first clusters together, those of the entries and those of the handles (`Heads`): from
  each there is a path, two paths do not meet (`Sound`), each is of one file (`OneOwner`), no name
  is twice in the directory (`Ordered`), and a handle has the entry of its name
  (`Linked`). A cluster is appended after the last of a path or starts one of its own, and is
  free before, so that no other path changes (`Extends`); a deletion frees one path. The
  operators that work on a handle get lemmas on a pair of a handle and a table, which compose
  as the functions of `fatFile` do, and the calls put them into the state. For `Positioned`,
  `TInv` says what tame files are: one handle is open on them (`Single`), it agrees with the
  entry (`Agreed`), and there is a sector for the next byte after the end (`Roomy`),
  without which a seek to the end would leave the handle without a sector. The arithmetic of
  positions and sectors is in lemmas of its own (`DivisionIs`, `DivisionUnique`, `NextMultiple`).
  All three hold until `astray`, and the two steps that set it change nothing else.
  TLC found both halves to hold on small images, blank and with a file, before they were
  proved. Assumed (`FatAssumption`): the clusters are as many as FAT12 and FAT16 have
  (`MaxClusters`), so that no cluster is a mark of an end; names are not those marks that
  the model uses; at most one file is on the image at first, and has room.

Model-checked only: liveness, which is out of the prover's reach. These are `NeverStuck` and
`TimerServed` of the controllers, `EventsRun`, `Drains`, and what the app promises of the pause.

## 6. Where the code and what is said of it disagree

Shown by a run: `app_pause`. `AppDelegate.m:88` says of `applicationDidBecomeActive`
"Only when we have a DOSPadBaseViewController on the stack that we resume the emulator", and
`DosEmuThread.m:33` "Start dosbox in new thread". The new thread dispatches `SDL_main` to the
main queue (line 41); so the flag is waited for in `dospad_should_pause` (`main.m:147`) on the
thread whose run loop would deliver the notification that clears it.

Seen while modelling, without a run:

* `dos_memory.cpp:161` says "bit 7 set: try high memory first, then low". With last fit or
  best fit the search keeps what it found in high memory but lets a block of low memory
  replace it.
* `pic.cpp:303` wants the special check "if one of the pics is in special mode". The flag is
  computed from `pic[0].special || pics[1].special` with `pic` the controller written to
  (line 97), so a write to port A0h forgets the first one.
* `bios.cpp:60` sends an EOI "to both pics". The emulator has one active line for both
  controllers: when the clock interrupted a program's handler on lines 3 to 7, the second EOI
  ends that handler's interrupt. `IrqHandlers` with `Lines` = {3, 8} shows it as a
  violation of `OwnServiceEnds`.
* An XMS block of size 0 remembers a page that stays free (`xms.cpp:146`) and, resized to
  4 KB or less, is taken to own it. `ExtendedMemory` with 0 in `XmsSizes` shows it as a
  violation of `EveryPageHasOneOwner`.
* `MEM_AllocatePages` takes a run of free pages with
  `while (pages && (!memory.mhandles[index]))` (`memory.cpp:305`); the other loops over the table
  compare `index` with `memory.pages` (lines 255 and 370), and the table has just that many
  entries (line 569). When the last run of the pool is taken and more pages are wanted, the entry
  behind the table is read, and if it is 0 it is linked and written, and so on: the block has
  pages that do not exist. Free runs of pages 1 and 2 and of page 4 of a pool of four, and a
  request for two pages, are enough. `ExtendedMemory` has the step and says nothing of what
  follows it (`overrun`).
* 21/46h takes any number for the new handle (`dos_files.cpp:707-729`). For one not less than
  `max_files`, `GetFileHandle` says that it names nothing and `SetFileHandle` does nothing
  (`dos_classes.cpp:214` and `220`), but the reference is counted and the call succeeds: the file
  is never closed, and its place never used again. `DosFiles` has the step
  (`ForceDuplicateBehind`) and counts such references (`lost`); without them `CountsExact`
  and `ImplementsOpenFiles` do not hold.
* `FindNextInternal`, through which open, rename and unlink find their entry, does not
  compare its position with the number of root entries (`drive_fat.cpp:912-937`), as the loops at
  lines 1011, 1045 and 1083 do. In a full root directory without end mark, a name that is not
  there is searched for in the sectors behind it, those of files. Data that looks like an entry
  of that name is opened, or unlinked, which frees the chain it names (line 852). `dirPos` has 16
  bits: without an end mark before, the position starts again at 0 and the search never ends.
  `FatDrive` has the step (`FindInData`) and says nothing of what follows it (`astray`).
* When the disk is full, a write that ended a sector leaves its offset at the end of the buffer,
  and the length one more than was written. A later write on the handle puts its byte at
  `sectorBuffer[512]`, over the fields that follow (`drive_fat.cpp:202`): `dirCluster` first, so that
  the handle writes its entry to another directory. `FatDrive` has the step
  (`WriteBehindBuffer`) and says nothing of what follows it.
* On a full FAT image the first byte of an empty file goes to cluster 0, whose sector is one of
  the root directory (`drive_fat.cpp:177`). Seek reads a sector and leaves `loadedSector` as it
  was (`drive_fat.cpp:263`): a file on the image that fills its last sector exactly has no
  sector at its end, so a seek there clears the flag; after a seek back into the file a
  read finds it clear and starts at the first byte of the sector, whatever the position
  (line 126). `FatDrive` shows it as a violation of `Positioned` when `Init` takes such
  a file for tame. Unlink and rename do not look whether the file is open
  (`drive_fat.cpp:849`).
* 21/26h copies the caller's handles without counting them (`dos_classes.cpp:261`): with it
  `CountsExact` does not hold. 21/67h copies 20 handles only, also from a table that has more
  (`dos_classes.cpp:312`).
* `MIXER_Init` does not compare the block size and the prebuffer with the size of the ring:
  with 8192 samples and 100 ms samples are played twice. `RingExact` is stated for settings
  that fit, and says nothing of a channel whose generator has run round the ring.
* Upper memory that is not linked to the memory chain is never compressed: `DOS_CompressMemory`
  starts at the first block of DOS and ends with the chain (`dos_memory.cpp:30-46`). A resize
  of a block up there that fails reports what one free block behind it has, though the next
  one may be free as well. `ReportedSizes` is stated for blocks on the memory chain.
* On a PCjr the bit of line 6 is computed before the line is unmasked again (`pic.cpp:163`;
  `CheckExact` excludes the line); a single controller waits for an ICW4 it was not told of
  (`pic.cpp:179-190`, against the comment at line 87); keyboard command F6h is commented
  "Reset keyboard and enable scanning" and sets `scanning=false` (`keyboard.cpp:139-142`), a
  flag that is never read; `timer.cpp:337` raises `CPU_Cycles` without taking the cycles from
  `CPU_CycleLeft`; `ems.cpp:279` ends the emulator where an error code is expected;
  `dospad_init_history` (`main.m:139`) turns the command history round at every start.

## 7. What is not modelled

Instruction semantics, the FPU, video and the synthesis of sound are too large for TLC and are
not a matter of ordering. The shell, the configuration and the mapper parse text; CD-ROM
drives translate formats. The views of the app turn touches into key events, which the model
of the keyboard takes in any order. Serial ports and IPX need SDL_net, which the app does
not use. Vendored libraries (SDL, SDL_net, Mongoose, minizip) are two thirds of the
repository and not its own code; where the code depends on them they are part of the
environment of a model (`SDL_LockAudio` in `Mixer`, the event pump in `AppPause`). The
counters of the PIT, DMA and the mouse's event queue have state worth a model; they are planned.

Within the components that are partly modelled the notes in `PROJECT.json` say what is left
out: names, searches and FCBs of DOS files; subdirectories and the cache of host directories;
the page frame of EMS; the list of tick handlers; the rates of the mixer.

## 8. Plan

The order is that of importance: first what all other parts stand on.

1. *Done:* arena, controllers and handlers, event queue, keyboard controller and BIOS keyboard,
   pages above one megabyte, open files and processes, FAT images, mixer, pause of the
   app.
2. *Done:* the proofs of every safety invariant, action property and refinement that a passing
   run checks.
3. The page frame of EMS on `ExtendedMemory`; the list of tick handlers in `PicQueue`; the
   counters of the PIT, which raise line 0 through the queue.
