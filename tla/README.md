# Verification of the xv6 kernel with wmap

TLA+ models of the system in `src/xv6-public`: the xv6 kernel for x86 with the
system calls `wmap`, `wunmap`, `wremap`, `getwmapinfo` and `getpgdirinfo`, its
shell, its user-level allocator and its `mkfs`. The models
are checked with TLC on small instances; theorems about the log, the buffer
cache, processes, memory mappings, pipes, the console with its locks, and the
allocator are proved with TLAPS for all instances. `PROJECT.json` lists the
components, runs, mutants, hazards, findings and theorems, and says for every
definition which lines of the source it models.

## The system and its parts

A file-system call goes down through these layers:

| layer | source | module |
|---|---|---|
| path names, links, directories | `sysfile.c`, `fs.c` | `FileSys` |
| open files, file contents, block allocation | `file.c`, `fs.c`, `sysfile.c` | `FileData` |
| transactions and crash recovery | `log.c` | `Log` |
| buffer cache and its sleep locks | `bio.c`, `sleeplock.c` | `Bio` |
| disk driver | `ide.c` | `Ide`, composed in `Bio` |
| the first disk image | `mkfs.c` | `Mkfs`, the initial state of `FileData` |

Beside them stand the parts that run programs:

| part | source | module |
|---|---|---|
| process table, scheduler, sleep and wakeup, clock | `proc.c`, `trap.c`, `sysproc.c` | `Proc` |
| page tables, sbrk, fork and exec of images, page allocator | `vm.c`, `proc.c`, `exec.c`, `kalloc.c` | `Uvm` |
| memory mappings of a process, page faults | `wmap.c`, `trap.c`, `vm.c` | `Wmap` |
| pipes | `pipe.c`, `file.c` | `Pipe` |
| spin locks, nesting of `pushcli` | `spinlock.c`, `proc.c` | `Spinlock`, composed in `Console` |
| console input and output, its interrupts | `console.c` | `Console` |

and the programs above the kernel:

| part | source | module |
|---|---|---|
| command lines | `sh.c` | `ShParse` |
| the shell, its processes and pipes, `init`, a program in a pipeline | `sh.c`, `init.c`, `cat.c`, `sysfile.c`, `proc.c` | `Sh` |
| `malloc` and `free` | `umalloc.c` | `Umalloc` |

Five modules state what a part promises, and the detailed module is shown to
implement it:

| promise | implemented by | as property |
|---|---|---|
| `AtomicDisk`: the writes of a group of operations become durable together | `Log` | `AtomicCommit`, proved |
| `BlockStore`: a block has one value and one user at a time | `Bio` over `Ide` | `StoresBlocks`, proved |
| `Fifo`: a bounded queue of bytes with an end of file | `Pipe` | `DeliversInOrder`, proved |
| `ByteFiles`: a file is a sequence of bytes | `FileData` | `StoresBytes` |
| `LineInput`: committed input is read in order; only the line being typed can be edited | `Console` | `KeepsLines`, proved |

`ShParse` also holds the grammar as sets of trees for a stretch of tokens,
against which the recursive-descent parser is compared (`ParsesGrammar`).

Two of these promises are what the next layer assumes. `Log` takes from the
buffer cache that a block has one value and that a buffer marked B_DIRTY is
not recycled. `FileSys` and `FileData` take from the log that a call's writes
are atomic with respect to crashes, so they have no crashes of their own.

## Modules and how they follow the code

In all of them a critical section under a spin lock is one step, since no
other processor can look into it. A lock is a variable where code sleeps while
it holds the lock, or returns from sleep with it.

**Log.** `cache` is what the buffer cache returns, `disk`, `logblk` and `head`
what is on the disk, `lh`, `outstanding` and `committing` are `struct log`.
`begin_op`, `end_op` and the locked part of `log_write` are one step each; the
test of `log_write` before the lock is a step of its own. `commit` writes one
block per step (`WriteLog`, `WriteHead`, `InstallTrans`, `ClearHead`), and
`Crash` may come between any two of them, also while recovery runs.
`OPBLOCKS` is the number of blocks an operation really writes.

**Ide, Bio.** The driver's queue, its start on an idle device and its restart
in `ideintr` are in `Ide`; `Bio` adds `bget`, `bwrite`, `brelse` and the two
halves of a sleep lock. A buffer that `log_write` marked dirty stays pinned
until somebody writes it. A process uses one buffer at a time; the calls that
use two (`bmap`'s indirect block) count as two processes here.

**FileSys.** Inodes with type, links, entries, reference count and sleep lock.
Every call is split wherever it takes or waits for another inode's lock, and
`iput` is split as in the code: the look at `ref`, the freeing, and the
decrement. Directory contents are a function from names to inodes. Creation
waits when no inode is free, where `ialloc` panics, and takes any free inode.
`mknod` differs from creation by `open` in the type only and is left out.
Transactions are left out.

**FileData.** The bitmap, the block list of an inode in memory and on disk,
the indirect block, the table of open files and the descriptors. `writei`
copies a block per step and `itrunc` frees a block per step. A byte is
identified with the inode it was written to; where in the file it goes is
the subject of `BytesWritten`. The disk is first an image of `mkfs`, with a
root directory and a file in direct and indirect blocks; `Mkfs` takes blocks
in order as `iappend` does and marks them as `balloc` does. The root directory
keeps its blocks and is not opened here. Each data block is charged a
bitmap block of its own, the worst case for the log. A freed block holds
`Junk`; `balloc` zeroes what it returns. A read of no byte at the end of the
file changes nothing and is left out.

**Proc.** `struct proc` without memory, the processors, `ptable.lock` as far
as `wait` keeps it across `sleep`, `tickslock`, and `sys_sleep` as the client
of sleep and wakeup that uses another lock than `ptable.lock`.

**Uvm.** A page table is identified with the frame of its directory. Each call
of `kalloc` in `setupkvm`, `walkpgdir`, `allocuvm`, `copyuvm` and `allocproc`
is a step that may fail at any time, because pipes take frames too. One frame
stands for the tables of the kernel part, a program has one segment, and page
contents are left out. The processes have no mappings. An `sbrk` that removes
the whole image is left out: the process has no instruction left to run. What
a process does on a page table that was freed while it was loaded is not
modelled either.

**Wmap.** One process, its mapping table, its page table with second-level
tables, and the free frames. The searches, the move loop of `wremap` and the
loop in `exit` take one step per iteration. Flags, descriptors, page contents
and the count of loaded pages are left out. When the move loop meets a page
table that does not exist, the code reads through a null pointer; the model
then lets it find anything, and the history variable `wild` records it. When
`mappages` finds no memory for a table the loop clears the old entry all the
same; the page's frame is lost, and `lost` records that.

**Spinlock, Console.** `Spinlock` has the processors with `ncli`, `intena` and
the interrupt flag, and the one lock `cons.lock` with its owner. `acquire` is
three steps (`pushcli` and the test of `holding`, the `xchg`, the owner) and
`release` two (the owner and the `xchg` with `popcli`), because the test of
`holding` reads the owner without the lock. `Console` adds `consoleintr`
character by character, `consoleread` with its sleep and wakeup,
`consolewrite`, preemption, and the switch to another process, which may go on
on another processor. The console's interrupts go to one processor
(`ioapicenable(IRQ_KBD, 0)`). The counters `r`, `w` and `e` wrap at `WRAP`, a
multiple of the size of the ring. Echo, the screen and the inode lock that
`consoleread` gives up are left out.

**Umalloc.** Addresses count units of a header. `free` and `malloc` take a step
per block of the list they pass; `morecore` asks for at least `MINCORE` units
and frees them. The program may call `sbrk` itself, so blocks from two calls
need not touch, and `sbrk` may fail. A header lives as long as its block is on
the list or in the program's hands. `nunits` does not overflow: requests are
small.

**ShParse, Sh.** A line is a sequence of tokens, its words are told apart by
their position. The parser follows `parseline`, `parsepipe`, `parseexec`,
`parseblock` and `parseredirs`, with the commands wrapped in the same order
and the same places where `panic` ends the child. In `Sh` a process is a record of
its place in the code, its command, its parent and its descriptors, of which
only those of pipes and of standard input and output matter. `runcmd` is split
at every system call. `fork`, `exec`, `open` and `pipe` may fail, and the process
table is small enough to fill up. Every program is `cat`: it reads its input to
the end, or `INPUT` bytes of the console or a file, may end early, and writes
to its output; a pipe is a count of bytes. When the shell itself fails to fork
it exits, and init starts another one; what still runs belongs to init.
`nulterminate`, the built-in `cd` and the end of file at the prompt (the shell
exits and init starts it again) are left out, and `exec` is the start of the
program.

**Pipe.** `p->lock` is explicit; the loops take a step per byte. `nread` and
`nwrite` count modulo `UINT`, as the unsigned counters do.

## Runs

| run | instance | states | question |
|---|---|---|---|
| `log` | 2 processes, 2 blocks, 2 values, operations of 2 blocks with 3 reserved, a log of 6 | 30 thousand | Is group commit atomic through crashes, is no update lost by recycling, does nobody oversleep in `begin_op`? |
| `bio` | 2 processes, 3 buffers, 4 blocks, 1 pinned buffer | 190 thousand | Do cache and driver implement a store of blocks, with exact reference counts and no lost wakeup? |
| `fs` | 2 processes, 3 inodes, a root and one directory level, 8 different calls | 1.1 million | Does no name or reference lead to a freed inode, are reference counts exact? |
| `fs_deadlock` | as `fs` | violated | Do processes wait for each other's inode locks in a circle? They do. |
| `file` | 2 processes, 2 files of up to 2 blocks of 2 bytes and the root directory, 9 blocks, 2 open files | 860 thousand | Does the file layer, from an image of mkfs on, implement files of bytes, with every block used once and each chunk within a transaction? |
| `proc` | 3 slots, 2 processors, pids up to 3 | 24 thousand | Is a process on one processor at most, does it miss no exit and no tick, are orphans handed to init; does a killed process exit, and does `sys_sleep` return? |
| `pipe` | 1 reader, 2 writers, 2 slots in the ring, counters modulo 4, the reader and a writer may be killed | 220 thousand | Is the pipe a queue, does every sleeper sleep for a reason, is the page freed once? |
| `uvm` | 2 processes, 14 frames, 4 user pages in 2 tables | 310 thousand | Is every frame used once, whichever allocation fails, and are images complete? |
| `wmap` | 4 pages in 2 tables, 3 mappings, 3 frames, lengths 1 to 4 bytes of 2-byte pages | 2.7 million | Do the mappings stay ordered and disjoint, does no page outlive its mapping, is no frame lost? |
| `console` | 2 processors, a reader that may be killed and a writer, a ring of 3, counters modulo 6, 1 printing character | 740 thousand | Do locks and interrupt flags survive interrupts, preemption and switches, and is the ring a line discipline with no lost wakeup? |
| `malloc` | a heap of 9 units, `MINCORE` 4, requests of 0, 8 and 25 bytes with headers of 8 | 310 thousand | Is every unit in one block, are free blocks joined, does every search end, and only ask for memory it needs? |
| `sh` | all lines of up to 5 tokens parsed, 12 of them run, 6 processes, pipes of 1 byte, `MAXARGS` 3 | 90 thousand | Does the parser follow its grammar, does no program hold a stray pipe end, and does the prompt return, and not before the foreground is done? |

### Bounds

The bounds are chosen so that limits are reached: the log reservation makes
`begin_op` sleep, the cache must recycle and wait, the ring of the pipe fills
and its counters wrap, the mapping table and the frames run out, a file
reaches its last indirect block, an odd size meets a page boundary, the
process table is full, the console's ring fills and its counters wrap, the
heap is exhausted, and a command has more words than `MAXARGS`. The ring has
three slots because with two the editing of a line never meets a committed
one. The shell runs a dozen lines, chosen so that every kind of command occurs
in every place it can have in a pipeline of two, and parses all others of up
to five tokens. `MaxPid` bounds `nextpid`, `MaxSleep` a sleep,
`Lens` a read or write of a pipe, `MaxRefs` the descriptors in use and `MaxSbrks` the
calls of `sbrk`; `LIMIT` bounds the heap, `INPUT` what a program reads,
`MAXLINE` a line, and `MaxLeft` and `SHORT` what is typed while programs of an
earlier line run on. None of these is a limit of the code. The run `console`
has a view: it leaves out values that no step reads before it writes them, and
only those (slots outside the used part of the ring, `intena` while `ncli` is
0, locals of calls that have returned). With two slots,
`Uvm` does not hand children to init; `Proc` does.

The inputs are restricted in these places, and what the restriction keeps out
is noted with the hazards:

- `wmap`: MAP_FIXED requests end at KERNBASE at the latest, because the code
  tests only their start, and only mappings of whole pages are resized
  (`Careful`), because shrinking others frees the wrong page. The properties
  about pages and frames are stated up to the first use of an entry read
  through a null pointer, and that no frame is lost up to the first failure of
  `mappages` in a move. Three frames are few enough for that failure.
- `log`: operations write fewer blocks than `begin_op` reserves. With
  `log.size = LOGSIZE`, as mkfs writes it, the log has one data block less
  than the reservations may add up to.
- `bio`: the disk reports no read errors; `ideintr` marks a buffer valid even
  after one.
- `fs`: one level of directories. A removed directory that is still somebody's
  current directory keeps its `..` entry, which with two levels may name a
  freed inode.

### Deadlock and fairness

TLC checks for deadlock (in `bio` a panic of `bget` would be one) except in `pipe`, where all ends may be closed and
nothing is left to do, and in `fs` and `fs_deadlock`, where the code really
deadlocks.

- `log`: a process in `log_write` or at the end of a commit goes on, and so do
  the commit and recovery, because the scheduler runs every runnable process
  and the disk answers. Strong fairness of `end_op` says that an operation
  makes finitely many writes. Nothing is assumed of `begin_op`, nor of crashes.
- `proc`: the scheduler visits every slot in turn, so a process that
  is runnable again and again is run, and its kernel steps, which wait for
  locks that are free again and again, are taken. The timer ticks on, and each
  tick ends a time slice. Nothing is assumed of what programs do.
- `pipe`: a process inside a call that can run again and again does run.
  Nothing is assumed of processes between calls.
- `malloc`: a call in progress goes on. Nothing is assumed of the program.
- `sh`: some process that can run does run, which any scheduler gives; it is
  enough because programs read and write finitely much. Nothing is assumed of
  the typist.

### Findings

One run is violated by what the code does: `fs_deadlock`. `create` and
`sys_unlink` call `iput` on the directory while they hold the lock of an inode
in it, and `iput` locks the directory again. Within eight states a process that
creates a name and one that unlinks it wait for each other; `linkunlink` in
`usertests.c` makes these calls "to look for deadlocks".

Three more places are modelled as they are, although the code around them
promises more; no run is kept for them:

- `fork` ends by loading the child's page table on the parent's processor, and
  the parent returns to its program on it (`proc.c:271`, action `ForkReturn`
  of `Uvm`). At user level `cr3[p] = pgdir[p]` therefore does not hold.
- `pipewrite` returns without waking the readers when it finds itself killed in
  a full pipe (`pipe.c:86`, action `WriteFail` of `Pipe`). A reader that slept
  since the pipe was empty then sleeps on beside the bytes, until another
  writer or a close wakes it; `SleepsForReason` allows for this case only.
- The loop in `exit` under the comment "Remove mappings" (`proc.c:286`) removes
  entries from the table it iterates over, so every second mapping survives
  (the exit steps of `Wmap`); a zombie may have mappings.

## Theorems

The theorems hold for every value of the constants that satisfies the named
assumptions of the modules; TLC evaluates those assumptions in the runs. Each
proofs module defines an inductive invariant (`IInv`, or in `WmapProofs` one
for each theorem), shows that the initial states satisfy it and that every
action keeps it (one lemma or step per action), and derives the properties.
Before its proof each invariant was checked with TLC on the instance of the
run. `NatLemmas` has what several of them need: quotients and remainders,
counters that wrap, and windows of a ring as sequences.

| module | theorem | states |
|---|---|---|
| `LogProofs` | `TypeCorrect`, `CleanBuffers`, `IdleIsDurable` | type correctness, `CleanMatchesDisk`, `QuiescentDurable` |
| | `CommitBetweenOps` | a commit runs only when no operation is in progress |
| | `LogRefinesAtomicDisk` | `AtomicCommit`: `Log` implements `AtomicDisk` through any interleaving and any crashes |
| | `NoLogPanic`, `ReservationSuffices` | `log_write` does not panic (below) |
| `PipeProofs` | `NoLostWakeup`, `FreedUnused` | `SleepsForReason`, `NoUseAfterFree` |
| | `PipeIsFifo` | `DeliversInOrder`: `Pipe` implements `Fifo` |
| `ProcProofs` | `OneCpu`, `NoOrphans`, `NoLostWakeup` | `RunsOnOneCpu`, `ParentAlive`, `NoMissedWakeup` |
| `ConsoleProofs` | `LocksNeverPanic`, `InterruptsAreRight`, `ReadersSleepForReason` | `NoPanic`, `InterruptsMatchContext`, `SleepsForReason` |
| | `ConsoleKeepsLines` | `KeepsLines`: `Console` implements `LineInput` |
| `BioProofs` | `NoLostWakeup` | `SleepsForReason` |
| | `CacheStoresBlocks` | `StoresBlocks`: `Bio` over `Ide` implements `BlockStore`, if the device reports no read errors |
| `UmallocProofs` | `HeapIsAccounted`, `ListIsJoined`, `GrowsOnlyWhenNeeded` | `HeapAccounted`, `ListJoined`, `GrowsWhenNeeded` |
| `WmapProofs` | `TableIsRight`, `FramesAreAccounted`, `PagesAreMapped` | `TableOK`, `FramesAccounted`, `PagesInMappings` (conditions below) |

**Log** (`LogAssumption`: the processes are finitely many, and an operation
writes no more than it reserves). That a clean buffer equals the disk depends on which phase of the
commit has written what, so `IInv` says, beside the types,

- `OpsInv`: `outstanding` counts the running operations, each holds at most
  one block between the test and the locked part of `log_write`, no two hold
  the same one, and what an operation wrote is in the log header;
- `SpaceInv`: the header and the unused reservations together fit in LOGSIZE,
  which is why the test outside the lock does no harm;
- `PhaseInv`: which phase implies that no operation runs, and how the header
  in memory and the one on disk are related;
- `DataInv`: in each phase, which log blocks equal the cache and which home
  blocks equal the log;
- `CacheInv`: which buffers are pinned, and that all others equal the disk.

For the refinement, `Overlay` is what recovery makes of a disk: three lemmas
say that installing and clearing do not change the durable state, and that
writing the header changes all of it at once. `NoLogPanic` needs operations
that stay below their reservation by as much as the log is smaller than the
reservations need; at `Size = LOGSIZE` that is two blocks. With a log larger
than LOGSIZE an operation may use its whole reservation
(`ReservationSuffices`).

**Pipe** (`PipeAssumption`: the counters wrap at a multiple of the size of the
ring, which 2^32 is of 512). `LockInv` says who owns `p->lock`, `EndsInv` that
at most one process is on its way to `pipeclose` for each end, and nobody is
left behind a closed one, and `WaitInv` that what a process tested before
`sleep` still holds when it sleeps, since it keeps the lock. The refinement adds
`RoomInv`: there are at most PIPESIZE bytes, so a slot is not written before it
is read although the counters wrap.

**Proc** (`ProcAssumption`). `PcInv` ties the state of a slot to the code its
process is in, `TicksInv` the owner of `tickslock`, `ForkInv` gives every fork
an EMBRYO of its own, and `FamilyInv` keeps init alive. `NoMissedWakeup` is
part of the invariant: it is kept by `exit` only because the parent is alive
and has `chan` set under `ptable.lock`.

**Console** (`ConsoleAssumption` and `SpinlockAssumption`: there is no processor
called `NoCpu`). `CpuInv` derives the interrupt flag and `ncli` of a processor
from what it executes, `ThreadInv` says what a thread without a processor has
kept in `sched`, `LockInv` that the owner of `cons.lock` is noted exactly during
the critical section, and `RingInv` how `r`, `w` and `e` follow each other
around the ring. The refinement compares the ring between two counters with a
sequence.

**Bio, Ide** (`IdeAssumption`, `BioAssumption`). `RefInv` counts the users of a
buffer and says who holds its sleep lock, `FlagInv` what B_VALID and B_DIRTY
mean at each point of a call, `QueueInv` which buffers are queued, `DeviceInv`
that the device works on the first of them with the command that buffer asks
for, and `SleepInv` what each sleeper waits for. `CacheStoresBlocks` also needs
`DataInv`: a block is in one buffer at most, and a valid clean buffer equals
the disk. It is stated for `ReadErrors = FALSE`, because `ideintr` marks a
buffer valid even when the read failed.

**Umalloc** (`UmallocAssumption`: the heap lies above `base`). `BlocksApart` says
that blocks are disjoint and cover what `sbrk` gave, `ListOrdered` that each
free block leads to the next one in the order of the addresses and does not
touch it, and `CallInv` which blocks the search has passed. The properties
speak of the blocks that a walk from `freep` reaches: `ListIsFreeSet` shows
that the walk reaches every free block within `LIMIT` steps, up to the highest
one, on to `base` and up again.

**Wmap** (`WmapAssumption`: the area is made of whole pages below the middle of
the unsigned numbers). `TableIsRight` assumes `Modest`: `wremap` is told the
right old size, and MAP_FIXED requests end at KERNBASE at the latest, which is
what the code does not test. `SearchInv` says that the region a search is at
is apart from the mappings it has passed: the mappings are in order, so a
region put behind one of them is behind all before it, and one pass is enough.
`MoveInv` says that a moved mapping,
what is left of its old region and all other mappings are apart although the
table is out of order. From there it is arithmetic: with both ends below
KERNBASE the sums in the tests do not wrap, and the four comparisons of byte
ranges exclude every overlap. `FramesAreAccounted` assumes `Careful`: `wremap`
works on whole pages, so that `mappages` of one page enters one page.
`FrameInv` says that every frame has one use and every page a page table; the
latter is why a move that finds no table loses nothing but a page that was not
there. `PagesAreMapped` assumes both. During a move its `PageInv` divides the
pages among the other mappings, the moved part of the new region and the rest
of the old one, each at its end of the loop's counter; that the destination
is free, and `mappages` does not panic, follows.

Model-checked only:

- liveness (`SleepersWake`, `KilledExits`, `SleepEnds`, `ClosedEndReturns`,
  `CallsReturn`, `PromptReturns`), which is beyond the prover;
- the shell (`ParsesGrammar`, `StdioOnly`, `ForegroundDone`): the parser is
  recursive, what it computes would need induction over data, and `Sh` uses it;
- `NoCircularWait`, which does not hold;
- `Uvm`, `FileSys` and `FileData`, whose proofs are not written yet.

## Hazards

`PROJECT.json` lists what is hard to test in this code, at its line, with the
properties that would catch it. Hazards without a property carry a note.
These are known besides and not covered:

- `wmap.c:97`: a mapping keeps a descriptor number and not the file; after
  `close`, or `close` and `open`, write-back and page faults find no file or
  another one.
- `wmap.c:100`: `wunmap` writes pages back under the inode's lock; a page that
  is not loaded faults there, and the handler waits for the same lock.
- `wmap.c:110`: entries are cleared without flushing the TLB.
- `wmap.c:297`: the last page of a file may be filled only partly.
- `bio.c:92`: `bget` panics when every buffer is in use or pinned. The run has
  enough buffers for its processes and the pinned one; `NBUF = LOGSIZE = 30`
  in `param.h` does not leave one for each process when the log is full.
- `ide.c:118`: after a read error the buffer is marked valid.
- `sysfile.c:221`: a removed directory keeps its `..` entry.
- `sysfile.c:227`: a crash between an unlink and the last `iput` leaves an
  inode without names that nothing frees. Crashes are modelled in `Log` only,
  below the inodes.
- `umalloc.c:69`: `nbytes` near the top of its type makes `nunits` small.
- `mkfs.c:244`: the number of blocks is compared with what a bitmap block
  holds, not with the size of the disk.
- `proc.c:244`, `proc.c:257`: `fork` dereferences a null entry for an
  untouched mapping, and loses a frame when `mappages` fails.
- `fs.c:262`, `fs.c:424`: a full inode cache panics; `itrunc` frees all blocks
  of a file in one transaction.
- `pipe.c:93`: the user's buffer is touched under a spin lock and may fault.
- `proc.c:543`: a pid that a failed fork left behind can still be killed, and
  marks the next process in that slot.

## Not modelled

- Boot code, interrupt controllers, `mp.c`, `lapic.c`, `swtch.S`, `trapasm.S`:
  device programming and assembly without a protocol of their own.
- Keyboard codes, serial line and screen (`kbd.c`, `uart.c`, `cgaputc`,
  `cprintf`), and `memide.c`: pure I/O.
- `fork`'s copy of the mappings (`proc.c:222-266`): it reads through null
  pointers for untouched mappings and writes to a page table that the child
  may already use or have freed; a faithful model has to say what a program
  does on wrong pages.
- Page contents, and so file-backed mappings and their write-back.
- Crashes over the file system: `FileSys` and `FileData` take atomic
  transactions from `Log`.
- The other user programs and the library (`ls`, `grep`, `wc`, `printf.c`,
  `ulib.c`, `usertests.c`, ...): single system calls, text processing and
  tests. `string.c`: byte loops, abstracted wherever other code uses them.
- `getwmapinfo`, `getpgdirinfo`, `fstat`, `procdump`: they only copy state out.

## Plan

1. `fork` with mappings in a module with several processes, built on the
   memory of `Wmap`.
2. File-backed mappings over `FileData`: the descriptor recorded in a mapping,
   and the write-back of pages under the inode's lock.
3. Crashes over the file system: which inodes and blocks a crash between the
   transactions of a call leaves behind.
4. Proofs: `Uvm` (frames), `FileData` (blocks), `FileSys` (reference counts).
