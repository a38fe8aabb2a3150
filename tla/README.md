# xv6 with threads: TLA+ models, TLC runs and TLAPS proofs

This directory verifies the kernel, the thread library and the shell of this
repository (`src/xv6-public`): the xv6 teaching kernel for x86 multiprocessors,
extended by kernel threads (`clone`, `join`), kernel mutexes, a barrier, a lottery
scheduler and user-space locks. Every definition that models code is mapped to its
lines in `PROJECT.json` (`map`).

## 1. The system

| component | state | operations | interacts through | modules |
|---|---|---|---|---|
| kernel threads (`proc.c`, `trap.c`) | `ptable.proc[].state/chan/killed`, `cpus[].proc`, `ptable.lock` | `scheduler`, `sched`, `yield`, `sleep`, `wakeup` | `ptable.lock`, handed from one context to the other across `swtch()` | `Kthread`, `Sleep` |
| processes and threads (`proc.c`, `init.c`) | `pid`, `parent`, `kstack`, `pgdir`, `nextpid` | `fork`, `clone`, `exit`, `wait`, `join`, `kill` | page allocator, `sleep`/`wakeup1` | `Proc` |
| kernel mutexes (`proc.c`) | `mtable`, `nextmid` | `mutex_init`, `mutex_lock`, `mutex_unlock` | `sleep(m, &mtable.lock)`, `wakeup1(m)` | `Mutex` |
| barrier (`proc.c`) | `count`, `proc_count`, `lock` | `barrier_init`, `barrier_lock` | `sleep`, `wakeup` | `Barrier` |
| user locks (`ulib.c`, `x86.h`) | `struct lock` in shared memory | `lock_acquire/release`, `ticket_acquire/release` | atomic instructions | `UserLock` |
| spin locks, interrupts (`spinlock.c`, `trap.c`) | `locked`, `cpu`, `ncli`, `intena` | `acquire`, `release`, `pushcli`, `popcli`, `trap` | everything | `Spinlock`, `Devices` |
| clock, lottery, console (`trap.c`, `sysproc.c`, `proc.c`, `console.c`) | `ticks`, `tickets`, `input`, the cursor | timer interrupt, `sys_sleep`, `change_tickets`, `consoleintr`, `consoleread`, `consolewrite` | three spin locks, `sleep`/`wakeup` | `Devices`, `Console` |
| memory (`kalloc.c`, `vm.c`, `exec.c`) | free list, page tables, `sz` | `kalloc`, `kfree`, `allocuvm`, `deallocuvm`, `copyuvm`, `freevm`, `growproc`, `exec` | shared free list, shared address spaces | `Vm` |
| user allocator (`umalloc.c`) | the free list of the heap | `malloc`, `free` | `sbrk` | `Malloc` |
| buffer cache, sleep locks, disk (`bio.c`, `sleeplock.c`, `ide.c`) | buffers, LRU list, `idequeue` | `bread`, `bwrite`, `brelse`, `iderw`, `ideintr` | sleep and wakeup, interrupts | `Bio` |
| log (`log.c`) | `log`, the header on disk | `begin_op`, `log_write`, `end_op`, `commit`, recovery | buffer cache | `Log` |
| inodes, directories (`fs.c`, `sysfile.c`, `mkfs.c`) | inodes, bitmap, directories, inode cache | `open`, `create`, `mkdir`, `mknod`, `link`, `unlink`, `chdir`, `write`, `close` | inode locks, one transaction per call | `Fs`, `Mkfs` |
| open files, pipes (`file.c`, `pipe.c`, `sysfile.c`) | `ftable`, descriptors, pipes | `pipe`, `dup`, `close`, `read`, `write` | locks, `sleep`/`wakeup` | `File` |
| shell (`sh.c`) | the tree of a line, its processes | parser, `runcmd` | all system calls above | `ShParse`, `Shell` |
| boot, interrupt controllers, utilities, tests | — | — | — | not modelled |

What is hard here, and what must be true nevertheless:

* the hand-off of `ptable.lock` across `swtch()` on several CPUs: a process runs on
  one CPU at a time, locks belong to who is in their critical section, and a process
  that changes CPUs keeps its own interrupt state;
* `exit`, `wait`, `join`, `kill` in every order, with parents that die first, slots
  that are reused and allocations that fail half-way: no exit is missed, nobody is
  left without a parent, no page is lost or freed in use, a killed process exits;
* `sleep`/`wakeup` in ten places, and the one caller of `wakeup1` that does not hold
  the lock that protocol rests on (`mutex_unlock`);
* locks, mutexes and barriers used by several threads: exclusion, order, everybody
  gets through;
* a crash at any moment, also during recovery: operations survive whole or not at all;
* caches with reference counts (buffers, inodes, files) whose last reference frees
  something, while other processes look it up, duplicate it or drop it;
* counters and rings at their limits and across their wrap-around: tickets, ticks,
  pipes, the console's input, sizes of address spaces, the log;
* locks taken in different orders by handlers, system calls and `iput()`.

`PROJECT.json` lists the hazards at their lines (`hazards`), each with the
properties that cover it.

## 2. Plan

Done so far: all modules of section 3. `Proc`, and `Sleep` with `Mutex` and `Barrier`
on top of it, extend `Kthread`; `Log` extends `Bio`; `Fs` extends `Mkfs`; `Shell` extends
`File` and `ShParse`; `Malloc` extends `Vm`; `Devices` extends `Spinlock` and `Console`.

Left: a liveness run of `Log` without crashes (every `begin_op` gets in).

## 3. The modules

A section under a spin lock is one step wherever all that it touches is protected by
that lock; each piece of work outside, and each point where a process may sleep or
ask for another lock, is a step of its own. Operators named like a variant of their
neighbour (`CachedIfValid` before `Cached`) are plausible mistakes: `PROJECT.json`
(`mutants`) pairs each with the property that notices it.

### Kthread
The process fields the scheduler uses, `cpus[c].proc` (`cproc`) and the CPU that
holds `ptable.lock` (`ptlock`). `SchedAcquire`, `Dispatch` and `SchedRelease` are the
loop of `scheduler()`; it may dispatch several processes of the table before it
releases the lock, as the code does. `Sched` is the switch back; `Yield` the timer
interrupt up to that switch, `Resume` what `yield()` and `forkret()` do when they are
switched in again: release the lock they did not take. Which RUNNABLE process runs
is left open here; the draw of the lottery is in `Devices`.

### Proc
`Kthread` plus the rest of `struct proc`, the page pool and the locals of calls that
are interrupted:

* `ForkCall`/`CloneCall` (the scan of `allocproc`), `ForkKstack`/`CloneKstack`
  (`kalloc` after the lock is released), `ForkCopyuvm`, `CloneShare`, the publication
  as RUNNABLE, then `CloneLoad`, `CloneStore` for the unlocked `*refs += 1`;
* `ExitCall`, `TrapKilled` (the test of `killed` in `trap()`), `ExitPanic`,
  `ExitFinish`. The closing of files before the lock is in `Shell`;
* `WaitCall`/`WaitResume` and `JoinCall`/`JoinResume`, one round of the loop each;
  `JoinStore` ends `*refs -= 1`;
* `Kill`, `Exec` (its commit), `OtherCall` (calls without effect on this state).

`p->refs` is never assigned but from another `refs`, so it is null and `*refs` is the
word at address 0 of the address space: `word0`, per address space, copied by `fork`.
An address space is one page here, since the code frees all of it or nothing; `Vm` has
the pages below a page table. Kernel memory is handed out by `Heads`: for the proofs
any non-empty choice, for TLC the lowest free page. init.c is part of the model: it
forks a shell, waits until that shell is reaped, and exits when `fork` fails. Other
programs make any call at any time; with `Disciplined` they join their threads before
they exit or wait, and exec only without threads.

### Sleep, Mutex, Barrier
`Sleep` cuts `sleep(chan, lk)` at each point where another CPU sees a difference.
`lk` is the caller's spin lock; a CPU that holds it has interrupts off and cannot
lose its process to the timer. `Mutex` adds `mtable` and the loop of `wakeup1()`, one
test and one assignment per table entry, because `mutex_unlock` runs it without
`ptable.lock`. `holds` is what the threads believe: the id between a `mutex_lock` that
returned and the `mutex_unlock`. `LateInit` lets threads create mutexes while others
are in use, `Killer` lets them kill each other. `Barrier` adds the three globals and
the program of `test_barrier_06.c`, repeated `Cycles` times; `barrier_init` takes no
lock and is three steps.

### UserLock, LockAbs, FifoLock
The two locks of `ulib.c`, one lock of each kind; every thread takes one or the other
in each of its rounds. Tickets are counted modulo `W` (2^32 in the program), and the
`now_serving += 1` of the holder is a load and a store. `LockAbs` says what a lock
promises, `FifoLock` what a fair one promises; `UserLock` is shown to implement them
through `INSTANCE ... WITH`.

### Spinlock, Console, LineInput, Devices
A context is the kernel stack of a process or of a CPU's scheduler. Its state is the
sequence of operations it has still to do (`k`), and an interrupt puts its handler in
front of those of whatever context the CPU runs, so that handlers meet critical
sections and each other wherever interrupts are on. `Spinlock` has `acquire` (a step
that may find the lock taken, then spinning), `release`, and the counting of
`pushcli`/`popcli` with `intena`. `Console` has the input ring, with indices modulo
`Wrap`, and the cursor. `Devices` has `trap()` for system calls, the timer and the
console, `sys_sleep`, `consoleintr`, `consoleread`, `consolewrite`, `cprintf`, `kill`,
`change_tickets`, and `sleep`, `wakeup`, `sched`, `scheduler` with the draw:
`random(max)` is any number below `max`. `LineInput` says what a console promises its
readers: a line that can be edited until it ends, handed out at most one line at a
time; the ring implements it. `DeviceProofs` proves all that the run checks, for any
number of CPUs, processes, interrupts and keys (section 5). `elapsed` counts the ticks there really were, beside
`ticks`, which wraps.

### Vm, Malloc
`m` holds the free pages and, for each page directory, its page tables and mapped
pages; the functions of `vm.c` are operators from one `m` to the next, with every
failure path. A call is one step: address spaces that are not shared meet only in the
free list, and the run reaches every number of free pages. Sizes are unsigned and
wrap. `Exec` may fail for reasons of the file or of the arguments at any point, and
frees what it built. Threads may exist, but only the main thread calls `sbrk`, `fork`
and `exec` (see section 6). `Malloc` is the allocator of one process on the memory that
`sbrk` gives it, in units of headers; a `malloc` call includes `morecore`. `Boot`
is the memory after `initcode.S` has called `exec`; that there is room for init is an
assumption. `UserProofs` proves `PagesAccounted` and `SizeMapped` for any amount
of memory (section 5).

### Bio, Log, AtomicDisk
`Bio` has the calls `bread`, `bwrite`, `brelse` as labels of the calling process, with
the sleep lock of the buffer and the disk queue, and `sleep`/`wakeup` by channel. The
disk transfers the block at its interrupt. `Log` adds `begin_op`, `log_write`, `end_op`,
`commit` with each of its disk writes, recovery, and `Crash` at any moment, which
leaves the disk only. `write_log` and `install_trans` are one loop with a direction
(`phase`). `AtomicDisk` is the promise: updates of an operation become durable
together. The refinement mapping reads `durable` off the disk (the log applied, if its
header says so) and `cur` off the cache. `LogProofs` proves what the run
checks (section 5).

### Mkfs, Fs
`Mkfs` computes the image that `mkfs` writes, the initial state of `Fs`. `Fs` has the
functions of `fs.c` as operators on the file system `fs`, and the system calls of
`sysfile.c` cut wherever a process asks for an inode's sleep lock: path walks
(`Walk`, one element per step), `open`, `create`, `mkdir`, `mknod`, `link`, `unlink`,
`chdir`, `write`, `close`, and `iput` in its two sections (`Iput`, `IputDrop`). Files are
counted in records, `EPB` to a block; a directory entry is a record. Contents of other
files are left out. The disk and crashes are in `Log`: each call is one transaction.
`FsProofs` proves the order of locks, the inode cache and the ownership of blocks for any
set of calls (section 5).

### File, ShParse, Shell
`File` has descriptors, `ftable` and pipes. `pipe` goes step by step: two `filealloc`
(`PipeFile`), a page and two descriptors (`PipeAlloc`), and where one of them fails the
`fileclose` of what there is (`PipeBad`), with other processes in between; until the files
have descriptors they are in the slots `RF` and `WF`, the pointers `rf` and `wf` of
`sys_pipe`. `read` and `write` on a pipe run until they call `sleep` or return
(`PipeWrite`, `PipeRead`); `sleep` itself is a step of its own (`PipeSleep`), up to which the
process keeps the lock of the pipe, which `kill` does not take. `FileProofs` gives `File` a next-state
relation of its own, in which any process that is in no unfinished call makes any call
and `kill` hits anybody; what the programs of `Shell` do is a part of it. `ShParse` is the recursive-descent parser
on tokens, with a grammar beside it as the reference definition. In `Shell` a process
is the list of system calls it has still to make, which `runcmd` unfolds from the
tree; `init` reaps orphans; `kill` hits any process but the shell. `echo` makes one
`write` for each byte, as `putc` of `printf.c` does. `Meaning` is the set of what a line may
do, computed from its tree without processes or pipes: it is one result, except that the
bytes of a background command may come anywhere among those of the commands that follow it.

## 4. The runs

| run | instance | shows |
|---|---|---|
| `proc_threads` | 4 slots, 2 CPUs, 7 pages, pids to 4, `fork clone exit wait join exec`, `Disciplined` | `TypeOK`, `OneCpuPerProc`, `NoMissedExit`, `ParentAlive`, `PagesAccounted` |
| `proc_live` | 3 slots, 2 CPUs, pids to 4, `fork exit wait kill`, fair | `KilledExits`, `OrphanReaped` |
| `mutex_multi` | 3 threads, 2 CPUs, 3 ids in 2 slots, created at any time, 2 rounds | `OneCpuPerProc`, `TableExclusion` |
| `mutex_up` | 3 threads, one CPU, 2 mutexes created before use, `kill`, fair | `MutualExclusion`, `AllDone` |
| `barrier_once` | 3 threads and main, barrier for 3, 2 cycles, 2 CPUs, fair | `Separation`, `NoLostWakeup`, `AllResume` |
| `userlock` | 3 threads, 4 rounds, tickets modulo 4, fair | `ImplementsLock`, `ImplementsFifo`, `AllDone` |
| `devices` | 2 CPUs, a process that sleeps and one that makes any other call, 3 locks, 2 interrupts, 3 keys, a ring of 2, a screen of 2 by 2, ticks modulo 4 | `NoPanic`, `LocksRight` (`LocksMatch`, `NoSpinCycle`), `InterruptsRight`, `NoMissedWakeup`, `SomeoneWins`, `SleptEnough`, `ImplementsLineInput` |
| `memory` | 3 processes, 17 pages, 8 user pages in 2 page tables, three programs, heap of one process | `PagesAccounted` (with no panic), `SizeMapped`, `HeapRight` (`HeapTiled`, `Coalesced`, `HeapMapped`) |
| `log` | 2 processes, 4 buffers, 3 data blocks, a log of 4 with its header, 2 blocks reserved and 1 written per operation, crashes | `CacheRight` (types, `OneCopy`), `NoPanic`, `NoMissedWakeup`, `ImplementsAtomicDisk` |
| `fs` | 2 processes, 5 inodes, 4 cache entries, 9 blocks, 5 calls out of 14 in any order | `LockOrder`, `CacheRight` (`RefsCounted`, `WriteThrough`), `NoPanic`, `Consistent` (`BlocksOwned`, `LinksCounted`) |
| `shell` | 4 processes beside the shell, 4 files, 2 pipes of 2 bytes, 11 lines, one `kill`, fair | `FilesRight` (`RefsCount`, `PipeEnds`, `NoMissedWakeup`), `OutputRight`, `ParserRight`, `Finishes` |
| `mutex_lost` | 2 CPUs, fair | refutes `AllDone`: `mutex_unlock` misses a thread on its way into `sleep` |

`mutex_lost` is a finding in `PROJECT.json`. The models refute more of what comments and
the project's README say; each line below is one change:

| change | violated | what happens |
|---|---|---|
| `MCProc_threads.cfg`: `Disciplined = FALSE` | `PagesAccounted` | `wait` (`proc.c:306`) or `exec` (`exec.c:103`) frees the page table that other threads run on |
| `MCProc_live.cfg`: `Calls = {"fork","clone","exit","join","kill"}`, `KillPids = {2}`, `MaxPid = 3`, `Disciplined = TRUE` | `KilledExits` | a process killed in `join` (`proc.c:771`) sleeps again and never exits; `wait` looks at `killed`, `join` does not |
| `MCMutex_multi.cfg`: `MAX_MUTEXES = 1`, `MaxMid = 1`, `Rounds = 1`, `LateInit = FALSE`, `Killer = TRUE` | `OneCpuPerProc` | `kill` between test and assignment of the unlocked `wakeup1` puts one thread on two CPUs |
| `MCMutex_up.cfg`: `CPUs = {c1, c2}`, `Rounds = 1`, `LateInit = TRUE`, `Killer = FALSE`, `SPECIFICATION Spec` | `MutualExclusion` | `mutex_init` (`proc.c:783`) gives away a held mutex |
| `MCBarrier_once.cfg`: `Calls = 2`, `Cycles = 1` | `Separation` | the second use of a barrier does not wait: `count` is never reset (`proc.c:858`) |
| `Fs.tla`: `NoPanic == fs.panic = "no" \/ fs.panic = "full"` | `NoPanic` | `chdir("d/b/..")` stands in `d/b` while `d/b` and then `d` are removed; `..` still leads to `d`, which has been freed, and `ilock` panics (`fs.c:309`). The same happens, with six calls, to a process whose current directory is `d/b` |
| `MCFs.cfg`: `CHECK_DEADLOCK TRUE` | deadlock | `create` (`sysfile.c:280`) and `unlink` (`sysfile.c:225`) call `iput` on the directory with the inode locked, and wait for a process that holds the directory and wants the inode |

The models also contain behaviour of the code that no run is about. `kill` of a pid
that only a free slot has (0, or left there by a failed `fork`) marks the next process
of that slot. init exits, and the kernel panics, when its `fork` fails. The thread
counter `*refs`, updated outside the lock, loses updates (nothing reads it). A writer
that is killed after it has filled a pipe returns without waking the readers
(`pipe.c:86`); they wake up when its end is closed, so `NoMissedWakeup` of `File` excepts
killed writers and `Finishes` still holds. Two processes in `iput` at once may both find
a reference count of 2 and leave an inode without links and references allocated
(`fs.c:337`); so no property of `Fs` says that such inodes are freed. `create`, `mkdir` and `link` into a
directory that has been removed (`sysfile.c:270` does not look at `dp->nlink`) make inodes
that are allocated and that no name from the root leads to; so `LinksCounted` says that an
inode has at least the links that lead to it, and does not exclude further ones. `link(f, ".")`
and a name that leads back to the locked directory make `dirlink` wait for itself
(`fs.c:560`). `sbrk` of minus the whole size frees everything and reports failure
(`proc.c:182`).

**Bounds.** Two CPUs are enough for every race between two holders of different
locks; the third or fourth process is there so that a parent, its child and a
grandchild (or a holder, a waiter and a killer) exist at once. `MaxPid` ends the
creation of processes; it allows slots to be reused. Each process of `Proc` needs two
pages, so 4 slots and 7 pages make `fork` fail at the kernel stack, at the page table
and at the full table. `Rounds`, `Calls` and `Cycles` allow a second use after the first;
three ids in two slots make `mutex_init` hand out a slot again. Tickets modulo 4 wrap
around three times in 12 acquisitions; `W` is larger than the number of threads, which
in the program (64 processes, 2^32 tickets) always holds.
In `devices` ticks and the input indices start just below their wrap-around and the
cursor at the end of the screen; `MaxInterrupts`, `MaxKeys`, `MaxCalls` bound what comes
from outside, and two interrupts suffice for a handler within a call and a second one on
the other CPU. In `memory` an address space needs 2 to 10 pages, and 17 pages make every
allocation of `fork`, `exec` and `sbrk` fail in some state; a page has two headers, so
blocks and pages are never aligned for long. In `log` the code's
`LOGSIZE`, its log on the disk (`mkfs.c:25`, header included) and `NBUF` are the same
number, and so are they in the run: four. A transaction takes two of the three blocks
that fit, and `begin_op` makes the third operation wait; with the mutated test of
`begin_op` it takes three, which is "too big a transaction" of `log_write`. With two
blocks pinned and two processes at work every buffer is in use: `Room` is used up to its
limit. With three buffers `Room` fails and `bget` panics, as the code may: 30 buffers are
not enough for a full transaction and several processes. In `fs` one direct and one
indirect block make files cross into the indirect block, inodes, blocks and the inode
cache run out, and five calls let two processes make, fill, use and remove a directory against each other. In
`shell` a pipe of two bytes carries the four of a block of commands, counters wrap modulo 4, and
files and processes run out in the pipeline of three, files between the two `filealloc` of its
second `pipe` as long as the first command has not ended; the parser is checked on every sequence of
up to four tokens and on the prefixes of the lines. With one page for pipes or with four
descriptors the other two failures of `pipe` happen too, and the properties hold; so do
the proofs, which have all three.
CPUs of `Mutex`, data blocks of `Log` and processes of `Fs` are symmetric;
process slots elsewhere are not (scans go in table order). `log` and `memory` use a VIEW.
In `log` a buffer is known by its place in the LRU list, and a content by whether it is
what the disk has: the code compares neither, and with two values the one tells the other.
In `memory` states that differ only in which physical page is where, and in stale headers, are
identified. The code never compares pages, and where a page is not accounted for
exactly once the view keeps everything, so a violation is not hidden.

**Deadlock** is checked in the `Proc`, `Mutex`, `Barrier` and `memory` runs. `UserLock`,
`Shell` and `Devices` end or wait for input that their bounds have used up, in `Log` the
system may be idle after a panic that `NoPanic` excludes, and in `Fs` processes can wait
in a circle (above); there `LockOrder` says what can be said: a circle needs an `iput`
under another lock, and `ilock`, from a directory to its entries, never makes one.

**Fairness.** A CPU goes on executing: weak fairness of the scheduler's steps and of
`Resume`. Strong fairness of the timer interrupt (the local APIC keeps firing), of
the dispatch of each process (the lottery: `fork` and `clone` give at least one ticket
and no modelled program changes it) and of a process's kernel steps, because a spin
lock that is free again and again is taken in the end (`xchg` gives no order, so weak
fairness would not let anybody pass a busy lock). User programs are not assumed to do
anything, except init's loop, and in the mutex, barrier and lock models the threads
of the program, which carry on. In `Shell` it is enough that some process takes a step
whenever one can (weak fairness of the union of their steps): the scheduler runs somebody,
and nothing is assumed of whom; nobody has to type or to kill. The test-and-set lock has no liveness property: a thread may lose the
race for ever.

## 5. The proofs

TLAPS checks the theorems for every value of the constants that satisfies the
`ASSUME`s of the modules: at least one process slot, `NULL` outside the other sets, a
free list that yields a page when it is not empty; finite sets of processes and
buffers; a log that has room for one operation, and operations that write less than
they reserve (`OPBLOCKS < MAXOPBLOCKS < LOGSIZE`; 7, 10 and 30 in the code: the largest is
a piece of `filewrite`, with four data blocks, the indirect block, the bitmap and the inode); a ring of a pipe whose counters wrap at a multiple of its size (2^32, 512);
a ring of the console whose indices do (2^32, 128), a screen of two rows or more, at
least as many processes as CPUs, and sleeping times below the wrap-around of `ticks`;
calls of the file system that exist, with path names that are sequences of strings, and an
image that fitted on its disk (`ImageAssumption`: it has the types of a disk, records have
blocks, no block has two owners, and the blocks with an owner are those of the bitmap).
The last one is about `Image`, which `Mkfs` computes by a fold over the files: that it is
so for every list of files is an induction over data, so TLC evaluates it. It leaves out one
case: when the entries of the root fill their last block, `mkfs` still rounds its size up,
to a block that it does not make (`mkfs.c:161`). For `Vm` and `Malloc`: at least one page,
user page and page table entry, segments whose addresses and sizes are natural numbers,
memory for init (`BootAssumption`; without it the system does not start), and requests
of `malloc` of one header or more (`nunits` counts the block's own) that fit in an `int`,
since `sbrk` takes one. For the ticket lock: no more threads than tickets.

* `ProcProofs`: `ProcInv` is inductive. `OneCpuPerProc`, `NoMissedExit` and
  `ParentAlive` are not inductive alone. A published child needs a parent that is
  alive, so `CreatorInv` says that a slot under construction has exactly one creator,
  which is in `fork` or `clone` and cannot exit, and what it has filled in at each
  label; `SleepInv` says that sleepers are in `wait` or `join` on their own channel,
  so that `wakeup1` in `exit` reaches them; `InitAlive` that there is somebody to
  inherit orphans; `SpaceInv` that a started process has a stack and a page table.
  Nothing is assumed about programs: `Disciplined` may be false.

  `PagesInv`, inductive on top of it, gives `PagesAccounted`. A page table may be freed
  when nobody else runs on it, which is a fact about the whole process tree. So
  `PidOrder` says that parents have smaller pids than their children (the tree has no
  cycles, also while `exit` hands children to init and slots are reused), `OneLeader`
  that each address space has one owner that did not get it from its parent, `Joined`
  that a process in `exit` or `wait` has no threads, and `Blanks` that a free slot, and
  one that `fork` has not filled in, has no stack and no parent. If a leader without
  threads shared its space, the other owner with the least pid would have the leader
  for its parent, hence be one of its threads (`OnlyOwner`). The theorem has a
  condition, `Orderly`: no `clone`, or disciplined programs without `kill`. Section 4
  shows what happens otherwise, and a killed thread's parent has no chance to join.
* `MutexProofs`: three inductive invariants. `SchedInv` (without `kill`): whoever is
  inside `mtable.lock` or `ptable.lock` runs on the CPU that holds it, and a process
  that `wakeup1` has found asleep is still asleep when it is made RUNNABLE. With it
  `OneCpuPerProc` holds on any number of CPUs; section 4 shows that the assumption is
  needed. `MutexInv` (without late `mutex_init`, with `kill`): a holder's slot is
  LOCKED, a waiter looks at the slot of the id it asked for, ids are unique; hence
  `MutualExclusion`. This assumption is needed too. `TableInv` is what remains without it: ids do not come back to the table,
  so a waiter whose slot was handed out again gets its old id and never the new one,
  and a mutex in the table has one holder at most (`TableExclusion`), with `mutex_init`
  and `kill` at any time.
* `BarrierProofs`: `BarrierInv` ties `count` to the set of threads that have called,
  and a thread past its last test to the lock it still holds. It gives `NoLostWakeup`
  for any number of calls and `Separation` for one call per `barrier_init` (two calls
  refute it).
* `UserProofs`: `TasInv`, and the refinement of `LockAbs` by the test-and-set lock.

  `FifoInv` is inductive for the ticket lock: the tickets that are out are a row of
  numbers modulo `W` that begins at `now_serving` and ends before `next_ticket`, each held
  by one thread, and `now_serving` does not change between the load and the store of
  `now_serving += 1`. The queue of `FifoLock` is that row. A draw makes it longer by one,
  a number that no ticket has since there are no more threads than tickets
  (`TicketAssumption`); a release serves the next number, and the row is its own tail.
  So `ImplementsFifo` holds for every `W`, also where both counters wrap around.

  `VmInv` is inductive over `fork`, `clone`, `exec`, `sbrk`, `malloc` and `exit`. Its core is
  `MemOk(mem, G, X)`: every page is free, or in the hands of the running call (`X`), or in
  exactly one place (directory, page table, kernel page table or user page) of exactly one
  address space of `G`. Each function of `vm.c` has a lemma that takes `MemOk` to `MemOk`,
  on success and on every failure (`MappageOk`, `DeallocOk`, `FreevmOk`, `SetupkvmOk`,
  `AllocuvmOk`, `CopyuvmOk`, `BuildOk`); the pages that a step moves are those of one
  address space, the free ones and those in its hands, so one lemma about sharing them out
  (`Repartition`) serves all. The loops are folds of the community modules: what is true
  before the first round and kept by each is true at the end (`RoundsIn`), stated for a set
  of pairs (number of rounds, result), which the provers can instantiate. In `Filling` that
  set says that the pages from the old size up are mapped as far as the loop came, so
  what `allocuvm` undoes on failure is what it did. The other parts of `VmInv`:
  each address space has one process that is no thread (`OneOwner`, `ThreadsHaveOwner`), so
  `freevm` at its end takes nothing from others; and the size of that process says what is
  mapped, or nothing is (`SizeOrNothing`: `sbrk` down to 0 frees everything but
  reports failure and keeps `sz`; such a process has no code left to run). `HeapInv`, that
  the heap is below `sz`, gives `HeapMapped`: `sz` grows by what `morecore` asked for, and
  does not shrink under a heap.

  `ListInv` gives the rest of `HeapRight`. `HeapOk(h, L, C, F)` says that the free list is
  `F`, a circle from `Base` upwards (`ListOk`), that the blocks of `F` and those in use, `L`,
  tile what came from `sbrk` (`Tiled`), and that no free block ends where the next one in
  the list begins; since blocks do not overlap, then no two touch. The walk along `ptr`, a
  recursive function, meets every header of `F` within `Around` steps, and all of them
  before it is back where it began (`Climb`, `Reach`: going up it passes none, and at the top
  it goes to `Base`), so `free` finds the place of a block (`BeforeIs`) and `malloc` a block
  that is large enough if there is one (`FittingIs`). `free` puts a header into the list,
  then takes out those of the neighbours that it joins (`ListMore`, `ListLess`, `TileJoin`);
  `malloc` takes a header out or cuts a block in two (`TileCut`); `morecore` adds a
  block above all others and frees it (`CoreOk`).
* `LogProofs`: `LogInv` is inductive, over crashes and recovery. `OneCopy` needs to know
  whose buffer is whose: `Process` says for each label which buffers a process uses and
  owns and which blocks they hold, `Owners` and `Counts` that `owner` and `refcnt` agree
  with it. `Queue` and `Sleepers` say who waits for the disk or a sleep lock. `LogSpace`
  needs `Operations` (`outstanding` counts the operations, each with its reservation) and
  `Modes` (a commit runs alone). `Contents`, `Pinned`, `Progress` and `Header` say how
  cache, log and disk differ at each moment of `commit` and of recovery: a block of the
  transaction is dirty and stays in the cache, so nothing reaches its home before the
  header is written. `LogWaits` is added for `NoMissedWakeup`.

  `LogLargeEnough` is where the sizes meet. `begin_op` reserves up to `LOGSIZE` blocks, but
  the log on the disk has `LOGSIZE` blocks with its header (`param.h`, `mkfs.c:25`), and
  `log_write` tests the size before it takes `log.lock`, so that two processes may both
  pass with one block left. Neither matters since an operation writes at most `OPBLOCKS`
  blocks of the `MAXOPBLOCKS` that it reserves: what is logged and what the operations may
  still write is at most `MostLogged` (`LogSpace`): `OPBLOCKS` while one operation is all
  there was, otherwise `LOGSIZE` less what two operations leave unused (`RoomForTwo`). Both
  are less than `LOGSIZE - 1` (`MostLemma`).

  `NoPanicInRoom`: what is left is `bget` without a free buffer. Then every buffer is dirty
  or referenced. One that holds a block of the transaction is matched with its place in `lh`
  (`LoggedCount`), each other with the process that uses it (`OutsideCount`; a process uses
  one such buffer, also in `commit`, which holds a block of the log and its home:
  `OneOutside`), and the process in `bget` has none of its own or asks for a block of
  the transaction that is not in the cache. So `Room` fails.

  The refinement: each step of `Log` implements a step of `AtomicDisk`: `log_write` is an
  update, the interrupt that completes the write of the header is the commit, a crash is
  a crash, and everything else, recovery included, changes neither the disk as recovery
  would leave it (`Recovered`) nor the blocks as processes see them (`Current`).
* `FileProofs`: `FilesInv` is inductive. `PipeEnds` needs `OneUser`: each end has one
  file, or one `pipeclose` that `fileclose` has still to call after it gave the file
  back, so no end in use is closed and no page is freed twice. `CallsHold` says that a
  process inside `read` or `write` keeps the descriptor it came with, so its pipe does
  not go away while it sleeps. `Sleepers` and `NotOverfull` are for the wakeups; `Locks`
  says that what a process found before it calls `sleep` is still so when it is asleep,
  because only one process has the lock of a pipe. `Pending` is about unfinished `pipe`
  calls: their files are theirs alone, are no end of a pipe before the page is there, and
  none is forgotten where the call fails.
  `FilesCorrect` needs no hypothesis. The rest of `NoMissedWakeup`, that nobody sleeps on
  a pipe with data unless somebody was killed, reads the `killed` flags, and `fork` into
  the slot of a killed writer clears its flag; `WakeupsCorrect` therefore assumes that
  once a flag is set some flag stays set (which is so without `kill`, or until a killed
  slot is used again).

* `DeviceProofs`: `DevInv` is inductive. The properties speak of what a context has
  still to do, so the invariant reads that sequence backwards, from its end. A mode says
  what is true of a context in front of an operation: the locks it holds, whether it is
  spinning, inside a handler, in `exit`, about to sleep or to wake somebody; `Goes(o, a, b)`
  that operation `o` leads from mode `a` to mode `b`, and `Runs(s, a, b)` the same of a
  sequence. `RunInv` says that what the context of a CPU has still to do leads from some
  mode to the idle one, and that this mode `Fits` the CPU: its locks are those the CPU
  holds, `ncli` is their number (and one for spinning), and the interrupt flag or `intena`
  is on exactly outside of handlers. A process is RUNNING while one CPU has it, and one
  that is not begins with `resume`, the rest of `sched`, with the `intena` it kept there.
  A handler runs from any mode with interrupts on back to that mode, so interrupts nest
  to any depth. `NoPanic`, `LocksRight` and `InterruptsRight` follow; `NoSpinCycle` needs
  that only `ptable.lock` is ever asked for inside another lock.

  `WakeInv` is added for `NoMissedWakeup` and `SleptEnough`: whoever is going to sleep has
  tested its condition and nobody has changed it since, or a `wakeup` for it is on the
  stack of whoever did; a sleeper likewise; and for each unfinished `sys_sleep` the ticks
  it counts modulo `TicksWrap` are no more than there really were. `SomeoneWins` is about
  a sum over the process table, a fold of the community modules: the sum is in every set
  that its partial sums do not leave (`TicketsIn`), by induction over the slots, for a set
  and not for a predicate, which is what the provers can instantiate.

  For `ImplementsLineInput` the ring is unrolled: a place in the buffer is its index
  modulo `INPUT_BUF`, and less than `INPUT_BUF` characters apart places differ, also
  across the wrap-around of the indices (`PlacesDiffer`). So a new key overwrites none of
  the characters from `r` to `e`, and the lines and the line that is edited are two parts
  of one sequence (`LinesEdit`) that a key makes longer by one. `EditInv`, no newline in
  the line that is edited, is what makes ^U take back all of it.

* `FsProofs`: `FsInv` is inductive, for any set of calls and any interleaving of their
  sections. `RefsCounted` counts pointers over all processes, so the proof counts those of
  one process and those of the others (`Count`, `Points`), and each action shows that its
  process has gained or lost as many pointers to each inode as `iget` and `iput` counted
  (`Tallied`). `ProcOk` says which of its variables a process uses at each label; `Relies`
  what it relies on while it has a pointer but not always the lock: the lock it keeps from
  one step to the next is its own, the directory that `nameiparent` found is still valid and
  a directory, the inode that `link` is to link is not one, and the name that `unlink` has
  looked up is still in the locked directory. An inode with another pointer is not freed,
  since its count is not 1 (`LastRef`), and that is why these facts last.

  The entries of directories, `.` and `..` aside, form no circle (`NoLoops`: every set of
  inodes has one that leads to none of them). A new entry leads to an inode that was just
  allocated or to one that is not a directory, and neither leads anywhere; `link` refuses
  directories for this reason. `NoLockCycle` follows: a process that waits in `ilock` while
  it holds a lock holds a directory and waits for an entry of it, so a circle of waiting
  processes without an `iput` would be a circle of directories.

  `Owned` is `BlocksOwned` for free inodes too. It needs `Cached`, that what is valid in the
  cache is what is on the disk: `bmap` and `itrunc` then work on the right addresses. And it
  needs `Covered`, that every record below the size has its block: `dirlink` into a free
  entry calls no `iupdate`, so it must not allocate a block of the inode.

TLC also finds `ProcInv`, `PagesInv`, `LogInv`, `FilesInv`, `FsInv`, `VmInv`, `ListInv` and
`FifoInv` true in every state of the instances of section 4.

Only model-checked:

* the liveness properties: fairness is out of the prover's reach;
* `OutputRight`, `ParserRight`: trees of commands, facts by induction over data; the parser
  and `Meaning` are also RECURSIVE operators;
* `LinksCounted`, the second half of `Consistent`, and `NoPanic` of `Fs`, which rests on it
  (`ilock` panics on an entry whose inode was freed). TLC finds both true of the calls of
  `MCFs`, among them a nested directory, its removal and a `..` from inside it.

## 6. Not modelled

See `components` in `PROJECT.json`. Left out of the parts that are modelled:

* `Proc`: the contents of memory other than `word0`; faults of user programs (for this
  state they are an `exit`); `barrier_init` while threads are inside the barrier; a
  thread that unlocks a mutex it did not lock.
* `Vm`: permissions, segments, contents of pages. Threads that call `sbrk`: `p->sz` is
  not shared, so two of them map a page twice and the kernel panics (`proc.c:177`).
  The argument strings of `exec` are a choice between fitting and not.
* `Malloc`: several threads, and `thread_join()`, which frees the pointer that
  `thread_create()` has moved up to a page boundary (`ulib.c:107`, `119`).
* `Bio`: errors of the disk, which `ideintr` (`ide.c:118`) ignores: a failed read
  leaves a buffer marked valid. A second disk.
* `Log`: operations that write as many blocks as they reserve (`filewrite` cuts its
  writes so that they write fewer).
* `Fs`: contents of files, names longer than `DIRSIZ`, device numbers; a full disk,
  directory or inode cache ends the run as the code's
  panic does.
* `File`: `open` takes its file and its descriptor in one step, so that its failure gives
  nothing back. `read` asks for at least what a pipe holds.
* `Shell`: `cd`, prompts and messages on descriptor 2, words longer than a token; `O_TRUNC` does not
  exist in this system. The programs that it runs are `echo` and a filter; the
  repository's `cat.c` is commented out.
* `Devices`: the inode lock of the console, formatting, the translation of key codes,
  the generator behind `random`, `sys_uptime`.
