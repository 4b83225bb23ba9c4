# A TLA+ verification of the MLFQ kernel and the C-Shell

The repository holds two programs:

* **xv6** (`xv6/`), a multiprocessor teaching kernel whose scheduler has been
  replaced by a multi-level feedback queue (MLFQ, compiled with `-Dmlfq`), with
  a crash-safe file system, pipes, a console and a small user land;
* **C-Shell** (`c-shell/`), an interactive POSIX shell with pipelines,
  redirection, job control, a frecency-based `hop`, and a `ptrace` tool.

This directory models them in TLA+, checks the models with TLC on small
instances, and proves the central facts with TLAPS for every instance.
`PROJECT.json` maps every definition to the source lines it stands for, and
lists, under "hazards", what can go wrong at which line and which property
would notice.

## The parts and how they meet

| part | state | modules | meets the others through |
|---|---|---|---|
| MLFQ scheduler (`proc.c:19-126`) | rings `mlfqi/head/tail/len`, `p->queue`, `p->tick`, `ticks`, `boost` | `Mlfq`, `Sched` | `p->lock`, `mlfq_lock`, timer interrupts, `wakeup`, `kkill` |
| process life cycle (`proc.c`, `sysproc.c`, `trap.c`) | `state`, `chan`, `killed`, `parent`, pid | `Proc` | `p->lock`, `wait_lock`, `sleep`/`wakeup` |
| log (`log.c`) | `log.lh`, `outstanding`, `committing`, `ncommit`, header and log blocks on disk | `AtomicDisk`, `Log` | `log.lock`, the buffer cache, the disk |
| buffer cache, sleep locks, disk driver (`bio.c`, `sleeplock.c`, `virtio_disk.c`) | LRU list, `refcnt`, `valid`, descriptors, rings | `Blockdev` | `bcache.lock`, `vdisk_lock`, the device's interrupt |
| inodes, directories, path names (`fs.c`, `sysfile.c`) | inode table, link counts, directory entries | `Fs` | `itable.lock`, inode locks, the log |
| open files, file contents (`file.c`, `fs.c`, `sysfile.c`), the first disk (`mkfs.c`) | file table, descriptors, bitmap, block addresses | `Mkfs`, `File` | `ftable.lock`, inode locks, the log |
| pipes (`pipe.c`) | `data`, `nread`, `nwrite`, `readopen`, `writeopen` | `Fifo`, `Pipe` | `pi->lock`, `sleep`/`wakeup` |
| memory, exec (`kalloc.c`, `vm.c`, `exec.c`) | free pages, page tables, sizes | `Memory` | `kmem.lock`, page faults |
| console, UART (`console.c`, `uart.c`) | input ring `r`, `w`, `e`; transmitter | `Console` | `cons.lock`, `tx_lock`, interrupts |
| shell: lexer, parser (`lexer.c`, `parser.c`, `command.c`) | tokens, commands | `Syntax` | used by `Jobs` |
| shell: job control (`main.c`, `command.c`, `bins.c`) | `bg_list`, `wait_list`, the terminal's group | `Jobs` | signals, `waitpid`, `tcsetpgrp` |

Where two parts meet, one module takes the other at the promise it is shown to
keep: `Fs` and `File` use the log as an atomic group of writes, which `Log`
is shown to be; `File` starts from the disk that `Mkfs` makes; `Jobs` runs the
commands that `Syntax` makes of typed lines. `sleep_prepare`, `sleep` and
`wakeup` are modelled with the scheduler in `Sched`, and with their callers in
all the others.

## Modules

### `Mlfq`, `Sched` - the scheduler on several CPUs

`Mlfq` has `push` and `pop` over a record of the five arrays of `proc.c`. The
array `mlfqi` is a function on `Level x Index`, and `Cell` maps a C index to a
slot with the row-major layout of the array, so that index -1 of a level is the
last slot of the level above. `CMod` is C's remainder. `Forget` clears slots
that no index reaches any more; it merges states that differ only in them.

`Sched` has one variable per array of the source, plus what the stack and the
locks hold (`pc`, `hand`, `lvl`, `wk`, `plock`, `mlfq_lock`). Each C function is
one action, or several where it lets another CPU in: `scheduler_mlfq` is
`scheduler_pop` and `scheduler_run`; `yield_mlfq` is `yield_begin`,
`boost_move`, `boost_next`, `boost_end`, `yield_enqueue`, `yield_end`; `wakeup`
is `wakeup_call` and one `wakeup_turn` per process, since it takes one
`p->lock` after another. `kfork` is one step: an entry that is `USED` means
nothing to the others. What user programs and the rest of the kernel do is
chosen freely: any running process may fork, sleep on any channel, wake any
channel, kill any process, exit, or reap a zombie. `aliased` is a history
variable: a `push` has overwritten a waiting entry (see Known deviations).
Properties that such a push breaks are stated up to that moment, the others
without condition. Reaping by any process over-approximates `kwait`; who may
reap whom is the subject of `Proc`.

### `Proc` - fork, exit, wait, kill and pause

The fields of `struct proc` that decide who may reap whom and who sleeps, with
`wait_lock` and a `pc` per process. Which process gets a CPU is `Sched`'s
business: here every process that is not asleep may go on. `kfork` is three
steps, and a failing one may have taken a pid; `kexit` is two, under `wait_lock`; `kwait` reaps, or registers and
sleeps after the lock is released, unless a wakeup came in between. `sys_pause`
is split in the same way against `clockintr`. `kkill` may come between any two
steps. `left` stands for `n - (ticks - ticks0)`, so that the clock needs no
bound.

### `AtomicDisk`, `Log` - the file system's log

`AtomicDisk` is the promise: a view that open system calls change, a durable
copy that takes over the whole view at once when no call is open, and a crash
that takes the view back to it. `Log` is the code: the cache, the pins, the log
header in memory and on disk, the log blocks, the home blocks. `begin_op`,
`log_write`, `end_op` and `sys_sync` are critical sections of `log.lock`; the
commit is one action per disk write, in the order of the code; a crash may come
between any two, and recovery (`read_head`, `install_trans`, `clear_head`) may
be cut short by another. `sleep_prepare(&log); release; sleep` is one step,
which is sound because `wakeup(&log)` is always called with `log.lock` held. The
refinement mapping says which disk a recovery would produce (`Recovered`) and
what a reader sees (`View`).

A system call writes at most `OpBlocks` distinct blocks, fewer than the
`MAXOPBLOCKS` it reserves; `File!OpFits` checks that `filewrite` keeps to
`MAXOPBLOCKS`. The margin is needed: `log_write` (`log.c:229`) panics on a full
log even when the block is already in it.

### `Blockdev` - buffer cache, sleep locks, disk driver

A process reads a block, may change and write it, and releases it. `bget` is
its two scans under `bcache.lock`; with the block in no buffer and all buffers in
use it panics (`bget_panic`), and the behaviour ends there. `acquiresleep` takes
the buffer's sleep-lock or sleeps on it, `releasesleep` wakes everyone who does,
and they test again. `lru` is the list, as a function of the position. `virtio_disk_rw` allocates three descriptors or sleeps, fills
them, publishes the request and sleeps until the handler has cleared
`b->disk`; the handler takes one used entry per step, between which the device
goes on. `asleep` is the channel a process sleeps on: its buffer, the lock of its
buffer, or `&disk.free[0]`. The device is external: it takes requests from the available ring,
completes them in any order and raises the line. The index counters wrap.

### `Fs` - inodes, directories and path names

`itable` with reference counts and sleep locks, the inodes and directories on
disk, and a durable copy that the last `end_op` of a group brings up to date.
`namex` is one step per element, with the lock of one inode at a time; `create`,
`link`, `unlink`, `mkdir`, `mknod`, `chdir` and `open` follow the order of the
source, with their error paths; a directory may have no room for an entry, and
`open` may find no driver, file or descriptor.
`iput` runs in steps of its own, with the window in which it has released
`itable.lock` to truncate. A crash takes the disk back to the durable copy, and
`ireclaim` frees orphans at boot.

### `Mkfs`, `File` - the first disk, open files and their contents

`Mkfs!Image` is the disk that `mkfs` leaves: root directory, files with direct
and indirect blocks, bitmap. `File` has the file table, the descriptors, the
offsets, and below them `balloc`, `bfree`, `bmap`, `itrunc`, `readi`, `writei`
and the turns of `filewrite`'s loop. The disk may fill up in the middle of a
write, and user memory may be bad at any byte. `fileclose` is two steps: the
entry is freed before the inode is put or the pipe closed (`give_back`).
`closing` is the files that the error path of `sys_pipe` still has to close, one
after the other. The two `filealloc` of `sys_pipe` are one step. `content` is a
history variable: what a reader should see.

### `Fifo`, `Pipe` - pipes

`Fifo` is the promise: a bounded queue that writers extend by one byte, readers
take a prefix of, with an end of file once it is empty and closed. `Pipe` is
the code: the ring `data` with the free-running counters `nread` and `nwrite`,
which wrap as `unsigned int` does; `pipewrite` one byte per turn (it holds
`pi->lock`, but `killed()` is read afresh every time), `piperead` in one step,
the two-step sleep, `pipeclose` by the last holder of an end, kills, and
failing `copyin` and `copyout`. `untold` is a history variable: a writer has
returned without the wakeup at the end, so that readers have not been told of its
bytes (see Known deviations). Processes outside `Caller` have inherited an end
and only close it, as a shell does. The refinement mapping is the part of the
ring between the counters.

### `Memory` - pages, page tables, exec

Physical pages are free, trapframes, page-table pages, user pages or arguments
of an `exec` under way. `uvmalloc`, `uvmcopy`, and the loops of `kexec` take one
page (with the page-table pages it needs) per step, so that another process can
take the last page between two; every failure path frees what the code frees.
`sbrk` is eager or lazy; a lazy page is mapped when the user, `copyin` or
`copyout` touches it. `panic` records that a step met one of the panics of `vm.c`
or `exec.c` on its way (a page mapped twice, a page table freed with a leaf in
it, a segment or guard page that is not there); nothing follows it. `image` is a
history variable: what each process should see. Page numbers have three digits in base `R`, as there are three levels.

### `Console` - console and UART

`consoleintr` edits the line in the ring (`e`, `w`, `r` wrap as unsigned
integers), `consoleread` copies a character per step and puts a `^D` back,
`consolewrite` moves batches to `uartwrite`, whose test of `LSR` and store to
`THR` are two steps; the handler echoes through `uartputc_sync` meanwhile.
`kkill` may rouse a sleeper.

### `Syntax`, `Jobs` - the shell

`Syntax` is `lexer`, `parser`, `ext_in` and `ext_out` as functions on sequences,
with the lexer's index arithmetic as it is in the source. A second definition,
an automaton for the lexer and the grammar in the comment of `parser.c` for the
parser, is what they are compared with.

`Jobs` is the main program (`process_cmd`, `piped`, `resume`, `ping`,
`activities`, the prompt, Ctrl-D) with its local variables in `cur`, the handler
`plant`, which may run between any two of its steps and collects one child per
step, the alarm, and the children. A typed line goes through `Syntax`. The
operating system's part is external: a child runs, is stopped, is a zombie or
is reaped, and has at most one unreported change of state, as on Linux; a group
exists while an unreaped process is in it. A `waitpid` that finds its child
reaped by the handler returns with `status` as it was: 0 in `process_cmd`,
uninitialised, hence anything, in `piped` and `resume`. While an entry of
`bg_list` is being filled the handler may follow a pointer that is not set,
which may end the shell. A fork may fail; the code then takes -1 for a pid, and
`waitpid(-1)` waits for any child. `no_longer_waiting` blocks SIGCHLD and is one
step. Names, statuses other than "command not found", and messages are left
out.

## Runs

| run | instance | shows |
|---|---|---|
| `sched_smp` | 3 table entries, 2 live processes, 2 CPUs, 2 levels | `OneCpu`: a process runs on one CPU at a time; `QueuesMatchStates`: RUNNABLE processes are queued exactly once, and what is queued is RUNNABLE; `SliceBound`: slices are kept; `BoostLiftsQueued`: a boost lifts every queued process |
| `sched_live` | 2 processes, 1 CPU, 3 levels | `NoStarvation`: a RUNNABLE process runs, if boosts end |
| `sched_boostloop` | *violation* | `BoostTerminates`: a boost with a non-empty level 0 never ends |
| `log` | 3 threads, 2 blocks, log of 5 entries (two calls at a time), crashes without bound | `Atomic`: the log implements `AtomicDisk`; `PinsMatchLog`; `NoLogPanic`; `SyncDurable`: `sync` means durable; `SleepersWoken` |
| `proc_life` | init and 2 table entries, 4 pids, pauses of 0 or 1 tick | `HasReaper`: every process has a parent that can reap it; `NoMissedWakeup`: nobody sleeps in `kwait` over a zombie, or in `sys_pause` past its time; `OrphansReaped`; `KilledExits` |
| `pipe` | 1 writer, 1 reader, one of which may be killed, 1 holder of the write end, ring of 2, counters modulo 4 | `IsFifo`: the pipe implements `Fifo`; `SleepersHaveReason`: readers sleep on an empty pipe, or one they have not been told of, writers on a full one; `CallsEnd` |
| `jobs_table` | 3 forks (the last may fail), 2 jobs, 18 kinds of lines, a list of 2; lines of 5 characters and of 6 tokens | `ZombieNoticed`: no zombie stays; `Tracked`: no child is forgotten; `TerminalPassed`: the foreground, then the prompt, has the terminal; `LinesLexed`, `LinesParsed`: lexer and parser agree with their references |
| `fs_tree` | 2 processes, 3 inodes, 9 kinds of calls, 4 calls, 1 crash | `NoPanic`; `NoCircularWait`; `TableConsistent`: memory agrees with the disk and with who points to it; `LinksSound`: link counts are right in what is durable, and no orphan stays |
| `file_io` | 2 processes, 3 files, 8 blocks of 2 bytes, 5 calls | `RefsExact`; `BlocksSound`: each block has one owner, and none is missing below the size; `ContentIsWritten`; `OpFits`: a transaction fits its reservation |
| `block_io` | 4 processes, 3 buffers, 4 blocks, 7 descriptors, 4 operations | `CacheCoherent`: one buffer per block, and who has it sees the latest; `RingsSound`: every descriptor and request has one owner; `NothingMissed`: no wakeup, of the driver or of a sleep-lock, and no completion is lost |
| `memory` | 2 processes, 16 or 23 pages, 4 calls | `PagesAccounted`: no page is lost or shared; `NoPanic`; `MemoryIsImage`: every process sees the memory it should |
| `console` | 1 reader, 1 writer, ring of 2, counters modulo 4, 5 keys | `LineDiscipline`: the ring is what was typed, edited; `EofReturnedOnce`; `NobodyStuck`; `NoByteLost` |

**Bounds.** They are constants, named in the modules' `CONSTANTS`.

* `Sched`: three table entries with two live processes let an entry be reused
  while another CPU still holds it in its hand. `NPROC` is also the size of a
  ring, so that rings wrap after two or three pushes. Slices of one and two
  ticks (`MCQuantum`) make a process yield with and without demotion. `TickMod`
  keeps the clock finite; the boost test is a difference modulo `TickMod`, as
  with `unsigned int`.
* `Log`: the log has room for the reservations of two calls, and for one more
  block, so that the third thread sleeps for room and not only for a commit, and
  is woken by a call that ends without one; two blocks give commits of one and
  of two blocks, cut by crashes at every write. There is no bound on the number
  of calls, commits or crashes. A call writes one block (`OpBlocks`); groups of
  several blocks come from several calls in one commit. The proofs have no such
  bounds.
* `Proc`: three entries give init, a parent and a child, with four pids so that
  an entry is used again; pids are not reused, as in the source, so `MaxPid`
  bounds the number of forks.
* `Pipe`: two bytes with counters modulo four wrap both the ring and the
  counters. One writer and one reader call, and one kill (`MaxKills`) is made, of
  either; the proofs are for any number.
* `Jobs`: three forks give a pipeline and another job; `wait_list` has room for
  two, so that it overflows. The lines reach every command of `process_cmd`.
* `Fs`: three inodes let a directory and a file be made, removed and made again
  under another name; two processes meet in each window of `namex`, `iput`,
  `create` and `unlink`. Link counts stop at two, so that they overflow.
* `File`: one direct and two indirect blocks of two bytes make a write of four
  bytes cross from direct to indirect blocks; eight blocks fill up.
* `Blockdev`: fewer buffers than blocks make `bget` recycle, and fewer than
  processes let it run out of them; seven descriptors hold two requests, so that
  a third waits; up to three processes sleep on one lock; counters modulo 7 wrap within the
  run. The view leaves out ring entries that no action reads any more, and
  processes and the blocks that are written are interchangeable.
* `Memory`: see the comment of `MCMemory`; every allocation fails somewhere.
* `Console`: a ring of two fills up in the middle of a line.

**Fairness.** `Sched!FairSpec`: a CPU in kernel code goes on (weak fairness); a
CPU in the scheduler's loop that keeps finding work pops it (strong, since a
timer interrupt may get in between); timer interrupts keep arriving while a
process runs, and not always just when no boost is due (strong: the period of
the clock is not a multiple of that of any program). Nothing is assumed of
programs. `Log!FairSpec`: a system call ends, disk writes complete, a committer
finishes. No fairness is assumed for `begin_op`: a thread that is woken may
find the log full again, and the code promises no order. `Proc!FairSpec`:
kernel code goes on, the clock ticks, a program is interrupted again and again
(a timer interrupt passes the same test of `killed`), and init keeps calling
`wait`, as `user/init.c` does. `Pipe!FairSpec`: calls go on, a process in the
end calls again or closes its end, and `copyin` and `copyout` do not fail for
ever. Only one reader and one writer call in that run: with more, one reader
may always come first, and the code promises no order. The runs of the other
modules check no liveness; `NothingMissed`, `NobodyStuck`, `NoCircularWait` and
`ZombieNoticed` are the safety properties that progress rests on there.

**Deadlock** is checked in the runs of `Sched`, `Log` and `Proc`, whose systems
never stop. It is not where the system may: a pipe stops when both ends are
closed, the shell exits, and the runs of `Fs`, `File`, `Blockdev`, `Memory` and
`Console` end when the bounded number of calls is made.

## What is proved

Eight modules hold proofs, of `Sched`, `Pipe`, `Proc`, `Log`, `Blockdev` and
`Console`: every safety property that the runs of these six check, for every
value of the constants that satisfies the assumptions named in the modules
(`MlfqAssumption`, `SchedAssumption`, `PipeAssumption`, `ProcAssumption`,
`LogAssumption`, `BlockdevAssumption`, `ConsoleAssumption`), which TLC evaluates
for the instances. Each inductive invariant was an invariant of the component's
run before it was proved.

`Log`, `Blockdev` and the queues of `Sched` count: open calls, reservations,
references, requests, CPUs. Their invariants have the conjunct `Counting`, the
laws of cardinality that the steps use, which mentions no variable. It keeps the
library's theorems on finite sets out of the steps. `CountingHolds`, at the end
of the module, proves it from them, so that no theorem has it as a hypothesis.

**`SchedProofs`**, for every number of processes, CPUs, levels, every slice
table with a first slice of one tick, and every clock:

* `TypeCorrect`: `Spec => []TypeOK`;
* `RingsInBounds`: every head denotes a slot of `mlfqi`;
* `SlicesBounded`: no process has used up its level's slice;
* `RunsOnOneCpu`: no process runs on two CPUs, and RUNNING means some CPU has it.

The inductive invariant of the first three is
`TInv = TypeOK /\ ring.head[0] >= 0 /\ SliceBound /\ Placed`. `TypeOK` alone is
not inductive: the boost and the requeueing use `lvl` and `cproc`, whose values
at each `pc` are given by `Placed`; a push to the head could make `head[0]`
negative, which only the slice of one tick at level 0 prevents, and that is
`SliceBound`. The proof of `RunsOnOneCpu` needs in addition only the test of
`p->state` under `p->lock`, so it holds even after a queue entry has been lost.

**`SchedQueues`**, with fewer CPUs than processes (`param.h` has 8 and 64):

* `QueuesAreRight`: `QueuesMatchStates`, as long as no push has overwritten an
  entry;
* `BoostsLift`: `Spec => BoostLiftsQueued`, whatever the rings hold.

The first rests on `QInv`. `Orderly`: from head to tail the rings hold just the
processes with `inq`, each once and at the level in `p->queue`. `Settled`: a
process is in a ring or in the hand of one CPU just while it is RUNNABLE or on
its way there under its `p->lock`. `Locked`: who is past which test holds which
lock. `HeadsBounded`: a push to the head moves it down, and a head a whole turn
below 0 would give two entries one slot. Only a process that was popped is
pushed back to the head, so a head is never further below 0 than the number of
CPUs that have put back what they popped, and there are fewer than `NPROC`. None
of this follows from the property: it says where a process is, not that the next
`push` finds a free slot or the next `pop` the right one.

The second needs nothing of the order in the lower rings. `Boosted`: while the
loop of the boost is past a level, that level is empty, and what waits at level
0 is there with a full slice; nobody else can push, since `mlfq_lock` is held.

**`PipeProofs`**, for every size of the ring, every width of the counters that
is a multiple of it, and any number of readers, writers and bytes:

* `PipeIsFifo`: the pipe implements `Fifo`;
* `WritersSleepOnFull`: a writer sleeps only on a full pipe that can be read;
* `NobodySleepsWithoutReason`: `SleepersHaveReason`, whoever is killed: a reader
  sleeps on an empty pipe with a writer left, or a killed writer has gone past
  its wakeup since the readers were last woken (`untold`);
* `PipeInvariant`: the invariant they rest on, `PInv`.

`PInv` says that the counters are at most `PIPESIZE` apart (`InRing`), that an
end is open just while somebody holds it (`EndsHeld`), and that a registered
writer finds the pipe full, unlocked and readable (`WritersRegistered`). Its
arithmetic is a handful of lemmas on remainders: counters wrap at a multiple of
the ring's size, so a slot is found from either (`SlotWraps`), the gap between
the counters moves by one (`GapMoves`), and slots less than `PIPESIZE` apart
differ (`ModDistinct`), so that a write spares what has not been read
(`WriteAppends`). For the readers, `ReadersRegistered`: a pipe with
bytes and a registered reader has a writer with the lock, on its way to the
wakeup, or is `untold`.

**`ProcProofs`**, for every number of processes, every bound on pids and every
length of a pause:

* `ProcInvariant`: the invariant `PInv`;
* `EveryoneHasReaper`: `HasReaper`;
* `NobodyMissesWakeup`: `NoMissedWakeup`.

`PInv` relates the fields that `kfork`, `kexit`, `kwait`, `kkill` and `sys_pause`
change under different locks. `Placed`: what `pc` says of `state`, and that only
`wait_lock`'s owner is about to become a zombie. `OwnEntry` and `NewEntry`: an
entry that `allocproc` gave out is used by one `kfork` only, and has no parent
until `kfork` sets it. `InitLives`: the process that inherits orphans does not
exit. `Reaped`: a parent is never gone. `WaitHolds` and `PauseHolds`: between its
test and its sleep, and while it sleeps, a process that is still registered on
its channel has a child and no zombie child, or time left. `NoMissedWakeup` is
not inductive without them, since a wakeup may come between the test and the
sleep; what saves the code is that it clears the registration.

**`LogProofs`**, for any number of blocks, values and threads, every size of
the log and every reservation, with crashes at any step:

* `LogInvariant`: the invariant `LInv`;
* `LogNeverPanics`: `NoLogPanic`, for calls that keep to `OpBlocks`;
* `PinsAreExact`: `PinsMatchLog`;
* `SyncMeansDurable`: `SyncDurable`;
* `LogIsAtomic`: `Spec => Atomic`, the log implements `AtomicDisk`.

`LInv` has a part for each thing that must agree. `Headed`: in which phases the
header on disk is empty or is `log.lh`, and that no block is in it twice.
`Copies`: the cache differs from the disk only in blocks still to be installed;
`write_log` has copied a prefix of the log from the cache, and `install_trans` a
prefix from the log to the disk. `Pinned`: those blocks, and no others, are
pinned, so that recycling a buffer never loses one. `Boot`: until recovery is
over, memory agrees with the disk. `Counted`: `outstanding` is the number of
open calls. `Roomy`: the log has room for what the open calls reserved and have
not used (`Slack`, a set of pairs, so that its cardinality moves by one at a
time). `Waited`: a log with something in it has a call open or a commit under
way, and a caller of `sync` still counts a commit for what it is owed.
`NoLogPanic` is not inductive without `Roomy`, and atomicity not without
`Copies` and `Pinned`.

The refinement maps `durable` to what recovery would leave on the disk
(`Recovered`) and `view` to what `bread` returns, or to `Recovered` until
recovery is over. `RecoveredStays`: only `write_head` changes what recovery
would leave, since writes to the log are not in the header yet and installed
blocks are. `ViewStays`: only `log_write` and a crash change what is read.
`HeadCommits`: at `write_head` the two become equal, with no call open.

**`BlockdevSteps`, `BlockdevProofs`**, for any number of
processes, buffers, blocks and values, every number of descriptors from three up,
and every range of the ring counters that is a multiple of it:

* `BlockdevInvariant`: the invariant `BInv`;
* `CacheIsCoherent`: `CacheCoherent`;
* `RingsAreSound`: `RingsSound`;
* `NothingIsMissed`: `NothingMissed`.

`BInv` follows a request through the driver. `Counted`, `Named`, `Listed`,
`Locked`: `refcnt` counts the processes between `bget` and `brelse`, a buffer is
its block's only one, the list holds every buffer once, and the sleep-lock is
with the process past `acquiresleep`; so that a buffer that `bget` recycles is
nobody's. `Chained`: the descriptors of the waiting requests are chains of three,
apart from each other and from the free ones. `Flying`: a request is in the avail
ring, in the device or in the used ring, once, and just while the disk owns its
buffer. `Described`: `disk.info` says what the process asked for. `Clean`,
`Answered`, `Handed`: a valid buffer holds what the disk holds, unless somebody
writes it. Where `bget` finds no buffer it panics, and nothing is claimed of what
would follow. Coherence is not inductive without `Flying` and `Described`, since the
transfer is made by the device, from the descriptors; and those not without
`Chained`. The entries of a ring stay apart because at most `NUM / 3` requests are
in flight and the counters wrap at a multiple of `NUM` (the lemmas on remainders
at the head of `BlockdevSteps`). `NothingMissed` is inductive next to these: a
process registers on a sleep-lock, a buffer or the descriptors under the spinlock
that covers its test (`LockWaits`, `Served`).

**`ConsoleProofs`**, for any number of readers and writers, every size of the
input buffer, every range of the counters that is a larger multiple of it, every
batch of `consolewrite`, and a transmitter of two bytes or more:

* `LinesAreRight`: `LineDiscipline`;
* `NoByteIsLost`: `NoByteLost`;
* `SleepersAreWoken`: `NobodyStuck`;
* `EndsAreReturnedOnce`: `EofReturnedOnce`.

All rest on `CInv = Types /\ Lines /\ Spare /\ NobodyStuck`.
`Lines`: the ring from `r` to `w` is the text that is ready, and from `w` to `e`
the line being typed; together they fit the buffer, and the line has no end in
it, which is what lets `^U` erase back to `w`. The arithmetic is that of the
pipe, with three counters that also go back (`Holds`). `Spare`: `uartwrite` and
the echo both test the transmitter, then store, and no lock covers both; but
`tx_lock` lets in one writer and the handler is one, so if both have found it
empty there is room for two bytes. With a transmitter of one byte `NoByteLost`
would not hold, hence the assumption `FIFO >= 2` (a 16550 has 16). `NobodyStuck`
is inductive next to the types: a reader is registered before it releases
`cons.lock`, which covers its test, and a writer before it reads `LSR`.
`EndsAreReturnedOnce` counts the `^D` in the text: one character
typed or read changes the number by one, and the one that `consoleread` puts
back is still there.

Left to TLC:

* liveness (`NoStarvation`, `SleepersWoken`, `OrphansReaped`, `KilledExits`,
  `CallsEnd`): fairness and ENABLED are out of the prover's reach;
* `LinesLexed` and `LinesParsed`: `Syntax` is recursive, and induction over data
  is out of its reach too; with them the rest of `Jobs`, which runs the commands
  that `Syntax` makes;
* `File`: the first disk and `writei` are folds over the loops of the code, and
  what a fold returns is again an induction over data;
* `PagesAccounted`, a sum over the page tables (`MapThenSumSet`), for the same
  reason. `NoPanic` and `MemoryIsImage` of `Memory` need the part of it that says
  no page has two owners; their proofs have not been attempted;
* `Fs`: not attempted either. Its invariant would have to say, for every error
  path of `create`, `link`, `unlink` and `namex`, how the table, the disk and the
  durable copy differ between two calls of `end_op`.

## Known deviations

The run `sched_boostloop` is a disagreement of the code with `README.md`;
`PROJECT.json` quotes the lines. The others were met while modelling and are
visible in the modules; no run is spent on them.

Scheduler and processes:

* a push to the head of a level with head 0 writes to index -1, which is the
  last slot of the level above, and may overwrite an entry there: the process is
  RUNNABLE and in no queue (`proc.c:36`). `Sched!NoLostProcess` states that it
  does not happen, and TLC refutes it with `NPROC = 2`, `NLevel = 2`,
  `BoostPeriod = 2`, `TickMod = 4`;
* `wakeup` and `kkill` push at the tail of the level; `README.md:136` says the
  head (`Sched!MakeRunnable`);
* a boost leaves sleeping and running processes at their level; `README.md:137`
  says it moves all (`Sched!boost_move`);
* `kkill(0)` finds a free entry, whose pid is 0, and `allocproc` does not clear
  the mark, so that the next process there is born killed (`Proc!kkill`);
* `kkill` rouses a sleeper without clearing `p->chan`, and one that is killed
  between its test of `killed` and `sleep` sleeps on until the next wakeup
  (`Console`, `Pipe`).

Files and pipes:

* a writer that is killed after it has stored bytes returns past the `wakeup` at
  the end of `pipewrite` (`pipe.c:86`), and a reader sleeps on although there is
  data. The run has such a writer; `Pipe!ReaderSleepsOnEmpty` without its
  disjunct `untold` is violated in it;
* `mkfs` rounds the size of the root up to the next block even when its entries
  fill the last one, so that the size covers a block that is not there
  (`mkfs.c:172`); `MkfsAssumption` excludes that case;
* `bget` panics when every buffer is in use (`bio.c:87`), and nothing in the code
  keeps 64 processes and the pins of the log from using all 30: `bget_panic` is
  taken in the run. So does `iget` (`fs.c:269`); `FsAssumption` gives its table
  room.

Shell:

* an operator directly after a word is lost, since the loop's `i++` passes over
  the character at which the word ended (`lexer.c:113`). `LexerAgrees` is stated
  for lines with a blank there;
* a quoted `<` or `>` is a word to the lexer and still a redirection to `ext_in`
  and `ext_out`; `README.md:37` says that operators lose their meaning in quotes;
* a command that begins with a redirection, and `> <` in a row, are taken
  although the grammar in `parser.c:6-25` does not derive them (`Syntax!Lenient`);
* a pipeline that stops after one of its processes has ended is registered with
  all of them, and the entry stays when the others are gone (`command.c:337`);
* `reveal -` without a previous directory also skips the next command
  (`main.c:456`);
* the child of a redirected `reveal` or `peek` in the background does not exit:
  a second shell goes on reading (`main.c:509`, `main.c:599`);
* only the child of a redirected builtin calls `setpgid`, perhaps after the
  shell's `tcsetpgrp` (`main.c:357`); `ForegroundHasTerminal` leaves it out;
* the handler may run while an entry of `bg_list` is half filled (`main.c:41`),
  and between the `free`, `memmove` and `realloc` that remove one
  (`bins.c:867-871`, `bins.c:899-903`), when it looks at freed memory; the second
  is one step in `Jobs!resume_end`;
* the handler may take the stop of the foreground child; the shell then waits
  until somebody continues the child (`Jobs!plant_mark`);
* a background job that stops before its entry is made, or between `SIGCONT` and
  `sus=false` in `resume`, is shown as running;
* an alarm that rings while `waitpid` is not blocking is lost, and `--timeout`
  with it (`Jobs!alarm_handler`);
* `snoop` ignores `&`; a failing `pipe()` leaks the descriptors made before it.

## Not modelled

* Spin locks are mutual exclusion here; `push_off` and `pop_off` are counters
  of one CPU.
* Trap entry and return, argument fetching, boot, the interrupt controller,
  printing and string functions: straight-line, machine-specific or formatting.
* Of the disk driver the one-time negotiation; of the UART its set-up.
* `sys_mknod`'s devices beyond their inode, `fstat`'s copy, exit statuses.
* The user land of xv6 (its shell, library, programs and tests): sequential
  programs over the calls that are modelled.
* The panics of `fs.c` and `sysfile.c` that need blocks or the bytes of a
  directory (`bfree`, `bmap`, short reads and writes of an entry).
* Of the shell: which process of a pipeline holds which descriptor; redirected
  builtins in the background are outside `MCLines`, and so is `resume` with
  redirections, where `<` makes `tcsetpgrp` fail and a second file of either
  direction forks a helper (`main.c:742-763`, `command.c:106`, `command.c:165`); the
  frecency file of `hop` and `locate`; what `reveal`, `peek`, `spy` and `snoop`
  print.
