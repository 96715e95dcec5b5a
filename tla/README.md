# Verification of the xv6 kernel in this repository

The repository is the x86 version of xv6 with the single-transaction log
(`begin_trans` / `commit_trans`), plus three user programs of its own
(`truncate.c`, `less.c`, `vim.c`). This directory holds TLA+ models of its
kernel and of the programs that matter to it, the TLC configurations that check
them on small instances, and proofs
that TLAPS checks for instances of every size.

## 1. The system and its parts

| Part | Source | State | Operations | Module |
|---|---|---|---|---|
| Logging layer | `log.c` | `log.lh`, `log.busy`, the log area on disk | `begin_trans`, `log_write`, `commit_trans`, `recover_from_log` | `Log`, `AtomicDisk`, `LogProofs` |
| Buffer cache | `bio.c` | buffers, flags, LRU list | `bread`, `bget`, `bwrite`, `brelse` | `Bcache`, `BcacheProofs` |
| IDE driver | `ide.c` | `idequeue`, the controller | `iderw`, `idestart`, `ideintr` | `Bcache`, `BcacheProofs` |
| Scheduler | `proc.c`, `swtch.S` | `p->state`, `cpu->proc`, `ptable.lock` | `scheduler`, `sched`, `yield`, `forkret`, `sleep`, `wakeup` | `Sched`, `SchedProofs` |
| Process table | `proc.c` | slots: state, pid, parent, killed, stack, page table | `allocproc`, `fork`, `exit`, `wait`, `kill` | `Ptable`, `PtableProofs` |
| Pipes | `pipe.c` | ring buffer, counters, open ends | `pipewrite`, `piperead`, `pipeclose` | `Pipe`, `ByteQueue`, `PipeProofs`, `Modular` |
| File table | `file.c`, `sysfile.c` | reference counts, descriptors | `filealloc`, `filedup`, `fileclose`, `fdalloc`, `dup`, `pipe` | `Shell`; `Inode` (one descriptor) |
| Inode cache | `fs.c` | `ref`, `I_BUSY`, `I_VALID` | `iget`, `ilock`, `iunlock`, `iput`, `ialloc` | `Inode` |
| Inode contents, blocks | `fs.c`, `file.c` | bitmap, `addrs[]`, size, `f->off` | `balloc`, `bfree`, `bmap`, `itrunc`, `readi`, `writei`, `filewrite` | `Content`, `ByteFile` |
| Image builder | `mkfs.c` | the first image | `iappend`, `balloc` | `Content` (`mkfs`) |
| Directories, names | `fs.c` | directory entries | `dirlookup`, `dirlink`, `namex`, `skipelem` | `Inode` (without `skipelem`) |
| File system calls | `sysfile.c` | all of the above | `link`, `unlink`, `create`, `open`, `chdir` | `Inode` |
| Memory | `vm.c`, `kalloc.c`, `exec.c` | page tables, free list | `allocuvm`, `deallocuvm`, `copyuvm`, `freevm`, `exec`, `sbrk` | `Memory` |
| Console | `console.c`, `kbd.c`, `uart.c` | input indices `r`, `w`, `e`; modifier keys | `consoleintr`, `consoleread`, `kbdgetc` | `Console`, `LineInput`, `ConsoleProofs`, `Modular` |
| Shell and `init` | `sh.c`, `init.c` | commands, processes, descriptors | parsing; `runcmd`, `fork1`; reaping | `ShParser`, `ShGrammar`, `Shell` |
| User allocator | `umalloc.c` | circular free list | `malloc`, `free` | `Umalloc` |
| `truncate`, `vim` | `truncate.c`, `vim.c` | a file | `truncate`, `overwrite` | `Editors` |
| Clock, interrupts | `trap.c`, `sysproc.c`, `spinlock.c` | `ticks`, `ncli`, `intena` | `sys_sleep`, `pushcli`, `popcli` | not modelled |

How they interact. A system call enters through `trap`, which ends the process
instead if it was killed. File system calls begin a transaction in the log, read
blocks through the buffer cache, lock inodes, and log what they change; the log
writes through the cache, and the cache through the IDE driver. Everything that
waits does so with `sleep`, under a spin lock, and relies on the scheduler.

What makes it hard: several CPUs and interrupts; locks that are acquired by one
kernel thread and released by another (`ptable.lock` across `swtch`); wakeups
that must not come between a test and a sleep; a crash between any two disk
writes; processes killed anywhere; tables and buffers of fixed size; `uint`
counters that wrap. `PROJECT.json` lists these hazards at the lines where they
bite, with the property that covers each.

## 2. Modules

### `Log`, refining `AtomicDisk`

`log.c` over a disk of whole blocks. `disk`, `logblk` and `head` are what
survives a crash: the home locations, the log blocks and the header block. `buf`
and `dirty` are what the log relies on from the cache: a cached copy of each
block, and the blocks pinned by `B_DIRTY`. `lh`, `busy` and `tail` are `log.lh`,
`log.busy` and the loop index of `install_trans`; `pc` says where each process
is in its transaction and `mode` whether the machine is booting, recovering, up
or has panicked.

Every step writes the disk at most once, so `crash` between any two steps is a
crash between any two disk writes. `log_write` is the caller's change of the
buffer together with the copy into the log; `commit_trans` is `write_head`, one
`install_trans` step per block, `erase_trans` and `release_trans`;
`recover_from_log` is `read_head`, `recover_install` and `recover_erase`. The
cache may load any block and recycle any clean one at any time (`bread`,
`recycle`); that is all `Log` assumes of it, and `Bcache` models how it does so.

`AtomicDisk` is the promise: a disk that is stable across crashes, a current
view, and transactions whose writes become stable together in one step. The
refinement maps `stable` to what recovery would make of the disk (`Recovered`)
and `current` to what `bread` returns (`View`). `AtomicTransactions` is the
abstract specification under that mapping.

### `Bcache`

`bio.c` and `ide.c`. Buffers have a sector, contents and the three flags; `lru`
is the list at `bcache.head`; `idequeue` the request queue. Sections under
`bcache.lock` or `idelock` are single steps: the only places where a process
leaves the processor inside them are the two calls of `sleep`, and these are
steps of their own. `bget` and `iderw` use the same channel (the buffer), so
`Woken` wakes both kinds of waiter. The controller is external: it carries out
its command and raises the interrupt. `DiskErrors` lets `idewait` report an
error.

A process may hold several buffers and asks only for later sectors than it
holds, which is how the file system nests them (`install_trans`, which holds a
log block while it reads the home block, is left out: only the process in the
transaction uses log blocks, so it cannot be part of a cycle); it may write a
buffer through (`bwrite`) or leave it pinned (`log_write`), at most `MaxPin` of
them.

### `Sched`

The scheduler loop of each CPU, `sched`, `yield`, `forkret`, and `sleep` and
`wakeup` line by line around their two locks. `ctx[c]` is what CPU `c` executes
and `scan[c]` the loop index that its scheduler's stack keeps while the process
runs. The processes use one condition in the way every user of `sleep` in the
kernel does: a lock `lk`, a flag, a channel (in the map, `iderw` and `ideintr`).
A waker may be an interrupt handler on top of a process at any point where
interrupts are on; one on top of an idle scheduler, which does the same with the
same locks, is left out. Nobody exits here: that an exiting process keeps its
stack until the scheduler is off it is in `Memory`.

### `Ptable`

Slots of the process table with state, pid, parent, killed, sleep channel, and
who owns a kernel stack and a page table. A section under `ptable.lock` is one
step. `fork` works on its `EMBRYO` slot without the lock and takes three, each
of which may fail. `RUNNABLE` stands for `RUNNABLE` and `RUNNING`: `Sched` is
about the difference. `io_test` and `io_sleep` are an interruptible system call,
whose test of `proc->killed` is not under `ptable.lock`. `MCPtable` adds a history
variable, `late`: the processes killed between that test and the sleep, the only
ones that `KilledExits` lets sleep on.

### `Pipe`, refining `ByteQueue`

`pipewrite` and `piperead` with `p->lock` explicit and one byte per step. `WORD`
is the number of values of a `uint`; like 2^32 it is a multiple of `PIPESIZE`.
`close` is `fileclose`'s reference count; the last reference calls `pipeclose`.
A process that has both ends open is represented by one member of `Writer` and
one of `Reader`. `ByteQueue` is a bounded queue with two ends that close; the
queue is the `Count` bytes from index `nread` on.

### `Inode`

The inode cache (`icache`), directories, path lookup and the system calls over
them, on the disk that `Log` provides: `view` is what a read finds, `stable` what
a reboot would find, `tx` the process in a transaction. `commit_trans` makes
`view` stable in one step, which `AtomicDisk` justifies; `crash` boots again from
`stable`. `k[p]` is where process `p` is in the kernel, with the locals of the
call: `cur`, `rest` and `par` are those of `namex`, `ip`, `dp` and `name` those of
the system call, `arg` and `cont` the inode that `ilock` or `iput` is about and
where the caller goes on.

A step ends where the code releases an inode or `icache.lock` and another process
may come in between: each `ilock` and each `iput` is a step, and the `iput` that
frees an inode is three (`iput_last` sets `I_BUSY` and drops the lock,
`iput_free` is `itrunc` and `iupdate`, `iput_freed` takes the lock again). File
contents are left out; a directory is a function from names to inode numbers.
Paths are sequences of elements. `link_looked` and its like are what each call
does with the inode that `namei` or `nameiparent` returned. `dirlink`'s own test
whether the name exists, a lookup and an `iput` at once, is one step with the
writing of the entry. A process has one descriptor; init keeps "/"
and makes no calls. The inode cache is never full (`NINODE >= NINUM`), so the
panic of `iget` is left out.

### `Content`, refining `ByteFile`

The block layer of `fs.c`. A file system is a record: the bitmap, each block as
bytes and as block numbers (the code reads it one way or the other), and the
inodes with `NDIRECT` direct entries and one indirect block. The functions of the
code are operators from one such record to the next, so that their nesting
(`writei` calls `bmap`, which calls `balloc`, which logs) is kept; `logged` is the
set of blocks the transaction has logged, and `log_write` refuses a block when
the log is full, also one it has already.

`fs` is what the cache holds and `disk` what the last commit left; `filewrite`
runs one transaction per piece, and `crash` may come between any two steps.
`unlink` is the last unlink of a file that is closed, whose `iput` calls
`itrunc`; the name itself is `Inode`'s subject. The initial states are what
`mkfs` makes of a list of files. `ByteFile` is the promise: files are byte
sequences with a shared offset, a read returns the bytes at the offset, a piece
of a write is durable as a whole, a crash loses what was not committed.

### `Memory`

Pages and address spaces. One `kalloc` or `kfree` is one step and the others may
come in between; everything else a call does touches only what its process owns.
`vm[d]` is the directory in page `d`: its page-table pages (`pde`) and the pages
they map (`pte`), and the pages open to user mode. `op[p]` is where `p` is in
`sbrk`, `exec`, `fork` or `wait`. Every allocation may fail, at every place where
the code makes one. `Holds` lists each place that holds a page, and the
properties are about it. `cr3[p]` is the directory that the CPU of `p` has loaded;
`exit` goes into `sched()` on the process's own stack and directory, and
`scheduler` leaves both before `ptable.lock` is free for `wait`. `deallocuvm`
frees a page and clears its entry in one step: in between only the process itself,
which is in the kernel, could use the entry. Segments are aligned and their sums
do not wrap, so that `loaduvm`'s panic and `exec`'s test for a wrap are not
reached; a bad program header goes to `bad:` in `exec_segment`.

### `Console`, refining `LineInput`

The ring buffer with its three `uint` indices, `consoleintr` one character at a
time, `consoleread` from its test to its sleep and back, and `kbdgetc` on the
bytes of scan codes; keys of `kbd.h` that carry the same meaning are one key,
except that the two control keys, of which the right one sends `E0`, are two.
`WORD`, the number of values of a `uint`, is a multiple of `INPUT_BUF` as 2^32
is of 128. `LineInput` is a line that can be edited and a queue of what can be
read.

### `ShParser`, `ShGrammar` and `Shell`

`ShParser` is the parser of `sh.c` function by function: a position in the line
takes the place of `*ps`, and `nulterminate` cuts the line up before the words
are read off it as C strings. `ShGrammar` is the reference: the set of commands
that a line stands for, given by splitting it in all possible ways, without
positions, tokens or order of evaluation.

`Shell` runs what the parser returns. The lines typed and their commands are
constants, and that the commands are what `parsecmd` makes of the lines is an
assumption of the module, which TLC evaluates. A process is the list of system
calls it has still to make; `runcmd` yields that list for each kind of command.
Below it are the file table, the descriptors and the process slots. `open` and
`pipe` take each file, page and descriptor in a step of its own, and after a
failure close each file they have in a step of its own, while other processes
use the same table; the entries `open_fd`, `pipe_...` and `fileclose` at the
head of the list are what is left of such a call, with the files it has in hand.
`want` is a history variable: the files that a command's place in the line
entitles it to. A program that is started reads its standard input to the end or
stops before, and then makes the calls that `Programs` gives it (external). That
init's child always gets its `exec("sh")` done is assumed: with a shell that can
never be loaded, init starts one after the other and no prompt comes.

### `Umalloc` and `Editors`

`Umalloc` is `malloc`, `free` and `morecore` on an array of headers; the program
may call `sbrk` in between. Requests are in bytes, and the conversions to headers
and to the `int` that `sbrk` takes wrap as in the code; the instance asks for less
than would wrap them. `Editors` is `truncate` and `vim`, call by call, two of them
at a time on the same name; each may be killed at any call, and `int` arithmetic
wraps. `req` is a history field: the size that was asked for, without wrapping.

### How the runs compose them

Modules that share state are composed where the code composes them: `Shell`
extends the parser and contains the file table; `Content` contains the image
builder and the log's bound. `MCSync`, `MCFrames`, `MCFiles` and `MCUser` put
components side by side that share no state: a variable `part` is chosen in the
initial state, that component runs, and the others stay where they are. This is
one run per question without multiplying the state spaces.

## 3. What TLC checks

| Run | Shows |
|---|---|
| `log` | pinned blocks are those logged and not yet home; the log refines `AtomicDisk`, wherever the machine crashes; transactions end and recovery finishes |
| `sync` | scheduler: no kernel stack on two CPUs, nobody sleeps on a condition that has come true |
| `pipe` | the pipe is a queue, a read of 0 is the end of file, the page is freed once and unused, nobody sleeps on a condition that has come true |
| `progress` | scheduler, pipe and buffer cache: every runnable process runs, closing one end of a pipe releases the other, disk transfers complete |
| `frames` | memory: no page has two owners and none is lost, nobody frees the directory or the kernel stack a CPU is on, a failed `exec` changes nothing; buffer cache: no sector cached twice, buffers exclusive and equal to the disk, no lost wakeup, contents change only by their holder |
| `ptable` | parents are alive, no missed exit, stacks and page tables match the state; killed processes exit whatever they wait for, zombies are reaped |
| `files` | reference counts and inode locks are exact on every path through the calls, valid entries equal the disk, processes in the kernel never block one another for good, and after a crash every name leads to an allocated inode with enough links; every block is free or listed exactly once, in memory and after a crash, every write fits the log, and files refine `ByteFile` |
| `console` | the ring buffer refines `LineInput`; nobody sleeps beside something to read; what was committed is read; no modifier key sticks |
| `user` | file counts are exact at every step of an `open` or `pipe` that fails; a program starts with exactly the descriptors its command says; the prompt comes back; the parser agrees with the grammar; the heap is a partition; `truncate` and `vim` leave the file they should |

Runs that TLC refutes, each against a comment of the source (see `findings` in
`PROJECT.json`):

| Run | What the code does |
|---|---|
| `bcache_read_error` | a failed read leaves the buffer marked valid, with another sector's contents |
| `pipe_killed_writer` | a writer killed in the write that fills the pipe does not wake the sleeping reader |
| `inode_put_outside_trans` | `exit` and `chdir` out of a removed directory free its inode outside a transaction, and `log_write` panics |

Noted while modelling; the models do the same as the code:

- `kill` compares pids without looking at `p->state`, so that `kill(0)`, or the
  pid a failed `fork` leaves in its slot, marks a free slot, and the next process
  created there exits at once (proc.c:409).
- `killed` is tested without `ptable.lock` before a blocking call sleeps, so a
  kill in between leaves the process asleep until its device wakes it
  (proc.c:412). `KilledExits` excepts exactly those processes. In `Console` the
  same reader may sleep although it is killed, until the next line.
- `NBUF` equals `LOGSIZE` (param.h). One transaction may pin `LOGSIZE - 1`
  buffers, and with two more in use `bget` panics (bio.c:92). Both runs of the
  buffer cache, `frames` and `progress`, reach the panic; no property says that it
  cannot come, and `TransferCompletes` speaks of transfers before it.
- When an `iput` outside a transaction frees an inode while another process is
  in one, its writes join that transaction: there is no panic, but the two calls
  are committed together.
- A removed directory that is still some process's current directory keeps its
  "..". If the parent is removed and freed as well, looking up ".." reaches a
  free inode and `ilock` panics "no type". Within `files`' bounds this does not
  happen: it takes a second level of directories and seven calls. A name can also
  still be created in a removed directory; its inode is then lost when the
  directory is freed. `NamesAreSafe` therefore says that link counts cover the
  names, not that they equal them.
- fs.c:132 says that `iput` clears `I_VALID` when `ref` falls to zero; it does so
  only when it frees the inode. `iget` clears it when it recycles the entry.
- `balloc` looks for a free bit up to `sb.size`, but the log takes the last
  `nlog` blocks of the disk (fs.h:8-9) and `mkfs` does not mark them: on a full
  disk the log's blocks are handed out as data (fs.c:63). `Content` leaves room.
- `mkfs` rounds the root's size up by at least one byte to a block boundary
  (mkfs.c:146). When the entries fill the last block exactly, the size covers a
  block that does not exist, and the first lookup allocates it outside a
  transaction; the instance has three entries in blocks of two.
- `allocuvm` ignores a failed `mappages` (vm.c:240): it returns the new size with
  a page lost and not mapped. `setupkvm` and `copyuvm` also forget pages when a
  page table cannot be had. `NothingLost` makes that exception by name.
- `growproc` takes a new size of 0 for an error, after the pages are gone
  (proc.c:117).
- The shell parses `>>` as `>` (sh.c:392-393). When `fork` fails the shell itself
  exits and `init` starts another.
- `truncate` ignores what `write` returns; killed after its `unlink`, it leaves
  no file or part of one, a beginning of the old file and zeros (`EditResult`).
  Two edits of the same name may mix; `EditResult` says what still holds when both
  are `truncate`.
- `truncate` computes the size in an `int` (truncate.c:93-103). With the suffix G,
  which its help offers (truncate.c:116), every number from 2 on wraps: `2G`
  empties the file, `-3G` lengthens it. The model wraps too; `EditResult` speaks
  of sizes that fit.
- `malloc` of about 2^31 bytes or more passes a negative number to `sbrk`
  (umalloc.c:54), or wraps to a block that is too small (umalloc.c:69).

### Bounds, and why they are enough

- `Log`: three processes (one in a transaction and two asleep, so that a wakeup
  of one only would show); three blocks and room for two in the log, so that a
  transaction can fit, absorb and overflow; two values tell old from new.
  Crashes are not bounded.
- `Bcache`: two buffers for three sectors force recycling; three processes give
  a holder, a waiter for the buffer and one that recycles. `MaxHold = 2` lets a
  process hold a buffer while it waits for another. The liveness run has two
  processes that hold one buffer each, and one pin: all buffers but one, as
  `LOGSIZE` and `NBUF` allow.
- `Sched`: four processes on two CPUs: two run while others sleep or wait to run.
  The liveness run has one CPU: with two, a CPU may lose the race for a spin lock
  for ever, since `acquire` promises no fairness.
- `Ptable`: four slots allow init, a parent, its child and a zombie grandchild;
  `MaxPid = 4` allows three forks, so that slots are reused after a failed or
  finished process.
- `Pipe`: a buffer of two bytes and counters that wrap after four; writes of
  three bytes do not fit and must wait, reads of two may come back short. Two
  processes at each end make them compete.
- `Inode`: two processes next to init, three inodes (the root, a directory `/a`,
  one more) and three paths: `/a`, and `b` and `..` relative to the current
  directory. `MaxCalls = 3` calls in a behaviour, forks and crashes not counted:
  enough for a lookup, an unlink of what it found and a create that takes the
  freed inode before `iput` has given the entry back. One file structure makes
  `open` fail for the second process. `View` forgets which entry of the table an
  inode is in and the contents of unused entries.
- `Content`: blocks of two bytes, one direct entry and two in the indirect block,
  so that a write crosses from direct to indirect; a log of six, so that one
  block fits a piece with its overhead and two do not; two files, two writers
  that share an offset, three calls that change files (write, remove, write
  again).
- `Memory`: two processes and sixteen pages of which each address space needs
  four to nine, so that `exec` and `fork` run out at every place; two pages per
  page table and three tables, so that an image crosses tables; page sizes of two
  units, so that sizes are not multiples of pages. `View` forgets which physical
  page is used where; the properties only compare pages.
- `Console`: three characters in the buffer and indices modulo six, so that the
  buffer fills and the indices wrap; two readers. `MCNext` lets keys be pressed
  only while nobody reads: the keyboard's state and the readers meet only in the
  characters, and those come from the serial line too.
- `Shell`: five slots (init, the shell, the child that runs the line, two ends of
  a pipe; a background job takes one of them, and forks fail), four files (one
  more than console and pipe need, so that redirections run out), five lines. Of
  five descriptors a program has two left: after one `dup` `pipe` fails on its
  second descriptor, after two `pipe`, `open` and `dup` fail on their first.
  The parser sees every line of up to five characters over the symbols, a letter
  and a blank; `MAXARGS` is 3.
- `Umalloc`: a heap of eleven headers, two request sizes; `Editors`: a file of
  three bytes read two at a time, sizes above and below it, above the largest file
  and beyond the range of the integers.

Symmetry is used for processes or CPUs in safety runs only.

### Fairness, and what justifies it

Weak fairness of the steps a process must take once it is in the kernel: the
scheduler gives every runnable process a turn, which `Sched` itself checks from
weak fairness of the CPUs and a timer that keeps interrupting. Nothing forces a
process to start a call, a device to call `wakeup`, or the machine to crash.
In `Console` a reader in the kernel runs; in `Shell` every process that can make
its next call does, and a program that reads to the end of its input finishes
when it gets there, but nobody has to stop early.
Strong fairness appears three times: for `brelse`, because a holder's code
writes a buffer a bounded number of times before it releases it; for init's
`wait`, because `init.c` calls it in a loop; and for the timer in `Sched`,
because an interrupt stays pending while interrupts are off.

## 4. What is proved

The theorems hold for every value of the constants that the named assumptions
allow (`LogAssumption`, `SchedAssumption`, `PtableAssumption`, `ConsoleConstants`
as `ASSUME`s; `PipeConstants` and `BcacheConstants` as hypotheses, because runs
use those modules through `INSTANCE` and assume them there): sizes are positive
naturals, the markers for "none" are distinct from what they stand beside, and a
ring's size divides the width of its counters, as 512 and 128 divide 2^32. Each
proof module has one inductive invariant, proved by one lemma per conjunct
(`...Step`), each with one step per action.

### The log (`LogProofs`)

`Inv`, of which `LogInv` is the larger part, is the inductive invariant: types;
one process in a transaction exactly when `busy`; the sectors in the header are
distinct; pinned blocks are exactly the logged blocks not yet installed, with
their contents in the log; every other cached block equals the disk; the header
on disk is either empty or equal to the one in memory. It is needed because
atomicity is about the disk and the log together: `AtomicTransactions` alone
says nothing about a transaction that has not committed yet, so it is not
inductive.

`InitInv`, `TypeStep`, `ExclusionStep`, `InstallOneStep` and `LogStep` show that
it is inductive, action by action; `SlotOfLogged` and `SlotOfUnique` are about
absorption. For the refinement, `EmptyLogIsDurable` (an empty header means that
recovery changes nothing), `InstallHidden` (copying a logged block home changes
neither what recovery finds nor what is read) and `EraseHidden` (erasing the
header after the last copy does not either) carry the argument: of the steps of
`commit_trans` only `write_head` is visible in the atomic disk.

Theorems: `Invariance`, `TypeCorrect`, `Serial`, `WakeupNotLost`, `Pinning`,
`Quiescence`, `Refinement`.

### The scheduler (`SchedProofs`)

`SchedInv` is `TypeOK`, `OneCpuPerProcess`, `LockDiscipline`, `Executing` and
`NoMissedWakeup`. The first three safety properties need one another: a process
is taken by one scheduler only because whoever makes it runnable holds
`ptable.lock` until it is off its stack, and the lock is where it should be only
because no two CPUs execute the same process. `Executing` ties `p->state` to the
position of the process. `NoMissedWakeup` then follows from mutual exclusion: a
process between its test and its sleep holds `lk` or `ptable.lock`, and a waker
about to call `wakeup1` holds both.

Theorems: `Invariance`, `TypeCorrect`, `StacksAreExclusive`, `LocksAreHeld`,
`WakeupNotMissed`, `RunningStates`.

### The process table (`PtableProofs`)

`Inv` adds to `ParentIsLive`, `NoMissedExit` and the resources: a slot under
construction belongs to exactly one running `fork` (`Construction`), only live
processes are inside the kernel and sleep on the channel of their own call
(`Channels`), init stays alive and nobody is its own parent (`Family`). Without
`Construction` two forks could finish the same slot; without `Family` a child
whose parent exits could be handed to a dead init.

Theorems: `Invariance`, `FamilyKept` (`FamilyConsistent`: every process has a
live parent that will find it, and nobody sleeps in `wait` beside a zombie of
its own), `NothingLeaks` (`ResourcesMatchState`).

### Pipes (`PipeProofs`, `Modular`)

`Inv`: the process that closes an end last finds it open and nobody else is in
it (`Closing`), the pipe is freed once (`FreedOnce`), what a process tested under
the lock still holds when it sleeps (`Tested`), and whoever made a sleeper's
condition true is still inside the loop that ends with the `wakeup` (`Wakers`).
`SleepersWoken` alone is not inductive: it says nothing of the process that will
call `wakeup`. `Modular` has the arithmetic of counters that wrap; `CountPut` and
`CountGet` turn the remainders into the number of bytes in the ring.

Theorems: `Invariance`, `Consistent` (`PipeConsistent`), `Woken` (its conjunct
`SleepersWoken`), `EndOfFile` (`ZeroMeansEof`), `Refinement` (the ring
implements the queue `ByteQueue`; `PutQueue` and `GetQueue` are its two visible
steps).

### The buffer cache and the disk (`BcacheProofs`)

`Inv`: the LRU list and the request queue have no repetition (`Lists`), a buffer
is busy exactly while one process has it, and one sector has one buffer (`Held`),
a queued buffer is the last one its sleeping owner got (`Transfers`), and the
controller works on the head of the queue with that buffer's contents
(`Controller`). The conjuncts need one another: that nobody changes a buffer
under the controller is exclusive use, and that a sleeper in `iderw` is woken is
that its buffer is in the queue until `ideintr` takes it off. `MoveFacts` is the
lemma about `brelse`'s relinking, `MaxIn` the one about `bget`'s scan.
`Clean` (a valid clean buffer equals its sector) needs a disk without errors, and
is proved under that hypothesis; `MCBcacheError` shows that it is necessary.

Theorems: `Invariance`, `Exclusive` (`ExclusiveUse`), `Wakeups`
(`NoLostWakeup`), `MatchesDisk` (`BufferMatchesDisk`), `BreadReturns`
(`BreadReturnsContents`), `HolderWrites` (the action property
`OnlyHolderWrites`).

### Console input (`ConsoleProofs`, `Modular`)

`Inv`: `r`, `w` and `e` follow one another around the ring and are at most
`INPUT_BUF` apart (`Ring`), no newline and no end-of-file mark is uncommitted
(`Uncommitted`: why `^U`'s search for a newline always ends at `w`), the one
reader in the loop, or about to sleep after its test, has the lock (`Calls`),
and every modifier bit has a key that is down (`Modifiers`). The refinement
reads the line and the queue as spans of the ring; one lemma for each thing that
can happen to a span (`PutSpan`, `ErasedSpan`, `JoinedSpan` for a commit,
`TakenSpan` for a read, `KeptSpan`).

Theorems: `Invariance`, `Sleeps` (`SleepsOnEmpty`), `Modifier`
(`NoStuckModifier`), `Refinement` (`LineDiscipline`).

### Model-checked only

- `Memory`, `Inode` and `Content`: safety so far checked by TLC only.
- `ShParser`, `ShGrammar`, `Shell` and `Umalloc`: recursive operators; what they
  compute for every input needs induction over data. `Editors` is checked over
  bounded files.
- All liveness properties: liveness under fairness and `ENABLED` are out of the
  prover's reach.

## 5. Not modelled, and the plan

The models say nothing about the contents of system call arguments, formatting,
device registers, booting, or memory ordering (spin locks are sequentially
consistent). Each component left out is in `PROJECT.json` with its reason.

Left out on purpose:

- Booting, device set-up and the screen (`bootmain.c`, `main.c`, `mp.c`,
  `lapic.c`, `ioapic.c`, `picirq.c`, output in `console.c` and `uart.c`): register
  programming in a fixed order, with no state a later step depends on.
- `string.c`, `ulib.c`, `printf.c`: sequential helpers on bytes; modelling them
  would repeat the code.
- `less.c` and the small programs: a few calls in sequence that write nothing;
  `usertests.c`, `forktest.c` and `stressfs.c` are tests.
- `memide.c`: replaces the IDE driver and never waits.
- `pushcli` and `popcli`: one counter per CPU, touched with interrupts off.
- The clock: one counter, and the sleep that `Sched` is about.
- `fetchint`, `argptr` and the like: checks on arguments without state.

Next, in this order:

1. Proofs: `Memory` (`OwnedOnce`, `NothingLost`), `Inode` (`NamesAreSafe`,
   `ValidMatchesDisk`).
2. `Inode`: an inode cache that can be full, liveness of `ilock`, a second level
   of directories; `mknod`; `skipelem` against a reference.
3. `Content`: a full disk, with the log at its place.
