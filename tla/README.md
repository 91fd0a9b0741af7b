# Verification of the kernel

TLA+ models, TLC runs and TLAPS proofs for the x86 kernel in this repository: its
process scheduler, the system calls, the interrupts that cut into them, the file
system with the disk driver beneath it, the console, paging and the allocators. The
reference is the C and assembly source; every definition names the lines it models
in `PROJECT.json`.

## The system

One processor, one kernel stack. `kmain()` initialises the parts below, creates four
processes and waits; from then on the kernel runs only in interrupts:

    timer (IRQ 0)      -> hal.handler -> pit.handler -> scheduler.schedule
    keyboard (IRQ 1)   -> hal.handler -> keyboard.handler -> tty.printf
    int 0x80           -> syscall.handler -> one call -> perhaps scheduler.schedule
    exceptions         -> exception.handler -> print and halt

The gates of hardware interrupts disable interrupts, the gate of `int 0x80` does
not: a system call may be interrupted anywhere, also by the timer, which then
switches to another process with the call half done.

| component | state | operations | model |
|---|---|---|---|
| process scheduler (`scheduler.c`) | `__all`, `__pid`, `__current`, queues `__start`, `__ready`, `__waiting`, `__done`; the PCBs | `create`, `schedule` | `Scheduler`, in steps `Preemption` |
| process system calls (`syscall.c`) | `parent`, `child[]`, two child bitmaps, `signal` of each PCB | `fork`, `execve`, `wait`, `kill`, `exit`, and the two `notify_parent_*` | `Syscalls`, in steps `Preemption` |
| interrupt entry (`isr.s`, `idt.c`, `hal.c`, `pit.c`, `tss.c`, `ring3.s`) | the kernel stack and its frames, the privilege level | entry, dispatch, `iret` to a frame that `schedule()` has changed | `Preemption` |
| program loader (`execve`, `elf.c`) | the headers and the position in the file, the pages of the new process | open, headers, segments page by page, sections, close | `Program` over `Fat32` |
| FAT32 and VFS (`fat32.c`, `vfs.c`) | 29 shared file descriptors, each with a loaded file and a position | `open`, `read`, `lseek`, `close` | `Fat32` |
| disk driver (`pio.c`) | task queue, current task, the registers of the device | `read` by polling; `write` is the same and has no caller | `Disk` |
| console (`tty.c`), keyboard | cursor and screen | `putchar`, `scroll`, printing from interrupts | `Console`, abstract `Paper` |
| queue (`queue.c`) | `head`, `tail`, nodes on the heap | `push`, `pop`, `peek` | `LinkedQueue`, abstract `Fifo` |
| kernel heap (`heap.c`) | block headers, `initial_header` | `malloc`, `free` | `KernelHeap` |
| page frames (`physical.c`) | `__bitmap` | `malloc`, `free` | `PhysicalMemory` |
| paging (`paging.c`) and its callers | directories and tables in frames, `cr3` and `heap_end` of each PCB | `create_*`, `destroy_*`, `default_directory`; `sbrk` and the page work of `create` and `execve` | `Paging` |
| exceptions (`exception.c`) | none | print and halt | `Exception` in `Syscalls` |
| interrupt controller, ports, GDT, boot | none that changes after boot | | not modelled |

The parts meet in a few places. `schedule()` calls `paging.destroy_directory` and
`halloc.free` for dead processes; `create()` calls the heap, the frame allocator and
paging; `execve()` also reads a file. Every queue operation allocates or frees a
heap node. A parent and a child meet only through `notify_parent_create`,
`notify_parent_complete` and `wait`.

What is hard here, and what the properties are about (`PROJECT.json`, `hazards`, has
the list with lines):

* a process stands in one of five lists while others change its state;
* the end of a child races its parent's `wait()`: notified before it, during it, or
  while the parent is running;
* bitmaps, arrays and states of one PCB are updated in several places;
* the timer interrupts a handler in the middle of such an update, and the suspended
  handler shares its stack with whatever runs next;
* the disk's current task, the cursor and the file descriptors are shared by
  everything that may run while a handler is suspended;
* allocators keep their bookkeeping inside the memory they hand out (heap), or flip
  bits instead of clearing them (frames);
* limits: full child bitmap, no free frame, no large enough heap chain.

## Modules

**Scheduler** has the variables of `scheduler.c` and the fields of the PCBs, as
functions from pids. `Schedule(st, fresh, table, ctx, eax)` is `schedule()` whole:
save the current process (`Saved*`), admit `__start` (`AdmittedStates`), move the
resolved prefix of `__waiting` (`ResolvedPrefix`), take the first ready process and
drain the ones in front of it (`Load`), or panic (`Panic`). Its parameters are the
fields as the calling handler leaves them, so that a handler and the call of
`schedule()` it ends in are one action. `Tick` is the timer interrupt.

**Syscalls** extends it with one action for each path through `handler()`: `Fork`,
`ForkRefused`, `Execve`, `ExecveRefused`, `WaitNoChild`, `WaitBlock`, `WaitReap`,
`KillMissing`, `KillOther`, `KillSelf`, `Exit`. A process is any sequence of these
calls, interrupted by `Tick` anywhere between them, or by an `Exception`, which
halts the machine. `create()` and `kill()` do not look at the size of `__all`:
`CreateBeyond` and `KillBeyond` are the calls that go outside it, and since what
they overwrite or follow is up to the linker, a behaviour ends with them. `rekilled`
is history: `kill()` was called for a process in the table that had ended before.

**Preemption** extends Syscalls with the machine under it. The handlers are cut
where the state they share with others changes: `create()` and
`notify_parent_create()` in `fork()` and `execve()`, check, sleep and save in
`wait()`, state and notice in `kill()` and `exit()`, and save, choice, load and
drain in `schedule()`. `kstack` holds the activations of handlers, oldest first,
with the label (`at`), a local value (`arg`) and the frame's `eip` and privilege.
`Enter` starts on the stack of the task state segment if the processor was in ring
3, and on top of what is there if not. `Timer` is a whole `schedule()`, since its
gate disables interrupts, for a program or for the handler at the top; what it saves
of a handler is its depth on the stack (`resume`). `Iret` goes to the program or
back into a handler. The latter is sound only if that activation is the top of the
stack again and `esp` is where it was, which an `iret` within ring 0 does not see
to: whether it is, is open in the model, and a handler that goes on anywhere else is
`wild`, which ends a behaviour.

Some steps still stand for several instructions on shared state: the table and the
queue in `create()`, bit and `child[]` of a slot, the context and the queue in
`save_current()`, each turn of the loops of `schedule()`. `Inner` gives those
windows names, and `TimerWithin` is a timer that cuts into one of them: it is
recorded and ends a behaviour. `hits` and `nested` record where and how often the
timer has hit a handler, between steps and within them, and each property says which
hits it survives. `SwitchRing3` is what `ksmain()` does.

**Fifo** is what callers expect of a queue. **LinkedQueue** is the doubly linked
list with head, tail and nodes, where the heap may hand out any node that is not
held and a freed node keeps its contents. `Order` follows `next` from the head; the
refinement reads the payloads along it.

**PhysicalMemory** has the two operations of the frame allocator as operators on a
bitmap; `Freed` flips. **Paging** keeps the entries of every frame. Its actions are
`Create` (`create()` of the scheduler), `Execve` (the same, with the pages of a
segment and of a section without bits), `Sbrk` and `Destroy`. `execve()` takes the
place of a page from the program file and `sbrk()` from `heap_end`, without a check.
`ExecveStrays` and `SbrkStrays` are the calls whose pages are not all in the user
table, but in one of the kernel's, in one that does not exist or behind the frame of
the table; they set `strayed` and end a behaviour.

**KernelHeap** keeps a header at the start of every block, including the ones that a
join has left inside allocated memory. `Malloc` starts the search, `Found` and
`Skip` are one turn of its loop each, `Free` is `free()` with its splitting, and
`Fill` is a client writing over the headers inside its memory.

**Fat32** has the lookup of a path (`Located`, `Walk`), the loading of a file along
its cluster chain (`Loaded`, one turn of the loop of `load_file()` at a time) and
the table of open files with `Read`, `Lseek` and `Close`. `open()` is two steps:
`OpenBegins` finds a free descriptor, `OpenTakes` or `OpenFindsNothing` comes after
the disk has been read, with anything in between. A second `open()` that begins
there (`OpensOverlap`) may get the same descriptor and uses the same `__buffer`; it
ends a behaviour. `Contents` is the reference for what a file holds: all sectors of
its clusters, in order. `entry`, `from` and `got` in an open file are history for
the properties. **Program** composes it with `execve()` as far as that loads a
program: `open()` in its two steps, header, program headers, the pages of each
segment, section headers, close, each call of the file system a step of its own.
Programs call the same operations in between (`ProgramCalls`), on any descriptor; a
call that changes the loader's own open file leaves the loader "lost", and what is
loaded then is undefined. `Described` is the reference, by addresses, for what a
program's image is. **MCFat32** gives a disk and **MCProgram** an executable on it.

**Disk** is `read()` of the disk driver with one activation for each read in
progress: `at` is where it is, `count` how many sectors it has taken. A read may
begin while others are suspended, and any of them may go on at any time, as the
scheduler decides. `tasks`, `current` and the registers of the device are shared.
The device (`Deliver`, `Fail`) is external: it hands out the sectors of the last
command one by one, or breaks. A read that pushes its task while that of another is
queued or current (`Clashes`) ends a behaviour: from there on the two work through
one `__current` and take each other's sectors.

**Paper** is what the console promises: characters on an endless page. **Console**
is `putchar()` and `scroll()` step by step over the screen, with `Interrupt`, a
whole `putchar()` by the keyboard's handler, at any step. The refinement adds what
has scrolled off to what is on the screen. Two handlers that are both in the middle
of a `putchar()`, one suspended by the timer, are outside the model: there a row may
be stored to that is not on the screen.

**SyscallsProofs**, **PreemptionProofs**, **PagingProofs**, **HeapProofs**,
**QueueProofs**, **DiskProofs**, **ConsoleProofs** and **ProgramProofs** hold the
proofs about the modules they are named after, the last one those about `Fat32` too.

### Abstractions

* A process is its pid. Pids are never reused by the code. A freed PCB keeps its
  last contents; in the kernel the block may be reused, and a pointer to it from an
  orphan is then read as something else. While it holds, `state` is DONE and
  `notify_parent_complete` does nothing.
* In `Syscalls` a handler is one step; `Preemption` is the same with handlers cut
  into steps. There, calls of the heap, of paging and of one queue operation stay
  whole parts of a step; a timer within one of them is a window of `Torn` like the
  others, after which nothing is claimed. The stack of 4096 bytes is a bound on the
  number of activations.
* `__done` is filled and emptied in one call of `schedule()` and is no variable. If
  that call panics, its contents are stranded; `QueuesPartition` says so.
* Of the registers only `eax` is kept, which carries results and the pid a woken
  parent gets.
* `kill()` always has a nonzero signal. What lies outside `__all` is unknown, so a
  `create()` or `kill()` that goes there is the last step of a behaviour.
* In `Paging` flags and page contents are left out. Address 0 is the entry `Null`:
  when no frame is free the code maps and clears that page. A process is created
  only while six frames are free, because without them the code writes page tables
  over low memory. What a page entered outside the user table overwrites is left
  out; the end of a heap falls at most `MaxPages` below the table.
* In `KernelHeap` what clients write over a header is 0, 1 or 2 for `available`,
  where 2 stands for every value but 0 and 1, and 0 for the other two fields, which
  `free()` always rewrites before reading. `zeroed` remembers that a client has left
  a zero there: the kernel does so, for instance when it clears a buffer of more
  than one block, and loses blocks that way.
* In `Fat32` a byte is its place on the disk, names are whole names, directories
  have one sector (the code reads no more), sectors are those of the device (512
  bytes), and positions and sizes are not negative. A directory whose sector is full
  of dated entries, in which `locate()` runs past its buffer, is left out
  (`SearchAssumption`). A component of a path that is a file is read as a directory,
  as in the code. Clusters may have any number of sectors, of which the code reads
  the first; what it loads is right if there is one (`Readable`). The search for a
  free descriptor, `read()`, `lseek()` and `close()` are whole. A position behind
  the end is modelled: the next read returns a negative length and moves back to the
  end.
* In `Program` headers are data of the constant `Programs` and not encoded in bytes;
  one `execve()` is in progress at a time, and segments and sections begin at page
  boundaries, as the loader ignores the offset in a page.
* In `Disk` a sector is a number. A step uses `__current` several times: as long as
  nothing clashes, only one activation is past its push, so no other is affected.
* `Disk`, `Fat32`, `Program` and `Console` let a handler that was suspended go on
  where it was; that it may not is the subject of `Preemption`.
* In `Console` colours are left out, and so are the conversions of `printf()`, which
  only decide which characters are printed.

Definitions marked `fault:` are never used by a specification. Each is the form a
definition would take with a plausible mistake in the code (an off-by-one, a missing
reset, a dropped guard); put in its place, it makes TLC find a violation of the
property it is listed with in `PROJECT.json`, which shows that the property depends
on the code being as it is.

## Runs

| run | instance | shows |
|---|---|---|
| `safety` | table of 5, 2 child slots, 2 boot processes | `QueuesPartition`, `StatesMatchQueues`, `ChildTablesAgree`, `ExitIsReported`, `CompletedChildrenEnded`, `WokenHoldsItsChild`, `DoneIsFinal`, `NoOvertaking` |
| `live` | table of 4, fair timer | `ReadyRuns`, `EndedAreFreed` |
| `preempt` | table of 3, 1 child slot, 1 boot process, 3 activations, 2 nested interrupts | `PlacesKept`, `StatesFit`, `FamilyKept`, `SleepersAnswerable`, `RingKept` |
| `paging` | 18 frames, 2 processes, tables of 5 entries | `FramesExclusive`, `KernelMapped`, `EndReturnsUserFrames` |
| `heap` | 6 blocks, requests of 200, 300, 500 and 700 bytes | `HeapTiled`, `AllocationsDisjoint`, `NothingLeaks`, `MallocReturns` |
| `files` | 2 descriptors, 7 paths, files of 0, 2 and 5 bytes, sectors and pages of 2 | `ReadsInOrder`, `LoadsFaithfully` |
| `disk` | 3 sectors, 3 reads of 1 or 2 | `ReadDelivers`, `ReadReturns` |
| `console` | 3 by 3 cells, 2 letters, 3 lines scrolled off | `StoresOnScreen`, `ImplementsPaper` |
| `queue` | 3 nodes, 2 payloads | `LinksConsistent`, `ImplementsFifo` |

**What `preempt` shows.** The timer may interrupt a handler between any two steps
and within each, and the properties name the places at which that does harm. Between
steps:

| lost when the timer hits | what goes wrong | property |
|---|---|---|
| `schedule()` between the pop and the assignment of `__current` (`scheduler.c:107-131`) | the process popped is in no queue any more | `PlacesKept` |
| `fork()` or `execve()` between `create()` and `notify_parent_create()` (`syscall.c:178-180`, `110-158`) | the child may end before its parent knows of it | `FamilyKept` |
| `fork()` between `create()` and the copy of the context (`syscall.c:178-181`) | the child has run already, and the copy overwrites the saved `eax` it sleeps with or was woken with | `FamilyKept`, `SleepersAnswerable` |
| `wait()` between its check and the save (`syscall.c:196-201`, `394-396`) | the child's end is marked and never seen, or its pid is overwritten | `SleepersAnswerable` |
| `exit()` between state and notice (`syscall.c:314-316`) | the process never runs again, its parent is never told | `FamilyKept` |
| any handler | the privilege level of programs is no longer 3 | `RingKept` |

At every other point between two steps the places, states and family tables are
kept, however many handlers are suspended, as long as each goes on where it was
suspended. Within steps (`Torn`):

| lost when the timer hits | what goes wrong | properties that claim nothing then |
|---|---|---|
| `create()` (`scheduler.c:153-168`) | the process is in the table, but in no queue, or has no state | all but `RingKept` |
| `notify_parent_create()` (`syscall.c:60-63`) | the bit of a slot is set, the slot is empty | the same |
| the slot that `wait()` clears (`syscall.c:205-211`) | bits and `child[]` disagree, or a bit set meanwhile is lost | the same |
| `notify_parent_complete()` (`syscall.c:37-48`) | the parent was looked at before it went to sleep, or has half an answer | the same |
| `save_current()` before `__current` is null (`scheduler.c:37-87`) | a process is saved and queued twice, a sleeper with the handler's `eip` and `eax` | the same |
| the loops of `schedule()` (`scheduler.c:90-121`) | a process is in no queue or in two | the same |
| `load_current()` before `__current` is set (`scheduler.c:68-131`) | a process is RUNNING and not current | the same |
| the drain (`scheduler.c:133-141`) | an ended process is in no list and not freed | the same |

**Bounds.** In `safety`, four processes give a parent with two children and one
unrelated process, all queues with two or more members, a full child bitmap, an
orphan and a grandchild. Two slots are enough for first-slot and second-slot cases
of every bitmap. One boot process and four pids would add a chain of three
generations and the second kill of `rekill`; that instance (8.3 million states)
takes too long for a regular run and was checked with the same result. In `preempt`,
two processes and one slot are enough for a parent and its child to meet at every
step; two nested interrupts give two suspended handlers, and three activations a
third on top. A hit within a step ends a behaviour, so that one is enough. That the
copy of the context in `fork()` can take the answer of a woken child takes five
processes, three interrupts and a sleeper in front of the child in `__waiting`; it
was found in an instance of that size restricted to interrupts of that step. In
`paging`, boot takes 5 of the 18 frames, a process 6, and three stay lost when it
ends, for `destroy_directory()` starts at table 3: the second process reuses frames
of the first, and heaps run into the end of memory. Five entries hold a stack page,
two heap pages, and the VGA entry, with one more entry in the directory than is
used. The indices -1 and 5 stand for all places outside the user table. In the heap,
6 blocks hold allocations of one to four blocks side by side, so that joins, splits
and wrap-around meet. Three nodes give a first, a middle and a last one. The disk of
`files` has an empty file, one that fills its sector, one whose three clusters are
out of order and in two sectors of the FAT, a directory, and an entry hidden behind
one without a date; two descriptors may open the same file. Its program has a
segment that ends within its second page, one that is not loaded, one that fills its
page and one that is empty, and sections of which one is mapped. One path goes
through a file as if it were a directory. In `disk` two reads may be suspended
beside a third, with equal, overlapping or separate sectors and unequal counts. The
screen of `console` has a first, a middle and a last line and column. A
specification stops where a bound is reached or the kernel halts, so runs do not
check for deadlock.

**Fairness.** `FairSpec` of `Syscalls` has weak fairness of `Tick`: the timer keeps
firing, and it is enabled unless the kernel has halted. Nothing is assumed of
programs: they may loop for ever. `FairSpec` of `KernelHeap` says that the loop of
`malloc()` goes on; nothing is assumed of clients. `Spec` of `Disk` says that each
read goes on (`WF(Step(r))`), since `__ready` is first in first out and every
process in it gets its turn, and that the device answers until it fails
(`WF(Deliver)`); `Fail` may happen at any time, and `ReadReturns` excepts it.

**Where code and comments disagree.** Three runs check what a comment says and end
in a counterexample:

| run | comment | what the run shows |
|---|---|---|
| `waiter` | `syscall.c:198`, the pid of an ended child goes to the waiting parent | a process kills its own child, is RUNNING when notified, and later waits for ever |
| `panic` | `scheduler.c:98`, waiting queue is checked for resolved processes | panic over an empty ready queue while a woken process is behind a blocked one in `__waiting` |
| `rekill` | `syscall.c:207`, a completed bit stands for a completed child | a child is killed while its parent is READY (bit set) and again while it waits (slot freed, bit kept); a later `wait()` returns 0, or a child that lives |

The properties that hold are stated around these: `ExitIsReported` is about children
that exit, `DoneIsFinal` about processes admitted before they are killed,
`EndedAreFreed` about those not in `__start` or `__waiting`, and
`CompletedChildrenEnded` and what `ChildTablesAgree` says of completed bits hold
while no ended process is killed again. Known besides: a process killed in `__start`
is set to READY and runs, one killed in `__waiting` is never removed, the kernel's
tables 0 to 2 of an ended process are not given back, and with no frame left
`create_page()` maps the page at address 0.

## Proofs

Every safety property of the passing runs is proved for every value of the constants
that the assumptions allow.

| theorem | states | module |
|---|---|---|
| `TypeCorrect`, `NoProcessLost`, `StatesFitQueues` | `TypeOK`, `QueuesPartition`, `StatesMatchQueues` | `SyscallsProofs` |
| `ServedInTurn` | `NoOvertaking` | `SyscallsProofs` |
| `TablesAgree`, `NoFalseCompletion`, `NoExitLost`, `AnswerKept` | `ChildTablesAgree`, `CompletedChildrenEnded`, `ExitIsReported`, `WokenHoldsItsChild` | `SyscallsProofs` |
| `EndLasts` | `DoneIsFinal` | `SyscallsProofs` |
| `PreemptionTypes`, `PlacesAreKept`, `StatesAlwaysFit` | `PTypeOK`, `PlacesKept`, `StatesFit`, for any depth of the stack and any number of interrupted handlers, outside the windows named | `PreemptionProofs` |
| `RingStays` | `RingKept` | `PreemptionProofs` |
| `SleepersAreAnswerable`, `RelativesStayInTouch` | `SleepersAnswerable`, `FamilyKept` | `PreemptionProofs` |
| `PagingTypes`, `PagesExclusive`, `KernelStaysMapped`, `EndGivesBack` | `TypeOK`, and until a page is entered outside the user table `FramesExclusive`, `KernelMapped`, `EndReturnsUserFrames` | `PagingProofs` |
| `HeapTypes`, `HeapStaysTiled`, `ClientsDisjoint`, `HeapKeepsAll` | `TypeOK`, `HeapTiled`, `AllocationsDisjoint`, `NothingLeaks` | `HeapProofs` |
| `QueueTypes`, `LinksStayConsistent`, `ListIsFifo` | `TypeOK`, `LinksConsistent`, the refinement `ImplementsFifo` | `QueueProofs` |
| `DiskTypes`, `ReturnedMeansServed` | `TypeOK`, and until reads clash `ReadDelivers` | `DiskProofs` |
| `ConsoleTypes`, `NoStoreOffScreen` | `TypeOK`, `StoresOnScreen` | `ConsoleProofs` |
| `PrintsOnPaper` | the refinement `ImplementsPaper`, for any number of lines | `ConsoleProofs` |
| `ProgramTypes`, `ReadsAreInOrder` | `LTypeOK`, and until two `open()` overlap `ReadsInOrder` | `ProgramProofs` |
| `LoadsAreFaithful` | `LoadsFaithfully`, until then too | `ProgramProofs` |
| `LoadsChain` | with one sector per cluster, `Loaded(e) = Contents(e)`: the loop follows the chain as the FAT gives it | `ProgramProofs` |

**Assumptions.** `SchedulerAssumption` asks for a process at boot, a table larger
than that and a slot for children; `PreemptionAssumption` only for natural numbers.
`FrameAssumption` and `PagingAssumption` ask for the five frames of the boot
directory, more entries than tables 0 to 3, and pids that count from 1.
`HeapAssumption` asks for more than three blocks and requests of at least a byte,
`QueueAssumption` for finitely many nodes and a null pointer that is none of them.
`DiskAssumption` says that the sectors of a disk have no gaps and that a read asks
for at least one; `ConsoleAssumption` that the screen has at least three lines and
columns; `LettersAssumption` keeps letters apart from control characters and blanks.
`Fat32Assumption` and `ProgramAssumption` give types to the disk and to the headers
of executables and ask for paths that are not empty. `SearchAssumption` asks for an
entry without a date in each directory, `WalkAssumption` that `Directory` says what
is read wherever a path leads, and `ChainAssumption` says that the disk is
consistent: a file has as many clusters as its size demands. The code never checks
that, so with a broken chain it reads whatever cluster number it meets. Executables
have names of their own in `ProgramAssumption`, since `Programs` gives their headers
by name. TLC checks each of them on the instance it runs.

**Counting.** `Order`, `Hop` and the other walks of the models are recursive
functions. Where a proof has to count along one, it takes the least element of a set
of naturals (`LeastElement`) or goes up to a bound (`UpTo`): an induction over a set
instead of a predicate.

**Queues and states.** The inductive invariant is `Inv == TypeOK /\ QueuesPartition
/\ StatesMatchQueues`. None of the last two is inductive alone. `schedule()` moves a
process that it finds WAITING in `__ready` to `__waiting`; that no such process
exists is `StatesMatchQueues`, and that the move of the current process creates no
second entry is `QueuesPartition`. Conversely, `kill()` changes the state of a
process wherever it stands, and the states fit only because it stands in one place.
`Callable` collects what a handler must guarantee when it calls `schedule()`;
`ScheduleStep` proves the whole of `schedule()` once from it, and `Settled` is what
it leaves behind for everybody else. Each handler has a lemma that establishes
`Callable` and cites it. The arithmetic on sequences (`SubSeq`, `Append`,
concatenation) comes first in the module.

**Handlers that the timer cuts.** `PInv == TypeOK /\ Stacked /\ Placed`. `Stacked`
is about the stack: as long as no handler has gone on over another's activation,
every activation has one process that will resume it (`Owned`): the one that runs
it, the one whose saved `eip` leads to it, or the one that the drain of a
`schedule()` further up returns to. So no activation is resumed twice. `Rings` says
that only the oldest activation was entered from ring 3, `Depths` that a handler
stays on the stack of a program only if the timer has hit it. `Placed` is about the
processes, in the steps that `schedule()` is cut into: a process stands in one
place, among them the hand of an activation that has popped it (`Standing`, `Held`);
no two hold the same; and the states fit the places (`Fitting`). That a process
which is neither READY nor DONE is never put in `__ready` needs `Running`: the state
of the current process says at which label its handler stands, or that it is a
program's. This is where the owners come in: when a handler is resumed, it is
resumed as the process that was saved at that label. Each action has one lemma for
each half. `PlacesKept` then needs `Held` once more: unless the timer hits a handler
that holds a process, nobody but the newest one holds any.

`SleepersAnswerable` needs two more invariants beside `PInv`. `Suspended`: the timer
has hit every activation but the running one, so that as long as none of the windows
is hit, nobody but the running handler can be inside one. `Sleepers`: in that case
the running handler knows what it is about to be saved with (`FallingAsleep`):
between its check and the save in `schedule()` no completed bit of its process is
set, since a bit is set only in a READY parent, and between `create()` and the copy
the new process stands in `__start`, so that the copy of the context overwrites
nobody's answer.

**Parents and children.** `Family` is inductive relative to `Inv`. It is about ends
that last (`Ended`: DONE and not in `__start`, from where `schedule()` revives), and
holds for every PCB, freed ones included. Two parts carry the argument. `Newborn`: a
process in `__start` has no children, and its parent is the running process or none;
so a child killed before it was admitted is never marked, since a bit is set only in
a READY parent, and a parent in state START has nobody to hear of. And: as long as
no ended process is killed again, a process whose parent is told now had not ended
before, so the slot that is freed has no completed bit. `Moved` sums up what a step
does to queues and states, with one lemma for each kind of handler; the lemmas about
the tables then split on what `fork()`, `wait()` and the three outcomes of
`notify_parent_complete()` do.

`FamilyKept` is about the same tables with handlers that the timer cuts, and
`Relatives` is the invariant: as long as none of its windows (`FamilyWindows`) is
hit, `Kin` holds. Two of its conjuncts are those of `Family`; the others say what a
handler that has been cut still owes. `AtHand` is about the process that `fork()`,
`execve()` or `schedule()` has in hand: it stands in `__start` and no activation is
about to tell of it. `Notices` is about the activations of `kill()` that have not
told yet, of which there can be many, suspended at that label: the end each of them
has to report lasts and has left no bit, and unless a process was killed again no
two have the same to report. `ToBeReported` is the part for `exit()`: an unreported
end of a child is the one the running handler is about to report. `KinQuiet` does
the steps that change no table, of which there are most; the remaining ones have a
lemma each, and `Due` is what the one for the notice needs.

**Paging.** `Places` numbers the uses that a directory can make of a frame: as
itself, as one of its four tables, as a page. `Exclusive` says that a frame in use
is allocated and has one directory and one place; `Sound` adds that what is read at
address 0, where a page is mapped when memory is full, stays as it is. One lemma for
each function of `paging.c` says what it adds to the frames in use and that it takes
nothing away from other directories (`Kept`). Creation is the only phase in which a
directory is incomplete, and it begins with enough free frames. In `Destroy`,
exclusiveness gives that each frame of the process is freed once, so that flipping
its bit clears it.

**Heap.** `Tiled(C)` says that the headers in `C` follow each other without a gap or
an overlap. It determines `C`, so `Chain`, which walks along `next`, can be replaced
by any set that is shown to tile (`ChainFacts`): joining takes the headers passed
over out of it, splitting adds the ones written. `heap_join_chain()` stops before
the last block, which is never available. `NothingLeaks` needs the headers outside
`Chain` too: `free()` splits a block at headers that lie in the client's memory and
links them as they are, so the last conjunct of `IInv` says of every header, linked
or not, that it is available or that of an allocation, until a client leaves a zero
in its memory.

**Queue.** `Listed(s)` says that the nodes `s` are the list in both directions. It
determines `s`, so `Order`, which walks along `next`, is what each operation is
shown to make of it: one node more at the end for `push()`, one less at the head for
`pop()`. The abstract queue is the payloads along `Order`; `push()` and `pop()` map
to the actions of `Fifo` of the same name, reuse of a node by the heap to none.

**Console.** `CursorInv` says where the cursor can be at each step of a `putchar()`
that interrupts have torn. A line feed by an interrupt right after a wrap takes it
one row below the screen, but only to the left edge, so that the next `scroll()`
brings it back before a line can end there, and no letter is stored in between.

That the console prints on the page of `Paper` rests on `PaperInv`: as long as
nothing is torn, no letter stands in the last line when `scroll()` clears it, since
a line feed into that line is followed by a `scroll()` before the next letter.
`Mark` says where a character of the page is, on a line that is gone or on the
screen; one lemma for each half of `scroll()` shows that no mark is lost or moved,
and `StoreAddsMark` that a stored letter replaces at most the mark at the head.

**Disk.** `DInv` has the types, holding whatever happens, and `Unclashed`, holding
until a task is pushed while that of another read is in the driver. `Apart` is what
that gives: at most one activation is past its push, however many are suspended
before theirs and in whatever order they go on. So `Shared`, which relates the
driver and the device to an activation (its task is the only one; the device has
exactly the sectors left that it still needs), need only be kept by the steps of
that one, and `Own`, which says that the part of its buffer a read has passed is
filled, by nobody else's. `Quiet` says that the driver is left empty, without which
the next read could not start.

**Files.** `Follows(chain, e)` says that `chain` are the clusters of the file `e`.
Both what `load_file()` puts together (`LoadedIs`) and, with one sector per cluster,
the reference (`ContentsIs`) are then shown to be the same bytes: the reference by
counting up along the chain, the loop, which puts a sector in front of what is
behind it, by counting down from the last one over `NextCluster`. `LoadedTyped` is
what can be said of the loop on any other disk. `NextClusterIs` is the step from the
FAT to its sectors, `Division` and `SectorOf` are the arithmetic at the boundaries
of sectors. `ReadsInOrder` is inductive only with what it leaves out (`Reading`):
that a position before the one sought can only be the end of the file, where a
`read()` from behind it has put it. `OpeningInv` says that the descriptor of an
`open()` that reads the disk stays free until it is taken, which holds because a
second `open()` ends what is followed. The loader adds that it has a header to
follow (`LoaderInv`).

**Loading.** `Built` says at each label of the loader what is in the image.
`SegmentImage(f, i, j)` is the image with the segments before the i-th and the first
`j` pages of that one, `SectionImage(f, n)` the one with all segments and the
sections before the n-th. The lemmas from `NothingFilled` to `SectionsMapped` take
one turn of a loop each and end at `Described`; only there and for the bytes of a
page (`PageCopied`) it matters that the program is `Loadable`: its segments lie in
the file, and share no page with each other or with a section. `OwnPage` is the
count that the loop keeps in `left` and the position in the file between `lseek()`
and `read()`, `OwnFile` that the descriptor is open and no program's. A program that
closes it is noticed, since an entry that was found has a date (`FilesAre`). For
other programs the code loads what its loops come to: a section replaces the page of
a segment, and a segment the page of the one before it.

**Only model-checked** is everything of the form "eventually" (`ReadyRuns`,
`EndedAreFreed`, `MallocReturns`, `ReadReturns`), since the prover knows nothing of
fairness.

## Not modelled

* The encoding of segment, gate and page descriptors, the initialisation of the
  interrupt controller and the timer, and the port instructions: constants written
  to hardware once, or a single instruction.
* The stub for virtual memory, which no code calls.
* Registers other than `eax`, `eip` and `cs`; page contents and flags.
* The conversions of numbers in `printf()`, and colours.
* The boot record of the file system, which is read once and trusted, and the
  splitting of names into eight and three characters.
* What happens after a step whose effect the code leaves undefined: a process or pid
  outside `__all`, a page outside the user table, a step that the timer cuts in two,
  a handler resumed off its activation, two `open()` or two disk tasks at a time.
  Each is an action of its module that ends the behaviour, and the properties say
  so.

## Plan

1. A composition of `Scheduler` and `Paging`: a PCB's address space lives as long as
   the PCB.
2. More than one `execve()` in progress in `Program`, each with its own descriptor.
