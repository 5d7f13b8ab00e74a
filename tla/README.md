# RISC-MV: TLA+ verification

RISC-MV is a virtual machine (CPU, MMU, interrupt controllers, devices on host threads), a reference
SMP kernel that runs on it, and a tool chain. This directory holds TLA+ models of the machine, its
devices, the kernel and the linker, TLC configurations that check them on small instances, and TLAPS
proofs. Every definition is translated from the code; `PROJECT.json` maps each one to its source
lines and lists runs, findings, hazards and theorems.

## 1. The system

| Part | State | Operations | Talks to |
|---|---|---|---|
| Scheduler (`kernel/scheduler.c`) | threads, processes, run / reap / timeout / wait queues | yield, sleep, wait, join, exit, exec, fault, tick, wake, deferred reap, idle, finish | SMP layer, system calls, drivers |
| SMP layer (`kernel/smp.c`, `kernel/kernel.s`) | per-CPU records, Big Kernel Lock (BKL), IPIs | start, kick, trap enter / leave, continuation switch, stop, retire, shutdown | scheduler, core control |
| System calls (`kernel/syscall.c`) | the sleeping filesystem gate | dispatch, gate lock / unlock, file calls, exec | scheduler, VFS |
| VFS (`kernel/vfs.c`) | descriptor tables, open files, vnodes with a cached size | open, close, read, write, seek, fsync, process end | gate, RMFS |
| RMFS (`kernel/rmfs.c`) | superblocks, bitmaps, inodes, metadata cache, transaction group | mount, lookup, read, whole-file and range write, sync | block driver |
| Drivers (`kernel/devices.c`) | one block request, keyboard ring, display owner and request | submit, interrupt, time-out, discovery | devices, scheduler |
| Kernel memory (`pmm.c`, `heap.c`, `address_space.c`, `mmu.c`, `process.c`, `user_loader.c`) | page bitmap, heap blocks, page tables, images | allocate, free, map, unmap, load, create, destroy | everyone |
| CPU (`src/cpu.c`, `src/cpu_vector.c`, `src/mmu.c`) | registers, flags, page walk | one instruction, trap, IRET, WAIT | bus, interrupt controller |
| Machine (`src/vm.c`, `src/core_control.c`, `src/interrupt.c`, `src/timer.c`) | hardware threads on host threads, router, per-CPU controllers | start, stop, reset, IPI, raise, route, EOI, tick | CPU, devices |
| Devices (`devices/*`) | registers, worker threads, host queues | register access, worker step, IRQ | interrupt router |
| Device manager and bus (`src/device_manager.c`, `src/bus.c`) | slots, ranges, lines, table of mappings | attach, detach, access, tick | devices, CPUs |
| Tools (`tools/*`) | none that persists | assemble, compile, link, build images | files |

What makes this system hard:

* several CPUs enter the kernel in any order, and a thread's kernel stack outlives the call that
  sleeps on it;
* an exec or a fault stops threads that run on other CPUs, or sleep inside the kernel with the gate
  held;
* time-outs race wakeups, and a device may complete a request that its driver has given up;
* a file write is many block writes, any of which may fail or be the last before a crash;
* a spin lock held over a sleep turns a wait into a standstill, because a spinner keeps the BKL;
* processors start, stop and interrupt each other through registers they share, while host threads
  decide whether the machine has anything left to do;
* creating a process is some twenty allocations, each of which may be the one that fails;
* devices come and go while processors look at the bus table without a lock.

## 2. Modules

| Module | Models | Size of idea |
|---|---|---|
| `KernelList` | the intrusive list of `runtime.c` | a list is a position per object, 0 = not linked |
| `KernelScheduler` | scheduler, SMP layer, continuations, gate, block wait, exec | variables `k` (what the BKL protects) and `cpu` |
| `RmfsSpec`, `Rmfs` | what a volume promises; the RMFS driver on a block medium | `disk`, `mem`, `op` = the block writes still to make |
| `KernelVfs` | descriptors, open files, file calls | one record `v` |
| `CpuMemory`, `CpuInteger`, `CpuVector`, `Cpu` | one hardware thread: memory and exceptions, integer, vector and floating point instructions, traps and the step | a state is a record, an instruction a function on it |
| `Interrupts` | router, per-processor controllers, timer | sets of lines; `dispatch` after every change |
| `Machine` | host threads, hardware threads, core control, and the kernel's SMP start-up as the guest | one step per shared register or flag |
| `BlockIO`, `Keyboard`, `Display` | driver, device, worker or host queue, and interrupt line of each device | one step per register access |
| `KernelPmm`, `KernelHeap`, `KernelMemory` | page allocator, heap blocks, page tables and address spaces | calls as functions that may fail at every allocation |
| `UserImage`, `Linker` | loading a program, and making one | wrapping arithmetic at a small word |
| `HotPlug` | device manager and bus table under concurrent access | two kinds of locks, one unlocked look |
| `KernelSchedulerProofs`, `InterruptsProofs`, `HotPlugProofs` | theorems | |
| `MC*` | constants for TLC, and several components in one run | |

**KernelScheduler.** One action is what a CPU does between taking and releasing the BKL. `cpu[c].pc`
says where CPU `c` is when it does not hold the lock: in user mode, idle, spinning in an exec or
fault rendezvous, or between two continuations. Helpers such as `WakeWaiters`, `NotifyParent`,
`ReapDeferred` or `RequestProcessStop` map a kernel record to a kernel record and carry the names of
the C functions; an action composes them in the order of the calls. TIDs, PIDs and affinities are
numbered like in C, 0 meaning none. `UseAfterFree` marks a state in which the code has freed a stack
it runs on; its future is undefined, so the model stops there.

**Rmfs and RmfsSpec.** The volume lock is held for a whole operation, so `Start` computes the list of
block writes that the C code would make and the memory state it would reach. `WriteDone` and
`WriteFails` then apply the writes one at a time (a write that fails may have landed), `Finish`
returns, and `Crash` and `Mount` may come at any point. `Rmfs` implements `RmfsSpec` under
`files <- Contents(disk)`, `torn <- ~Mountable(disk)`: a file changes in one step, to exactly what
the caller asked for (holes and tails read as zero), a success was carried out, a failure on a
volume that stays mounted was not, and nothing uncommitted is readable after a restart.

**KernelVfs.** A call is one step up to its first sleep and one step from each wakeup to the next.
The volume below is that of `RmfsSpec`. `GateRetry` is the loop of `syscall_gate_lock`: a new caller
may take the gate before the woken one. `Spins` is the loop of `kernel_spin_lock`; while a thread
spins no other thread can enter the kernel. `KernelScheduler` keeps its own, simpler view of a file
call (gate, I/O, release), because there the question is what stops and faults do to it.

**Cpu.** Memory is made of four-bit units; a word is two units, so that words wrap at 256 and can
straddle a page. One unit stands for the widths 8, 16 and 32. An instruction is a record; its operands
are fetched one after the other, so that a fault may come in the middle of it. `cpu_step` is one
action: pending interrupt or fetch and execution, with the exceptions that these raise. Floating point
is an IEEE format of eight bits, small enough to compare every result with the exact number. `frames`
is a history variable: what each trap interrupted.

**Interrupts and Machine.** In `Interrupts` the guest may do anything: mask, route, acknowledge, and
acknowledge wrongly. In `Machine` the guest is the kernel's SMP layer, or the restart sequence that
the tests of core control use; a host thread per core runs the core's hardware threads in turn
(`tpc` = 1 or all of them on one core).

**BlockIO, Keyboard, Display.** The kernel side holds the BKL between two sleeps, the device side holds
the device's lock within one register access; everything else interleaves. `story`, `keys` and
`dstory` are history variables.

**KernelMemory** computes on one record `k`; every allocation inside a call may find no page, and the
heap may grow in the middle of a call, as in the code. **KernelHeap** has the block list itself.
**UserImage** and **Linker** are pure algorithms, split into the phases of the C code, with a
reference definition in the property.

**HotPlug.** A visitor looks at an entry without a lock, locks it, looks again, and calls the device.
A host thread holds the manager's lock for an attach or a detach, and takes entry locks one by one.

## 3. Runs

| Run | Result | Question |
|---|---|---|
| `sched_process` | holds | Do queues, per-CPU records, zombies, waiters and stacks stay consistent through yield, sleep, wait, join, exit and fault? Do timed waits and rendezvous end? |
| `sched_storage` | holds | With threads asleep inside the kernel for the gate and the disk: is the gate always released, is no wakeup lost, are joins exact? |
| `sched_exec` | holds | Does the stop rendezvous of exec always end? |
| `rmfs_volume` | holds | Is a mountable medium consistent, memory in step with it, and RMFS an implementation of `RmfsSpec`, through failed writes and crashes? |
| `vfs_calls` | holds | Are references exact, does the gate serialise and lose no wakeup, do appends only add? |
| `cpu_step` | holds | Does what a trap interrupts come back exactly? Can user code touch what its page table forbids? Do results, flags and branches agree with the numbers? |
| `machine` | holds | Does the router hand out one line at a time and sit on none? Does the machine start and stop its processors without a lost wakeup, a stack freed early or a count that is wrong, and end? |
| `devices` | holds | Was a request that succeeded served? Do keys stay in order and none get stuck? Are buffers and counts of the display exact? Does every request end? |
| `memory` | holds | Is every page owned once? Are address spaces exact after every failure? Is the heap sound? Does a linked program load, and is it what was linked? Is a device alive while somebody is in it? |
| `vfs_spin` | violated | `NoSpin`: a descriptor used or closed while a sibling's transfer sleeps |
| `machine_kick` | violated | `CommandReachesTarget`: two processors write the shared target registers |
| `block_late_write` | violated | `WritesLandWhereAsked`: a refused write changes the data of a timed-out one |

A violated run is a disagreement between the code and a line of the documents or of the code's own
comments; the `findings` of `PROJECT.json` quote the line and tell the story. More configurations of
the same kind are kept here; each violates the property it checks, and its finding names it:

| Configuration | Module | Property violated |
|---|---|---|
| `SchedFreedStack.cfg` | `MCKernelScheduler` | `NoFreedStackInUse`: the boot CPU idles on a stack that is then freed |
| `SchedFinish.cfg` | `MCKernelScheduler` | `FinishOnlyWhenDone`: the system finishes with a thread runnable on an idle CPU |
| `SchedJoinChild.cfg` | `MCKernelScheduler` | `NoCompletionError`: a child's death wakes a thread blocked in join |
| `SchedRendezvous.cfg` | `MCKernelScheduler` | `OneRendezvous`: exec and fault of one process wait for each other |
| `SchedGateFault.cfg` | `MCKernelScheduler` | `GateOwnerLives`: a fault kills the owner of the gate |
| `VfsAppend.cfg` | `MCKernelVfs` | `AppendsAtEnd`: two separate append opens overwrite each other |
| `MachineRestart.cfg` | `MCMachine` | `HaltsOnRequest`: a processor restarted while it is still halting halts again |
| `MemoryHeapCrossing.cfg` | `MCMemory` | `KernelShared`: the heap grows into a new level-2 entry |

The passing runs leave out the operations that lead into these (for example fault in
`sched_storage`, a second opener in `vfs_calls`), stop where the code's behaviour becomes undefined,
or state the exception (`story.overlap` in `SuccessMeansDone`, the bounds of the heap in `memory`).

**Several components in one run.** `MCMachine`, `MCDevices` and `MCMemory` extend modules that do not
interact; the variable `model` is chosen in the initial state and says which of them a behaviour
runs. The state space is the sum of theirs, not the product.

**Bounds.**

* Scheduler: two CPUs, up to three threads in two processes. This is enough for a stack to be wanted
  by two CPUs, for a sibling on the other CPU, a third thread that waits or joins, and a parent and
  child; durations of one tick suffice because a tick may come before or after any other step.
* RMFS: eleven blocks of two cells, four inodes, three names, a cache of one entry (so that eviction
  happens in every lookup), a commit limit of two, two inline extents; `MaxSequence` bounds the
  transactions and `MaxSize` the file. Directory growth, dirty eviction, automatic commit and the
  extent limit were each confirmed to be reached.
* VFS: three threads of two processes, two files, a table with one slot from 3 up (so that it fills),
  transfers of up to two chunks. Symmetry is used for files, paths and the two threads of one
  process; that run has safety properties only.
* CPU: programs of one to three instructions from 60 000 initial states. The samples of operands take
  in zero, the signs, the carries and the ends of the word; page table entries take every form that
  the walk tells apart; addresses lie on both sides of page, device and RAM boundaries.
* Machine: two processors (three in `MachineKick.cfg`), on one core or two; one task, one warm reset.
  Interrupts: two external lines and one IPI line.
* Devices: three block calls, one warm reset, a device queue and a ring of two keys with four keys
  pressed (so that both overflow), two readers, two processes with three modes of which two share a
  buffer size, and a frame queue of two.
* Memory: forty pages, so that processes run out of memory part way; seven calls. Words of 32 values
  for programs, so that sums wrap; a second segment on every side of the first. Linker inputs cover
  strong, weak and common definitions in objects and archives, chains of archive members, and
  displacements that do and do not fit. Bus: three entries, of which the hub has one, so that the
  device with two ranges and the other one do not fit together.

**Deadlock** is checked in the scheduler, RMFS, VFS and machine runs: a halted scheduler (`Halted`),
undefined behaviour (`Undefined`), a spinning thread (`Spins`) and the end of the machine (`Ended`)
are explicit steps. In `cpu_step`, `devices` and `memory` it is not, because the bounds on calls let
a behaviour stop; what must go on there is stated as liveness.

**Fairness.**

* Scheduler (`FairSpec`): a CPU that can go on inside the kernel does (weak: it is running code). A
  pending IPI and, while a deadline is pending, the timer interrupt are delivered if the CPU can take
  them again and again (strong: the interrupt stays latched in the controller, and a CPU that goes
  back to user mode or idle enables interrupts each time). It is written with explicit enabling
  predicates. Nothing is assumed of user programs or of the disk: a block request may never complete,
  which is why it has a deadline. Waiting for the gate is not claimed to end, because a woken waiter
  may be overtaken forever.
* Machine: `WF` of each core's host thread and of the main thread that joins them; they are operating
  system threads. `MachineEnds` needs no more. For `TimerKeepsInterrupting`, `WF` of the device
  thread's tick, of the boot processor's taking of interrupts and of the return of its handlers.
* Devices: `WF` of the kernel code that is not asleep, of the block worker, of the interrupt handlers
  and of the frontend's thread. `RequestsEnd` does not rest on time-outs: they may or may not fire.
* Bus: `WF` of every host thread and visitor. A spin lock promises no order, so that a waiter might
  be overtaken by ever new visitors; the bound on visits excludes that, and the property is about
  waiting for each other.

## 4. Proofs

The proofs hold for any values of the constants that satisfy the named assumptions of the modules.

**`KernelSchedulerProofs`**, for any number of CPUs, threads and processes:

* `TypeCorrect`: `Spec => []TypeOK`. Every queue position, affinity, parent, waiter and per-CPU field
  stays in range.
* `StackExclusive`: `Spec => []KernelStackExclusive`. No two CPUs use the same kernel stack.
* `Invariance`: the inductive invariant the two rest on.

Exclusive stacks are not inductive alone: a dispatch must know that the thread it takes is not in use
elsewhere, and the run queue does not say so. The code's reason is affinity. The first dispatch pins
a thread to its CPU, nothing ever unpins it, and `scheduler_dequeue` only takes threads that are
unpinned or pinned to the caller. The invariant therefore says that the state is well typed and every
thread a CPU refers to (current thread, stack owner, suspended continuation) is pinned to that CPU.
A lemma per helper shows that it keeps the type and never changes an affinity (`Keeps`), one per
action shows that the CPU's new references are pinned to it, and `Invariance` combines them. The
assumptions are those named in `KernelScheduler`: at least one CPU, finite sets of positive TIDs and
PIDs, a process for each thread, init with its first thread, positive durations.

**`InterruptsProofs`**: `RouterSafe`: `IrqSpec => []RouterExact`, for any set of lines and of
processors. `NoReentry` needs a strengthening: the line of a running handler is active, is routed to
its processor and has left the controller, so that an EOI or a new dispatch cannot produce a second
copy. `WorkConserving` is broken in the middle of an operation and restored by its dispatch; the
lemmas carry the set of processors for which it is still to be restored (`ConservesExcept`), and one
dispatch removes one processor from it. That a dispatch finds a lowest line is a lemma about sets of
naturals.

**`HotPlugProofs`**: `LiveCallbacks`: `PlugSpec => []CallbacksMeetLiveDevices`, for any number of host
threads, visitors, slots, table entries and devices. The entry's lock keeps a device on the bus while
somebody is inside; what remains is that the host thread that destroys a device has taken all of its
entries off. It does so by base and size, so the invariant says that present entries differ in their
base, that each belongs to a living device, and that the entries of a device are exactly the ranges
its slot lists, or those that the host thread in charge has mapped and not yet unmapped. The lemma
`PlacedBars` shows that `allocate_bars` gives ranges that are free of the slots' ranges and of each
other. Assumed: table and slots are not empty, and no range of a module is empty, as
`descriptor_valid` tests.

Model-checked only: all other invariants; liveness (outside the prover's reach); the refinement of
`RmfsSpec`, the allocators and the linker (folds and recursive walks over sequences, so a proof needs
induction over data); the CPU (its operators use `Bitwise`).

## 5. Not modelled

* RMFS: byte layout and checksums; nested directories; a medium that loses or reorders completed
  writes on power loss. `rmfs_sync_locked` writes the CLEAN superblock without a flush before it, so
  such a medium could keep it and lose the rest; no document promises otherwise. `RMFS.md:98-99`
  describes metadata as written once per commit while `rmfs_write_inode` also writes through; the
  model follows the code.
* VFS: the UART pseudo-file; the lookups that exec makes under the gate, which act like an open that
  installs nothing.
* Kernel: self-tests, counters and messages, register save and restore, user memory copies; the
  time-outs of two million polls in `smp.c`. The exception-active state across a switch to a kernel
  continuation is a finding by reading; the composition of `Cpu` with `KernelScheduler` is out of
  TLC's reach.
* CPU: the byte encoding of instructions; binary32, which is the same text at another width; the
  tearing of RAM when two processors access the same word (`ram.c`).
* Device manager: the service registry and the DMA range check; `module_loader.c`, which finds shared
  libraries on the host.
* Devices: the sample counter, UART and the host window; the backing file's own errors beyond "an
  operation fails".
* Linker: reading and writing of the byte formats. Alignments above a page are not honoured by the
  layout, and the property says so.
* FAT32, partition tables and disk image tools: sequential parsers and writers of external formats.
* Assembler, compiler and IR translator: offline, sequential text processing. Nothing interleaves or
  persists, and a model of them would be a second implementation rather than an abstraction.

## 6. Plan

1. Proofs: exactness of references and the gate invariants of `KernelVfs`; `SuccessMeansDone` of
   `BlockIO`; the rest of `ResourcesExact`.
2. `ram.c` under concurrent access; atomic instructions of two processors.
3. FAT32 and partition parsing against a reference over small images.
