----------------------------- MODULE KernelVfs -----------------------------
(***************************************************************************)
(* Descriptors and open files (kernel/vfs.c) under the file system calls   *)
(* (kernel/syscall.c).                                                     *)
(*                                                                         *)
(* A thread inside the kernel owns the Big Kernel Lock until it returns to *)
(* user mode or sleeps, so a call is one step up to its first sleep and    *)
(* one step from each wakeup to the next sleep.  A call sleeps in the      *)
(* filesystem gate and in block I/O.  The spin lock of the open file stays *)
(* held while a read or a write sleeps in I/O.  A thread that finds a spin *)
(* lock taken spins without giving up the Big Kernel Lock.                 *)
(*                                                                         *)
(* A cell stands for one 64-byte chunk of the copy loops.  A file holds    *)
(* the tags of the threads that wrote its cells, 0 in a hole.  Below it is *)
(* the volume of RmfsSpec: a request that fails has changed nothing, or no *)
(* later request succeeds.  A copy that faults in user memory ends a call  *)
(* like one that asked for fewer cells.  A child of the process that ends  *)
(* wakes a thread that sleeps in the gate, and its call is refused; a      *)
(* thread that it wakes in block I/O sees its request fail.  Faults that   *)
(* kill a sleeping thread are in KernelScheduler.                          *)
(***************************************************************************)
EXTENDS Naturals, Sequences, FiniteSets

CONSTANTS Threads,   \* the threads
          TagOf,     \* what each thread writes in a cell; not zero
          TableOf,   \* the descriptor table (process) of each thread
          Paths,     \* the regular files of the volume
          Files,     \* the addresses that the heap can give to open files
          Fds,       \* the descriptors from 3 up, a finite set of numbers
          Modes,     \* open flags: sets of "read", "write", "append"
          OneOpener, \* TRUE: a path is not opened while it is open
          MaxChunks, \* bound: cells that a call transfers
          MaxSize    \* bound: cells of a file

ASSUME FdsAssumption == Fds \subseteq Nat

(* The checks of the flags in syscall_open and vfs_open_vnode. *)
ASSUME ModesAssumption ==
    \A m \in Modes : m # {} /\ m \subseteq {"read", "write", "append"}
                   /\ ("append" \in m => "write" \in m)

(* A NULL pointer in a descriptor slot. *)
None == 0

(* The heap gives no open file the address NULL, and no file has an empty  *)
(* name.                                                                   *)
ASSUME VfsAssumption ==
    /\ IsFiniteSet(Threads) /\ IsFiniteSet(Fds)
    /\ None \notin Files /\ None \notin Paths
    /\ MaxChunks \in Nat /\ MaxSize \in Nat \ {0}

VARIABLE v  \* a record: see TypeOK

Tables == {TableOf[t] : t \in Threads}

(* A heap block that holds no open file. *)
Freed == [ref |-> 0, path |-> None, size |-> 0, offset |-> 0, mode |-> {}, lock |-> FALSE]

(* A thread in user mode. *)
User == [pc |-> "user", call |-> "none", file |-> None, path |-> None, mode |-> {}, n |-> 0]

Spinning(s) == \E t \in Threads : s.th[t].pc = "spin"

(* kernel_spin_lock on a lock that a sleeping thread holds. *)
Spin(s, t) == [s EXCEPT !.th[t].pc = "spin"]

(* kernel_vfs_file_release; the object is freed with its vnode. *)
FileRelease(s, f) ==
    LET F == s.file[f] IN
    [s EXCEPT !.file[f] = IF F.ref = 1 THEN Freed ELSE [F EXCEPT !.ref = F.ref - 1]]

(* Mutant: the gate is opened and nobody is woken. *)
GateUnlockSilently(s) == [s EXCEPT !.gate = FALSE]

(* syscall_gate_unlock: wake_one makes the first waiter runnable. *)
GateUnlock(s) ==
    IF s.waiters = <<>> THEN [s EXCEPT !.gate = FALSE]
    ELSE [s EXCEPT !.gate = FALSE, !.waiters = Tail(@), !.th[Head(s.waiters)].pc = "woken"]

(* The call drops its file, if it has one, and returns. *)
Return(s, t) ==
    LET f == s.th[t].file
        r == IF f = None THEN s ELSE FileRelease(s, f)
    IN  [r EXCEPT !.th[t] = User]

(* The end of every call that holds the gate. *)
Leave(s, t) == Return(GateUnlock(s), t)

(* Mutant: the flag of an appending file is ignored. *)
BeginTransferInPlace(s, t) ==
    LET c == s.th[t] IN
    IF c.n = 0 \/ c.call \notin s.file[c.file].mode THEN Leave(s, t)
    ELSE [s EXCEPT !.file[c.file].lock = TRUE, !.th[t].pc = "io"]

(* kernel_vfs_file_read and kernel_vfs_file_write up to the block I/O: the *)
(* file is locked, and an appending write moves the offset to the end of   *)
(* the file as the vnode knows it.                                         *)
BeginTransfer(s, t) ==
    LET c == s.th[t]
        m == s.file[c.file].mode
        toEnd == c.call = "write" /\ "append" \in m
    IN  IF c.n = 0 \/ c.call \notin m THEN Leave(s, t)
        ELSE [s EXCEPT !.file[c.file].lock = TRUE,
                       !.file[c.file].offset = IF toEnd THEN s.file[c.file].size ELSE @,
                       !.th[t].pc = "io"]

(* What a call does once it has the gate. *)
Serve(s, t) ==
    LET c == s.th[t] IN
    CASE c.call = "seek" -> Leave([s EXCEPT !.file[c.file].offset = c.n], t)
      [] c.call \in {"open", "fsync"} -> [s EXCEPT !.th[t].pc = "io"]
      [] OTHER -> BeginTransfer(s, t)

(* syscall_gate_lock *)
GateLock(s, t) ==
    IF s.gate THEN [s EXCEPT !.waiters = Append(@, t), !.th[t].pc = "gate"]
    ELSE Serve([s EXCEPT !.gate = TRUE], t)

(* kernel_fd_acquire takes a reference under the file's lock. *)
Acquire(s, t, f) ==
    IF s.file[f].lock THEN Spin(s, t)
    ELSE GateLock([s EXCEPT !.file[f].ref = @ + 1, !.th[t].file = f], t)

(* Mutant: the descriptor does not take a reference of its own. *)
InstallBorrowed(s, tab, f) ==
    LET free == {d \in Fds : s.fds[tab][d] = None}
        fd == CHOOSE d \in free : \A e \in free : d <= e
    IN  IF free = {} THEN s ELSE [s EXCEPT !.fds[tab][fd] = f]

(* kernel_fd_install in the lowest free slot. *)
Install(s, tab, f) ==
    LET free == {d \in Fds : s.fds[tab][d] = None}
        fd == CHOOSE d \in free : \A e \in free : d <= e
    IN  IF free = {} THEN s
        ELSE [s EXCEPT !.fds[tab][fd] = f, !.file[f].ref = @ + 1]

(* kernel_vfs_open after the lookup, then syscall_open. *)
FinishOpen(s, t, f) ==
    LET c == s.th[t]
        new == [s EXCEPT !.file[f] = [Freed EXCEPT !.ref = 1, !.path = c.path,
                                                   !.size = Len(s.data[c.path]), !.mode = c.mode]]
    IN  Leave(FileRelease(Install(new, TableOf[t], f), f), t)

(* A chunk is through: the file is unlocked, and the call goes on with the *)
(* next chunk or ends.                                                     *)
NextChunk(s, t) ==
    LET u == [s EXCEPT !.file[s.th[t].file].lock = FALSE, !.th[t].n = @ - 1]
    IN  BeginTransfer(u, t)

(* A chunk fails: the file is unlocked and the call ends. *)
EndCall(s, t) == Leave([s EXCEPT !.file[s.th[t].file].lock = FALSE], t)

(* kernel_vfs_file_read of one chunk; a read at the end of file ends the   *)
(* call.                                                                   *)
FinishRead(s, t) ==
    LET f == s.th[t].file
        F == s.file[f]
    IN  IF F.offset >= Len(s.data[F.path]) THEN EndCall(s, t)
        ELSE NextChunk([s EXCEPT !.file[f].offset = @ + 1], t)

(* kernel_vfs_file_write of one chunk.  The size it asks for is computed   *)
(* from the vnode's size; the volume refuses to shrink a file.             *)
FinishWrite(s, t) ==
    LET f == s.th[t].file
        F == s.file[f]
        old == s.data[F.path]
        end == F.offset + 1
        size == IF F.size > end THEN F.size ELSE end
        new == [i \in 1 .. size |->
                   IF i = end THEN TagOf[t] ELSE IF i <= Len(old) THEN old[i] ELSE 0]
    IN  IF size < Len(old) THEN EndCall(s, t)
        ELSE NextChunk([s EXCEPT !.data[F.path] = new, !.file[f].offset = end,
                                 !.file[f].size = size], t)

--------------------------------------------------------------------------------

Step(s) == ~Spinning(v) /\ v' = s

IsOpen(p) == \/ \E f \in Files : v.file[f].path = p
             \/ \E t \in Threads : v.th[t].path = p

(* A thread in user mode makes a call on an open descriptor. *)
Enter(t, call, fd, n) ==
    LET f == v.fds[TableOf[t]][fd] IN
    /\ v.th[t].pc = "user" /\ f # None
    /\ Step(Acquire([v EXCEPT !.th[t].call = call, !.th[t].n = n], t, f))

SyscallRead(t, fd) == \E n \in 1 .. MaxChunks : Enter(t, "read", fd, n)

SyscallWrite(t, fd) == \E n \in 0 .. MaxChunks : Enter(t, "write", fd, n)

(* syscall_seek; n is the position that the offset and whence lead to. *)
SyscallSeek(t, fd) == \E n \in 0 .. MaxSize : Enter(t, "seek", fd, n)

SyscallFsync(t, fd) == Enter(t, "fsync", fd, 0)

SyscallOpen(t, p, m) ==
    /\ v.th[t].pc = "user" /\ (OneOpener => ~IsOpen(p))
    /\ Step(GateLock([v EXCEPT !.th[t].call = "open", !.th[t].path = p, !.th[t].mode = m], t))

(* syscall_close: the slot is cleared, then the reference is dropped.  It  *)
(* does not use the gate.                                                  *)
SyscallClose(t, fd) ==
    LET tab == TableOf[t]
        f == v.fds[tab][fd]
        u == [v EXCEPT !.fds[tab][fd] = None]
    IN  /\ v.th[t].pc = "user" /\ f # None
        /\ Step(IF v.file[f].lock THEN Spin([u EXCEPT !.th[t].call = "close"], t)
                ELSE FileRelease(u, f))

(* A woken waiter runs again in the loop of syscall_gate_lock. *)
GateRetry(t) ==
    /\ v.th[t].pc = "woken"
    /\ Step(GateLock(v, t))

(* kernel_list_remove of the waiter at place i. *)
Without(q, i) == [j \in 1 .. Len(q) - 1 |-> IF j < i THEN q[j] ELSE q[j + 1]]

(* scheduler_notify_parent and scheduler_wake_stale_waiters while a thread *)
(* of the parent sleeps in the gate: its wait_pid is zero, which reads as  *)
(* a wait for any child, so scheduler_wake_waiter takes it off the queue   *)
(* and wakes it with a result that is not zero.                            *)
ChildEnds(t) ==
    \E i \in 1 .. Len(v.waiters) :
        /\ v.waiters[i] = t
        /\ Step([v EXCEPT !.waiters = Without(v.waiters, i), !.th[t].pc = "refused"])

(* syscall_gate_lock fails, whether or not the gate is free by now, and    *)
(* the call returns -EAGAIN.  It drops its file under the file's lock,     *)
(* which the call that owns the gate may hold.                             *)
GateRefused(t) ==
    LET f == v.th[t].file IN
    /\ v.th[t].pc = "refused"
    /\ Step(IF f # None /\ v.file[f].lock THEN Spin(v, t) ELSE Return(v, t))

(* The I/O of the call is complete. *)
IoDone(t) ==
    LET c == v.th[t] IN
    /\ c.pc = "io"
    /\ \/ c.call = "read" /\ Step(FinishRead(v, t))
       \/ /\ c.call = "write"
          /\ v.file[c.file].offset < MaxSize
          /\ Step(FinishWrite(v, t))
       \/ c.call = "fsync" /\ Step(Leave(v, t))
       \/ /\ c.call = "open"
          /\ \E f \in Files : v.file[f].ref = 0 /\ Step(FinishOpen(v, t, f))

(* The volume reports failure, or the heap is full (open).  Every request  *)
(* fails this way once the volume is unmounted.                            *)
IoFails(t) ==
    LET c == v.th[t]
        u == IF c.call \in {"read", "write"} THEN EndCall(v, t) ELSE Leave(v, t)
    IN  /\ c.pc = "io"
        /\ Step(u)

(* A process ends, and kernel_fd_table_destroy drops what is open; the     *)
(* process that takes its place starts with no regular file open.          *)
ProcessEnds(tab) ==
    LET slots(f) == {d \in Fds : v.fds[tab][d] = f}
        left(f) == v.file[f].ref - Cardinality(slots(f))
    IN  /\ \A t \in Threads : TableOf[t] = tab => v.th[t].pc = "user"
        /\ \E d \in Fds : v.fds[tab][d] # None
        /\ Step([v EXCEPT !.fds[tab] = [d \in Fds |-> None],
                          !.file = [f \in Files |-> IF slots(f) # {} /\ left(f) = 0 THEN Freed
                                                    ELSE [v.file[f] EXCEPT !.ref = left(f)]]])

(* kernel_spin_lock goes round its loop: nobody else can enter the kernel. *)
Spins(t) == v.th[t].pc = "spin" /\ UNCHANGED v

Init ==
    v = [data |-> [p \in Paths |-> <<0>>],
         file |-> [f \in Files |-> Freed],
         fds |-> [tab \in Tables |-> [d \in Fds |-> None]],
         gate |-> FALSE, waiters |-> <<>>, th |-> [t \in Threads |-> User]]

Next ==
    \/ \E t \in Threads, fd \in Fds :
          SyscallRead(t, fd) \/ SyscallWrite(t, fd) \/ SyscallSeek(t, fd)
            \/ SyscallFsync(t, fd) \/ SyscallClose(t, fd)
    \/ \E t \in Threads, p \in Paths, m \in Modes : SyscallOpen(t, p, m)
    \/ \E t \in Threads : GateRetry(t) \/ ChildEnds(t) \/ GateRefused(t)
                            \/ IoDone(t) \/ IoFails(t) \/ Spins(t)
    \/ \E tab \in Tables : ProcessEnds(tab)

Spec == Init /\ [][Next]_v

--------------------------------------------------------------------------------

TypeOK ==
    /\ DOMAIN v = {"data", "file", "fds", "gate", "waiters", "th"}
    /\ \A p \in Paths : v.data[p] \in Seq({TagOf[t] : t \in Threads} \cup {0}) /\ Len(v.data[p]) <= MaxSize
    /\ v.gate \in BOOLEAN
    /\ v.file \in [Files -> [ref : Nat, path : Paths \cup {None}, size : 0 .. MaxSize,
                             offset : 0 .. MaxSize, mode : Modes \cup {{}}, lock : BOOLEAN]]
    /\ v.fds \in [Tables -> [Fds -> Files \cup {None}]]
    /\ v.waiters \in Seq(Threads)
    /\ v.th \in [Threads -> [pc : {"user", "gate", "woken", "refused", "io", "spin"},
                             call : {"none", "read", "write", "seek", "fsync", "open", "close"},
                             file : Files \cup {None}, path : Paths \cup {None},
                             mode : Modes \cup {{}}, n : 0 .. MaxChunks + MaxSize]]

(* The reference count of an open file is the number of descriptors and of *)
(* calls in progress that point to it, so that a file is freed exactly     *)
(* when the last of them goes (kernel_fd_acquire, kernel_fd_close,         *)
(* kernel_vfs_file_release).  A closing thread that spins has cleared its  *)
(* slot and has not dropped the reference yet.                             *)
RefsExact ==
    \A f \in Files :
        LET slots == {x \in Tables \X Fds : v.fds[x[1]][x[2]] = f}
            calls == {t \in Threads : v.th[t].file = f}
            closing == {t \in Threads : v.th[t].call = "close"}
        IN  /\ v.file[f].ref >= Cardinality(slots) + Cardinality(calls)
            /\ v.file[f].ref <= Cardinality(slots) + Cardinality(calls) + Cardinality(closing)
            /\ v.file[f].ref = 0 <=> v.file[f] = Freed

(* The gate admits one call to the file system: at most one thread is in   *)
(* block I/O, it owns the gate, and a locked file is locked by the read or *)
(* write that is in I/O (syscall_gate_lock, kernel_vfs_file_write).        *)
GateSerialises ==
    LET io == {t \in Threads : v.th[t].pc = "io"} IN
    /\ Cardinality(io) = IF v.gate THEN 1 ELSE 0
    /\ \A f \in Files :
          v.file[f].lock <=> \E t \in io : v.th[t].file = f /\ v.th[t].call # "fsync"

(* No wakeup of the gate is lost: when the gate is free and somebody waits *)
(* for it, a woken thread is on its way to retry, although a new caller    *)
(* may take the gate first (syscall_gate_unlock).                          *)
GateNotStranded ==
    /\ {v.waiters[i] : i \in 1 .. Len(v.waiters)} = {t \in Threads : v.th[t].pc = "gate"}
    /\ ~v.gate /\ v.waiters # <<>> => \E t \in Threads : v.th[t].pc = "woken"

(* The gate does its work: one call at a time, and no waiter left behind.  *)
GateSound == TypeOK /\ GateSerialises /\ GateNotStranded

(* A write through an appending descriptor leaves the file as it was or    *)
(* adds its cell at the end of the file: it never overwrites what is       *)
(* there (kernel_vfs_file_write).                                          *)
AppendsAtEnd ==
    [][\A t \in Threads :
          LET c == v.th[t]
              p == v.file[c.file].path
          IN  c.pc = "io" /\ c.call = "write" /\ "append" \in v.file[c.file].mode =>
                 v'.data[p] \in {v.data[p], Append(v.data[p], TagOf[t])}]_v

(* A file system call never busy-waits for a call that sleeps: it would do *)
(* so with the Big Kernel Lock held, and the sleeper could never run again *)
(* (kernel_fd_acquire and kernel_fd_close take the open file's lock        *)
(* without the gate).                                                      *)
NoSpin == ~Spinning(v)
=============================================================================
