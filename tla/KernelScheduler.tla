-------------------------- MODULE KernelScheduler ---------------------------
(***************************************************************************)
(* The thread scheduler of the reference kernel (kernel/scheduler.c), the  *)
(* per-CPU state and the inter-processor interrupts it relies on           *)
(* (kernel/smp.c), the trap entry and continuation code (kernel/kernel.s)  *)
(* and the sleeping filesystem gate with the block request wait that runs  *)
(* under it (kernel/syscall.c, kernel/devices.c).                          *)
(*                                                                         *)
(* Every kernel section runs under the Big Kernel Lock, so one action is   *)
(* what a CPU does between taking the lock and releasing it.  The lock is  *)
(* released, and a new action starts, where the code releases it: on the   *)
(* return to user mode, in the idle wait, in the exec and fault            *)
(* rendezvous, at a switch between kernel continuations, and on the way    *)
(* from a retired thread back to the permanent per-CPU stack.              *)
(*                                                                         *)
(* Identifiers are the kernel's: a thread is its TID and a process its     *)
(* PID, both numbered from 1 in creation order; CPU c is logical CPU c-1,  *)
(* so that 0 is "no thread", "no process" and "no affinity", as in the C   *)
(* structures.                                                             *)
(***************************************************************************)
EXTENDS Integers, FiniteSets, KernelList

(* Assignments f[x] = v, and f[x] = v for every x in S. *)
Put(f, x, v) == [y \in DOMAIN f |-> IF y = x THEN v ELSE f[y]]

PutAll(f, S, v) == [y \in DOMAIN f |-> IF y \in S THEN v ELSE f[y]]

CONSTANTS
    NCpu,         \* logical CPUs; CPU 1 is the boot CPU
    Threads,      \* TIDs of the threads registered before the scheduler starts
    Procs,        \* PIDs of their processes
    ProcOf,       \* the process of each thread
    ParentOf,     \* the initial parent of each process, 0 for none
    Ops,          \* the system calls and faults the user programs may issue
    SleepTicks,   \* the sleep durations they ask for, in timer ticks
    BlockTicks,   \* KERNEL_BLOCK_TIMEOUT_TICKS
    BadPointers   \* may a status pointer be bad: a subset of BOOLEAN

CPUs == 1..NCpu
Boot == 1
InitProc == 1          \* scheduler_init_process
FirstThread == 1       \* its main thread, registered first
None == 0
AnyChild == -1         \* the UINT64_MAX that SYS_WAIT passes

ThreadsOf(p) == {t \in Threads : ProcOf[t] = p}

Operations == {"yield", "sleep", "wait", "join", "io", "exec", "exit", "fault"}

ASSUME CpuAssumption == NCpu \in Nat \ {0}
ASSUME ThreadAssumption == IsFiniteSet(Threads) /\ Threads \subseteq Nat \ {0}
ASSUME ProcAssumption ==
    /\ IsFiniteSet(Procs) /\ Procs \subseteq Nat \ {0} /\ InitProc \in Procs
    /\ ProcOf \in [Threads -> Procs]
    /\ ParentOf \in [Procs -> Procs \cup {None}]
    /\ FirstThread \in ThreadsOf(InitProc)
ASSUME WorkloadAssumption ==
    /\ Ops \subseteq Operations
    /\ SleepTicks \subseteq Nat \ {0}
    /\ BlockTicks \in Nat \ {0}
    /\ BadPointers \subseteq BOOLEAN

VARIABLES
    k,    \* what the Big Kernel Lock protects: threads, processes, queues
    cpu   \* KernelCpuLocal and the control state of each CPU

vars == <<k, cpu>>

ThreadStates == {"RUNNABLE", "RUNNING", "BLOCKED", "ZOMBIE", "DEAD"}
ProcStates == {"ACTIVE", "ZOMBIE", "DEAD"}

(* Where block_kernel was called from: the filesystem gate or a block      *)
(* request, on behalf of a file system call, of exec's probe of the path   *)
(* or of exec's load of the image.                                         *)
Calls == {"none", "gate", "io"}
FsOps == {"none", "file", "probe", "load"}

KernelState ==
    [st: [Threads -> ThreadStates],          \* DEAD: destroyed and freed
     aff: [Threads -> CPUs \cup {None}],     \* cpu_affinity
     runq: [Threads -> Nat],                 \* scheduler_run_queue, queued
     on: [Threads -> {"none", "sleep", "gate", "block"}],  \* wait_queue
     wq: [Threads -> Nat],                   \* arrival order in the wait queues
     timer: [Threads -> Nat],                \* wait_deadline - timer_count
     waitPid: [Threads -> Procs \cup {None, AnyChild}],
     waitTid: [Threads -> Threads \cup {None}],
     joinW: [Threads -> Threads \cup {None}],  \* join_waiter
     bad: [Threads -> BOOLEAN],              \* the status address faults
     res: [Threads -> {0, 1}],               \* kernel_wait_result: zero or not
     kres: [Threads -> BOOLEAN],             \* kernel_resume_sp # 0
     call: [Threads -> Calls],
     op: [Threads -> FsOps],
     treap: [Threads -> Nat],                \* scheduler_thread_reap_queue
     pst: [Procs -> ProcStates],
     par: [Procs -> Procs \cup {None}],      \* parent, and its children list
     live: [Procs -> Nat],                   \* live_thread_count
     stop: [Procs -> BOOLEAN],               \* stop_requested
     owner: [Procs -> Threads \cup {None}],  \* stop_owner
     faulted: [Procs -> BOOLEAN],
     preap: [Procs -> Nat],                  \* scheduler_reap_queue
     gate: Threads \cup {None},              \* filesystem_gate.locked, by whom
     pending: BOOLEAN,                       \* the depth-one block request
     ipi: SUBSET CPUs,                       \* CPUs with IPI 48 pending
     active: BOOLEAN,                        \* scheduler_active
     err: BOOLEAN]                           \* scheduler_completion_error

(* Control states of a CPU.                                                *)
(*   user    returned to user mode, running cur                            *)
(*   idle, kidle, xidle   in the idle loop of scheduler_dequeue_or_idle,   *)
(*           called from a blocking system call, from block_kernel, from   *)
(*           exit or fault; still on the kernel stack of that thread       *)
(*   resume  switched to the kernel continuation of cur, lock not yet held *)
(*   sexec, sfault   in the rendezvous of exec or fault                    *)
(*   retire  about to leave the stack of a finished thread                 *)
(*   loop, start   in kernel_secondary_main: waiting, woken                *)
(*   halt    stopped                                                       *)
IdlePcs == {"idle", "kidle", "xidle"}
Pcs == {"user", "resume", "sexec", "sfault", "retire", "loop", "start", "halt"}
         \cup IdlePcs

CpuState ==
    [pc: Pcs,
     cur: Threads \cup {None},   \* current_thread
     kst: Threads \cup {None},   \* kernel_stack_thread
     stk: Threads \cup {None},   \* whose kernel stack SP is in; 0: the CPU's own
     woken: BOOLEAN]             \* the idle WAIT has returned

(* The thread and process records, the queues and the per-CPU records keep *)
(* to the ranges of their C fields on every path of the scheduler.         *)
TypeOK == k \in KernelState /\ cpu \in [CPUs -> CpuState]

-----------------------------------------------------------------------------
(* What a CPU is using (kernel_smp_thread_active and its relatives).       *)

(* Mutant: a thread counts as active only while it is current, not while a *)
(* CPU still runs on its kernel stack.                                     *)
ThreadActiveCurrentOnly(cs, t) == \E c \in CPUs : t = cs[c].cur

(* kernel_smp_thread_active *)
ThreadActive(cs, t) == \E c \in CPUs : t \in {cs[c].cur, cs[c].kst}

(* kernel_smp_process_active *)
ProcessActive(cs, p) == \E t \in ThreadsOf(p) : ThreadActive(cs, t)

(* kernel_smp_process_other_thread_active *)
OtherThreadActive(cs, p, owner) ==
    \E t \in ThreadsOf(p) \ {owner} : ThreadActive(cs, t)

(* kernel_smp_has_running_thread *)
HasRunningThread(s, cs) ==
    \E c \in CPUs : cs[c].cur # None /\ s.st[cs[c].cur] = "RUNNING"

(* scheduler_has_blocked_threads *)
HasBlockedThread(s) == \E t \in Threads : s.st[t] = "BLOCKED"

(* kernel_smp_trap_enter: the handler runs on the interrupted thread's     *)
(* kernel stack, or on the stack the CPU idles on.                         *)
TrapEnter(c) ==
    [cpu EXCEPT ![c].kst = cpu[c].cur,
                ![c].stk = IF cpu[c].pc = "user" THEN cpu[c].cur ELSE @]

(* kernel_smp_switch_reacquire *)
Reacquire(c) == [cpu EXCEPT ![c].kst = cpu[c].cur]

(* The thread stacks CPU c may touch before it next takes the lock. *)
StacksOf(c) ==
    ({cpu[c].stk} \cup (IF cpu[c].pc \in {"user", "resume"} THEN {cpu[c].cur} ELSE {}))
        \ {None}

(* A destroyed thread is still referred to by a CPU or a list: what the    *)
(* code does from here on is undefined, and the model stops.               *)
UseAfterFree ==
    \E t \in Threads :
        /\ k.st[t] = "DEAD"
        /\ \/ k.runq[t] # 0 \/ k.on[t] # "none" \/ k.treap[t] # 0
           \/ \E c \in CPUs : t \in StacksOf(c) \cup {cpu[c].cur, cpu[c].kst}

(* A CPU at one of the given control states takes a step. *)
At(c, pcs) == cpu[c].pc \in pcs /\ ~UseAfterFree

-----------------------------------------------------------------------------
(* Wait queues and wakeups.                                                *)

(* kernel_smp_reschedule_others: an IPI to every other CPU. *)
RescheduleNobody(s, c) == s   \* mutant: the IPIs are not sent

RescheduleOthers(s, c) == [s EXCEPT !.ipi = @ \cup (CPUs \ {c})]

(* scheduler_detach_wait, for each member of S *)
DetachWait(s, S) ==
    [s EXCEPT !.on = PutAll(@, S, "none"),
              !.wq = Unlink(@, S),
              !.timer = PutAll(@, S, 0)]

(* The guard of scheduler_wake_waiter and of its callers. *)
WakeTargets(s, W) == {t \in W : s.st[t] = "BLOCKED"}

(* scheduler_wake_waiter for the BLOCKED members of W, in the order of     *)
(* key, each with a zero or non-zero result; c is the waking CPU, which    *)
(* sends an IPI to the CPU a woken thread is pinned to.  Only a            *)
(* continuation looks at the result: in registers[0] it is the program's.  *)
WakeWaiters(s, c, W, key, result) ==
    LET S == WakeTargets(s, W)
        d == DetachWait(s, S)
    IN  [d EXCEPT
            !.st = PutAll(s.st, S, "RUNNABLE"),
            !.runq = PushAll(s.runq, S, key),
            !.res = [t \in Threads |->
                        IF t \in S /\ s.call[t] # "none" THEN result[t] ELSE s.res[t]],
            !.waitPid = PutAll(s.waitPid, S, None),
            !.waitTid = PutAll(s.waitTid, S, None),
            !.bad = PutAll(s.bad, S, FALSE),
            !.ipi = s.ipi \cup {w \in CPUs \ {c} : \E t \in S : s.aff[t] = w},
            !.err = s.err \/ \E t \in S : s.runq[t] # 0]

ByTid == [t \in Threads |-> t]
Zero == [t \in Threads |-> 0]
NonZero == [t \in Threads |-> 1]

(* kernel_wait_queue_wake_one *)
WakeOne(s, c, q, result) ==
    LET waiters == {t \in Threads : s.on[t] = q}
        head == CHOOSE t \in waiters : IsFirst(s.wq, waiters, t)
    IN  IF waiters = {} THEN s
        ELSE IF s.st[head] # "BLOCKED" THEN [s EXCEPT !.err = TRUE]
        ELSE WakeWaiters(s, c, {head}, ByTid, result)

(* One timer tick: ++scheduler_timer_count and scheduler_expire_timeouts,  *)
(* which wakes every thread whose deadline has come, in queue order: a     *)
(* sleeper with 0, a block request with -EIO.                              *)
Tick(s, c) ==
    LET due == {t \in Threads : s.timer[t] = 1}
        s1 == [s EXCEPT !.timer = [t \in Threads |->
                    IF s.timer[t] > 1 THEN s.timer[t] - 1 ELSE s.timer[t]]]
    IN  WakeWaiters(s1, c, due, s.wq,
            [t \in Threads |-> IF s.on[t] = "sleep" THEN 0 ELSE 1])

-----------------------------------------------------------------------------
(* Reaping.                                                                *)

(* scheduler_queue_thread_reap of a joined thread *)
QueueThreadReap(s, t) ==
    IF s.st[t] # "ZOMBIE" \/ s.treap[t] # 0
    THEN [s EXCEPT !.err = TRUE]
    ELSE [s EXCEPT !.treap = PushBack(s.treap, t)]

(* scheduler_queue_reap, for each member of P *)
QueueReap(s, P) ==
    [s EXCEPT !.preap = PushAll(s.preap,
                            {p \in P : s.par[p] = None /\ s.preap[p] = 0},
                            [p \in Procs |-> p])]

(* The members of a reap queue in front of the first one still in use. *)
BeforeFirst(l, InUse) ==
    {x \in Linked(l) : \A y \in Linked(l) \cap InUse : l[x] < l[y]}

(* The queue that scheduler_reap_deferred leaves: it stops at the first    *)
(* object still in use, which goes to the back.                            *)
AfterReap(l, InUse) ==
    IF Linked(l) \cap InUse = {} THEN EmptyList(DOMAIN l)
    ELSE LET x == CHOOSE x \in Linked(l) : IsFirst(l, InUse, x)
         IN  PushBack(Unlink(l, BeforeFirst(l, InUse) \cup {x}), x)

(* kernel_thread_destroy succeeds *)
Destroyable(s, t) ==
    s.runq[t] = 0 /\ s.on[t] = "none" /\ s.timer[t] = 0 /\ s.st[t] = "ZOMBIE"

(* scheduler_reap_deferred: joined threads first; processes only when no   *)
(* joined thread was still in use.  kernel_process_destroy frees every     *)
(* thread of the process, whatever its state.                              *)
ReapDeferred(s, cs) ==
    LET busyT == {t \in Threads : ThreadActive(cs, t)}
        busyP == {p \in Procs : ProcessActive(cs, p)}
        gone == BeforeFirst(s.treap, busyT)
        stopped == Linked(s.treap) \cap busyT # {}
        goneP == IF stopped THEN {} ELSE BeforeFirst(s.preap, busyP)
    IN  [s EXCEPT
            !.treap = AfterReap(s.treap, busyT),
            !.preap = IF stopped THEN s.preap ELSE AfterReap(s.preap, busyP),
            !.st = [t \in Threads |->
                        IF ProcOf[t] \in goneP \/ (t \in gone /\ Destroyable(s, t))
                        THEN "DEAD" ELSE s.st[t]],
            !.pst = [p \in Procs |-> IF p \in goneP THEN "DEAD" ELSE s.pst[p]],
            !.par = [p \in Procs |->
                        IF p \in goneP \/ s.par[p] \in goneP THEN None ELSE s.par[p]],
            !.err = s.err \/ \E t \in gone : ~Destroyable(s, t)]

-----------------------------------------------------------------------------
(* Exit notification.                                                      *)

(* scheduler_notify_joiner: the joiner gets the status, or an error when   *)
(* its status address faults; only then does the target stay joinable.     *)
NotifyJoiner(s, c, target) ==
    LET waiter == s.joinW[target]
        s1 == [s EXCEPT !.joinW = Put(@, target, None)]
    IN  IF waiter = None THEN s
        ELSE IF s.st[waiter] # "BLOCKED" \/ s.waitTid[waiter] # target
             THEN [s1 EXCEPT !.err = TRUE]
        ELSE IF s.bad[waiter] THEN WakeWaiters(s1, c, {waiter}, ByTid, NonZero)
        ELSE WakeWaiters(QueueThreadReap(s1, target), c, {waiter}, ByTid, NonZero)

Children(s, p) == {q \in Procs : s.par[q] = p}

(* scheduler_collect_child *)
CollectChild(s, child) == QueueReap([s EXCEPT !.par = Put(@, child, None)], {child})

(* Mutant: a waiter whose last child was collected by another thread of    *)
(* its process stays blocked.                                              *)
WakeNoStaleWaiters(s, c, parent, pid) == s

(* scheduler_wake_stale_waiters *)
WakeStaleWaiters(s, c, parent, pid) ==
    WakeWaiters(s, c,
        {t \in ThreadsOf(parent) :
            \/ s.waitPid[t] = pid
            \/ s.waitPid[t] \in {None, AnyChild} /\ Children(s, parent) = {}},
        ByTid, NonZero)

(* scheduler_notify_parent: BLOCKED threads of the parent whose wait       *)
(* matches are tried in list order; a bad status pointer fails that wait   *)
(* and the next one is tried, a good one collects the child.               *)
NotifyParent(s, c, child) ==
    LET parent == s.par[child]
        match == {t \in ThreadsOf(parent) :
                    /\ s.st[t] = "BLOCKED"
                    /\ s.waitPid[t] \in {None, AnyChild, child}}
        good == {t \in match : ~s.bad[t]}
        first == CHOOSE t \in good : \A u \in good : t <= u
        failed == {t \in match : \A u \in good : t < u}
        s1 == WakeWaiters(s, c, failed, ByTid, NonZero)
    IN  IF parent = None THEN s
        ELSE IF good = {} THEN s1
        ELSE WakeStaleWaiters(
                WakeWaiters(CollectChild(s1, child), c, {first}, ByTid, NonZero),
                c, parent, child)

(* scheduler_orphan_children *)
OrphanChildren(s, p) ==
    LET newParent == IF p # InitProc /\ s.pst[InitProc] = "ACTIVE"
                     THEN InitProc ELSE None
        s1 == [s EXCEPT !.par = [q \in Procs |->
                    IF s.par[q] = p THEN newParent ELSE s.par[q]]]
    IN  IF newParent # None THEN s1
        ELSE QueueReap(s1, {q \in Children(s, p) : s.pst[q] = "ZOMBIE"})

(* scheduler_record_process_completion of a process just made ZOMBIE *)
RecordCompletion(s, c, p) ==
    LET s1 == [s EXCEPT !.pst = Put(@, p, "ZOMBIE"),
                        !.err = s.err \/ \E t \in ThreadsOf(p) :
                                    s.st[t] \notin {"ZOMBIE", "DEAD"}]
    IN  IF s.live[p] # 0 THEN [s1 EXCEPT !.err = TRUE]
        ELSE QueueReap(NotifyParent(OrphanChildren(s1, p), c, p), {p})

-----------------------------------------------------------------------------
(* Dispatching.  From here on the definitions are actions: s and cs are    *)
(* the kernel and CPU state that the handler has reached so far.           *)

(* The threads scheduler_dequeue accepts on CPU c. *)
EligibleAnywhere(s, c) == Linked(s.runq)   \* mutant: affinity is ignored

Eligible(s, c) == {t \in Linked(s.runq) : s.aff[t] \in {None, c}}

(* scheduler_dequeue returns t: skipped threads go to the back of the      *)
(* queue, and t is pinned to the CPU of its first dispatch.                *)
Dequeue(s, c, t) ==
    [s EXCEPT !.runq = RotateOut(s.runq, t),
              !.aff = Put(@, t, c),
              !.st = Put(@, t, "RUNNING")]

(* scheduler_set_current and scheduler_load: enter t's suspended kernel    *)
(* continuation, or its user context.                                      *)
Load(s, cs, c, t) ==
    /\ k' = [s EXCEPT !.kres = Put(@, t, FALSE)]
    /\ cpu' = [cs EXCEPT ![c].cur = t, ![c].woken = FALSE,
                         ![c].pc = IF s.kres[t] THEN "resume" ELSE "user"]

(* scheduler_finish: the boot CPU stops the secondary CPUs and halts. *)
Finish(s, cs) ==
    /\ k' = [ReapDeferred(s, cs) EXCEPT !.active = FALSE, !.ipi = {}]
    /\ cpu' = [c \in CPUs |-> [pc |-> "halt", cur |-> None, kst |-> None,
                               stk |-> None, woken |-> FALSE]]

NothingLeft(s, cs) == ~HasBlockedThread(s) /\ ~HasRunningThread(s, cs)

Idle(s, cs, c, pc) ==
    /\ k' = s
    /\ cpu' = [cs EXCEPT ![c].cur = None, ![c].pc = pc, ![c].woken = FALSE]

(* scheduler_dequeue_or_idle at the end of a blocking system call (the     *)
(* caller is BLOCKED, so it never comes back empty-handed) ...             *)
SwitchOrIdle(s, cs, c) ==
    \/ \E t \in Threads : /\ IsFirst(s.runq, Eligible(s, c), t)
                          /\ Load(Dequeue(s, c, t), cs, c, t)
    \/ Eligible(s, c) = {} /\ Idle(s, cs, c, "idle")

(* ... and at the end of exit or fault on the boot CPU; a secondary CPU    *)
(* leaves through scheduler_retire_secondary_frame.                        *)
LeaveThread(s, cs, c) ==
    \/ /\ c # Boot
       /\ k' = s
       /\ cpu' = [cs EXCEPT ![c].cur = None, ![c].pc = "retire"]
    \/ /\ c = Boot
       /\ \E t \in Threads : /\ IsFirst(s.runq, Eligible(s, c), t)
                             /\ Load(Dequeue(s, c, t), cs, c, t)
    \/ /\ c = Boot /\ Eligible(s, c) = {}
       /\ IF NothingLeft(s, cs) THEN Finish(s, cs) ELSE Idle(s, cs, c, "xidle")

(* scheduler_reschedule; the previous thread is always eligible itself *)
Reschedule(s, cs, c) ==
    LET previous == cs[c].cur
        s1 == [s EXCEPT !.st = Put(@, previous, "RUNNABLE"),
                        !.runq = PushBack(s.runq, previous)]
    IN  \E t \in Threads : /\ IsFirst(s1.runq, Eligible(s1, c), t)
                          /\ Load(Dequeue(s1, c, t), cs, c, t)

(* kernel_scheduler_stop_current applies to the current thread of c. *)
StopPending(c) ==
    LET t == cpu[c].cur IN
    /\ t # None
    /\ k.stop[ProcOf[t]]
    /\ k.owner[ProcOf[t]] # t

StopCurrent(s, cs, c) ==
    LET t == cs[c].cur IN
    /\ k' = [DetachWait(s, {t}) EXCEPT !.st = Put(@, t, "ZOMBIE")]
    /\ cpu' = [cs EXCEPT ![c].pc = "retire"]

(* kernel_scheduler_current_space() # NULL *)
InService(s, cs, c) == s.active /\ cs[c].cur # None /\ s.st[cs[c].cur] = "RUNNING"

-----------------------------------------------------------------------------
(* Exit and fault.                                                         *)

(* The thread's own part of kernel_scheduler_exit *)
ThreadExited(s, t) ==
    [s EXCEPT !.st = Put(@, t, "ZOMBIE"),
              !.waitPid = Put(@, t, None),
              !.waitTid = Put(@, t, None),
              !.bad = Put(@, t, FALSE),
              !.live = Put(@, ProcOf[t], IF @[ProcOf[t]] # 0 THEN @[ProcOf[t]] - 1 ELSE 0)]

(* kernel_scheduler_exit up to the point where it leaves the thread *)
ExitThread(s, c, t) ==
    LET s1 == NotifyJoiner(ThreadExited(s, t), c, t)
    IN  IF s1.live[ProcOf[t]] = 0 THEN RecordCompletion(s1, c, ProcOf[t]) ELSE s1

Exit(s, cs, c) ==
    LET s1 == ReapDeferred(s, cs)
    IN  IF InService(s, cs, c)
        THEN LeaveThread(ExitThread(s1, c, cs[c].cur), cs, c)
        ELSE k' = s /\ cpu' = [cs EXCEPT ![c].pc = "user"]

(* kernel_scheduler_fault up to its rendezvous: every thread of the        *)
(* process becomes a ZOMBIE, also one that another CPU is running.         *)
FaultProcess(s, c, p) ==
    LET S == {t \in ThreadsOf(p) : s.st[t] # "DEAD"}
        d == DetachWait(s, S)
    IN  [RescheduleOthers(d, c) EXCEPT
            !.st = PutAll(s.st, S, "ZOMBIE"),
            !.runq = Unlink(s.runq, S),
            !.joinW = PutAll(s.joinW, S, None),
            !.waitTid = PutAll(s.waitTid, S, None),
            !.waitPid = PutAll(s.waitPid, S, None),
            !.bad = PutAll(s.bad, S, FALSE),
            !.live = Put(@, p, 0),
            !.faulted = Put(@, p, TRUE),
            !.stop = Put(@, p, TRUE),
            !.owner = Put(@, p, None)]

(* kernel_scheduler_exec up to its rendezvous: scheduler_request_process_  *)
(* stop and kernel_smp_reschedule_others.                                  *)
RequestProcessStop(s, cs, c, owner) ==
    LET p == ProcOf[owner]
        S == {t \in ThreadsOf(p) \ {owner} : s.st[t] # "DEAD"}
    IN  [RescheduleOthers(DetachWait(s, S), c) EXCEPT
            !.st = [t \in Threads |->
                        IF t \in S /\ ~ThreadActive(cs, t) THEN "ZOMBIE" ELSE s.st[t]],
            !.runq = Unlink(s.runq, S),
            !.treap = Unlink(s.treap, S),
            !.stop = Put(@, p, TRUE),
            !.owner = Put(@, p, owner)]

(* scheduler_exec_discard_other_threads *)
DiscardOtherThreads(s, p, current) ==
    LET S == {t \in ThreadsOf(p) \ {current} : s.st[t] # "DEAD"}
    IN  [DetachWait(s, S) EXCEPT
            !.st = PutAll(s.st, S, "DEAD"),
            !.runq = Unlink(s.runq, S),
            !.treap = Unlink(s.treap, S),
            !.joinW = [u \in Threads |->
                         IF u \in S \/ (s.joinW[u] \in S /\ s.waitTid[s.joinW[u]] = u)
                         THEN None ELSE s.joinW[u]],
            !.live = Put(@, p, 1)]

(* kernel_scheduler_exec after its rendezvous: the process and its only    *)
(* thread start afresh in the new image.                                   *)
ResetProcess(s, p) ==
    [s EXCEPT !.stop = Put(@, p, FALSE),
              !.owner = Put(@, p, None),
              !.faulted = Put(@, p, FALSE),
              !.pst = Put(@, p, "ACTIVE")]

ResetThread(s, t) ==
    [s EXCEPT !.waitPid = Put(@, t, None),
              !.waitTid = Put(@, t, None),
              !.bad = Put(@, t, FALSE),
              !.joinW = Put(@, t, None),
              !.st = Put(@, t, "RUNNING"),
              !.call = Put(@, t, "none"),
              !.op = Put(@, t, "none")]

ReplaceImage(s, c, owner) ==
    LET p == ProcOf[owner]
    IN  RescheduleOthers(
            ResetThread(ResetProcess(DiscardOtherThreads(s, p, owner), p), owner), c)

-----------------------------------------------------------------------------
(* File system calls: the sleeping gate of kernel/syscall.c and the block  *)
(* request wait of kernel/devices.c.                                       *)

(* kernel_scheduler_block_kernel up to the switch: the C stack of the      *)
(* caller stays on its kernel stack and kernel_resume_sp points at it.     *)
BlockKernel(s, cs, c, q, ticks, call) ==
    LET t == cs[c].cur
        s1 == [s EXCEPT !.st = Put(@, t, "BLOCKED"),
                        !.on = Put(@, t, q),
                        !.wq = PushBack(s.wq, t),
                        !.timer = Put(@, t, ticks),
                        !.call = Put(@, t, call)]
    IN  \/ \E u \in Threads :
              /\ IsFirst(s1.runq, Eligible(s1, c), u)
              /\ Load([Dequeue(s1, c, u) EXCEPT !.kres = Put(@, t, TRUE)], cs, c, u)
        \/ Eligible(s1, c) = {} /\ Idle(s1, cs, c, "kidle")

(* The end of kernel_syscall_dispatch: a thread whose process has faulted  *)
(* meanwhile exits instead of returning.                                   *)
SyscallReturn(s, cs, c) ==
    LET t == cs[c].cur
        s1 == [s EXCEPT !.call = Put(@, t, "none"),
                        !.op = Put(@, t, "none"),
                        !.res = Put(@, t, 0)]
        cs1 == [cs EXCEPT ![c].woken = FALSE]
    IN  IF s.faulted[ProcOf[t]] THEN Exit(s1, cs1, c)
        ELSE k' = s1 /\ cpu' = [cs1 EXCEPT ![c].pc = "user"]

(* Mutant: the gate is released and nobody is woken. *)
FileDoneWakesNobody(s, cs, c) == SyscallReturn([s EXCEPT !.gate = None], cs, c)

(* syscall_gate_unlock and the return *)
FileDone(s, cs, c) ==
    SyscallReturn(WakeOne([s EXCEPT !.gate = None], c, "gate", Zero), cs, c)

(* block_command: one request at a time; a request that cannot be issued   *)
(* or that fails ends the call like FileDone.                              *)
BlockCommand(s, cs, c) ==
    /\ ~s.pending
    /\ BlockKernel([s EXCEPT !.pending = TRUE], cs, c, "block", BlockTicks, "io")

ExecStop(s, cs, c) ==
    /\ k' = RequestProcessStop(s, cs, c, cs[c].cur)
    /\ cpu' = [cs EXCEPT ![c].pc = "sexec", ![c].woken = FALSE]

(* The body of a file system call, or of exec, once the gate is held: any  *)
(* number of block requests, and for exec the probe of the path, the load  *)
(* of the image and the rendezvous.                                        *)
FileStep(s, cs, c) ==
    LET t == cs[c].cur
        s1 == [ReapDeferred(s, cs) EXCEPT !.op = Put(@, t, "load")]
    IN  \/ FileDone(s, cs, c)
        \/ BlockCommand(s, cs, c)
        \/ /\ s.op[t] = "probe" /\ InService(s, cs, c)
           /\ FileDone(s1, cs, c) \/ BlockCommand(s1, cs, c) \/ ExecStop(s1, cs, c)
        \/ s.op[t] = "load" /\ ExecStop(s, cs, c)

(* syscall_gate_lock *)
GateLock(s, cs, c) ==
    IF s.gate # None THEN BlockKernel(s, cs, c, "gate", 0, "gate")
    ELSE FileStep([s EXCEPT !.gate = cs[c].cur], cs, c)

(* What the caller of block_kernel does when it returns. *)
Continue(s, cs, c, failed) ==
    LET t == cs[c].cur
        s1 == [s EXCEPT !.res = Put(@, t, 0)]
    IN  IF s.call[t] = "gate"
        THEN IF failed THEN SyscallReturn(s1, cs, c) ELSE GateLock(s1, cs, c)
        ELSE IF failed THEN FileDone(s1, cs, c) ELSE FileStep(s1, cs, c)

-----------------------------------------------------------------------------
(* Traps from user mode.                                                   *)

(* A system call or exception of a thread that is not being stopped. *)
UserTrap(c, op) ==
    /\ op \in Ops
    /\ At(c, {"user"}) /\ InService(k, cpu, c) /\ ~StopPending(c)

SysYield(c) ==
    LET cs == TrapEnter(c) IN
    UserTrap(c, "yield") /\ Reschedule(ReapDeferred(k, cs), cs, c)

(* kernel_scheduler_sleep with a non-zero duration *)
SysSleep(c) ==
    LET cs == TrapEnter(c)
        t == cpu[c].cur
        s == ReapDeferred(k, cs)
    IN  /\ UserTrap(c, "sleep")
        /\ \E n \in SleepTicks :
              SwitchOrIdle([s EXCEPT !.st = Put(@, t, "BLOCKED"),
                                     !.on = Put(@, t, "sleep"),
                                     !.wq = PushBack(s.wq, t),
                                     !.timer = Put(@, t, n)],
                           cs, c)

(* kernel_scheduler_waitpid, for SYS_WAIT and SYS_WAITPID; which of several *)
(* zombies comes first in the children list is left open.                  *)
SysWait(c) ==
    LET cs == TrapEnter(c)
        t == cpu[c].cur
        p == ProcOf[t]
        s == ReapDeferred(k, cs)
    IN  /\ UserTrap(c, "wait")
        /\ \E pid \in Procs \cup {AnyChild}, bad \in BadPointers :
              LET match == {q \in Children(s, p) : pid \in {AnyChild, q}}
                  zombies == {q \in match : s.pst[q] = "ZOMBIE"}
              IN  \/ /\ match = {} \/ (zombies # {} /\ bad)
                     /\ k' = s /\ cpu' = cs
                  \/ /\ ~bad /\ cpu' = cs
                     /\ \E z \in zombies :
                          k' = WakeStaleWaiters(CollectChild(s, z), c, p, z)
                  \/ /\ match # {} /\ zombies = {}
                     /\ SwitchOrIdle([s EXCEPT !.st = Put(@, t, "BLOCKED"),
                                               !.waitPid = Put(@, t, pid),
                                               !.bad = Put(@, t, bad)],
                                     cs, c)

(* scheduler_find_thread and the test of its result in join: a thread in   *)
(* the reap queue has been joined already.                                 *)
JoinableTwice(s, p, u) == ProcOf[u] = p /\ s.st[u] # "DEAD"   \* mutant

Joinable(s, p, u) == ProcOf[u] = p /\ s.st[u] # "DEAD" /\ s.treap[u] = 0

(* kernel_scheduler_join *)
SysJoin(c) ==
    LET cs == TrapEnter(c)
        t == cpu[c].cur
        s == ReapDeferred(k, cs)
    IN  /\ UserTrap(c, "join")
        /\ \E u \in Threads \ {t}, bad \in BadPointers :
              LET found == Joinable(s, ProcOf[t], u)
                  free == s.joinW[u] = None
                  zombie == s.st[u] = "ZOMBIE"
              IN  \/ /\ ~found \/ ~free \/ (zombie /\ bad)
                     /\ k' = s /\ cpu' = cs
                  \/ /\ found /\ free /\ zombie /\ ~bad
                     /\ k' = QueueThreadReap(s, u) /\ cpu' = cs
                  \/ /\ found /\ free /\ ~zombie
                     /\ SwitchOrIdle([s EXCEPT !.st = Put(@, t, "BLOCKED"),
                                               !.waitTid = Put(@, t, u),
                                               !.bad = Put(@, t, bad),
                                               !.joinW = Put(@, u, t)],
                                     cs, c)

SysExit(c) == UserTrap(c, "exit") /\ Exit(k, TrapEnter(c), c)

(* read, write, open, seek and fsync on a regular file *)
SysFile(c) ==
    /\ UserTrap(c, "io")
    /\ GateLock([k EXCEPT !.op = Put(@, cpu[c].cur, "file")], TrapEnter(c), c)

(* syscall_exec *)
SysExec(c) ==
    /\ UserTrap(c, "exec")
    /\ GateLock([k EXCEPT !.op = Put(@, cpu[c].cur, "probe")], TrapEnter(c), c)

(* kernel_scheduler_fault, to the release of the lock *)
Fault(c) ==
    LET cs == TrapEnter(c)
        p == ProcOf[cpu[c].cur]
    IN  /\ UserTrap(c, "fault")
        /\ k' = FaultProcess(ReapDeferred(k, cs), c, p)
        /\ cpu' = [cs EXCEPT ![c].pc = "sfault"]

(* Any system call or exception of a thread whose process is stopping *)
StopTrap(c) ==
    /\ At(c, {"user"}) /\ StopPending(c)
    /\ StopCurrent(k, TrapEnter(c), c)

-----------------------------------------------------------------------------
(* Interrupts: IPI 48 on any CPU, the timer and the block device on the    *)
(* boot CPU.  They are enabled in user mode and in the idle wait only.     *)

Interruptible(c) == At(c, {"user", "loop"} \cup IdlePcs)

(* kernel_scheduler_interrupt_return: the idle wait ends. *)
IdleReturn(s, cs, c) ==
    /\ k' = s
    /\ cpu' = IF cs[c].pc = "loop" THEN [cs EXCEPT ![c].pc = "start"]
              ELSE [cs EXCEPT ![c].woken = TRUE]

(* kernel_scheduler_ipi, and the end of kernel_scheduler_timer *)
Preempt(s, cs, c) ==
    IF cs[c].pc # "user" THEN IdleReturn(s, cs, c)
    ELSE IF InService(s, cs, c) THEN Reschedule(ReapDeferred(s, cs), cs, c)
    ELSE k' = s /\ cpu' = cs

Ipi(c) ==
    LET cs == TrapEnter(c)
        s == [k EXCEPT !.ipi = @ \ {c}]
    IN  /\ c \in k.ipi /\ Interruptible(c)
        /\ IF StopPending(c) THEN StopCurrent(s, cs, c) ELSE Preempt(s, cs, c)

(* Mutant: a tick that interrupts the idle wait is not counted. *)
TimerIdleUncounted(c) ==
    LET cs == TrapEnter(c) IN
    /\ c = Boot /\ Interruptible(c)
    /\ IF cs[c].pc = "user" THEN Preempt(Tick(k, c), cs, c) ELSE IdleReturn(k, cs, c)

(* kernel_scheduler_timer; a tick that finds the current thread stopped is *)
(* not counted.                                                            *)
Timer(c) ==
    LET cs == TrapEnter(c) IN
    /\ c = Boot /\ Interruptible(c)
    /\ IF StopPending(c) THEN StopCurrent(k, cs, c)
       ELSE Preempt(Tick(k, c), cs, c)

(* kernel_devices_interrupt for the block line: the request completes and  *)
(* its waiter, if it is still waiting, is woken.                           *)
BlockInterrupt(c) ==
    LET cs == TrapEnter(c)
        s == WakeOne([k EXCEPT !.pending = FALSE], c, "block", Zero)
    IN  /\ c = Boot /\ k.pending /\ Interruptible(c)
        /\ IF StopPending(c) THEN StopCurrent(s, cs, c)
           ELSE IF cs[c].pc = "user" THEN k' = s /\ cpu' = cs
           ELSE IdleReturn(s, cs, c)

-----------------------------------------------------------------------------
(* Kernel steps that take the Big Kernel Lock again.                       *)

(* The thread whose wait is undone when scheduler_dequeue_or_idle returns  *)
(* NULL to a blocking system call: nothing is runnable, running or         *)
(* blocked, so its process was stopped while the CPU idled on its stack.   *)
Undo(s, t) ==
    [DetachWait(s, {t}) EXCEPT
        !.st = Put(@, t, "RUNNING"),
        !.waitPid = Put(@, t, None),
        !.waitTid = Put(@, t, None),
        !.bad = Put(@, t, FALSE),
        !.joinW = [u \in Threads |->
                     IF s.waitTid[t] = u /\ s.call[t] = "none" THEN None ELSE s.joinW[u]]]

(* The rest of an iteration of scheduler_dequeue_or_idle after the WAIT *)
IdleResume(c) ==
    LET cs == Reacquire(c)
        t == cpu[c].stk
        own == [cs EXCEPT ![c].cur = t]
        s == ReapDeferred(k, cs)
        pc == cpu[c].pc
        empty == Eligible(s, c) = {}
    IN  /\ At(c, IdlePcs) /\ cpu[c].woken
        /\ \/ pc = "xidle" /\ LeaveThread(s, cs, c)
           \/ /\ pc = "idle"
              /\ IF empty /\ NothingLeft(s, cs)
                 THEN SyscallReturn(Undo(s, t), own, c)
                 ELSE SwitchOrIdle(s, cs, c)
           \/ /\ pc = "kidle"
              /\ IF ~empty
                 THEN \E u \in Threads :
                        /\ IsFirst(s.runq, Eligible(s, c), u)
                        /\ IF u = t
                           THEN Continue(Dequeue(s, c, t), own, c, s.res[t] # 0)
                           ELSE Load([Dequeue(s, c, u) EXCEPT !.kres = Put(@, t, TRUE)],
                                     cs, c, u)
                 ELSE IF NothingLeft(s, cs) THEN Continue(Undo(s, t), own, c, TRUE)
                 ELSE Idle(s, cs, c, "kidle")

(* kernel_resume_continuation and kernel_switch_continuation arrive in     *)
(* block_kernel, which takes the lock and returns to its caller.           *)
Resume(c) ==
    LET t == cpu[c].cur
        cs == [Reacquire(c) EXCEPT ![c].stk = t]
    IN  /\ At(c, {"resume"})
        /\ Continue(k, cs, c, k.res[t] # 0)

ExecRendezvous(c) ==
    LET t == cpu[c].cur
        s == [ReplaceImage(k, c, t) EXCEPT !.gate = None]
    IN  /\ At(c, {"sexec"})
        /\ ~OtherThreadActive(cpu, ProcOf[t], t)
        /\ k' = WakeOne(s, c, "gate", Zero)
        /\ cpu' = [Reacquire(c) EXCEPT ![c].pc = "user"]

FaultRendezvous(c) ==
    LET t == cpu[c].cur IN
    /\ At(c, {"sfault"})
    /\ ~OtherThreadActive(cpu, ProcOf[t], t)
    /\ LeaveThread(RecordCompletion(k, c, ProcOf[t]), Reacquire(c), c)

(* kernel_smp_retire_finalize, on the CPU's permanent stack *)
RetireFinalize(c) ==
    /\ At(c, {"retire"})
    /\ k' = [k EXCEPT !.ipi = IF c = Boot THEN @ ELSE @ \cup {Boot}]
    /\ cpu' = [cpu EXCEPT ![c] = [pc |-> "start", cur |-> None, kst |-> None,
                                  stk |-> None, woken |-> FALSE]]

(* kernel_scheduler_secondary_start *)
SecondaryStart(c) ==
    LET cs == Reacquire(c)
        s == ReapDeferred(k, cs)
    IN  /\ At(c, {"start"})
        /\ \/ \E t \in Threads : /\ IsFirst(s.runq, Eligible(s, c), t)
                                 /\ Load(Dequeue(s, c, t), cs, c, t)
           \/ /\ Eligible(s, c) = {}
              /\ IF c = Boot /\ NothingLeft(s, cs) THEN Finish(s, cs)
                 ELSE k' = s /\ cpu' = [cs EXCEPT ![c].pc = "loop"]

-----------------------------------------------------------------------------
(* kernel_scheduler_self_test has registered the processes, dispatched the *)
(* first thread on the boot CPU and kicked the secondary CPUs.             *)
Init ==
    LET queued == Threads \ {FirstThread}
        None_ == [t \in Threads |-> None]
    IN
    /\ k = [st |-> [t \in Threads |-> IF t = FirstThread THEN "RUNNING" ELSE "RUNNABLE"],
            aff |-> [t \in Threads |-> IF t = FirstThread THEN Boot ELSE None],
            runq |-> PushAll(EmptyList(Threads), queued, ByTid),
            on |-> [t \in Threads |-> "none"], wq |-> EmptyList(Threads),
            timer |-> Zero, waitPid |-> None_, waitTid |-> None_, joinW |-> None_,
            bad |-> [t \in Threads |-> FALSE], res |-> Zero,
            kres |-> [t \in Threads |-> FALSE],
            call |-> [t \in Threads |-> "none"], op |-> [t \in Threads |-> "none"],
            treap |-> EmptyList(Threads),
            pst |-> [p \in Procs |-> "ACTIVE"], par |-> ParentOf,
            live |-> [p \in Procs |-> Cardinality(ThreadsOf(p))],
            stop |-> [p \in Procs |-> FALSE], owner |-> [p \in Procs |-> None],
            faulted |-> [p \in Procs |-> FALSE], preap |-> EmptyList(Procs),
            gate |-> None, pending |-> FALSE, ipi |-> CPUs \ {Boot},
            active |-> TRUE, err |-> FALSE]
    /\ cpu = [c \in CPUs |->
                [pc |-> IF c = Boot THEN "user" ELSE "loop",
                 cur |-> IF c = Boot THEN FirstThread ELSE None,
                 kst |-> None, stk |-> None, woken |-> FALSE]]

(* After scheduler_finish the machine is halted. *)
Halted == ~k.active /\ UNCHANGED vars

Interrupt(c) == Ipi(c) \/ Timer(c) \/ BlockInterrupt(c)

KernelStep(c) ==
    \/ IdleResume(c) \/ Resume(c) \/ ExecRendezvous(c) \/ FaultRendezvous(c)
    \/ RetireFinalize(c) \/ SecondaryStart(c)

UserStep(c) ==
    \/ SysYield(c) \/ SysSleep(c) \/ SysWait(c) \/ SysJoin(c) \/ SysExit(c)
    \/ SysFile(c) \/ SysExec(c) \/ Fault(c) \/ StopTrap(c)

Undefined == UseAfterFree /\ UNCHANGED vars

Next ==
    \/ \E c \in CPUs : Interrupt(c) \/ KernelStep(c) \/ UserStep(c)
    \/ Halted
    \/ Undefined

Spec == Init /\ [][Next]_vars
-----------------------------------------------------------------------------
(* Safety.                                                                 *)

(* No kernel stack is used by two CPUs.  A thread keeps its stack while it *)
(* is preempted, blocked in a continuation or idled on, and the CPU still  *)
(* unwinds it after it has released the lock (trap_leave to IRET); the     *)
(* affinity that scheduler_dequeue sets on the first dispatch is what      *)
(* keeps every other CPU off it.                                           *)
KernelStackExclusive ==
    \A c, d \in CPUs : c # d => StacksOf(c) \cap StacksOf(d) = {}

(* The run queue holds RUNNABLE threads only, and holds all of them, but   *)
(* those that exec or fault took out to stop their process: no thread is   *)
(* dispatched twice or forgotten by a wake, timeout, preemption or stop.   *)
RunQueueExact ==
    \A t \in Threads :
        /\ k.runq[t] # 0 => k.st[t] = "RUNNABLE"
        /\ k.st[t] = "RUNNABLE" => k.runq[t] # 0 \/ k.stop[ProcOf[t]]

(* A RUNNING thread is the current thread of exactly one CPU, on every     *)
(* path through reschedule, block, wake, undo and continuation switch.     *)
RunningOnce ==
    \A t \in Threads : k.st[t] = "RUNNING" =>
        Cardinality({c \in CPUs : cpu[c].cur = t}) = 1

(* A wakeup, a timeout and a stop detach a thread from its wait queue and  *)
(* its deadline together (scheduler_detach_wait): a thread that can run is *)
(* in neither, and a deadline without a wait queue does not exist.         *)
WaitQueueExact ==
    \A t \in Threads :
        /\ k.on[t] # "none" => k.st[t] \in {"BLOCKED", "DEAD"}
        /\ k.on[t] # "none" <=> k.wq[t] # 0
        /\ k.timer[t] # 0 => k.on[t] \in {"sleep", "block"}

(* scheduler_reap_deferred and exec never free a thread that the per-CPU   *)
(* records name as current or as kernel stack owner.                       *)
CurrentNotFreed ==
    \A c \in CPUs : \A t \in {cpu[c].cur, cpu[c].kst} \ {None} : k.st[t] # "DEAD"

(* Every thread is where its state says, at every release of the lock: the *)
(* run queue, the wait queues with their deadlines and the per-CPU records *)
(* agree with it, and none of them names a thread that is freed.           *)
QueuesExact == RunQueueExact /\ RunningOnce /\ WaitQueueExact /\ CurrentNotFreed

(* A zombie process is either in its parent's children list, where wait    *)
(* finds it, or in the reap queue, never in both and never in neither,     *)
(* whichever of exit, fault, orphaning and collection came first.          *)
ZombieAccounted ==
    \A p \in Procs : k.pst[p] = "ZOMBIE" => (k.par[p] # None) # (k.preap[p] # 0)

(* A thread blocked in wait or waitpid has a running child that can still  *)
(* end its wait: neither a collection by a sibling nor a bad status        *)
(* pointer leaves it waiting for nobody.                                   *)
WaiterHasChild ==
    \A t \in Threads : k.st[t] = "BLOCKED" /\ k.waitPid[t] # None =>
        \E q \in Children(k, ProcOf[t]) :
            k.waitPid[t] \in {AnyChild, q} /\ k.pst[q] = "ACTIVE"

(* When a process is recorded as complete, none of its threads is left     *)
(* that could run: kernel_process_destroy will free them all unchecked.    *)
CompletedProcessQuiet ==
    \A p \in Procs : k.pst[p] # "ACTIVE" =>
        k.live[p] = 0 /\ \A t \in ThreadsOf(p) : k.st[t] \in {"ZOMBIE", "DEAD"}

(* Exit, fault, wait by several threads, orphaning and collection keep     *)
(* parents, children and the books on finished processes in agreement, in  *)
(* any order (scheduler_record_process_completion and what it notifies).   *)
FamilyExact == ZombieAccounted /\ WaiterHasChild /\ CompletedProcessQuiet

(* join_waiter and wait_tid point at each other exactly while the joiner   *)
(* is blocked, unless the process is being stopped.                        *)
JoinLink ==
    \A t, u \in Threads :
        ~k.stop[ProcOf[t]] =>
            ((k.joinW[u] = t) <=> (k.st[t] = "BLOCKED" /\ k.waitTid[t] = u))

(* The consistency checks that set scheduler_completion_error never fire.  *)
NoCompletionError == ~k.err

(* A join is answered once, by the thread that was joined: the two links   *)
(* agree, and scheduler_notify_joiner finds what it expects.               *)
JoinExact == JoinLink /\ NoCompletionError

(* The thread that holds filesystem_gate can still release it. *)
GateOwnerLives == k.gate # None => k.st[k.gate] \notin {"ZOMBIE", "DEAD"}

(* While threads queue for a free gate, one of them has been woken and is  *)
(* on its way to take it: syscall_gate_unlock loses no wakeup.             *)
NoLostGateWakeup ==
    k.gate = None /\ (\E t \in Threads : k.on[t] = "gate") =>
        \E t \in Threads : /\ k.call[t] = "gate" /\ k.on[t] = "none"
                          /\ k.st[t] \in {"RUNNABLE", "RUNNING"}

(* Whoever waits for the block device holds the gate, and a request is in  *)
(* flight: the completion that wakes the head of the queue wakes the only  *)
(* thread that can be meant.                                               *)
BlockWaiterOwnsGate ==
    \A t \in Threads : k.on[t] = "block" => k.pending /\ k.gate = t

(* The filesystem gate keeps its promises though its owner sleeps in block *)
(* I/O, times out, is stopped or ends (syscall_gate_lock and _unlock).     *)
GateExact == GateOwnerLives /\ NoLostGateWakeup /\ BlockWaiterOwnsGate

-----------------------------------------------------------------------------
(* What the documentation and the code's own checks claim and the code     *)
(* does not keep.                                                          *)

(* docs/kernel/README.md: finished threads and processes are reaped by a   *)
(* trap that has left their kernel stack.                                  *)
NoFreedStackInUse ==
    \A c \in CPUs : \A t \in StacksOf(c) : k.st[t] # "DEAD"

(* scheduler_finish: every process has completed when the machine halts.   *)
FinishOnlyWhenDone == ~k.active => \A p \in Procs : k.pst[p] # "ACTIVE"

(* docs/kernel/README.md: a rendezvous ends, because every other thread of *)
(* the process leaves at its next trap.  Two rendezvous of one process     *)
(* would wait for each other with interrupts disabled.                     *)
OneRendezvous ==
    \A c, d \in CPUs :
        c # d /\ {cpu[c].pc, cpu[d].pc} \subseteq {"sexec", "sfault"} =>
            ProcOf[cpu[c].cur] # ProcOf[cpu[d].cur]

-----------------------------------------------------------------------------
(* Liveness.  A CPU that can proceed in the kernel does so; an interrupt   *)
(* that is pending infinitely often while the CPU accepts interrupts is    *)
(* taken, because the controllers latch it and the CPU looks for it before *)
(* every instruction.  Nothing is assumed of user programs or of the block *)
(* device.  The enabling conditions are spelled out.                       *)

KernelReady(c) ==
    \/ At(c, IdlePcs) /\ cpu[c].woken
    \/ At(c, {"resume", "retire", "start"})
    \/ /\ At(c, {"sexec", "sfault"})
       /\ ~OtherThreadActive(cpu, ProcOf[cpu[c].cur], cpu[c].cur)

IpiReady(c) == c \in k.ipi /\ Interruptible(c)

TickReady == Interruptible(Boot) /\ \E t \in Threads : k.timer[t] # 0

Fairness ==
    /\ \A c \in CPUs :
        /\ []<>~KernelReady(c) \/ []<><<KernelStep(c)>>_vars
        /\ <>[]~IpiReady(c) \/ []<><<Ipi(c)>>_vars
    /\ <>[]~TickReady \/ []<><<Timer(Boot)>>_vars

FairSpec == Spec /\ Fairness

Stopped == ~k.active \/ UseAfterFree

(* Every sleep and every block request wait ends, at its deadline at the   *)
(* latest, also when all CPUs are idle and when ticks are lost to stops.   *)
TimedWaitsEnd ==
    \A t \in Threads : k.timer[t] # 0 ~> k.timer[t] = 0 \/ Stopped

(* The CPU that spins in the rendezvous of exec or fault gets out of it.   *)
RendezvousEnds ==
    \A c \in CPUs :
        cpu[c].pc \in {"sexec", "sfault"} ~> cpu[c].pc \notin {"sexec", "sfault"} \/ Stopped

=============================================================================
