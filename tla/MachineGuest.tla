---------------------------- MODULE MachineGuest ----------------------------
(***************************************************************************)
(* Lemmas about what a processor executes in Machine, for MachineProofs.   *)
(*                                                                         *)
(* MachineInv is the inductive invariant. Its part GuestInv is about the   *)
(* kernel, core control and the hardware state of each processor;          *)
(* this module shows that every instruction keeps it, and bounds what an   *)
(* instruction does to the hardware (HwEffect), which is all that the host *)
(* threads of MachineProofs need to know of it.                            *)
(*                                                                         *)
(* Most actions write only what belongs to the processor that executes:    *)
(* its label, its hardware state, its record, the lock. OwnWrites is the   *)
(* argument they share. The exception is the command register of the SMP   *)
(* controller, which starts and resets other processors (CommandKeeps).    *)
(***************************************************************************)
EXTENDS Machine, FiniteSetTheorems, TLAPS

(* The types of the variables of Machine. *)
Commands == {"START", "STOP", "RESET", "IPI"}
Calling == {"core", "thread", "command", "result"}
InKernel == {"enter", "handler", "task", "ipi", "leave"}

Places == {"off", "start", "booted", "answered", "valid", "kick", "user", "stop", "stopped", "undo", "end",
           "trampoline", "loop", "ei", "wait", "di", "first", "halted", "again", "work", "halt"}
             \cup InKernel \cup Calling

HwState == [state : {"OFFLINE", "RUNNABLE", "WAITING", "HALTED"}, stop : BOOLEAN, waiting : BOOLEAN,
            halted : BOOLEAN, ie : BOOLEAN]
VmState == [stop : BOOLEAN, action : {"NONE", "WARM_RESET", "SHUTDOWN"}, active : Int,
            phase : {"running", "ended"}, resets : Nat]
WorkerState == [at : {"top", "exit", "service", "select", "step", "check", "post", "flags", "unstop", "count"},
                thread : CPUs, next : Int]
DevState == [core : {c \div tpc : c \in CPUs}, thread : {c % tpc : c \in CPUs}, result : BOOLEAN]
GuestState == [at : Places, to : CPUs, cmd : Commands, next : Places, i : 0 .. Last + 1, bad : BOOLEAN,
               fail : {"none", "bootstrap", "main"}, saved : Places, tasks : Nat]
LocalState == [state : {"OFFLINE", "BOOTING", "ONLINE", "WAITING", "STOPPED"}, ipis : {0, 1},
               stack : {"none", "allocated", "lost"}]

(* The types of what processors, kernel and devices change, and of the     *)
(* host threads.                                                           *)
GuestTypes ==
    /\ tpc \in {1, Last + 1} /\ hw \in [CPUs -> HwState] /\ vm \in VmState
    /\ dev \in DevState /\ guest \in [CPUs -> GuestState]
    /\ kcpu \in [CPUs -> LocalState] /\ lock \in CPUs \cup {NoLine} /\ running \in BOOLEAN
    /\ plan \in [program : {"kernel", "restart"}, end : {"HALT", "SHUTDOWN", "WARM_RESET"}]
    /\ ctl \in [CPUs -> SUBSET IpiLines]
WorkerTypes == wk \in [Cores -> WorkerState]

(* The processors that are counted, and the host threads that still have   *)
(* one to subtract.                                                        *)
LiveSet(h) == {c \in CPUs : h[c].state \in Live}
Finishing(w) == {k \in Cores : w[k].at \in {"flags", "unstop", "count"}}

(* A host thread works on a thread of its core, which is RUNNABLE while it *)
(* executes; a thread that has executed WAIT and is still RUNNABLE is the  *)
(* one its host thread is about to look at; and every processor that lives *)
(* or is just halting is counted. The kernel never resets a processor, so  *)
(* the one that a host thread is finishing stays halted.                   *)
Counted == vm.active = Cardinality(LiveSet(hw)) + Cardinality(Finishing(wk))
WorkerExact(k) ==
    /\ wk[k].thread \in CoreThreads(k)
    /\ wk[k].at \in {"step", "check", "post"} => hw[wk[k].thread].state = "RUNNABLE"
    /\ wk[k].at \in {"flags", "unstop", "count"} =>
          /\ hw[wk[k].thread].state # "WAITING"
          /\ plan.program = "kernel" => hw[wk[k].thread].state = "HALTED"
WaitExact(c) ==
    hw[c].state = "RUNNABLE" /\ hw[c].waiting =>
        wk[c \div tpc].at \in {"check", "post"} /\ wk[c \div tpc].thread = c
CountExact ==
    /\ Counted /\ StopsOnlyWhenIdle
    /\ (\A k \in Cores : WorkerExact(k)) /\ (\A c \in CPUs : WaitExact(c))

(* What the label of a processor says of it. *)
KernelLabels(c, g) ==
    IF c = 0
    THEN /\ g.at \in {"off", "start", "booted", "answered", "valid", "kick", "user", "stop", "stopped",
                   "undo", "end"} \cup InKernel \cup Calling
         /\ g.next \in {"off", "booted", "answered", "kick", "leave", "stopped", "undo"} /\ g.saved \in {"off", "user"}
    ELSE /\ g.at \in {"off", "trampoline", "loop", "ei", "wait", "di"} \cup InKernel \cup Calling
         /\ g.next \in {"off", "leave"} /\ g.saved \in {"off", "loop", "wait", "di"}

RestartLabels(c, g) ==
    IF c = 0 THEN g.at \in {"off", "first", "halted", "again", "end"} \cup Calling
                  /\ g.next \in {"off", "halted", "again", "end"} /\ g.saved = "off"
             ELSE g.at \in {"off", "work", "halt"} /\ g.next = "off" /\ g.saved = "off"

Labels(p, c, g) ==
    /\ p = "kernel" =>
         /\ KernelLabels(c, g)
         /\ g.at \in Calling => /\ g.cmd = "START" <=> g.next = "booted"
                                /\ g.cmd = "STOP" <=> g.next \in {"stopped", "undo"}
                                /\ g.cmd # "RESET"
    /\ p = "restart" => RestartLabels(c, g)
    /\ g.at \in Calling => g.next # "off"
    /\ g.saved = "wait" => g.at \in {"handler", "ipi"}
    /\ g.at \in InKernel \/ (g.at \in Calling /\ g.next = "leave") => g.saved # "off"

(* A processor sleeps, or has interrupts enabled, only at the places of    *)
(* the idle loop, and there it has published WAITING, unless the kernel    *)
(* has given it up.                                                        *)
Idle(h, g, k) ==
    /\ h.state = "WAITING" => h.waiting
    /\ h.state \in Live =>
         /\ h.waiting => g.at = "di" /\ (k.stack # "lost" => k.state = "WAITING")
         /\ g.at \in {"ei", "wait"} => (k.stack # "lost" => k.state = "WAITING")
         /\ h.ie => g.at \in {"user", "wait", "di"}

(* Between kernel_smp_trap_enter and kernel_smp_trap_leave, and in the     *)
(* shutdown that follows a run of the scheduler, the processor holds the   *)
(* kernel lock.                                                            *)
Locked(p, c, g, l) ==
    p = "kernel" =>
      /\ g.at \in {"task", "ipi", "leave"} => l = c
      /\ g.at \in {"stop", "stopped", "end"} /\ g.fail = "none" => l = c
      /\ g.at \in Calling /\ g.next = "leave" => l = c
      /\ g.at \in Calling /\ g.next = "stopped" /\ g.fail = "none" => l = c

(* All this for one processor, and for all of them. *)
Exact(c) ==
    /\ Labels(plan.program, c, guest[c]) /\ Idle(hw[c], guest[c], kcpu[c])
    /\ Locked(plan.program, c, guest[c], lock)
ProcExact == \A c \in CPUs : Exact(c)

(* The bootstrap processor, at z, is in smp_start_secondary; it has not    *)
(* started the scheduler; it is in kernel_smp_kick_secondaries; it has     *)
(* sent the STOP that undoes a start; it has told nobody to stop.          *)
Starting(z) ==
    \/ z.at \in {"start", "booted", "answered", "undo"}
    \/ z.at \in Calling /\ z.next \in {"booted", "answered", "undo"}
Booting(z) == z.fail # "none" \/ z.at = "valid" \/ Starting(z)
Kicking(z) == z.at = "kick" \/ (z.at \in Calling /\ z.next = "kick")
Undoing(z) == z.at = "undo" \/ (z.at = "result" /\ z.next = "undo")
Quiet(z) ==
    /\ z.fail = "none" /\ z.at \notin {"stop", "stopped", "undo", "end", "off"}
    /\ ~(z.at \in Calling /\ z.next \in {"stopped", "undo"})

(* The progress of the boot and of the shutdown. Until the scheduler runs, *)
(* and again when the boot has failed, no secondary is in the kernel; the  *)
(* processors after the one being started are OFFLINE; the select          *)
(* registers name the processor that START or STOP is sent to, which has a *)
(* stack when it is started; and one that lives after the STOP that undoes *)
(* its start has the request pending.                                      *)
BootExact(z) ==
    plan.program = "kernel" =>
        /\ Booting(z) => /\ ~running
                         /\ \A c \in CPUs \ {0} : guest[c].at \notin {"enter", "task"} \cup Calling
        /\ Starting(z) => z.i \in 1 .. Last /\ \A c \in CPUs : c > z.i => hw[c].state = "OFFLINE"
        /\ Starting(z) \/ Kicking(z) \/ z.at = "valid" => z.fail = "none" /\ ~z.bad
        /\ Kicking(z) => running
        /\ z.at = "start" => hw[z.i].state = "OFFLINE"
        /\ Kicking(z) \/ z.at \in {"valid", "stop"} => z.i >= 1
        /\ z.at \in Calling /\ z.next \in {"booted", "stopped", "undo"} =>
              /\ z.to = z.i /\ z.i \in 1 .. Last
              /\ z.at # "core" => dev.core = z.i \div tpc
              /\ z.at \in {"command", "result"} => dev.thread = z.i % tpc
              /\ z.next = "booted" => kcpu[z.i].stack = "allocated"
        /\ z.at \in {"stopped", "undo"} => z.i \in 1 .. Last /\ dev.core = z.i \div tpc /\ dev.thread = z.i % tpc
        /\ Undoing(z) => (hw[z.i].state \in Live => hw[z.i].stop)

(* Before anybody is told to stop, nobody has halted; a processor that is  *)
(* OFFLINE has not published itself; so all of them live while the         *)
(* scheduler runs, and interrupts sent to them are accepted.               *)
KernelExact(z) ==
    plan.program = "kernel" =>
        /\ hw[0].state # "OFFLINE"
        /\ \A c \in CPUs \ {0} : hw[c].state = "OFFLINE" => kcpu[c].state \notin {"ONLINE", "WAITING"}
        /\ Quiet(z) => \A c \in CPUs : hw[c].state # "HALTED" /\ ~hw[c].stop /\ ~hw[c].halted
        /\ Quiet(z) /\ running => (\A c \in CPUs : hw[c].state # "OFFLINE") /\ (z.at = "result" => dev.result)

(* The invariant: what concerns the processors and the kernel, and the     *)
(* host threads with their count.                                          *)
GuestInv == GuestTypes /\ ProcExact /\ BootExact(guest[0]) /\ KernelExact(guest[0]) /\ StackWhileLive
MachineInv == GuestInv /\ WorkerTypes /\ CountExact

(* What a step of processor c leaves alone. *)
OthersStay(c) == \A e \in CPUs \ {c} : hw'[e] = hw[e] /\ guest'[e] = guest[e] /\ kcpu'[e] = kcpu[e]
LockOwn(c) == lock' = lock \/ (lock = NoLine /\ lock' = c) \/ (lock = c /\ lock' = NoLine)
SameStates == \A e \in CPUs : hw'[e].state = hw[e].state /\ hw'[e].stop = hw[e].stop
SameStacks == \A e \in CPUs : kcpu'[e].stack = kcpu[e].stack
SecondaryOwn(c) ==
    /\ dev' = dev \/ (lock = c /\ ~Booting(guest[0]))
    /\ running' = running
    /\ Booting(guest[0]) => guest'[c].at \notin {"enter", "task"} \cup Calling
Calm(c) ==
    plan.program = "kernel" /\ Quiet(guest'[0]) =>
        /\ Quiet(guest[0]) /\ hw'[c].halted = hw[c].halted
        /\ running' /\ ~running => \A e \in CPUs \ {0} : kcpu[e].state \in {"ONLINE", "WAITING"}
        /\ guest'[0].at = "result" => guest[0].at = "result" /\ dev'.result = dev.result /\ running' = running
VmQuiet == vm'.active = vm.active /\ (vm'.stop /\ vm'.action = "NONE" => vm.stop /\ vm.action = "NONE")

(* What it may do to the others. *)
Starts(d) ==
    /\ ~vm.stop /\ vm' = [vm EXCEPT !.active = @ + 1]
    /\ hw[d].state = "OFFLINE" /\ hw'[d].state = "RUNNABLE" /\ ~hw'[d].waiting
    /\ \A e \in CPUs \ {d} : hw'[e].state = hw[e].state
HwEffect(c) ==
    /\ \A e \in CPUs \ {c} : hw'[e].waiting => hw[e].waiting
    /\ \/ VmQuiet /\ \A e \in CPUs : hw'[e].state # hw[e].state =>
                          {hw[e].state, hw'[e].state} \cap Live = {} /\ plan.program # "kernel"
       \/ \E d \in CPUs : Starts(d)

(* Processor c executes an instruction. *)
Executes(c) == GuestInv /\ hw[c].state = "RUNNABLE" /\ ~hw[c].waiting /\ UNCHANGED <<tpc, plan>>

(* The processors are numbered from the bootstrap processor on, and there  *)
(* is a second one.                                                        *)
LEMMA Topology ==
    /\ Last \in Nat \ {0} /\ CPUs = 0 .. Last /\ 0 \in CPUs /\ IsFiniteSet(CPUs)
    /\ Ipi \in IpiLines /\ NoLine \notin CPUs
  <1>1. PICK n \in Nat \ {0} : CPUs = 0 .. n
    BY MachineAssumption DEF CPUs
  <1>2. n \in CPUs /\ \A d \in CPUs : d <= n
    BY <1>1
  <1>3. Last \in CPUs /\ \A d \in CPUs : d <= Last
    BY <1>2, Zenon DEF Last
  <1>4. Last = n
    BY <1>1, <1>2, <1>3
  <1>5. IsFiniteSet(0 .. n)
    BY <1>1, FS_Interval
  <1>6. Ipi \in IpiLines
    BY MachineAssumption, Zenon DEF Ipi
  <1> QED
    BY <1>1, <1>4, <1>5, <1>6 DEF NoLine

(* smp_target splits a logical number into a core and a thread, and        *)
(* selected_thread of core control puts the two together again: the kernel *)
(* reaches the processor it means.                                         *)
LEMMA Selects ==
    ASSUME tpc \in {1, Last + 1}, NEW c \in CPUs
    PROVE  /\ Logical(c \div tpc, c % tpc) = c /\ c \div tpc \in Cores
           /\ c \div tpc \in CPUs /\ c % tpc \in CPUs
           /\ (tpc = 1 => c \div tpc = c /\ c % tpc = 0) /\ (tpc # 1 => c \div tpc = 0 /\ c % tpc = c)
  <1>1. c \in Nat /\ c <= Last /\ Last \in Nat \ {0} /\ CPUs = 0 .. Last
    BY Topology
  <1>2. CASE tpc = 1
    <2>1. c \div 1 = c /\ c % 1 = 0
      BY <1>1
    <2> QED
      BY <1>1, <1>2, <2>1 DEF Logical, Cores
  <1>3. CASE tpc = Last + 1
    <2> DEFINE n == Last + 1
    <2>1. n \in Nat /\ n > c /\ n > 1
      BY <1>1
    <2> HIDE DEF n
    <2>2. c \div n = 0 /\ c % n = c
      BY <1>1, <2>1
    <2>3. c \div tpc = 0 /\ c % tpc = c /\ tpc = n
      BY <1>3, <2>2, Zenon DEF n
    <2>4. Logical(c \div tpc, c % tpc) = c
      BY <1>1, <2>1, <2>3 DEF Logical
    <2> QED
      BY <1>1, <2>1, <2>3, <2>4 DEF Cores
  <1> QED
    BY <1>2, <1>3, Zenon

(* Whatever was last written to the select registers names a processor.    *)
LEMMA SelectsOne ==
    ASSUME tpc \in {1, Last + 1}, dev \in DevState
    PROVE  Logical(dev.core, dev.thread) \in CPUs
  <1>1. PICK a \in CPUs, b \in CPUs : dev.core = a \div tpc /\ dev.thread = b % tpc
    BY Zenon DEF DevState
  <1>2. Last \in Nat \ {0} /\ CPUs = 0 .. Last
    BY Topology, Zenon
  <1>3. CASE tpc = 1
    <2>1. dev.core = a /\ dev.thread = 0
      BY <1>1, <1>3, Selects, Zenon
    <2> QED
      BY <1>2, <1>3, <2>1 DEF Logical
  <1>4. CASE tpc # 1
    <2>1. dev.core = 0 /\ dev.thread = b
      BY <1>1, <1>4, Selects, Zenon
    <2> QED
      BY <1>2, <2>1 DEF Logical
  <1> QED
    BY <1>3, <1>4, Zenon

(* The host threads of vm_run are finitely many, each with a thread to     *)
(* begin with.                                                             *)
LEMMA CoresFinite ==
    ASSUME tpc \in {1, Last + 1}
    PROVE  /\ Cores \in SUBSET CPUs /\ IsFiniteSet(Cores)
           /\ \A k \in Cores : k * tpc \in CoreThreads(k)
  <1>1. \A c \in CPUs : c \div tpc \in CPUs
    BY Selects, Zenon
  <1>2. Cores \in SUBSET CPUs
    BY <1>1, Zenon DEF Cores
  <1>3. IsFiniteSet(Cores)
    BY <1>2, Topology, FS_Subset, Zenon
  <1>4. ASSUME NEW k \in Cores PROVE k * tpc \in CoreThreads(k)
    <2>1. PICK c \in CPUs : k = c \div tpc
      BY Zenon DEF Cores
    <2>2. CASE tpc = 1
      <3>1. k = c /\ k * tpc = c
        BY <2>1, <2>2, Selects, Topology
      <3> QED
        BY <2>1, <3>1, Zenon DEF CoreThreads
    <2>3. CASE tpc # 1
      <3>1. k = 0 /\ k * tpc = 0 /\ 0 \in CPUs /\ 0 \div tpc = 0
        BY <2>1, <2>3, Selects, Topology
      <3> QED
        BY <3>1, Zenon DEF CoreThreads
    <2> QED
      BY <2>2, <2>3, Zenon
  <1> QED
    BY <1>2, <1>3, <1>4, Zenon

(* Going on to the next instruction changes only the label of the          *)
(* processor.                                                              *)
LEMMA Goes ==
    ASSUME guest \in [CPUs -> GuestState], NEW c \in CPUs, NEW l \in Places,
           guest' = [guest EXCEPT ![c].at = l]
    PROVE  /\ guest' \in [CPUs -> GuestState] /\ \A e \in CPUs \ {c} : guest'[e] = guest[e]
           /\ guest'[c].at = l /\ guest'[c].to = guest[c].to /\ guest'[c].cmd = guest[c].cmd
           /\ guest'[c].next = guest[c].next /\ guest'[c].i = guest[c].i
           /\ guest'[c].saved = guest[c].saved /\ guest'[c].tasks = guest[c].tasks
           /\ guest'[c].bad = guest[c].bad /\ guest'[c].fail = guest[c].fail
  BY DEF GuestState

(* Calling smp_command records the command, the target and the place to    *)
(* return to.                                                              *)
LEMMA Calls ==
    ASSUME guest \in [CPUs -> GuestState], NEW c \in CPUs, NEW cmd \in Commands, NEW to \in CPUs,
           NEW next \in Places, Call(c, cmd, to, next)
    PROVE  /\ guest' \in [CPUs -> GuestState] /\ \A e \in CPUs \ {c} : guest'[e] = guest[e]
           /\ guest'[c].at = "core" /\ guest'[c].to = to /\ guest'[c].cmd = cmd
           /\ guest'[c].next = next /\ guest'[c].i = guest[c].i
           /\ guest'[c].saved = guest[c].saved /\ guest'[c].tasks = guest[c].tasks
           /\ guest'[c].bad = guest[c].bad /\ guest'[c].fail = guest[c].fail
  <1> DEFINE g == [guest[c] EXCEPT !.at = "core", !.cmd = cmd, !.to = to, !.next = next]
  <1>1. guest' = [guest EXCEPT ![c] = g]
    BY Zenon DEF Call
  <1>2. /\ g \in GuestState /\ g.at = "core" /\ g.to = to /\ g.cmd = cmd /\ g.next = next
        /\ g.i = guest[c].i /\ g.saved = guest[c].saved /\ g.tasks = guest[c].tasks
        /\ g.bad = guest[c].bad /\ g.fail = guest[c].fail
    <2>1. guest[c] \in GuestState
      BY Zenon
    <2>2. "core" \in Places
      BY Zenon DEF Places, Calling
    <2> QED
      BY <2>1, <2>2, Zenon DEF GuestState
  <1> HIDE DEF g
  <1> QED
    BY <1>1, <1>2, Zenon

(* What the labels of the other processors say of them outlives a step     *)
(* that touches neither them nor a lock one of them holds.                 *)
LEMMA OthersKeep ==
    ASSUME ProcExact, NEW c \in CPUs, plan' = plan, OthersStay(c), LockOwn(c), Exact(c)'
    PROVE  ProcExact'
  <1> SUFFICES ASSUME NEW e \in CPUs, e # c PROVE Exact(e)'
    BY Zenon DEF ProcExact
  <1>1. hw'[e] = hw[e] /\ guest'[e] = guest[e] /\ kcpu'[e] = kcpu[e] /\ Exact(e)
    BY Zenon DEF OthersStay, ProcExact
  <1>2. lock = e => lock' = e
    BY Topology, Zenon DEF LockOwn
  <1>3. Locked(plan.program, e, guest[e], lock')
    BY <1>1, <1>2, Zenon DEF Exact, Locked
  <1> QED
    BY <1>1, <1>3, Zenon DEF Exact

(* A step of a secondary leaves the progress of kernel_smp_start alone: it *)
(* writes the select registers only with the lock, which nobody but the    *)
(* bootstrap processor needs before the runtime runs.                      *)
LEMMA SecondaryKeepsBoot ==
    ASSUME GuestInv, NEW c \in CPUs \ {0}, UNCHANGED <<tpc, plan>>, OthersStay(c), SameStates, SameStacks,
           SecondaryOwn(c)
    PROVE  BootExact(guest[0])'
  <1> DEFINE z == guest[0]
  <1>1. guest'[0] = z /\ 0 \in CPUs /\ (\A e \in CPUs \ {c} : guest'[e] = guest[e])
    BY Topology, Zenon DEF OthersStay
  <1>2. Locked(plan.program, 0, z, lock) /\ BootExact(z)
    BY <1>1, Zenon DEF GuestInv, ProcExact, Exact
  <1>3. CASE plan.program = "kernel"
    <2>1. /\ z.at \in Calling /\ z.next \in {"booted", "stopped", "undo"} => dev' = dev
          /\ z.at \in {"stopped", "undo"} => dev' = dev
      BY <1>1, <1>2, <1>3, Zenon DEF SecondaryOwn, Booting, Starting, Locked
    <2>2. Booting(z) => \A e \in CPUs \ {0} : guest'[e].at \notin {"enter", "task"} \cup Calling
      BY <1>1, <1>2, <1>3, Zenon DEF BootExact, SecondaryOwn
    <2>3. running' = running
      BY Zenon DEF SecondaryOwn
    <2>4. Starting(z) => z.i \in CPUs
      BY <1>2, <1>3, Topology DEF BootExact
    <2>5. z.at = "start" \/ Undoing(z) => Starting(z)
      BY Zenon DEF Starting, Undoing, Calling
    <2>6. z.at \in Calling /\ z.next = "booted" => Starting(z)
      BY Zenon DEF Starting
    <2> HIDE DEF z
    <2>7. /\ Starting(z) => \A e \in CPUs : e > z.i => hw'[e].state = "OFFLINE"
          /\ z.at = "start" => hw'[z.i].state = "OFFLINE"
          /\ Undoing(z) => (hw'[z.i].state \in Live => hw'[z.i].stop)
      BY <1>2, <1>3, <2>4, <2>5, Zenon DEF BootExact, SameStates
    <2>8. z.at \in Calling /\ z.next = "booted" => kcpu'[z.i].stack = "allocated"
      BY <1>2, <1>3, <2>4, <2>6, Zenon DEF BootExact, SameStacks
    <2> QED
      BY <1>2, <1>3, <2>1, <2>2, <2>3, <2>7, <2>8, <1>1, Zenon DEF BootExact
  <1>4. CASE plan.program # "kernel"
    BY <1>4, Zenon DEF BootExact
  <1> QED
    BY <1>3, <1>4, Zenon

(* A step that moves no processor between its states keeps what is said of *)
(* all of them when it stays calm: it halts nobody before the shutdown,    *)
(* and starts the scheduler only when everybody is there.                  *)
LEMMA CalmKeeps ==
    ASSUME NEW c \in CPUs, Executes(c), OthersStay(c), SameStates, Calm(c)
    PROVE  KernelExact(guest[0])'
  <1>0. GuestInv /\ hw[c].state = "RUNNABLE" /\ plan' = plan /\ 0 \in CPUs
    BY Topology, Zenon DEF Executes
  <1> SUFFICES ASSUME plan.program = "kernel" PROVE KernelExact(guest[0])'
    BY <1>0, Zenon DEF KernelExact
  <1>1. KernelExact(guest[0])
    BY <1>0, Zenon DEF GuestInv
  <1>2. hw'[0].state # "OFFLINE"
    BY <1>0, <1>1, Zenon DEF KernelExact, SameStates
  <1>3. \A e \in CPUs \ {0} : hw'[e].state = "OFFLINE" => kcpu'[e].state \notin {"ONLINE", "WAITING"}
    BY <1>0, <1>1, Zenon DEF KernelExact, SameStates, OthersStay
  <1>4. Quiet(guest'[0]) => \A e \in CPUs : hw'[e].state # "HALTED" /\ ~hw'[e].stop /\ ~hw'[e].halted
    BY <1>1, Zenon DEF KernelExact, SameStates, OthersStay, Calm
  <1>5. Quiet(guest'[0]) /\ running' =>
            (\A e \in CPUs : hw'[e].state # "OFFLINE") /\ (guest'[0].at = "result" => dev'.result)
    <2> SUFFICES ASSUME Quiet(guest'[0]), running'
                 PROVE  (\A e \in CPUs : hw'[e].state # "OFFLINE") /\ (guest'[0].at = "result" => dev'.result)
      BY Zenon
    <2>1. CASE running
      BY <1>1, <2>1, Zenon DEF KernelExact, SameStates, Calm
    <2>2. CASE ~running /\ guest'[0].at # "result"
      BY <1>1, <1>2, <2>2, Zenon DEF KernelExact, SameStates, Calm
    <2>3. CASE ~running /\ guest'[0].at = "result"
      BY <2>3, Zenon DEF Calm
    <2> QED
      BY <2>1, <2>2, <2>3, Zenon
  <1> QED
    BY <1>0, <1>2, <1>3, <1>4, <1>5, Zenon DEF KernelExact

(* So is a step of a secondary that halts nobody.                          *)
LEMMA CalmSecondary ==
    ASSUME NEW c \in CPUs \ {0}, guest'[0] = guest[0], running' = running, dev'.result = dev.result,
           plan.program = "kernel" => hw'[c].halted = hw[c].halted
    PROVE  Calm(c)
  BY Zenon DEF Calm

(* An instruction that writes only what belongs to its processor keeps the *)
(* invariant when the new label of that processor says the truth.          *)
LEMMA OwnStep ==
    ASSUME NEW c \in CPUs, Executes(c), GuestTypes', OthersStay(c), LockOwn(c),
           SameStates, SameStacks, VmQuiet, Exact(c)', Calm(c),
           c = 0 => BootExact(guest[0])', c # 0 => SecondaryOwn(c)
    PROVE  GuestInv' /\ HwEffect(c)
  <1>0. GuestInv /\ UNCHANGED <<tpc, plan>>
    BY Zenon DEF Executes
  <1>1. ProcExact'
    BY <1>0, OthersKeep, Zenon DEF GuestInv
  <1>2. BootExact(guest[0])'
    BY <1>0, SecondaryKeepsBoot, Zenon
  <1>3. StackWhileLive'
    BY <1>0, Zenon DEF GuestInv, StackWhileLive, SameStates, SameStacks
  <1>4. HwEffect(c)
    BY Zenon DEF HwEffect, OthersStay, SameStates
  <1>5. KernelExact(guest[0])'
    BY CalmKeeps, Zenon
  <1> QED
    BY <1>1, <1>2, <1>3, <1>4, <1>5, Zenon DEF GuestInv

(* An instruction that leaves the hardware, the lock and the per-processor *)
(* records alone touches nothing of the others.                            *)
LEMMA QuietHardware ==
    ASSUME NEW c \in CPUs, \A e \in CPUs \ {c} : guest'[e] = guest[e], HardwareUnchanged,
           UNCHANGED <<kcpu, lock>>
    PROVE  OthersStay(c) /\ LockOwn(c) /\ SameStates /\ SameStacks /\ VmQuiet
  BY Zenon DEF HardwareUnchanged, OthersStay, LockOwn, SameStates, SameStacks, VmQuiet

(* Only the kernel's wakeup interrupts are sent by a secondary, and with   *)
(* the lock held.                                                          *)
LEMMA SecondaryCalls ==
    ASSUME GuestInv, NEW c \in CPUs \ {0}, guest[c].at \in Calling
    PROVE  /\ plan.program = "kernel" /\ guest[c].next = "leave" /\ lock = c /\ ~Booting(guest[0])
           /\ guest[c].cmd \notin {"START", "RESET"}
  <1>1. Exact(c) /\ plan.program \in {"kernel", "restart"}
    BY Zenon DEF GuestInv, ProcExact, GuestTypes
  <1>2. plan.program = "kernel"
    BY <1>1, Zenon DEF Exact, Labels, RestartLabels, Calling
  <1>3. guest[c].next = "leave" /\ guest[c].cmd \notin {"START", "RESET"}
    BY <1>1, <1>2, Zenon DEF Exact, Labels, KernelLabels
  <1>4. lock = c
    BY <1>1, <1>2, <1>3, Zenon DEF Exact, Locked
  <1>5. ~Booting(guest[0])
    BY <1>2, Zenon DEF GuestInv, BootExact
  <1> QED
    BY <1>2, <1>3, <1>4, <1>5, Zenon

(* smp_command writes the core register. *)
LEMMA SelectCoreKeeps ==
    ASSUME NEW c \in CPUs, Executes(c), SelectCore(c)
    PROVE  GuestInv' /\ HwEffect(c)
  <1> DEFINE g == guest[c]
             h == guest'[c]
  <1>0. GuestInv /\ GuestTypes /\ Exact(c) /\ plan' = plan /\ tpc' = tpc /\ g.at = "core"
    BY Zenon DEF Executes, GuestInv, ProcExact, SelectCore
  <1>1. /\ guest' \in [CPUs -> GuestState] /\ \A e \in CPUs \ {c} : guest'[e] = guest[e]
        /\ h.at = "thread" /\ h.to = g.to /\ h.cmd = g.cmd /\ h.next = g.next /\ h.i = g.i /\ h.saved = g.saved
        /\ h.bad = g.bad /\ h.fail = g.fail
    BY <1>0, Goes, Zenon DEF SelectCore, Goto, GuestTypes, Places, Calling
  <1>2. /\ dev' = [dev EXCEPT !.core = g.to \div tpc] /\ HardwareUnchanged
        /\ UNCHANGED <<hw, kcpu, lock, running>>
    BY Zenon DEF SelectCore, HardwareUnchanged
  <1>3. g \in GuestState /\ g.to \in CPUs
    BY <1>0, Zenon DEF GuestTypes, GuestState
  <1>4. dev' \in DevState' /\ dev'.core = g.to \div tpc /\ dev'.result = dev.result
    BY <1>0, <1>2, <1>3, Zenon DEF GuestTypes, DevState
  <1>5. GuestTypes'
    BY <1>0, <1>1, <1>2, <1>4, Zenon DEF GuestTypes, HardwareUnchanged
  <1>6. OthersStay(c) /\ LockOwn(c) /\ SameStates /\ SameStacks /\ VmQuiet
    BY <1>1, <1>2, QuietHardware, Zenon
  <1> HIDE DEF h, g
  <1>7. Exact(c)'
    <2>1. Labels(plan.program, c, g) /\ Idle(hw[c], g, kcpu[c]) /\ Locked(plan.program, c, g, lock)
      BY <1>0, Zenon DEF Exact, g
    <2>2. Labels(plan.program, c, h)
      BY <1>0, <1>1, <2>1, Zenon DEF Labels, KernelLabels, RestartLabels, Calling, InKernel
    <2>3. Idle(hw[c], h, kcpu[c])
      BY <1>0, <1>1, <2>1, Zenon DEF Idle, Live
    <2>4. Locked(plan.program, c, h, lock)
      BY <1>0, <1>1, <2>1, Zenon DEF Locked, Calling
    <2> QED
      BY <1>0, <1>2, <2>2, <2>3, <2>4, Zenon DEF Exact, h
  <1>8. ASSUME c = 0 PROVE BootExact(guest[0])'
    <2>1. BootExact(g)
      BY <1>0, <1>8, Zenon DEF GuestInv, g
    <2>2. h.at \in Calling /\ g.at \in Calling /\ h.at \notin {"result", "core"} /\ g.at \notin {"command", "result"}
      BY <1>0, <1>1, Zenon DEF Calling
    <2>3. /\ Booting(h) <=> Booting(g)
          /\ Starting(h) <=> Starting(g)
          /\ Kicking(h) <=> Kicking(g)
          /\ ~Undoing(h)
      BY <1>0, <1>1, <2>2, Zenon DEF Booting, Starting, Kicking, Undoing
    <2>4. guest'[0] = h
      BY <1>8, Zenon DEF h
    <2>5. h.at \notin {"valid", "start", "stop", "stopped", "undo"}
      BY <1>1, Zenon
    <2> HIDE DEF h, g
    <2> QED
      BY <1>0, <1>1, <1>2, <1>4, <1>8, <2>1, <2>2, <2>3, <2>4, <2>5 DEF BootExact
  <1>9. ASSUME c # 0 PROVE SecondaryOwn(c)
    BY <1>0, <1>2, <1>9, SecondaryCalls, Zenon DEF SecondaryOwn, Calling, g
  <1>10. Calm(c)
    <2>1. CASE c = 0
      <3>1. Quiet(h) => Quiet(g)
        BY <1>0, <1>1, Zenon DEF Quiet, Calling
      <3> QED
        BY <1>1, <1>2, <2>1, <3>1, Zenon DEF Calm, h, g
    <2>2. CASE c # 0
      BY <1>1, <1>2, <1>4, <2>2, CalmSecondary, Topology, Zenon
    <2> QED
      BY <2>1, <2>2, Zenon
  <1> QED
    BY <1>0, <1>5, <1>6, <1>7, <1>8, <1>9, <1>10, OwnStep, Zenon

(* smp_command writes the thread register. *)
LEMMA SelectThreadKeeps ==
    ASSUME NEW c \in CPUs, Executes(c), SelectThread(c)
    PROVE  GuestInv' /\ HwEffect(c)
  <1> DEFINE g == guest[c]
             h == guest'[c]
  <1>0. GuestInv /\ GuestTypes /\ Exact(c) /\ plan' = plan /\ tpc' = tpc /\ g.at = "thread"
    BY Zenon DEF Executes, GuestInv, ProcExact, SelectThread
  <1>1. /\ guest' \in [CPUs -> GuestState] /\ \A e \in CPUs \ {c} : guest'[e] = guest[e]
        /\ h.at = "command" /\ h.to = g.to /\ h.cmd = g.cmd /\ h.next = g.next /\ h.i = g.i /\ h.saved = g.saved
        /\ h.bad = g.bad /\ h.fail = g.fail
    BY <1>0, Goes, Zenon DEF SelectThread, Goto, GuestTypes, Places, Calling
  <1>2. /\ dev' = [dev EXCEPT !.thread = g.to % tpc] /\ HardwareUnchanged
        /\ UNCHANGED <<hw, kcpu, lock, running>>
    BY Zenon DEF SelectThread, HardwareUnchanged
  <1>3. g \in GuestState /\ g.to \in CPUs
    BY <1>0, Zenon DEF GuestTypes, GuestState
  <1>4. dev' \in DevState' /\ dev'.core = dev.core /\ dev'.thread = g.to % tpc /\ dev'.result = dev.result
    BY <1>0, <1>2, <1>3, Zenon DEF GuestTypes, DevState
  <1>5. GuestTypes'
    BY <1>0, <1>1, <1>2, <1>4, Zenon DEF GuestTypes, HardwareUnchanged
  <1>6. OthersStay(c) /\ LockOwn(c) /\ SameStates /\ SameStacks /\ VmQuiet
    BY <1>1, <1>2, QuietHardware, Zenon
  <1> HIDE DEF h, g
  <1>7. Exact(c)'
    <2>1. Labels(plan.program, c, g) /\ Idle(hw[c], g, kcpu[c]) /\ Locked(plan.program, c, g, lock)
      BY <1>0, Zenon DEF Exact, g
    <2>2. Labels(plan.program, c, h)
      BY <1>0, <1>1, <2>1, Zenon DEF Labels, KernelLabels, RestartLabels, Calling, InKernel
    <2>3. Idle(hw[c], h, kcpu[c])
      BY <1>0, <1>1, <2>1, Zenon DEF Idle, Live
    <2>4. Locked(plan.program, c, h, lock)
      BY <1>0, <1>1, <2>1, Zenon DEF Locked, Calling
    <2> QED
      BY <1>0, <1>2, <2>2, <2>3, <2>4, Zenon DEF Exact, h
  <1>8. ASSUME c = 0 PROVE BootExact(guest[0])'
    <2>1. BootExact(g)
      BY <1>0, <1>8, Zenon DEF GuestInv, g
    <2>2. h.at \in Calling /\ g.at \in Calling /\ h.at \notin {"result", "core"} /\ g.at \notin {"command", "result"}
      BY <1>0, <1>1, Zenon DEF Calling
    <2>3. /\ Booting(h) <=> Booting(g)
          /\ Starting(h) <=> Starting(g)
          /\ Kicking(h) <=> Kicking(g)
          /\ ~Undoing(h)
      BY <1>0, <1>1, <2>2, Zenon DEF Booting, Starting, Kicking, Undoing
    <2>4. guest'[0] = h
      BY <1>8, Zenon DEF h
    <2>5. h.at \notin {"valid", "start", "stop", "stopped", "undo"}
      BY <1>1, Zenon
    <2> HIDE DEF h, g
    <2> QED
      BY <1>0, <1>1, <1>2, <1>4, <1>8, <2>1, <2>2, <2>3, <2>4, <2>5 DEF BootExact
  <1>9. ASSUME c # 0 PROVE SecondaryOwn(c)
    BY <1>0, <1>2, <1>9, SecondaryCalls, Zenon DEF SecondaryOwn, Calling, g
  <1>10. Calm(c)
    <2>1. CASE c = 0
      <3>1. Quiet(h) => Quiet(g)
        BY <1>0, <1>1, Zenon DEF Quiet, Calling
      <3> QED
        BY <1>1, <1>2, <2>1, <3>1, Zenon DEF Calm, h, g
    <2>2. CASE c # 0
      BY <1>1, <1>2, <1>4, <2>2, CalmSecondary, Topology, Zenon
    <2> QED
      BY <2>1, <2>2, Zenon
  <1> QED
    BY <1>0, <1>5, <1>6, <1>7, <1>8, <1>9, <1>10, OwnStep, Zenon

(* A secondary that does not enter the kernel leaves the boot alone.       *)
LEMMA StaysSecondary ==
    ASSUME GuestInv, NEW c \in CPUs \ {0}, UNCHANGED <<dev, running>>,
           guest'[c].at \in {"enter", "task"} \cup Calling => guest[c].at \in {"enter", "task"} \cup Calling
    PROVE  SecondaryOwn(c)
  <1>1. BootExact(guest[0]) /\ plan.program \in {"kernel", "restart"} /\ Exact(0)
    BY Topology, Zenon DEF GuestInv, GuestTypes, ProcExact
  <1>2. Exact(c)
    BY Zenon DEF GuestInv, ProcExact
  <1>3. plan.program = "restart" => guest[c].at \notin {"enter", "task"} \cup Calling
    BY <1>2, Zenon DEF Exact, Labels, RestartLabels, Calling
  <1> QED
    BY <1>1, <1>3, Zenon DEF SecondaryOwn, BootExact

(* The guest that executes HALT halts its processor: the kernel does it    *)
(* only when somebody has been told to stop.                               *)
LEMMA PanicKeeps ==
    ASSUME NEW c \in CPUs, Executes(c), Panic(c), UNCHANGED <<dev, kcpu, lock, running>>,
           ~(plan.program = "kernel" /\ Quiet(guest[0]))
    PROVE  GuestInv' /\ HwEffect(c)
  <1>0. GuestInv /\ GuestTypes /\ Exact(c) /\ plan' = plan /\ tpc' = tpc
    BY Zenon DEF Executes, GuestInv, ProcExact
  <1>1. hw' = [hw EXCEPT ![c].halted = TRUE] /\ UNCHANGED <<guest, vm, ctl, dev, kcpu, lock, running>>
    BY Zenon DEF Panic
  <1>2. /\ hw' \in [CPUs -> HwState] /\ \A e \in CPUs \ {c} : hw'[e] = hw[e]
        /\ \A e \in CPUs : /\ hw'[e].state = hw[e].state /\ hw'[e].ie = hw[e].ie /\ hw'[e].waiting = hw[e].waiting
                           /\ hw'[e].stop = hw[e].stop
    BY <1>0, <1>1, ZenonT(30) DEF GuestTypes, HwState
  <1>3. GuestTypes'
    BY <1>0, <1>1, <1>2 DEF GuestTypes, DevState
  <1>4. OthersStay(c) /\ LockOwn(c) /\ SameStates /\ SameStacks /\ VmQuiet
    BY <1>1, <1>2, Zenon DEF OthersStay, LockOwn, SameStates, SameStacks, VmQuiet
  <1>5. Exact(c)'
    BY <1>0, <1>1, <1>2, Zenon DEF Exact, Idle
  <1>6. ASSUME c = 0 PROVE BootExact(guest[0])'
    <2> DEFINE z == guest[0]
    <2>1. BootExact(z) /\ guest'[0] = z
      BY <1>0, <1>1, Zenon DEF GuestInv
    <2> HIDE DEF z
    <2>2. z.at = "start" \/ Undoing(z) => Starting(z)
      BY Zenon DEF Starting, Undoing, Calling
    <2>3. Starting(z) /\ plan.program = "kernel" => z.i \in CPUs
      BY <2>1, Topology DEF BootExact
    <2>4. plan.program = "kernel" /\ Undoing(z) => (hw'[z.i].state \in Live => hw'[z.i].stop)
      BY <1>2, <2>1, <2>2, <2>3, Zenon DEF BootExact
    <2> QED
      BY <1>0, <1>1, <1>2, <2>1, <2>2, <2>3, <2>4 DEF BootExact
  <1>7. ASSUME c # 0 PROVE SecondaryOwn(c)
    BY <1>0, <1>1, <1>7, StaysSecondary, Zenon
  <1>8. Calm(c)
    BY <1>1, Zenon DEF Calm
  <1> QED
    BY <1>0, <1>3, <1>4, <1>5, <1>6, <1>7, <1>8, OwnStep, Zenon

(* Updates of several fields at once, which the provers see only by name. *)
Saves(c, l, s) == guest' = [guest EXCEPT ![c].at = l, ![c].saved = s]
Counts(c, l, i) == guest' = [guest EXCEPT ![c].at = l, ![c].i = i]
Marks(c, l, i, b) == guest' = [guest EXCEPT ![c].at = l, ![c].i = i, ![c].bad = b]

(* Entering a trap saves the interrupted place. *)
LEMMA GoesSaving ==
    ASSUME guest \in [CPUs -> GuestState], NEW c \in CPUs, NEW l \in Places, NEW s \in Places,
           Saves(c, l, s)
    PROVE  /\ guest' \in [CPUs -> GuestState] /\ \A e \in CPUs \ {c} : guest'[e] = guest[e]
           /\ guest'[c].at = l /\ guest'[c].to = guest[c].to /\ guest'[c].cmd = guest[c].cmd
           /\ guest'[c].next = guest[c].next /\ guest'[c].i = guest[c].i
           /\ guest'[c].saved = s /\ guest'[c].tasks = guest[c].tasks
           /\ guest'[c].bad = guest[c].bad /\ guest'[c].fail = guest[c].fail
  <1> DEFINE g == [guest[c] EXCEPT !.at = l, !.saved = s]
  <1>1. guest' = [guest EXCEPT ![c] = g]
    BY Zenon DEF Saves
  <1>2. guest[c] \in GuestState
    BY Zenon
  <1>3. /\ g \in GuestState /\ g.at = l /\ g.to = guest[c].to /\ g.cmd = guest[c].cmd /\ g.next = guest[c].next
        /\ g.i = guest[c].i /\ g.saved = s /\ g.tasks = guest[c].tasks
        /\ g.bad = guest[c].bad /\ g.fail = guest[c].fail
    BY <1>2, Zenon DEF GuestState
  <1> HIDE DEF g
  <1> QED
    BY <1>1, <1>3, Zenon

(* A loop over the secondaries goes on with its next index. *)
LEMMA GoesCounting ==
    ASSUME guest \in [CPUs -> GuestState], NEW c \in CPUs, NEW l \in Places, NEW i \in 0 .. Last + 1,
           Counts(c, l, i)
    PROVE  /\ guest' \in [CPUs -> GuestState] /\ \A e \in CPUs \ {c} : guest'[e] = guest[e]
           /\ guest'[c].at = l /\ guest'[c].to = guest[c].to /\ guest'[c].cmd = guest[c].cmd
           /\ guest'[c].next = guest[c].next /\ guest'[c].i = i
           /\ guest'[c].saved = guest[c].saved /\ guest'[c].tasks = guest[c].tasks
           /\ guest'[c].bad = guest[c].bad /\ guest'[c].fail = guest[c].fail
  <1> DEFINE g == [guest[c] EXCEPT !.at = l, !.i = i]
  <1>1. guest' = [guest EXCEPT ![c] = g]
    BY Zenon DEF Counts
  <1>2. guest[c] \in GuestState
    BY Zenon
  <1>3. /\ g \in GuestState /\ g.at = l /\ g.to = guest[c].to /\ g.cmd = guest[c].cmd /\ g.next = guest[c].next
        /\ g.i = i /\ g.saved = guest[c].saved /\ g.tasks = guest[c].tasks
        /\ g.bad = guest[c].bad /\ g.fail = guest[c].fail
    BY <1>2, Zenon DEF GuestState
  <1> HIDE DEF g
  <1> QED
    BY <1>1, <1>3, Zenon

(* The shutdown goes on with the next processor and notes a failure. *)
LEMMA GoesMarking ==
    ASSUME guest \in [CPUs -> GuestState], NEW c \in CPUs, NEW l \in Places, NEW i \in 0 .. Last + 1,
           NEW b \in BOOLEAN, Marks(c, l, i, b)
    PROVE  /\ guest' \in [CPUs -> GuestState] /\ \A e \in CPUs \ {c} : guest'[e] = guest[e]
           /\ guest'[c].at = l /\ guest'[c].next = guest[c].next /\ guest'[c].i = i
           /\ guest'[c].saved = guest[c].saved /\ guest'[c].fail = guest[c].fail
  <1> DEFINE g == [guest[c] EXCEPT !.at = l, !.i = i, !.bad = b]
  <1>1. guest' = [guest EXCEPT ![c] = g]
    BY Zenon DEF Marks
  <1>2. guest[c] \in GuestState
    BY Zenon
  <1>3. /\ g \in GuestState /\ g.at = l /\ g.next = guest[c].next
        /\ g.i = i /\ g.saved = guest[c].saved /\ g.fail = guest[c].fail
    BY <1>2, Zenon DEF GuestState
  <1> HIDE DEF g
  <1> QED
    BY <1>1, <1>3, Zenon

(* The boot fails: the kernel goes to its shutdown. *)
LEMMA GoesGivingUp ==
    ASSUME guest \in [CPUs -> GuestState], NEW f \in {"bootstrap", "main"}, GiveUp(f)
    PROVE  /\ guest' \in [CPUs -> GuestState] /\ \A e \in CPUs \ {0} : guest'[e] = guest[e]
           /\ guest'[0].at = "stop" /\ guest'[0].next = guest[0].next /\ guest'[0].i = 1
           /\ guest'[0].saved = guest[0].saved /\ guest'[0].fail = f
  <1> DEFINE g == [guest[0] EXCEPT !.at = "stop", !.i = 1, !.bad = FALSE, !.fail = f]
  <1>1. guest' = [guest EXCEPT ![0] = g]
    BY Zenon DEF GiveUp
  <1>2. guest[0] \in GuestState /\ 0 \in CPUs /\ 1 \in 0 .. Last + 1 /\ "stop" \in Places
    BY Topology DEF Places
  <1>3. /\ g \in GuestState /\ g.at = "stop" /\ g.next = guest[0].next
        /\ g.i = 1 /\ g.saved = guest[0].saved /\ g.fail = f
    BY <1>2, Zenon DEF GuestState
  <1> HIDE DEF g
  <1> QED
    BY <1>1, <1>2, <1>3, Zenon

(* An instruction that writes its own processor, its own record and the    *)
(* lock keeps the invariant when the new label says the truth.             *)
LEMMA OwnWrites ==
    ASSUME NEW c \in CPUs, Executes(c), guest' \in [CPUs -> GuestState], hw' \in [CPUs -> HwState],
           kcpu' \in [CPUs -> LocalState], vm' \in VmState, OthersStay(c), hw'[c].state = hw[c].state,
           hw'[c].stop = hw[c].stop,
           kcpu'[c].stack = kcpu[c].stack, LockOwn(c), VmQuiet, UNCHANGED <<dev, ctl>>, running' \in BOOLEAN,
           Labels(plan.program, c, guest'[c]), Idle(hw'[c], guest'[c], kcpu'[c]),
           Locked(plan.program, c, guest'[c], lock'),
           c = 0 => BootExact(guest[0])' /\ Calm(0),
           c # 0 => /\ running' = running
                    /\ plan.program = "kernel" => hw'[c].halted = hw[c].halted
                    /\ guest'[c].at \in {"enter", "task"} \cup Calling =>
                         running \/ guest[c].at \in {"enter", "task"} \cup Calling
    PROVE  GuestInv' /\ HwEffect(c)
  <1>0. GuestInv /\ GuestTypes /\ plan' = plan /\ tpc' = tpc
    BY Zenon DEF Executes, GuestInv
  <1>1. GuestTypes'
    BY <1>0 DEF GuestTypes, DevState, LockOwn
  <1>2. SameStates /\ SameStacks
    BY Zenon DEF SameStates, SameStacks, OthersStay
  <1>3. Exact(c)'
    BY <1>0, Zenon DEF Exact
  <1>4. ASSUME c # 0 PROVE SecondaryOwn(c)
    <2>1. CASE running
      <3>1. plan.program = "kernel" => ~Booting(guest[0])
        BY <1>0, <2>1, Zenon DEF GuestInv, BootExact
      <3>2. plan.program = "restart" => guest'[c].at \notin {"enter", "task"} \cup Calling
        BY <1>4, Zenon DEF Labels, RestartLabels, Calling
      <3>3. plan.program \in {"kernel", "restart"}
        BY <1>0, Zenon DEF GuestTypes
      <3> QED
        BY <1>4, <3>1, <3>2, <3>3, Zenon DEF SecondaryOwn
    <2>2. CASE ~running
      BY <1>0, <1>4, <2>2, StaysSecondary, Zenon
    <2> QED
      BY <2>1, <2>2, Zenon
  <1>5. ASSUME c # 0 PROVE Calm(c)
    <2>1. guest'[0] = guest[0]
      BY <1>5, Topology, Zenon DEF OthersStay
    <2> QED
      BY <1>5, <2>1, CalmSecondary, Zenon
  <1>6. Calm(c)
    BY <1>5, Zenon
  <1> QED
    BY <1>0, <1>1, <1>2, <1>3, <1>4, <1>6, OwnStep, Zenon

(* A step of the boot that writes only the place and index of the          *)
(* bootstrap processor keeps the invariant when its new label says the     *)
(* truth.                                                                  *)
LEMMA BootStep ==
    ASSUME Executes(0), HardwareUnchanged, UNCHANGED <<dev, kcpu, lock, running>>,
           guest' \in [CPUs -> GuestState], \A e \in CPUs \ {0} : guest'[e] = guest[e],
           guest[0].at \notin {"user", "wait", "di"}, guest'[0].at \notin {"ei", "wait"},
           Labels(plan.program, 0, guest'[0]), Locked(plan.program, 0, guest'[0], lock), BootExact(guest[0])',
           Calm(0)
    PROVE  GuestInv' /\ HwEffect(0)
  <1>0. GuestInv /\ GuestTypes /\ Exact(0) /\ ~hw[0].waiting /\ hw[0].state = "RUNNABLE" /\ 0 \in CPUs
    BY Topology, Zenon DEF Executes, GuestInv, ProcExact
  <1>1. UNCHANGED <<hw, vm, ctl>>
    BY Zenon DEF HardwareUnchanged
  <1>2. OthersStay(0) /\ LockOwn(0) /\ VmQuiet
    BY <1>1, Zenon DEF OthersStay, LockOwn, VmQuiet
  <1>3. Idle(hw[0], guest'[0], kcpu[0])
    BY <1>0, Zenon DEF Exact, Idle, Live
  <1> QED
    BY <1>0, <1>1, <1>2, <1>3, OwnWrites, Zenon DEF GuestTypes

(* A step to the shutdown, or on in it, is as calm as can be: it is over   *)
(* with the quiet.                                                         *)
LEMMA CalmStop ==
    ASSUME guest'[0].at \in {"stop", "end", "off"} \/ (guest'[0].at = "core" /\ guest'[0].next \in {"stopped", "undo"})
    PROVE  Calm(0)
  BY Zenon DEF Calm, Quiet, Calling

(* What the kernel knows while it boots: it is the kernel, and it has not  *)
(* failed so far.                                                          *)
LEMMA BootFacts ==
    ASSUME GuestInv, plan.program = "kernel", Booting(guest[0])
    PROVE  /\ guest[0].next \in {"off", "booted", "answered", "kick", "leave", "stopped", "undo"}
           /\ guest[0].saved \in {"off", "user"} /\ ~running
           /\ \A c \in CPUs \ {0} : guest[c].at \notin {"enter", "task"} \cup Calling
  <1>1. Exact(0) /\ BootExact(guest[0])
    BY Topology, Zenon DEF GuestInv, ProcExact
  <1> QED
    BY <1>1, Zenon DEF Exact, Labels, KernelLabels, BootExact

(* The kernel that gives up the boot goes to its shutdown. *)
LEMMA GiveUpKeeps ==
    ASSUME Executes(0), plan.program = "kernel", Booting(guest[0]),
           guest[0].at \notin {"user", "wait", "di"} \cup InKernel \cup Calling,
           NEW f \in {"bootstrap", "main"}, GiveUp(f), HardwareUnchanged, UNCHANGED <<dev, kcpu, lock, running>>
    PROVE  GuestInv' /\ HwEffect(0)
  <1> DEFINE g == guest[0]
             h == guest'[0]
  <1>0. GuestInv /\ GuestTypes /\ guest \in [CPUs -> GuestState] /\ plan' = plan
    BY Zenon DEF Executes, GuestInv, GuestTypes
  <1>1. /\ guest' \in [CPUs -> GuestState] /\ \A e \in CPUs \ {0} : guest'[e] = guest[e]
        /\ h.at = "stop" /\ h.next = g.next /\ h.i = 1 /\ h.saved = g.saved /\ h.fail = f
    BY <1>0, GoesGivingUp, Zenon
  <1>2. /\ g.next \in {"off", "booted", "answered", "kick", "leave", "stopped", "undo"}
        /\ g.saved \in {"off", "user"} /\ ~running
        /\ \A c \in CPUs \ {0} : guest[c].at \notin {"enter", "task"} \cup Calling
    BY <1>0, BootFacts, Zenon
  <1> HIDE DEF h, g
  <1>3. Labels(plan.program, 0, h)
    BY <1>1, <1>2, Zenon DEF Labels, KernelLabels, Calling, InKernel
  <1>4. Locked(plan.program, 0, h, lock)
    BY <1>1, Zenon DEF Locked, Calling
  <1>5. BootExact(guest[0])'
    <2>1. guest'[0] = h /\ ~Starting(h) /\ ~Kicking(h) /\ ~Undoing(h) /\ h.at \notin Calling
      BY <1>1, Zenon DEF h, Starting, Kicking, Undoing, Calling
    <2>2. h.i >= 1
      BY <1>1
    <2> QED
      BY <1>1, <1>2, <2>1, <2>2, Zenon DEF BootExact
  <1>6. Calm(0)
    BY <1>1, CalmStop, Zenon DEF h
  <1> QED
    BY <1>1, <1>3, <1>4, <1>5, <1>6, BootStep, Zenon DEF h, g

(* The kernel undoes a start: it tells the processor to stop. *)
LEMMA UndoKeeps ==
    ASSUME Executes(0), plan.program = "kernel", Starting(guest[0]), guest[0].at \notin {"core", "thread", "command"},
           Call(0, "STOP", guest[0].i, "undo"), HardwareUnchanged, UNCHANGED <<dev, kcpu, lock, running>>
    PROVE  GuestInv' /\ HwEffect(0)
  <1> DEFINE g == guest[0]
             h == guest'[0]
             i == g.i
  <1>0. GuestInv /\ GuestTypes /\ guest \in [CPUs -> GuestState] /\ plan' = plan /\ BootExact(g) /\ hw' = hw
        /\ CPUs = 0 .. Last /\ Last \in Nat \ {0} /\ 0 \in CPUs
    BY Topology, Zenon DEF Executes, GuestInv, GuestTypes, HardwareUnchanged
  <1>1. /\ i \in 1 .. Last /\ (\A c \in CPUs : c > i => hw[c].state = "OFFLINE")
        /\ g.fail = "none" /\ ~g.bad
    BY <1>0, Zenon DEF BootExact
  <1>2. i \in CPUs
    BY <1>0, <1>1
  <1>3. /\ g.next \in {"off", "booted", "answered", "kick", "leave", "stopped", "undo"}
        /\ g.saved \in {"off", "user"} /\ ~running
        /\ \A c \in CPUs \ {0} : guest[c].at \notin {"enter", "task"} \cup Calling
    BY <1>0, BootFacts, Zenon DEF Booting
  <1>4. /\ guest' \in [CPUs -> GuestState] /\ \A e \in CPUs \ {0} : guest'[e] = guest[e]
        /\ h.at = "core" /\ h.cmd = "STOP" /\ h.to = i /\ h.i = g.i /\ h.next = "undo" /\ h.saved = g.saved
        /\ h.bad = g.bad /\ h.fail = g.fail
    <2>1. "undo" \in Places /\ "STOP" \in Commands /\ Call(0, "STOP", i, "undo")
      BY Zenon DEF Places, Commands
    <2> HIDE DEF i
    <2> QED
      BY <1>0, <1>2, <2>1, Calls
  <1>5. g.at \notin {"user", "wait", "di"}
    BY Zenon DEF Starting, Calling
  <1>6. h.i = i
    BY <1>4, Zenon
  <1> HIDE DEF h, g, i
  <1>7. Labels(plan.program, 0, h)
    BY <1>3, <1>4, Zenon DEF Labels, KernelLabels, Calling, InKernel
  <1>8. Locked(plan.program, 0, h, lock)
    BY <1>4, Zenon DEF Locked, Calling
  <1>9. BootExact(guest[0])'
    <2>1. guest'[0] = h /\ Starting(h) /\ ~Kicking(h) /\ ~Undoing(h) /\ h.at \in Calling
      BY <1>4, Zenon DEF h, Starting, Kicking, Undoing, Calling
    <2>2. h.at \notin {"valid", "start", "stop", "stopped", "undo", "command", "result"}
      BY <1>4, Zenon
    <2> QED
      BY <1>0, <1>1, <1>3, <1>4, <1>6, <2>1, <2>2, Zenon DEF BootExact
  <1>10. Calm(0)
    BY <1>4, CalmStop, Zenon DEF h
  <1> QED
    BY <1>4, <1>5, <1>7, <1>8, <1>9, <1>10, BootStep, Zenon DEF h, g

(* The shutdown goes on with the next processor after a failure. *)
LEMMA StopNextKeeps ==
    ASSUME Executes(0), plan.program = "kernel",
           guest[0].at = "stopped" \/ (guest[0].at = "result" /\ guest[0].next = "stopped"),
           Marks(0, "stop", guest[0].i + 1, TRUE), HardwareUnchanged, UNCHANGED <<dev, kcpu, lock, running>>
    PROVE  GuestInv' /\ HwEffect(0)
  <1> DEFINE g == guest[0]
             h == guest'[0]
             j == g.i + 1
  <1>0. /\ GuestInv /\ GuestTypes /\ guest \in [CPUs -> GuestState] /\ plan' = plan /\ BootExact(g) /\ Exact(0)
        /\ CPUs = 0 .. Last /\ Last \in Nat \ {0} /\ 0 \in CPUs
    BY Topology, Zenon DEF Executes, GuestInv, GuestTypes, ProcExact
  <1>1. g.i \in 1 .. Last
    BY <1>0, Zenon DEF BootExact, Calling
  <1>2. j \in 0 .. Last + 1 /\ j >= 1
    BY <1>0, <1>1
  <1>3. /\ g.next \in {"off", "booted", "answered", "kick", "leave", "stopped", "undo"}
        /\ g.saved \in {"off", "user"} /\ (g.fail = "none" => lock = 0) /\ g.at \notin {"user", "wait", "di"}
    BY <1>0, Zenon DEF Exact, Labels, KernelLabels, Locked, Calling
  <1>4. /\ guest' \in [CPUs -> GuestState] /\ \A e \in CPUs \ {0} : guest'[e] = guest[e]
        /\ h.at = "stop" /\ h.next = g.next /\ h.i = j /\ h.saved = g.saved /\ h.fail = g.fail
    <2>1. "stop" \in Places /\ Marks(0, "stop", j, TRUE)
      BY Zenon DEF Places
    <2> HIDE DEF j
    <2> QED
      BY <1>0, <1>2, <2>1, GoesMarking, Zenon
  <1> HIDE DEF h, g, j
  <1>5. Labels(plan.program, 0, h)
    BY <1>3, <1>4, Zenon DEF Labels, KernelLabels, Calling, InKernel
  <1>6. Locked(plan.program, 0, h, lock)
    BY <1>3, <1>4, Zenon DEF Locked, Calling
  <1>7. BootExact(guest[0])'
    <2>1. guest'[0] = h /\ ~Starting(h) /\ ~Kicking(h) /\ ~Undoing(h) /\ h.at \notin Calling
      BY <1>4, Zenon DEF h, Starting, Kicking, Undoing, Calling
    <2>2. Booting(h) => Booting(g)
      BY <1>4, <2>1, Zenon DEF Booting
    <2> QED
      BY <1>0, <1>2, <1>4, <2>1, <2>2, Zenon DEF BootExact
  <1>8. Calm(0)
    BY <1>4, CalmStop, Zenon DEF h
  <1> QED
    BY <1>3, <1>4, <1>5, <1>6, <1>7, <1>8, BootStep, Zenon DEF h, g

(* smp_command reads the result register and returns. A start that was     *)
(* refused is undone; a refused stop leads to the next processor; a kick   *)
(* is never refused.                                                       *)
LEMMA ReadResultKeeps ==
    ASSUME NEW c \in CPUs, Executes(c), ReadResult(c)
    PROVE  GuestInv' /\ HwEffect(c)
  <1> DEFINE g == guest[c]
             h == guest'[c]
  <1>0. GuestInv /\ GuestTypes /\ Exact(c) /\ plan' = plan /\ tpc' = tpc /\ g.at = "result" /\ g.at \in Calling
    BY Zenon DEF Executes, GuestInv, ProcExact, ReadResult, Calling
  <1>a. /\ UNCHANGED <<dev, kcpu, lock, running>>
        /\ \/ Goto(c, g.next) /\ HardwareUnchanged
           \/ /\ ~dev.result /\ g.next # "leave" /\ plan.program = "kernel"
              /\ guest' = [guest EXCEPT ![c] = Refused(g)] /\ HardwareUnchanged /\ g.next # "undo"
           \/ plan.program # "kernel" /\ Panic(c)
    BY Zenon DEF ReadResult
  <1>d. Labels(plan.program, c, g) /\ Idle(hw[c], g, kcpu[c]) /\ Locked(plan.program, c, g, lock)
    BY <1>0, Zenon DEF Exact
  <1>b. CASE plan.program # "kernel" /\ Panic(c)
    BY <1>a, <1>b, PanicKeeps, Zenon
  <1>e. CASE /\ ~dev.result /\ g.next # "leave" /\ plan.program = "kernel"
             /\ guest' = [guest EXCEPT ![c] = Refused(g)] /\ HardwareUnchanged /\ g.next # "undo"
    <2>1. c = 0
      BY <1>0, <1>e, SecondaryCalls, Zenon
    <2>2. g.next \in {"booted", "answered", "kick", "stopped"} /\ BootExact(g) /\ KernelExact(g)
      BY <1>0, <1>d, <1>e, <2>1, Zenon DEF Labels, KernelLabels, GuestInv
    <2>3. g.next # "kick"
      <3> SUFFICES ASSUME g.next = "kick" PROVE FALSE
        BY Zenon
      <3>1. Kicking(g)
        BY <1>0, Zenon DEF Kicking
      <3>2. running /\ g.fail = "none"
        BY <1>e, <2>2, <3>1, Zenon DEF BootExact
      <3>3. Quiet(g)
        BY <1>0, <3>2, Zenon DEF Quiet
      <3> QED
        BY <1>0, <1>e, <2>2, <3>2, <3>3, Zenon DEF KernelExact
    <2>4. CASE g.next \in {"booted", "answered"}
      <3>1. Starting(g)
        BY <1>0, <2>4, Zenon DEF Starting
      <3>2. Refused(g) = [g EXCEPT !.at = "core", !.cmd = "STOP", !.to = g.i, !.next = "undo"]
        BY <2>4, Zenon DEF Refused
      <3>3. Call(0, "STOP", guest[0].i, "undo")
        BY <1>e, <2>1, <3>2, Zenon DEF Call
      <3> QED
        BY <1>0, <1>a, <1>e, <2>1, <3>1, <3>3, UndoKeeps, Zenon
    <2>5. CASE g.next = "stopped"
      <3>1. Refused(g) = [g EXCEPT !.at = "stop", !.i = g.i + 1, !.bad = TRUE]
        BY <2>5, Zenon DEF Refused
      <3>2. Marks(0, "stop", guest[0].i + 1, TRUE)
        BY <1>e, <2>1, <3>1, Zenon DEF Marks
      <3> QED
        BY <1>0, <1>a, <1>e, <2>1, <2>5, <3>2, StopNextKeeps, Zenon
    <2> QED
      BY <2>2, <2>3, <2>4, <2>5, Zenon
  <1>c. CASE Goto(c, g.next) /\ HardwareUnchanged
    <2>0. g \in GuestState /\ g.next \in Places
      BY <1>0, Zenon DEF GuestTypes, GuestState
    <2>1. /\ guest' \in [CPUs -> GuestState] /\ \A e \in CPUs \ {c} : guest'[e] = guest[e]
          /\ h.at = g.next /\ h.to = g.to /\ h.cmd = g.cmd /\ h.next = g.next /\ h.i = g.i /\ h.saved = g.saved
          /\ h.bad = g.bad /\ h.fail = g.fail
      BY <1>0, <1>c, <2>0, Goes, Zenon DEF Goto, GuestTypes
    <2>2. UNCHANGED <<hw, vm, ctl>>
      BY <1>c, Zenon DEF HardwareUnchanged
    <2>3. GuestTypes'
      BY <1>0, <1>a, <2>1, <2>2 DEF GuestTypes, DevState
    <2>4. OthersStay(c) /\ LockOwn(c) /\ SameStates /\ SameStacks /\ VmQuiet
      BY <1>a, <1>c, <2>1, QuietHardware, Zenon
    <2> HIDE DEF h, g
    <2>5a. /\ g.at \in Calling /\ g.next # "off" /\ g.saved # "wait"
           /\ plan.program = "kernel" => g.next \in {"booted", "answered", "kick", "leave", "stopped", "undo"}
           /\ plan.program = "restart" => g.next \in {"halted", "again", "end"}
           /\ plan.program \in {"kernel", "restart"}
      BY <1>0, <1>d, Zenon DEF Labels, KernelLabels, RestartLabels, Calling, GuestTypes
    <2>6. Exact(c)'
      <3>2. Labels(plan.program, c, h)
        BY <1>0, <2>1, <1>d, <2>5a, Zenon DEF Labels, KernelLabels, RestartLabels, Calling, InKernel
      <3>3. Idle(hw[c], h, kcpu[c])
        BY <1>0, <2>1, <1>d, <2>5a, Zenon DEF Idle, Live
      <3>4. Locked(plan.program, c, h, lock)
        BY <1>0, <2>1, <1>d, <2>5a, Zenon DEF Locked, Calling
      <3> QED
        BY <1>0, <1>a, <2>2, <3>2, <3>3, <3>4, Zenon DEF Exact, h
    <2>7. ASSUME c = 0, plan.program = "kernel" PROVE BootExact(guest[0])'
      <3>1. BootExact(g) /\ guest'[0] = h
        BY <1>0, <2>7, Zenon DEF GuestInv, g, h
      <3>2. h.at \notin {"start", "valid", "stop"} \cup Calling
        BY <2>1, <2>5a, <2>7, Zenon DEF Calling
      <3>3. /\ Starting(h) => Starting(g)
            /\ Kicking(h) => Kicking(g)
            /\ Undoing(h) => Undoing(g)
        BY <1>0, <2>1, <2>5a, <3>2, Zenon DEF Starting, Kicking, Undoing
      <3>4. Booting(h) => Booting(g)
        BY <2>1, <3>2, <3>3, Zenon DEF Booting
      <3>5. h.at \in {"stopped", "undo"} => g.next \in {"booted", "stopped", "undo"}
        BY <2>1, Zenon
      <3> QED
        BY <1>0, <1>a, <2>1, <2>2, <2>5a, <2>7, <3>1, <3>2, <3>3, <3>4, <3>5, Zenon DEF BootExact
    <2>8. ASSUME c = 0, plan.program # "kernel" PROVE BootExact(guest[0])'
      BY <1>0, <2>8, Zenon DEF BootExact
    <2>9. ASSUME c # 0 PROVE SecondaryOwn(c)
      BY <1>0, <1>a, <2>1, <2>5a, <2>9, StaysSecondary, Zenon DEF g, h, Calling
    <2>10. Calm(c)
      <3>1. CASE c = 0
        <4>1. Quiet(h) => Quiet(g)
          BY <1>0, <2>1, Zenon DEF Quiet, Calling
        <4>2. plan.program = "kernel" => h.at # "result"
          BY <2>1, <2>5a, Zenon
        <4> QED
          BY <1>a, <2>2, <3>1, <4>1, <4>2, Zenon DEF Calm, h, g
      <3>2. CASE c # 0
        BY <1>a, <2>1, <2>2, <3>2, CalmSecondary, Topology, Zenon
      <3> QED
        BY <3>1, <3>2, Zenon
    <2> QED
      BY <1>0, <2>3, <2>4, <2>6, <2>7, <2>8, <2>9, <2>10, OwnStep, Zenon
  <1> QED
    BY <1>a, <1>b, <1>c, <1>e, Zenon

(* kernel_secondary_main publishes the processor as ONLINE. *)
LEMMA SecondaryMainKeeps ==
    ASSUME NEW c \in CPUs, Executes(c), kernel_secondary_main(c)
    PROVE  GuestInv' /\ HwEffect(c)
  <1> DEFINE g == guest[c]
             h == guest'[c]
  <1>0. GuestInv /\ GuestTypes /\ Exact(c) /\ g.at = "trampoline" /\ hw[c].state = "RUNNABLE"
    BY Zenon DEF Executes, GuestInv, ProcExact, kernel_secondary_main
  <1>a. CASE kcpu[c].stack # "allocated"
    <2>1. Panic(c) /\ UNCHANGED <<kcpu, dev, lock, running>>
      BY <1>a, Zenon DEF kernel_secondary_main
    <2>2. plan.program = "kernel" => hw[c].stop
      BY <1>0, <1>a, Zenon DEF GuestInv, StackWhileLive, Live
    <2>3. ~(plan.program = "kernel" /\ Quiet(guest[0]))
      BY <1>0, <2>2, Zenon DEF GuestInv, KernelExact
    <2> QED
      BY <2>1, <2>3, PanicKeeps, Zenon
  <1>b. CASE kcpu[c].stack = "allocated"
    <2>1. /\ guest' \in [CPUs -> GuestState] /\ \A e \in CPUs \ {c} : guest'[e] = guest[e]
          /\ h.at = "loop" /\ h.to = g.to /\ h.cmd = g.cmd /\ h.next = g.next /\ h.i = g.i /\ h.saved = g.saved
      BY <1>0, <1>b, Goes, Zenon DEF kernel_secondary_main, Goto, GuestTypes, Places
    <2>2. kcpu' = [kcpu EXCEPT ![c].state = "ONLINE"] /\ UNCHANGED <<hw, vm, ctl, dev, lock, running>>
      BY <1>b, Zenon DEF kernel_secondary_main, HardwareUnchanged
    <2>3. /\ kcpu' \in [CPUs -> LocalState] /\ kcpu'[c].stack = kcpu[c].stack
          /\ \A e \in CPUs \ {c} : kcpu'[e] = kcpu[e]
      BY <1>0, <2>2 DEF GuestTypes, LocalState
    <2>4. OthersStay(c) /\ LockOwn(c) /\ VmQuiet
      BY <2>1, <2>2, <2>3, Zenon DEF OthersStay, LockOwn, VmQuiet
    <2>5. Labels(plan.program, c, g) /\ Idle(hw[c], g, kcpu[c]) /\ Locked(plan.program, c, g, lock)
          /\ plan.program \in {"kernel", "restart"}
      BY <1>0, Zenon DEF Exact, GuestTypes
    <2> HIDE DEF h, g
    <2>6. Labels(plan.program, c, h) /\ c # 0
      BY <1>0, <2>1, <2>5, Zenon DEF Labels, KernelLabels, RestartLabels, Calling, InKernel
    <2>7. Idle(hw[c], h, kcpu'[c])
      BY <1>0, <2>1, <2>5, Zenon DEF Idle
    <2>8. Locked(plan.program, c, h, lock)
      BY <1>0, <2>1, <2>5, Zenon DEF Locked, Calling
    <2>9. h.at \notin {"enter", "task"} \cup Calling
      BY <2>1, Zenon DEF Calling
    <2> QED
      BY <1>0, <2>1, <2>2, <2>3, <2>4, <2>6, <2>7, <2>8, <2>9, OwnWrites DEF h, GuestTypes
  <1> QED
    BY <1>a, <1>b, Zenon

(* The idle loop publishes WAITING with interrupts disabled and looks for  *)
(* work.                                                                   *)
LEMMA IdleLoopKeeps ==
    ASSUME NEW c \in CPUs, Executes(c), IdleLoop(c)
    PROVE  GuestInv' /\ HwEffect(c)
  <1> DEFINE g == guest[c]
             h == guest'[c]
  <1>0. GuestInv /\ GuestTypes /\ Exact(c) /\ g.at = "loop" /\ ~hw[c].waiting
    BY Zenon DEF Executes, GuestInv, ProcExact, IdleLoop
  <1>1. UNCHANGED <<hw, vm, ctl, dev, lock, running>>
    BY Zenon DEF IdleLoop, HardwareUnchanged
  <1>2. Labels(plan.program, c, g) /\ Idle(hw[c], g, kcpu[c]) /\ Locked(plan.program, c, g, lock)
        /\ plan.program \in {"kernel", "restart"}
    BY <1>0, Zenon DEF Exact, GuestTypes
  <1>3. c # 0 /\ g.next \in {"off", "leave"} /\ g.saved \in {"off", "loop", "di"} /\ plan.program = "kernel"
    BY <1>0, <1>2, Zenon DEF Labels, KernelLabels, RestartLabels, Calling, InKernel
  <1>4. CASE running /\ guest' = [guest EXCEPT ![c].at = "enter", ![c].saved = "loop"] /\ UNCHANGED kcpu
    <2>1. /\ guest' \in [CPUs -> GuestState] /\ \A e \in CPUs \ {c} : guest'[e] = guest[e]
          /\ h.at = "enter" /\ h.to = g.to /\ h.cmd = g.cmd /\ h.next = g.next /\ h.i = g.i /\ h.saved = "loop"
      <3>1. "enter" \in Places /\ "loop" \in Places /\ guest \in [CPUs -> GuestState]
        BY <1>0, Zenon DEF GuestTypes, Places, InKernel
      <3>2. Saves(c, "enter", "loop")
        BY <1>4, Zenon DEF Saves
      <3> QED
        BY <3>1, <3>2, GoesSaving
    <2>2. OthersStay(c) /\ LockOwn(c) /\ VmQuiet
      BY <1>1, <1>4, <2>1, Zenon DEF OthersStay, LockOwn, VmQuiet
    <2> HIDE DEF h, g
    <2>3. Labels(plan.program, c, h)
      BY <1>3, <2>1, Zenon DEF Labels, KernelLabels, Calling, InKernel
    <2>4. Idle(hw[c], h, kcpu[c])
      BY <1>0, <1>2, <2>1, Zenon DEF Idle
    <2>5. Locked(plan.program, c, h, lock)
      BY <2>1, Zenon DEF Locked, Calling
    <2> QED
      BY <1>0, <1>1, <1>3, <1>4, <2>1, <2>2, <2>3, <2>4, <2>5, OwnWrites DEF h, GuestTypes
  <1>5. CASE kcpu' = [kcpu EXCEPT ![c].state = "WAITING"] /\ Goto(c, "ei")
    <2>1. /\ guest' \in [CPUs -> GuestState] /\ \A e \in CPUs \ {c} : guest'[e] = guest[e]
          /\ h.at = "ei" /\ h.to = g.to /\ h.cmd = g.cmd /\ h.next = g.next /\ h.i = g.i /\ h.saved = g.saved
        /\ h.bad = g.bad /\ h.fail = g.fail
      BY <1>0, <1>5, Goes, Zenon DEF Goto, GuestTypes, Places
    <2>2. /\ kcpu' \in [CPUs -> LocalState] /\ kcpu'[c].stack = kcpu[c].stack /\ kcpu'[c].state = "WAITING"
          /\ \A e \in CPUs \ {c} : kcpu'[e] = kcpu[e]
      BY <1>0, <1>5 DEF GuestTypes, LocalState
    <2>3. OthersStay(c) /\ LockOwn(c) /\ VmQuiet
      BY <1>1, <2>1, <2>2, Zenon DEF OthersStay, LockOwn, VmQuiet
    <2> HIDE DEF h, g
    <2>4. Labels(plan.program, c, h)
      BY <1>3, <2>1, Zenon DEF Labels, KernelLabels, Calling, InKernel
    <2>5. Idle(hw[c], h, kcpu'[c])
      BY <1>0, <1>2, <2>1, <2>2, Zenon DEF Idle
    <2>6. Locked(plan.program, c, h, lock)
      BY <2>1, Zenon DEF Locked, Calling
    <2>7. h.at \notin {"enter", "task"} \cup Calling
      BY <2>1, Zenon DEF Calling
    <2> QED
      BY <1>0, <1>1, <1>3, <2>1, <2>2, <2>3, <2>4, <2>5, <2>6, <2>7, OwnWrites, Zenon DEF h, GuestTypes
  <1> QED
    BY <1>4, <1>5, Zenon DEF IdleLoop

(* A bootstrap processor that is past the boot and sends nothing says no   *)
(* more of it than before.                                                 *)
LEMMA QuietBoot ==
    ASSUME GuestInv, plan' = plan, running' = running, \A e \in CPUs \ {0} : guest'[e] = guest[e],
           guest'[0].fail = guest[0].fail,
           guest'[0].at \notin {"start", "booted", "answered", "undo", "valid", "stop", "kick", "stopped"} \cup Calling
    PROVE  BootExact(guest[0])'
  <1> DEFINE z == guest'[0]
  <1>1. BootExact(guest[0])
    BY Zenon DEF GuestInv
  <1>2. ~Starting(z) /\ ~Kicking(z) /\ ~Undoing(z) /\ z.at \notin {"valid", "start", "stop", "stopped", "undo"} \cup Calling
    BY Zenon DEF Starting, Kicking, Undoing, Calling
  <1>3. Booting(z) => Booting(guest[0])
    BY <1>2, Zenon DEF Booting
  <1> HIDE DEF z
  <1> QED
    BY <1>1, <1>2, <1>3, Zenon DEF BootExact, z

(* It is calm as long as it has told nobody to stop.                       *)
LEMMA CalmBoot ==
    ASSUME running' = running, guest'[0].at # "result", hw'[0].halted = hw[0].halted,
           guest'[0].fail = guest[0].fail,
           guest[0].at \notin {"stop", "stopped", "undo", "end", "off"} \cup Calling
    PROVE  Calm(0)
  BY Zenon DEF Calm, Quiet

(* The idle loop enables interrupts. *)
LEMMA IdleEiKeeps ==
    ASSUME NEW c \in CPUs, Executes(c), IdleEi(c)
    PROVE  GuestInv' /\ HwEffect(c)
  <1> DEFINE g == guest[c]
             h == guest'[c]
  <1>0. GuestInv /\ GuestTypes /\ Exact(c) /\ g.at = "ei" /\ ~hw[c].waiting /\ hw[c].state = "RUNNABLE"
    BY Zenon DEF Executes, GuestInv, ProcExact, IdleEi
  <1>1. UNCHANGED <<vm, ctl, dev, kcpu, lock, running>> /\ hw' = [hw EXCEPT ![c].ie = TRUE]
    BY Zenon DEF IdleEi
  <1>2. Labels(plan.program, c, g) /\ Idle(hw[c], g, kcpu[c]) /\ plan.program \in {"kernel", "restart"}
    BY <1>0, Zenon DEF Exact, GuestTypes
  <1>3. /\ guest' \in [CPUs -> GuestState] /\ \A e \in CPUs \ {c} : guest'[e] = guest[e]
        /\ h.at = "wait" /\ h.next = g.next /\ h.saved = g.saved /\ h.bad = g.bad /\ h.fail = g.fail
    BY <1>0, Goes, Zenon DEF IdleEi, Goto, GuestTypes, Places
  <1>4. /\ hw' \in [CPUs -> HwState] /\ (\A e \in CPUs \ {c} : hw'[e] = hw[e])
        /\ hw'[c].state = "RUNNABLE" /\ ~hw'[c].waiting
        /\ hw'[c].stop = hw[c].stop /\ hw'[c].halted = hw[c].halted
    BY <1>0, <1>1, Zenon DEF GuestTypes, HwState
  <1>5. OthersStay(c) /\ LockOwn(c) /\ VmQuiet
    BY <1>1, <1>3, <1>4, Zenon DEF OthersStay, LockOwn, VmQuiet
  <1> HIDE DEF h, g
  <1>6. Labels(plan.program, c, h) /\ c # 0
    BY <1>0, <1>2, <1>3, Zenon DEF Labels, KernelLabels, RestartLabels, Calling, InKernel
  <1>7. Idle(hw'[c], h, kcpu[c])
    BY <1>0, <1>2, <1>3, <1>4, Zenon DEF Idle, Live
  <1>8. Locked(plan.program, c, h, lock) /\ h.at \notin {"enter", "task"} \cup Calling
    BY <1>3, Zenon DEF Locked, Calling
  <1> QED
    BY <1>0, <1>1, <1>3, <1>4, <1>5, <1>6, <1>7, <1>8, OwnWrites, Zenon DEF h, GuestTypes

(* The idle loop executes WAIT. *)
LEMMA IdleWaitKeeps ==
    ASSUME NEW c \in CPUs, Executes(c), IdleWait(c)
    PROVE  GuestInv' /\ HwEffect(c)
  <1> DEFINE g == guest[c]
             h == guest'[c]
  <1>0. GuestInv /\ GuestTypes /\ Exact(c) /\ g.at = "wait" /\ hw[c].state = "RUNNABLE"
    BY Zenon DEF Executes, GuestInv, ProcExact, IdleWait
  <1>1. UNCHANGED <<vm, ctl, dev, kcpu, lock, running>> /\ hw' = [hw EXCEPT ![c].waiting = TRUE]
    BY Zenon DEF IdleWait
  <1>2. Labels(plan.program, c, g) /\ Idle(hw[c], g, kcpu[c]) /\ plan.program \in {"kernel", "restart"}
    BY <1>0, Zenon DEF Exact, GuestTypes
  <1>3. /\ guest' \in [CPUs -> GuestState] /\ \A e \in CPUs \ {c} : guest'[e] = guest[e]
        /\ h.at = "di" /\ h.next = g.next /\ h.saved = g.saved /\ h.bad = g.bad /\ h.fail = g.fail
    BY <1>0, Goes, Zenon DEF IdleWait, Goto, GuestTypes, Places
  <1>4. /\ hw' \in [CPUs -> HwState] /\ (\A e \in CPUs \ {c} : hw'[e] = hw[e])
        /\ hw'[c].state = "RUNNABLE" /\ hw'[c].stop = hw[c].stop /\ hw'[c].halted = hw[c].halted
    BY <1>0, <1>1, Zenon DEF GuestTypes, HwState
  <1>5. OthersStay(c) /\ LockOwn(c) /\ VmQuiet
    BY <1>1, <1>3, <1>4, Zenon DEF OthersStay, LockOwn, VmQuiet
  <1> HIDE DEF h, g
  <1>6. Labels(plan.program, c, h) /\ c # 0
    BY <1>0, <1>2, <1>3, Zenon DEF Labels, KernelLabels, RestartLabels, Calling, InKernel
  <1>7. Idle(hw'[c], h, kcpu[c])
    BY <1>0, <1>2, <1>3, <1>4, Zenon DEF Idle, Live
  <1>8. Locked(plan.program, c, h, lock) /\ h.at \notin {"enter", "task"} \cup Calling
    BY <1>3, Zenon DEF Locked, Calling
  <1> QED
    BY <1>0, <1>1, <1>3, <1>4, <1>5, <1>6, <1>7, <1>8, OwnWrites, Zenon DEF h, GuestTypes

(* The idle loop disables interrupts again. *)
LEMMA IdleDiKeeps ==
    ASSUME NEW c \in CPUs, Executes(c), IdleDi(c)
    PROVE  GuestInv' /\ HwEffect(c)
  <1> DEFINE g == guest[c]
             h == guest'[c]
  <1>0. GuestInv /\ GuestTypes /\ Exact(c) /\ g.at = "di" /\ ~hw[c].waiting /\ hw[c].state = "RUNNABLE"
    BY Zenon DEF Executes, GuestInv, ProcExact, IdleDi
  <1>1. /\ UNCHANGED <<vm, ctl, dev, lock, running>> /\ hw' = [hw EXCEPT ![c].ie = FALSE]
        /\ kcpu' = [kcpu EXCEPT ![c].state = "ONLINE"]
    BY Zenon DEF IdleDi
  <1>2. Labels(plan.program, c, g) /\ plan.program \in {"kernel", "restart"}
    BY <1>0, Zenon DEF Exact, GuestTypes
  <1>3. /\ guest' \in [CPUs -> GuestState] /\ \A e \in CPUs \ {c} : guest'[e] = guest[e]
        /\ h.at = "loop" /\ h.next = g.next /\ h.saved = g.saved /\ h.bad = g.bad /\ h.fail = g.fail
    BY <1>0, Goes, Zenon DEF IdleDi, Goto, GuestTypes, Places
  <1>4. /\ hw' \in [CPUs -> HwState] /\ (\A e \in CPUs \ {c} : hw'[e] = hw[e])
        /\ hw'[c].state = "RUNNABLE" /\ ~hw'[c].waiting /\ ~hw'[c].ie
        /\ hw'[c].stop = hw[c].stop /\ hw'[c].halted = hw[c].halted
    BY <1>0, <1>1, Zenon DEF GuestTypes, HwState
  <1>5. /\ kcpu' \in [CPUs -> LocalState] /\ kcpu'[c].stack = kcpu[c].stack
        /\ \A e \in CPUs \ {c} : kcpu'[e] = kcpu[e]
    BY <1>0, <1>1, Zenon DEF GuestTypes, LocalState
  <1>6. OthersStay(c) /\ LockOwn(c) /\ VmQuiet
    BY <1>1, <1>3, <1>4, <1>5, Zenon DEF OthersStay, LockOwn, VmQuiet
  <1> HIDE DEF h, g
  <1>7. Labels(plan.program, c, h) /\ c # 0
    BY <1>0, <1>2, <1>3, Zenon DEF Labels, KernelLabels, RestartLabels, Calling, InKernel
  <1>8. Idle(hw'[c], h, kcpu'[c])
    BY <1>3, <1>4, Zenon DEF Idle
  <1>9. Locked(plan.program, c, h, lock) /\ h.at \notin {"enter", "task"} \cup Calling
    BY <1>3, Zenon DEF Locked, Calling
  <1> QED
    BY <1>0, <1>1, <1>3, <1>4, <1>5, <1>6, <1>7, <1>8, <1>9, OwnWrites, Zenon DEF h, GuestTypes

(* A step of the host that leaves processors, kernel and devices alone     *)
(* keeps what is said of them.                                             *)
LEMMA GuestStays ==
    ASSUME GuestInv, vm' \in VmState, UNCHANGED <<tpc, plan, dev, guest, kcpu, lock, running, hw, ctl>>
    PROVE  GuestInv'
  <1>1. GuestTypes'
    BY Zenon DEF GuestInv, GuestTypes, DevState
  <1>2. ProcExact'
    BY Zenon DEF GuestInv, ProcExact, Exact
  <1>3. BootExact(guest[0])'
    BY Zenon DEF GuestInv, BootExact
  <1>4. StackWhileLive'
    BY Zenon DEF GuestInv, StackWhileLive
  <1>5. KernelExact(guest[0])'
    BY Zenon DEF GuestInv, KernelExact
  <1> QED
    BY <1>1, <1>2, <1>3, <1>4, <1>5, Zenon DEF GuestInv

(* A processor that polls and stays where it is changes nothing.           *)
LEMMA Polls ==
    ASSUME NEW c \in CPUs, Executes(c), HardwareUnchanged, UNCHANGED <<dev, guest, kcpu, lock, running>>
    PROVE  GuestInv' /\ HwEffect(c)
  <1>1. UNCHANGED <<tpc, plan, hw, vm, ctl>>
    BY Zenon DEF Executes, HardwareUnchanged
  <1>2. GuestInv'
    <2>1. GuestInv /\ vm' \in VmState
      BY <1>1, Zenon DEF Executes, GuestInv, GuestTypes
    <2> QED
      BY <1>1, <2>1, GuestStays, Zenon
  <1>3. HwEffect(c)
    BY <1>1, Zenon DEF HwEffect, VmQuiet
  <1> QED
    BY <1>2, <1>3, Zenon

(* kernel_smp_trap_enter takes the kernel lock, or spins. *)
LEMMA TrapEnterKeeps ==
    ASSUME NEW c \in CPUs, Executes(c), kernel_smp_trap_enter(c)
    PROVE  GuestInv' /\ HwEffect(c)
  <1> DEFINE g == guest[c]
             h == guest'[c]
  <1>0. /\ GuestInv /\ GuestTypes /\ Exact(c) /\ g.at \in {"enter", "handler"}
        /\ ~hw[c].waiting /\ hw[c].state = "RUNNABLE"
    BY Zenon DEF Executes, GuestInv, ProcExact, kernel_smp_trap_enter
  <1>1. CASE lock # NoLine
    BY <1>1, Polls, Zenon DEF kernel_smp_trap_enter
  <1>2. CASE lock = NoLine
    <2>1. /\ lock' = c /\ kcpu' = [kcpu EXCEPT ![c].state = "ONLINE"] /\ UNCHANGED <<hw, vm, ctl, dev, running>>
          /\ Goto(c, IF g.at = "enter" THEN "task" ELSE "ipi")
      BY <1>2, Zenon DEF kernel_smp_trap_enter, HardwareUnchanged
    <2>2. /\ guest' \in [CPUs -> GuestState] /\ \A e \in CPUs \ {c} : guest'[e] = guest[e]
          /\ h.at = (IF g.at = "enter" THEN "task" ELSE "ipi") /\ h.next = g.next /\ h.saved = g.saved
          /\ h.fail = g.fail
      <3> DEFINE l == IF g.at = "enter" THEN "task" ELSE "ipi"
      <3>1. l \in Places /\ guest \in [CPUs -> GuestState] /\ guest' = [guest EXCEPT ![c].at = l]
        BY <1>0, <2>1, Zenon DEF Goto, GuestTypes, Places, InKernel
      <3> HIDE DEF l
      <3>2. /\ guest' \in [CPUs -> GuestState] /\ \A e \in CPUs \ {c} : guest'[e] = guest[e]
            /\ h.at = l /\ h.next = g.next /\ h.saved = g.saved
            /\ h.fail = g.fail
        BY <3>1, Goes, Zenon
      <3> QED
        BY <3>2, Zenon DEF l
    <2>3. /\ kcpu' \in [CPUs -> LocalState] /\ kcpu'[c].stack = kcpu[c].stack
          /\ \A e \in CPUs \ {c} : kcpu'[e] = kcpu[e]
      BY <1>0, <2>1 DEF GuestTypes, LocalState
    <2>4. OthersStay(c) /\ LockOwn(c) /\ VmQuiet
      BY <1>2, <2>1, <2>2, <2>3, Zenon DEF OthersStay, LockOwn, VmQuiet
    <2>5. /\ Labels(plan.program, c, g) /\ Idle(hw[c], g, kcpu[c])
          /\ plan.program \in {"kernel", "restart"}
      BY <1>0, Zenon DEF Exact, GuestTypes
    <2> HIDE DEF h, g
    <2>6. Labels(plan.program, c, h)
      BY <1>0, <2>2, <2>5, Zenon DEF Labels, KernelLabels, RestartLabels, Calling, InKernel
    <2>7. Idle(hw[c], h, kcpu'[c])
      BY <1>0, <2>2, <2>5, Zenon DEF Idle, Live
    <2>8. Locked(plan.program, c, h, lock')
      BY <2>1, Zenon DEF Locked
    <2>9. c = 0 => BootExact(guest[0])' /\ Calm(0)
      <3>1. c = 0 => /\ guest'[0].at \notin {"start", "booted", "answered", "undo", "valid", "stop", "kick", "stopped"} \cup Calling
                     /\ guest[0].at \notin {"stop", "stopped", "undo", "end", "off"} \cup Calling
                     /\ guest'[0].fail = guest[0].fail /\ guest'[0].at # "result"
        BY <1>0, <2>2, Zenon DEF h, g, Calling
      <3> QED
        BY <1>0, <2>1, <2>2, <3>1, QuietBoot, CalmBoot, Zenon DEF Executes
    <2>10. h.at \in {"enter", "task"} \cup Calling => g.at \in {"enter", "task"}
      BY <1>0, <2>2, Zenon DEF Calling
    <2> QED
      BY <1>0, <2>1, <2>2, <2>3, <2>4, <2>6, <2>7, <2>8, <2>9, <2>10, OwnWrites DEF h, g, GuestTypes
  <1> QED
    BY <1>1, <1>2, Zenon

(* A wakeup interrupt for d. *)
Wakes(c, d) == guest' = [guest EXCEPT ![c].at = "core", ![c].cmd = "IPI", ![c].to = d,
                                      ![c].next = "leave", ![c].tasks = @ + 1]

(* A task that makes another processor's work ready calls smp_command to   *)
(* interrupt it.                                                           *)
LEMMA CallsOther ==
    ASSUME guest \in [CPUs -> GuestState], NEW c \in CPUs, NEW d \in CPUs, Wakes(c, d)
    PROVE  /\ guest' \in [CPUs -> GuestState] /\ \A e \in CPUs \ {c} : guest'[e] = guest[e]
           /\ guest'[c].at = "core" /\ guest'[c].cmd = "IPI" /\ guest'[c].next = "leave"
           /\ guest'[c].saved = guest[c].saved /\ guest'[c].fail = guest[c].fail
  <1> DEFINE t == guest[c].tasks + 1
             g == [guest[c] EXCEPT !.at = "core", !.cmd = "IPI", !.to = d, !.next = "leave", !.tasks = t]
  <1>1. guest' = [guest EXCEPT ![c] = g]
    BY Zenon DEF Wakes
  <1>2. guest[c] \in GuestState
    BY Zenon
  <1>3. "core" \in Places /\ "leave" \in Places /\ "IPI" \in Commands /\ t \in Nat
    BY <1>2 DEF Places, Calling, InKernel, Commands, GuestState
  <1> HIDE DEF t
  <1>4. /\ g \in GuestState /\ g.at = "core" /\ g.cmd = "IPI" /\ g.next = "leave" /\ g.saved = guest[c].saved
        /\ g.fail = guest[c].fail
    BY <1>2, <1>3, Zenon DEF GuestState
  <1> HIDE DEF g
  <1> QED
    BY <1>1, <1>4, Zenon

(* A task runs in the kernel and may wake a processor. *)
LEMMA TaskKeeps ==
    ASSUME NEW c \in CPUs, Executes(c), Task(c)
    PROVE  GuestInv' /\ HwEffect(c)
  <1> DEFINE g == guest[c]
             h == guest'[c]
  <1>0. GuestInv /\ GuestTypes /\ Exact(c) /\ g.at = "task" /\ ~hw[c].waiting
    BY Zenon DEF Executes, GuestInv, ProcExact, Task
  <1>1. UNCHANGED <<hw, vm, ctl, dev, kcpu, lock>> /\ (c # 0 => running' = running)
    BY Zenon DEF Task, HardwareUnchanged
  <1>2. Labels(plan.program, c, g) /\ Idle(hw[c], g, kcpu[c]) /\ Locked(plan.program, c, g, lock)
        /\ plan.program \in {"kernel", "restart"}
    BY <1>0, Zenon DEF Exact, GuestTypes
  <1>3. /\ plan.program = "kernel" /\ lock = c /\ g.saved \notin {"off", "wait"}
        /\ (c = 0 => g.saved = "user" /\ g.next \in {"off", "booted", "answered", "kick", "leave", "stopped", "undo"})
        /\ (c # 0 => g.saved \in {"loop", "di"} /\ g.next \in {"off", "leave"})
    BY <1>0, <1>2, Zenon DEF Labels, KernelLabels, RestartLabels, Calling, InKernel, Locked
  <1>4. ASSUME NEW d \in CPUs, running' = running, Wakes(c, d)
        PROVE  GuestInv' /\ HwEffect(c)
    <2>1. /\ guest' \in [CPUs -> GuestState] /\ \A e \in CPUs \ {c} : guest'[e] = guest[e]
          /\ h.at = "core" /\ h.cmd = "IPI" /\ h.next = "leave" /\ h.saved = g.saved
          /\ h.fail = g.fail
      BY <1>0, <1>4, CallsOther, Zenon DEF GuestTypes
    <2>2. OthersStay(c) /\ LockOwn(c) /\ VmQuiet
      BY <1>1, <2>1, Zenon DEF OthersStay, LockOwn, VmQuiet
    <2> HIDE DEF h, g
    <2>3. Labels(plan.program, c, h)
      BY <1>3, <2>1, Zenon DEF Labels, KernelLabels, Calling, InKernel
    <2>4. Idle(hw[c], h, kcpu[c])
      BY <1>0, <1>2, <2>1, Zenon DEF Idle
    <2>5. Locked(plan.program, c, h, lock)
      BY <1>3, Zenon DEF Locked
    <2>6. c = 0 => BootExact(guest[0])' /\ Calm(0)
      <3> SUFFICES ASSUME c = 0 PROVE BootExact(guest[0])' /\ Calm(0)
        BY Zenon
      <3>1. BootExact(g) /\ guest'[0] = h /\ plan' = plan /\ g = guest[0]
        BY <1>0, Zenon DEF GuestInv, Executes, g, h
      <3>2. /\ ~Starting(h) /\ ~Kicking(h) /\ ~Undoing(h)
            /\ h.at \notin {"valid", "start", "stop", "stopped", "undo", "result"}
        BY <2>1, Zenon DEF Starting, Kicking, Undoing, Calling
      <3>3. Booting(h) => Booting(g)
        BY <2>1, <3>2, Zenon DEF Booting
      <3>4. BootExact(guest[0])'
        BY <1>4, <2>1, <3>1, <3>2, <3>3, Zenon DEF BootExact
      <3>5. Calm(0)
        BY <1>0, <1>1, <1>4, <2>1, <3>1, CalmBoot, Zenon DEF Calling
      <3> QED
        BY <3>4, <3>5, Zenon
    <2> QED
      BY <1>0, <1>1, <1>4, <2>1, <2>2, <2>3, <2>4, <2>5, <2>6, OwnWrites DEF h, g, GuestTypes
  <1>5. CASE c = 0 /\ guest' = [guest EXCEPT ![c].at = "stop", ![c].i = 1, ![c].bad = FALSE] /\ running' = FALSE
    <2>1. /\ guest' \in [CPUs -> GuestState] /\ \A e \in CPUs \ {c} : guest'[e] = guest[e]
          /\ h.at = "stop" /\ h.i = 1 /\ h.next = g.next /\ h.saved = g.saved /\ h.fail = g.fail
      <3>1. "stop" \in Places /\ 1 \in 0 .. Last + 1 /\ guest \in [CPUs -> GuestState]
        BY <1>0, Topology DEF GuestTypes, Places
      <3>2. Marks(c, "stop", 1, FALSE)
        BY <1>5, Zenon DEF Marks
      <3> QED
        BY <3>1, <3>2, GoesMarking, Zenon
    <2>2. OthersStay(c) /\ LockOwn(c) /\ VmQuiet
      BY <1>1, <2>1, Zenon DEF OthersStay, LockOwn, VmQuiet
    <2> HIDE DEF h, g
    <2>3. Labels(plan.program, c, h)
      BY <1>3, <1>5, <2>1, Zenon DEF Labels, KernelLabels, Calling, InKernel
    <2>4. Idle(hw[c], h, kcpu[c])
      BY <1>0, <1>2, <2>1, Zenon DEF Idle
    <2>5. Locked(plan.program, c, h, lock)
      BY <1>3, Zenon DEF Locked
    <2>6. BootExact(guest[0])' /\ Calm(0)
      <3>1. BootExact(g) /\ guest'[0] = h /\ plan' = plan /\ g = guest[0]
        BY <1>0, <1>5, Zenon DEF GuestInv, Executes, g, h
      <3>2. ~Starting(h) /\ ~Kicking(h) /\ ~Undoing(h) /\ h.at \notin Calling /\ h.i >= 1
        BY <2>1 DEF Starting, Kicking, Undoing, Calling
      <3>3. Booting(h) => Booting(g)
        BY <2>1, <3>2, Zenon DEF Booting
      <3>4. BootExact(guest[0])'
        BY <1>5, <2>1, <3>1, <3>2, <3>3, Zenon DEF BootExact
      <3>5. Calm(0)
        BY <2>1, <3>1, CalmStop, Zenon
      <3> QED
        BY <3>4, <3>5, Zenon
    <2> QED
      BY <1>0, <1>1, <1>5, <2>1, <2>2, <2>3, <2>4, <2>5, <2>6, OwnWrites, Zenon DEF h, g, GuestTypes
  <1> QED
    BY <1>4, <1>5, Zenon DEF Task, Wakes

(* kernel_smp_ipi_interrupt counts the interrupt and publishes ONLINE.     *)
LEMMA IpiInterruptKeeps ==
    ASSUME NEW c \in CPUs, Executes(c), kernel_smp_ipi_interrupt(c)
    PROVE  GuestInv' /\ HwEffect(c)
  <1> DEFINE g == guest[c]
             h == guest'[c]
             s == IF g.saved = "wait" THEN "di" ELSE g.saved
  <1>0. GuestInv /\ GuestTypes /\ Exact(c) /\ g.at = "ipi" /\ ~hw[c].waiting
    BY Zenon DEF Executes, GuestInv, ProcExact, kernel_smp_ipi_interrupt
  <1>1. kcpu' = [kcpu EXCEPT ![c].ipis = 1] /\ UNCHANGED <<hw, vm, ctl, dev, lock, running>>
    BY Zenon DEF kernel_smp_ipi_interrupt, HardwareUnchanged
  <1>2. Labels(plan.program, c, g) /\ Idle(hw[c], g, kcpu[c]) /\ Locked(plan.program, c, g, lock)
        /\ plan.program \in {"kernel", "restart"}
    BY <1>0, Zenon DEF Exact, GuestTypes
  <1>3. /\ guest' \in [CPUs -> GuestState] /\ \A e \in CPUs \ {c} : guest'[e] = guest[e]
        /\ h.at = "leave" /\ h.next = g.next /\ h.saved = s
        /\ h.fail = g.fail
    <2>1. guest \in [CPUs -> GuestState] /\ "leave" \in Places /\ s \in Places
      BY <1>0, Zenon DEF GuestTypes, Places, InKernel, GuestState
    <2>2. Saves(c, "leave", s)
      BY Zenon DEF kernel_smp_ipi_interrupt, Saves
    <2> HIDE DEF s
    <2> QED
      BY <2>1, <2>2, GoesSaving
  <1>4. /\ kcpu' \in [CPUs -> LocalState] /\ kcpu'[c].stack = kcpu[c].stack
        /\ kcpu'[c].state = kcpu[c].state /\ \A e \in CPUs \ {c} : kcpu'[e] = kcpu[e]
    BY <1>0, <1>1 DEF GuestTypes, LocalState
  <1>5. OthersStay(c) /\ LockOwn(c) /\ VmQuiet
    BY <1>1, <1>3, <1>4, Zenon DEF OthersStay, LockOwn, VmQuiet
  <1> HIDE DEF h, g
  <1>6. Labels(plan.program, c, h)
    BY <1>0, <1>2, <1>3, Zenon DEF Labels, KernelLabels, RestartLabels, Calling, InKernel
  <1>7. Idle(hw[c], h, kcpu'[c])
    BY <1>0, <1>2, <1>3, Zenon DEF Idle
  <1>8. Locked(plan.program, c, h, lock) /\ h.at \notin {"enter", "task"} \cup Calling
    BY <1>0, <1>2, <1>3, Zenon DEF Locked, Calling
  <1>9. c = 0 => BootExact(guest[0])' /\ Calm(0)
    <2>1. c = 0 => /\ guest'[0].at \notin {"start", "booted", "answered", "undo", "valid", "stop", "kick", "stopped"} \cup Calling
                   /\ guest[0].at \notin {"stop", "stopped", "undo", "end", "off"} \cup Calling
                   /\ guest'[0].fail = guest[0].fail /\ guest'[0].at # "result"
      BY <1>0, <1>3, Zenon DEF h, g, Calling
    <2> QED
      BY <1>0, <1>1, <1>3, <2>1, QuietBoot, CalmBoot, Zenon DEF Executes
  <1> QED
    BY <1>0, <1>1, <1>3, <1>4, <1>5, <1>6, <1>7, <1>8, <1>9, OwnWrites, Zenon DEF h, GuestTypes

(* kernel_smp_trap_leave releases the lock and the processor goes back to  *)
(* where it was interrupted.                                               *)
LEMMA TrapLeaveKeeps ==
    ASSUME NEW c \in CPUs, Executes(c), kernel_smp_trap_leave(c)
    PROVE  GuestInv' /\ HwEffect(c)
  <1> DEFINE g == guest[c]
             h == guest'[c]
  <1>0. GuestInv /\ GuestTypes /\ Exact(c) /\ g.at = "leave" /\ ~hw[c].waiting /\ hw[c].state = "RUNNABLE"
    BY Zenon DEF Executes, GuestInv, ProcExact, kernel_smp_trap_leave
  <1>1. /\ UNCHANGED <<vm, ctl, dev, kcpu, running>> /\ lock' = (IF lock = c THEN NoLine ELSE lock)
        /\ hw' = [hw EXCEPT ![c].ie = g.saved # "loop"]
    BY Zenon DEF kernel_smp_trap_leave
  <1>2. Labels(plan.program, c, g) /\ plan.program \in {"kernel", "restart"}
    BY <1>0, Zenon DEF Exact, GuestTypes
  <1>3. /\ guest' \in [CPUs -> GuestState] /\ \A e \in CPUs \ {c} : guest'[e] = guest[e]
        /\ h.at = g.saved /\ h.next = g.next /\ h.saved = g.saved
        /\ h.fail = g.fail
    <2>1. g.saved \in Places /\ guest \in [CPUs -> GuestState] /\ Goto(c, g.saved)
      BY <1>0, Zenon DEF GuestTypes, GuestState, Goto, kernel_smp_trap_leave
    <2> QED
      BY <2>1, Goes, Zenon DEF Goto
  <1>4. /\ hw' \in [CPUs -> HwState] /\ (\A e \in CPUs \ {c} : hw'[e] = hw[e])
        /\ hw'[c].state = "RUNNABLE" /\ ~hw'[c].waiting /\ hw'[c].ie = (g.saved # "loop")
        /\ hw'[c].stop = hw[c].stop /\ hw'[c].halted = hw[c].halted
    BY <1>0, <1>1, ZenonT(30) DEF GuestTypes, HwState
  <1>5. OthersStay(c) /\ LockOwn(c) /\ VmQuiet
    BY <1>1, <1>3, <1>4, Zenon DEF OthersStay, LockOwn, VmQuiet
  <1> HIDE DEF h, g
  <1>6. /\ plan.program = "kernel" /\ h.at = h.saved /\ (c = 0 => h.at = "user") /\ (c # 0 => h.at \in {"loop", "di"})
        /\ h.next = g.next
    BY <1>0, <1>2, <1>3, Zenon DEF Labels, KernelLabels, RestartLabels, Calling, InKernel
  <1>7. Labels(plan.program, c, h)
    BY <1>0, <1>2, <1>6, Zenon DEF Labels, KernelLabels, Calling, InKernel
  <1>8. Idle(hw'[c], h, kcpu[c])
    BY <1>3, <1>4, <1>6, Zenon DEF Idle
  <1>9. Locked(plan.program, c, h, lock') /\ h.at \notin {"enter", "task"} \cup Calling
    BY <1>6, Zenon DEF Locked, Calling
  <1>10. c = 0 => BootExact(guest[0])' /\ Calm(0)
    <2>1. c = 0 => /\ guest'[0].at \notin {"start", "booted", "answered", "undo", "valid", "stop", "kick", "stopped"} \cup Calling
                   /\ guest[0].at \notin {"stop", "stopped", "undo", "end", "off"} \cup Calling
                   /\ guest'[0].fail = guest[0].fail /\ guest'[0].at # "result"
      BY <1>0, <1>3, <1>6, Zenon DEF h, g, Calling
    <2> QED
      BY <1>0, <1>1, <1>3, <1>4, <2>1, QuietBoot, CalmBoot, Zenon DEF Executes
  <1> QED
    BY <1>0, <1>1, <1>3, <1>4, <1>5, <1>7, <1>8, <1>9, <1>10, OwnWrites DEF h, GuestTypes

(* Setting the halted flag of one processor leaves the rest of the         *)
(* hardware alone.                                                         *)
LEMMA Halts ==
    ASSUME hw \in [CPUs -> HwState], NEW c \in CPUs, hw' = [hw EXCEPT ![c].halted = TRUE] \/ hw' = hw
    PROVE  /\ hw' \in [CPUs -> HwState] /\ (\A e \in CPUs \ {c} : hw'[e] = hw[e])
           /\ hw'[c].state = hw[c].state /\ hw'[c].waiting = hw[c].waiting /\ hw'[c].ie = hw[c].ie
           /\ hw'[c].stop = hw[c].stop
  <1>1. CASE hw' = [hw EXCEPT ![c].halted = TRUE]
    BY <1>1, Zenon DEF HwState
  <1>2. CASE hw' = hw
    BY <1>2, Zenon
  <1> QED
    BY <1>1, <1>2, Zenon

(* vm_request_system_action records the action and stops every host        *)
(* thread.                                                                 *)
LEMMA SystemActionKeeps ==
    ASSUME NEW c \in CPUs, Executes(c), vm_request_system_action(c)
    PROVE  GuestInv' /\ HwEffect(c)
  <1> DEFINE g == guest[c]
             h == guest'[c]
  <1>0. GuestInv /\ GuestTypes /\ Exact(c) /\ g.at = "end" /\ ~hw[c].waiting
    BY Zenon DEF Executes, GuestInv, ProcExact, vm_request_system_action
  <1>1. /\ UNCHANGED <<ctl, dev, kcpu, running>> /\ lock' = (IF lock = c THEN NoLine ELSE lock)
        /\ \/ hw' = [hw EXCEPT ![c].halted = TRUE] /\ UNCHANGED vm
           \/ plan.end # "HALT" /\ vm.action = "NONE" /\ vm' = [vm EXCEPT !.action = plan.end, !.stop = TRUE]
              /\ UNCHANGED hw
           \/ UNCHANGED <<hw, vm>>
    BY Zenon DEF vm_request_system_action
  <1>2. /\ Labels(plan.program, c, g) /\ Idle(hw[c], g, kcpu[c])
        /\ plan.program \in {"kernel", "restart"} /\ plan.end \in {"HALT", "SHUTDOWN", "WARM_RESET"}
    BY <1>0, Zenon DEF Exact, GuestTypes
  <1>3. /\ guest' \in [CPUs -> GuestState] /\ \A e \in CPUs \ {c} : guest'[e] = guest[e]
        /\ h.at = "off" /\ h.next = g.next /\ h.saved = g.saved
        /\ h.fail = g.fail
    BY <1>0, Goes, ZenonT(30) DEF vm_request_system_action, Goto, GuestTypes, Places
  <1>4. /\ hw' \in [CPUs -> HwState] /\ (\A e \in CPUs \ {c} : hw'[e] = hw[e])
        /\ hw'[c].state = hw[c].state /\ hw'[c].waiting = hw[c].waiting /\ hw'[c].ie = hw[c].ie
        /\ hw'[c].stop = hw[c].stop
    <2>1. hw \in [CPUs -> HwState] /\ (hw' = [hw EXCEPT ![c].halted = TRUE] \/ hw' = hw)
      BY <1>0, <1>1, Zenon DEF GuestTypes
    <2> QED
      BY <2>1, Halts, Zenon
  <1>5. vm' \in VmState /\ VmQuiet
    <2>1. vm \in VmState
      BY <1>0, Zenon DEF GuestTypes
    <2>2. CASE UNCHANGED vm
      BY <2>1, <2>2, Zenon DEF VmQuiet
    <2>3. CASE plan.end # "HALT" /\ vm' = [vm EXCEPT !.action = plan.end, !.stop = TRUE]
      <3>1. plan.end \in {"NONE", "WARM_RESET", "SHUTDOWN"} /\ plan.end # "NONE"
        BY <1>2, <2>3, Zenon
      <3>2. vm' \in VmState /\ vm'.active = vm.active /\ vm'.action = plan.end
        BY <2>1, <2>3, <3>1, Zenon DEF VmState
      <3> QED
        BY <3>1, <3>2, Zenon DEF VmQuiet
    <2> QED
      BY <1>1, <2>2, <2>3, Zenon
  <1>6. OthersStay(c) /\ LockOwn(c)
    BY <1>1, <1>3, <1>4, Zenon DEF OthersStay, LockOwn
  <1> HIDE DEF h, g
  <1>7. Labels(plan.program, c, h)
    BY <1>0, <1>2, <1>3, Zenon DEF Labels, KernelLabels, RestartLabels, Calling, InKernel
  <1>8. Idle(hw'[c], h, kcpu[c])
    BY <1>0, <1>2, <1>3, <1>4, Zenon DEF Idle
  <1>9. Locked(plan.program, c, h, lock') /\ h.at \notin {"enter", "task"} \cup Calling
    BY <1>3, Zenon DEF Locked, Calling
  <1>10. c = 0 => BootExact(guest[0])' /\ Calm(0)
    <2>1. c = 0 => /\ guest'[0].at \notin {"start", "booted", "answered", "undo", "valid", "stop", "kick", "stopped"} \cup Calling
                   /\ guest'[0].at = "off" /\ guest'[0].fail = guest[0].fail
      BY <1>3, Zenon DEF h, g, Calling
    <2> QED
      BY <1>0, <1>1, <1>3, <2>1, QuietBoot, CalmStop, Zenon DEF Executes
  <1>11. c # 0 /\ plan.program = "kernel" => FALSE
    BY <1>0, <1>2, Zenon DEF Labels, KernelLabels, Calling, InKernel
  <1> QED
    BY <1>0, <1>1, <1>3, <1>4, <1>5, <1>6, <1>7, <1>8, <1>9, <1>10, <1>11, OwnWrites DEF h, GuestTypes

(* A secondary of the restart test does its work and halts. *)
LEMMA WorkKeeps ==
    ASSUME NEW c \in CPUs, Executes(c), Work(c)
    PROVE  GuestInv' /\ HwEffect(c)
  <1> DEFINE g == guest[c]
             h == guest'[c]
  <1>0. GuestInv /\ GuestTypes /\ Exact(c) /\ g.at \in {"work", "halt"} /\ ~hw[c].waiting
    BY Zenon DEF Executes, GuestInv, ProcExact, Work
  <1>1. UNCHANGED <<vm, ctl, dev, kcpu, lock, running>>
    BY Zenon DEF Work
  <1>2. /\ Labels(plan.program, c, g) /\ Idle(hw[c], g, kcpu[c]) /\ plan.program \in {"kernel", "restart"}
    BY <1>0, Zenon DEF Exact, GuestTypes
  <1>3. /\ guest' \in [CPUs -> GuestState] /\ \A e \in CPUs \ {c} : guest'[e] = guest[e]
        /\ h.at \in {"work", "halt"} /\ h.next = g.next /\ h.saved = g.saved /\ h.bad = g.bad /\ h.fail = g.fail
    <2>1. "halt" \in Places /\ guest \in [CPUs -> GuestState]
      BY <1>0, Zenon DEF GuestTypes, Places
    <2>2. CASE Goto(c, "halt")
      BY <2>1, <2>2, Goes, Zenon DEF Goto
    <2>3. CASE UNCHANGED guest
      BY <1>0, <2>1, <2>3, Zenon
    <2> QED
      BY <2>2, <2>3, Zenon DEF Work
  <1>4. /\ hw' \in [CPUs -> HwState] /\ (\A e \in CPUs \ {c} : hw'[e] = hw[e])
        /\ hw'[c].state = hw[c].state /\ hw'[c].waiting = hw[c].waiting /\ hw'[c].ie = hw[c].ie
        /\ hw'[c].stop = hw[c].stop
    <2>1. hw \in [CPUs -> HwState] /\ (hw' = [hw EXCEPT ![c].halted = TRUE] \/ hw' = hw)
      BY <1>0, Zenon DEF GuestTypes, Work
    <2> QED
      BY <2>1, Halts, Zenon
  <1>5. OthersStay(c) /\ LockOwn(c) /\ VmQuiet
    BY <1>1, <1>3, <1>4, Zenon DEF OthersStay, LockOwn, VmQuiet
  <1> HIDE DEF h, g
  <1>6. Labels(plan.program, c, h) /\ c # 0 /\ plan.program # "kernel"
    BY <1>0, <1>2, <1>3, Zenon DEF Labels, KernelLabels, RestartLabels, Calling, InKernel
  <1>7. Idle(hw'[c], h, kcpu[c])
    BY <1>0, <1>2, <1>3, <1>4, Zenon DEF Idle
  <1>8. Locked(plan.program, c, h, lock') /\ h.at \notin {"enter", "task"} \cup Calling
    BY <1>3, Zenon DEF Locked, Calling
  <1> QED
    BY <1>0, <1>1, <1>3, <1>4, <1>5, <1>6, <1>7, <1>8, OwnWrites, Zenon DEF h, GuestTypes

(* A user task on the bootstrap processor traps. *)
LEMMA UserTrapKeeps ==
    ASSUME Executes(0), UserTrap
    PROVE  GuestInv' /\ HwEffect(0)
  <1> DEFINE g == guest[0]
             h == guest'[0]
  <1>0. /\ GuestInv /\ GuestTypes /\ Exact(0) /\ g.at = "user" /\ ~hw[0].waiting
        /\ hw[0].state = "RUNNABLE" /\ 0 \in CPUs
    BY Topology, Zenon DEF Executes, GuestInv, ProcExact, UserTrap
  <1>1. UNCHANGED <<vm, ctl, dev, kcpu, lock, running>> /\ hw' = [hw EXCEPT ![0].ie = FALSE]
    BY Zenon DEF UserTrap
  <1>2. Labels(plan.program, 0, g) /\ plan.program \in {"kernel", "restart"}
    BY <1>0, Zenon DEF Exact, GuestTypes
  <1>3. /\ guest' \in [CPUs -> GuestState] /\ \A e \in CPUs \ {0} : guest'[e] = guest[e]
        /\ h.at = "enter" /\ h.next = g.next /\ h.saved = "user"
        /\ h.fail = g.fail
    <2>1. "enter" \in Places /\ "user" \in Places /\ guest \in [CPUs -> GuestState]
      BY <1>0, Zenon DEF GuestTypes, Places, InKernel
    <2>2. Saves(0, "enter", "user")
      BY Zenon DEF UserTrap, Saves
    <2> QED
      BY <1>0, <2>1, <2>2, GoesSaving, Zenon
  <1>4. /\ hw' \in [CPUs -> HwState] /\ (\A e \in CPUs \ {0} : hw'[e] = hw[e])
        /\ hw'[0].state = "RUNNABLE" /\ ~hw'[0].waiting /\ ~hw'[0].ie
        /\ hw'[0].stop = hw[0].stop /\ hw'[0].halted = hw[0].halted
    BY <1>0, <1>1, Zenon DEF GuestTypes, HwState
  <1>5. OthersStay(0) /\ LockOwn(0) /\ VmQuiet
    BY <1>1, <1>3, <1>4, Zenon DEF OthersStay, LockOwn, VmQuiet
  <1> HIDE DEF h, g
  <1>6. Labels(plan.program, 0, h)
    BY <1>0, <1>2, <1>3, Zenon DEF Labels, KernelLabels, RestartLabels, Calling, InKernel
  <1>7. Idle(hw'[0], h, kcpu[0])
    BY <1>3, <1>4, Zenon DEF Idle
  <1>8. Locked(plan.program, 0, h, lock)
    BY <1>3, Zenon DEF Locked, Calling
  <1>9. BootExact(guest[0])' /\ Calm(0)
    <2>1. /\ guest'[0].at \notin {"start", "booted", "answered", "undo", "valid", "stop", "kick", "stopped"} \cup Calling
          /\ guest[0].at \notin {"stop", "stopped", "undo", "end", "off"} \cup Calling
          /\ guest'[0].fail = guest[0].fail /\ guest'[0].at # "result"
      BY <1>0, <1>3, Zenon DEF h, g, Calling
    <2> QED
      BY <1>0, <1>1, <1>3, <1>4, <2>1, QuietBoot, CalmBoot, Zenon DEF Executes
  <1> QED
    BY <1>0, <1>1, <1>3, <1>4, <1>5, <1>6, <1>7, <1>8, <1>9, OwnWrites, Zenon DEF h, GuestTypes

(* kernel_smp_kick_secondaries interrupts each secondary in turn.          *)
LEMMA KickKeeps ==
    ASSUME Executes(0), kernel_smp_kick_secondaries
    PROVE  GuestInv' /\ HwEffect(0)
  <1> DEFINE g == guest[0]
             h == guest'[0]
             j == g.i + 1
             n == [g EXCEPT !.at = "core", !.cmd = "IPI", !.to = g.i, !.next = "kick", !.i = j]
  <1>0. /\ GuestInv /\ GuestTypes /\ Exact(0) /\ BootExact(g) /\ g.at = "kick" /\ ~hw[0].waiting
        /\ hw[0].state = "RUNNABLE" /\ 0 \in CPUs /\ g \in GuestState /\ CPUs = 0 .. Last /\ Last \in Nat
    BY Topology, Zenon DEF Executes, GuestInv, GuestTypes, ProcExact, kernel_smp_kick_secondaries
  <1>1. UNCHANGED <<vm, ctl, dev, kcpu, lock>> /\ plan' = plan
    BY Zenon DEF kernel_smp_kick_secondaries, Executes
  <1>2. Labels(plan.program, 0, g) /\ Idle(hw[0], g, kcpu[0]) /\ plan.program \in {"kernel", "restart"}
    BY <1>0, Zenon DEF Exact, GuestTypes
  <1>3. plan.program = "kernel" /\ g.i >= 1 /\ g.i \in 0 .. Last + 1 /\ g.saved \in {"off", "user"}
        /\ g.next \in {"off", "booted", "answered", "kick", "leave", "stopped", "undo"}
    <2>1. /\ plan.program = "kernel" /\ g.saved \in {"off", "user"}
          /\ g.next \in {"off", "booted", "answered", "kick", "leave", "stopped", "undo"}
      BY <1>0, <1>2, Zenon DEF Labels, KernelLabels, RestartLabels, Calling
    <2> QED
      BY <1>0, <2>1, Zenon DEF BootExact, GuestState, Kicking
  <1>b. Kicking(g) /\ ~g.bad /\ g.fail = "none" /\ running
    <2>1. Kicking(g)
      BY <1>0, Zenon DEF Kicking
    <2> QED
      BY <1>0, <1>3, <2>1, Zenon DEF BootExact
  <1>4. CASE guest' = [guest EXCEPT ![0].at = "user"] /\ hw' = [hw EXCEPT ![0].ie = TRUE] /\ running' = running
    <2>1. /\ guest' \in [CPUs -> GuestState] /\ \A e \in CPUs \ {0} : guest'[e] = guest[e]
          /\ h.at = "user" /\ h.next = g.next /\ h.saved = g.saved
          /\ h.fail = g.fail
      BY <1>0, <1>4, Goes, ZenonT(30) DEF GuestTypes, Places
    <2>2. /\ hw' \in [CPUs -> HwState] /\ (\A e \in CPUs \ {0} : hw'[e] = hw[e])
          /\ hw'[0].state = "RUNNABLE" /\ ~hw'[0].waiting
          /\ hw'[0].stop = hw[0].stop /\ hw'[0].halted = hw[0].halted
      BY <1>0, <1>4, ZenonT(30) DEF GuestTypes, HwState
    <2>3. OthersStay(0) /\ LockOwn(0) /\ VmQuiet
      BY <1>1, <2>1, <2>2, Zenon DEF OthersStay, LockOwn, VmQuiet
    <2> HIDE DEF h, g
    <2>4. Labels(plan.program, 0, h)
      BY <1>3, <2>1, Zenon DEF Labels, KernelLabels, Calling, InKernel
    <2>5. Idle(hw'[0], h, kcpu[0])
      BY <2>1, <2>2, Zenon DEF Idle
    <2>6. Locked(plan.program, 0, h, lock)
      BY <2>1, Zenon DEF Locked, Calling
    <2>7. BootExact(guest[0])' /\ Calm(0)
      <3>1. /\ guest'[0].at \notin {"start", "booted", "answered", "undo", "valid", "stop", "kick", "stopped"} \cup Calling
            /\ guest[0].at \notin {"stop", "stopped", "undo", "end", "off"} \cup Calling
            /\ guest'[0].fail = guest[0].fail /\ guest'[0].at # "result"
        BY <1>0, <2>1, Zenon DEF h, g, Calling
      <3> QED
        BY <1>0, <1>1, <1>4, <2>1, <2>2, <3>1, QuietBoot, CalmBoot, Zenon
    <2> QED
      BY <1>0, <1>1, <1>4, <2>1, <2>2, <2>3, <2>4, <2>5, <2>6, <2>7, OwnWrites, ZenonT(30) DEF h, GuestTypes
  <1>5. CASE g.i <= Last /\ guest' = [guest EXCEPT ![0] = n] /\ UNCHANGED <<hw, running>>
    <2>0. j \in 0 .. Last + 1 /\ j >= 1 /\ g.i \in CPUs /\ "core" \in Places /\ "kick" \in Places /\ "IPI" \in Commands
      BY <1>0, <1>3, <1>5 DEF Places, Calling, Commands
    <2>1. /\ n \in GuestState /\ n.at = "core" /\ n.cmd = "IPI" /\ n.next = "kick" /\ n.i = j /\ n.saved = g.saved
          /\ n.bad = g.bad /\ n.fail = g.fail
      <3> DEFINE gi == g.i
      <3>1. gi \in CPUs
        BY <2>0, Zenon
      <3> HIDE DEF j, gi, g
      <3>2. n = [g EXCEPT !.at = "core", !.cmd = "IPI", !.to = gi, !.next = "kick", !.i = j]
        BY Zenon DEF gi
      <3> QED
        BY <1>0, <2>0, <3>1, <3>2, Zenon DEF GuestState
    <2> HIDE DEF n
    <2>2. guest' \in [CPUs -> GuestState] /\ (\A e \in CPUs \ {0} : guest'[e] = guest[e]) /\ h = n
      BY <1>0, <1>5, <2>1, Zenon DEF GuestTypes
    <2>3. OthersStay(0) /\ LockOwn(0) /\ VmQuiet
      BY <1>1, <1>5, <2>2, Zenon DEF OthersStay, LockOwn, VmQuiet
    <2> HIDE DEF h, g, j
    <2>4. Labels(plan.program, 0, h)
      BY <1>3, <2>1, <2>2, Zenon DEF Labels, KernelLabels, Calling, InKernel
    <2>5. Idle(hw[0], h, kcpu[0])
      BY <1>0, <1>2, <2>1, <2>2, Zenon DEF Idle, Live
    <2>6. Locked(plan.program, 0, h, lock)
      BY <2>1, <2>2, Zenon DEF Locked, Calling
    <2>7. BootExact(guest[0])' /\ Calm(0)
      <3>1. guest'[0] = h /\ g = guest[0]
        BY Zenon DEF h, g
      <3>2. ~Starting(h) /\ ~Booting(h) /\ ~Undoing(h) /\ h.at \notin {"valid", "start", "stop", "stopped", "undo", "result"}
        BY <1>b, <2>1, <2>2, Zenon DEF Starting, Booting, Undoing, Calling
      <3>3. BootExact(guest[0])'
        BY <1>5, <1>b, <2>0, <2>1, <2>2, <3>1, <3>2, Zenon DEF BootExact
      <3>4. Calm(0)
        BY <1>0, <1>5, <2>1, <2>2, <3>1, CalmBoot, Zenon DEF Calling
      <3> QED
        BY <3>3, <3>4, Zenon
    <2> QED
      BY <1>0, <1>1, <1>5, <2>2, <2>3, <2>4, <2>5, <2>6, <2>7, OwnWrites, ZenonT(30) DEF h, GuestTypes
  <1> QED
    <2>1. CASE ~(g.i <= Last)
      BY <1>4, <1>b, <2>1, Zenon DEF kernel_smp_kick_secondaries
    <2>2. CASE g.i <= Last
      <3>1. guest' = [guest EXCEPT ![0] = n] /\ UNCHANGED <<hw, running>>
        BY <2>2, Zenon DEF kernel_smp_kick_secondaries
      <3> QED
        BY <1>5, <2>2, <3>1, Zenon
    <2> QED
      BY <2>1, <2>2, Zenon

(* kernel_smp_runtime_valid looks at the records of all processors before  *)
(* the runtime starts.                                                     *)
LEMMA RuntimeValidKeeps ==
    ASSUME Executes(0), kernel_smp_runtime_valid
    PROVE  GuestInv' /\ HwEffect(0)
  <1> DEFINE g == guest[0]
             h == guest'[0]
  <1>0. /\ GuestInv /\ GuestTypes /\ Exact(0) /\ BootExact(g) /\ g.at = "valid" /\ ~hw[0].waiting
        /\ hw[0].state = "RUNNABLE" /\ 0 \in CPUs
    BY Topology, Zenon DEF Executes, GuestInv, ProcExact, kernel_smp_runtime_valid
  <1>1. UNCHANGED <<dev, kcpu, lock>>
    BY Zenon DEF kernel_smp_runtime_valid
  <1>a. Labels(plan.program, 0, g) /\ Idle(hw[0], g, kcpu[0]) /\ plan.program \in {"kernel", "restart"}
    BY <1>0, Zenon DEF Exact, GuestTypes
  <1>b. plan.program = "kernel" /\ Booting(g) /\ g.at \notin {"user", "wait", "di"} \cup InKernel \cup Calling
    BY <1>0, <1>a, Zenon DEF Labels, RestartLabels, Booting, Calling, InKernel
  <1>c. g.i >= 1 /\ g.fail = "none" /\ ~g.bad
    BY <1>0, <1>b, Zenon DEF BootExact
  <1>2. CASE UNCHANGED running /\ GiveUp("main") /\ HardwareUnchanged
    BY <1>0, <1>1, <1>2, <1>b, GiveUpKeeps, Zenon
  <1>3. CASE /\ running' = TRUE /\ Goto(0, "kick") /\ HardwareUnchanged
             /\ \A c \in CPUs \ {0} : kcpu[c].state \in {"ONLINE", "WAITING"}
    <2>2. /\ guest' \in [CPUs -> GuestState] /\ \A e \in CPUs \ {0} : guest'[e] = guest[e]
          /\ h.at = "kick" /\ h.next = g.next /\ h.saved = g.saved /\ h.i = g.i
          /\ h.bad = g.bad /\ h.fail = g.fail
      BY <1>0, <1>3, Goes, ZenonT(30) DEF Goto, GuestTypes, Places
    <2>3. UNCHANGED <<hw, vm, ctl>>
      BY <1>3, Zenon DEF HardwareUnchanged
    <2>4. OthersStay(0) /\ LockOwn(0) /\ VmQuiet
      BY <1>1, <2>2, <2>3, Zenon DEF OthersStay, LockOwn, VmQuiet
    <2> HIDE DEF h, g
    <2>5. Labels(plan.program, 0, h)
      BY <1>0, <1>a, <2>2, Zenon DEF Labels, KernelLabels, RestartLabels, Calling, InKernel
    <2>6. Idle(hw[0], h, kcpu[0])
      BY <1>0, <1>a, <2>2, Zenon DEF Idle
    <2>7. Locked(plan.program, 0, h, lock)
      BY <2>2, Zenon DEF Locked, Calling
    <2>8. BootExact(guest[0])' /\ Calm(0)
      <3>1. guest'[0] = h /\ g = guest[0] /\ plan' = plan
        BY Zenon DEF h, g, Executes
      <3>2. ~Starting(h) /\ ~Booting(h) /\ ~Undoing(h) /\ h.at \notin {"valid", "start", "stop", "stopped", "undo"} \cup Calling
        BY <1>c, <2>2, Zenon DEF Starting, Booting, Undoing, Calling
      <3>3. BootExact(guest[0])'
        BY <1>3, <1>c, <2>2, <3>1, <3>2, Zenon DEF BootExact
      <3>4. Quiet(guest[0])
        BY <1>0, <1>c, <3>1, Zenon DEF Quiet, Calling
      <3>5. Calm(0)
        BY <1>3, <2>2, <2>3, <3>1, <3>4, Zenon DEF Calm
      <3> QED
        BY <3>3, <3>5, Zenon
    <2> QED
      BY <1>0, <1>1, <1>3, <2>2, <2>3, <2>4, <2>5, <2>6, <2>7, <2>8, OwnWrites, ZenonT(30) DEF h, GuestTypes
  <1> QED
    BY <1>2, <1>3, Zenon DEF kernel_smp_runtime_valid

(* kernel_smp_shutdown_secondary stops the secondaries in turn. *)
LEMMA ShutdownKeeps ==
    ASSUME Executes(0), kernel_smp_shutdown_secondary
    PROVE  GuestInv' /\ HwEffect(0)
  <1> DEFINE g == guest[0]
             h == guest'[0]
  <1>0. /\ GuestInv /\ GuestTypes /\ Exact(0) /\ BootExact(g) /\ g.at = "stop"
        /\ 0 \in CPUs /\ g \in GuestState /\ CPUs = 0 .. Last /\ Last \in Nat
    BY Topology, Zenon DEF Executes, GuestInv, GuestTypes, ProcExact, kernel_smp_shutdown_secondary
  <1>1. HardwareUnchanged /\ UNCHANGED <<dev, kcpu, lock, running>>
    BY Zenon DEF kernel_smp_shutdown_secondary
  <1>2. Labels(plan.program, 0, g) /\ Locked(plan.program, 0, g, lock) /\ plan.program \in {"kernel", "restart"}
    BY <1>0, Zenon DEF Exact, GuestTypes
  <1>3. /\ plan.program = "kernel" /\ g.i >= 1 /\ g.i \in 0 .. Last + 1 /\ g.saved \in {"off", "user"}
        /\ g.fail = "none" => lock = 0
        /\ g.next \in {"off", "booted", "answered", "kick", "leave", "stopped", "undo"}
    BY <1>0, <1>2, Zenon DEF Labels, KernelLabels, RestartLabels, Calling, BootExact, GuestState, Locked
  <1>a. g.at \notin {"user", "wait", "di"} \cup InKernel \cup Calling
    BY <1>0, Zenon DEF Calling, InKernel
  <1>4. CASE Goto(0, "end")
    <2>1. /\ guest' \in [CPUs -> GuestState] /\ \A e \in CPUs \ {0} : guest'[e] = guest[e]
          /\ h.at = "end" /\ h.next = g.next /\ h.saved = g.saved /\ h.fail = g.fail
      BY <1>0, <1>4, Goes, Zenon DEF GuestTypes, Places, Goto
    <2> HIDE DEF h, g
    <2>2. Labels(plan.program, 0, h)
      BY <1>3, <2>1, Zenon DEF Labels, KernelLabels, Calling, InKernel
    <2>3. Locked(plan.program, 0, h, lock)
      BY <1>3, <2>1, Zenon DEF Locked, Calling
    <2>4. BootExact(guest[0])' /\ Calm(0)
      <3>1. /\ guest'[0].at \notin {"start", "booted", "answered", "undo", "valid", "stop", "kick", "stopped"} \cup Calling
            /\ guest'[0].fail = guest[0].fail /\ guest'[0].at = "end"
        BY <2>1, Zenon DEF h, g, Calling
      <3> QED
        BY <1>0, <1>1, <2>1, <3>1, QuietBoot, CalmStop, Zenon DEF Executes
    <2> QED
      BY <1>0, <1>1, <2>1, <2>2, <2>3, <2>4, BootStep, Zenon DEF h, g
  <1>5. CASE g.i <= Last /\ Call(0, "STOP", g.i, "stopped")
    <2>0. g.i \in CPUs /\ g.i \in 1 .. Last
      BY <1>0, <1>3, <1>5
    <2>1. /\ guest' \in [CPUs -> GuestState] /\ \A e \in CPUs \ {0} : guest'[e] = guest[e]
          /\ h.at = "core" /\ h.cmd = "STOP" /\ h.to = g.i /\ h.i = g.i /\ h.next = "stopped" /\ h.saved = g.saved
          /\ h.fail = g.fail
      <3>1. "stopped" \in Places /\ "STOP" \in Commands /\ guest \in [CPUs -> GuestState]
        BY <1>0, Zenon DEF GuestTypes, Places, Commands
      <3> QED
        BY <1>0, <1>5, <2>0, <3>1, Calls
    <2> HIDE DEF h, g
    <2>2. Labels(plan.program, 0, h)
      BY <1>3, <2>1, Zenon DEF Labels, KernelLabels, Calling, InKernel
    <2>3. Locked(plan.program, 0, h, lock)
      BY <1>3, <2>1, Zenon DEF Locked, Calling
    <2>4. BootExact(guest[0])' /\ Calm(0)
      <3>1. guest'[0] = h /\ plan' = plan
        BY Zenon DEF h, Executes
      <3>2. ~Starting(h) /\ ~Kicking(h) /\ ~Undoing(h) /\ h.at \notin {"valid", "start", "stop", "stopped", "undo", "command", "result"}
        BY <2>1, Zenon DEF Starting, Kicking, Undoing, Calling
      <3>3. Booting(h) => Booting(g)
        BY <2>1, <3>2, Zenon DEF Booting
      <3>4. BootExact(guest[0])'
        BY <1>0, <1>1, <1>3, <2>0, <2>1, <3>1, <3>2, <3>3, Zenon DEF BootExact
      <3> QED
        BY <2>1, <3>1, <3>4, CalmStop, Zenon
    <2> QED
      BY <1>0, <1>1, <2>1, <2>2, <2>3, <2>4, BootStep, Zenon DEF h, g
  <1>6. CASE g.fail = "bootstrap" /\ GiveUp("main")
    <2>1. Booting(g)
      BY <1>6, Zenon DEF Booting
    <2> QED
      BY <1>1, <1>3, <1>6, <1>a, <2>1, GiveUpKeeps, Zenon
  <1>7. CASE g.i <= Last /\ guest' = [guest EXCEPT ![0].i = g.i + 1]
    <2> DEFINE j == g.i + 1
    <2>0. j \in 0 .. Last + 1 /\ j >= 1
      BY <1>0, <1>3, <1>7
    <2>1. /\ guest' \in [CPUs -> GuestState] /\ \A e \in CPUs \ {0} : guest'[e] = guest[e]
          /\ h.at = "stop" /\ h.next = g.next /\ h.i = j /\ h.saved = g.saved /\ h.fail = g.fail
      <3> DEFINE n == [g EXCEPT !.i = j]
      <3>1. guest' = [guest EXCEPT ![0] = n] /\ guest \in [CPUs -> GuestState]
        BY <1>0, <1>7, Zenon DEF GuestTypes
      <3> HIDE DEF j
      <3>2. n \in GuestState /\ n.at = "stop" /\ n.next = g.next /\ n.i = j /\ n.saved = g.saved /\ n.fail = g.fail
        BY <1>0, <2>0, Zenon DEF GuestState
      <3> HIDE DEF n
      <3> QED
        BY <1>0, <3>1, <3>2, Zenon
    <2> HIDE DEF h, g, j
    <2>2. Labels(plan.program, 0, h)
      BY <1>3, <2>1, Zenon DEF Labels, KernelLabels, Calling, InKernel
    <2>3. Locked(plan.program, 0, h, lock)
      BY <1>3, <2>1, Zenon DEF Locked, Calling
    <2>4. BootExact(guest[0])' /\ Calm(0)
      <3>1. guest'[0] = h /\ plan' = plan
        BY Zenon DEF h, Executes
      <3>2. ~Starting(h) /\ ~Kicking(h) /\ ~Undoing(h) /\ h.at \notin {"valid", "start", "stopped", "undo"} \cup Calling
        BY <2>1, Zenon DEF Starting, Kicking, Undoing, Calling
      <3>3. Booting(h) => Booting(g)
        BY <2>1, <3>2, Zenon DEF Booting
      <3>4. BootExact(guest[0])'
        BY <1>0, <1>1, <1>3, <2>0, <2>1, <3>1, <3>2, <3>3, Zenon DEF BootExact
      <3> QED
        BY <2>1, <3>1, <3>4, CalmStop, Zenon
    <2> QED
      BY <1>0, <1>1, <2>1, <2>2, <2>3, <2>4, BootStep, Zenon DEF h, g
  <1>8. g.i > Last \/ g.i <= Last
    BY <1>0, <1>3
  <1>9. ~(g.i > Last) => g.i <= Last
    BY <1>8, Zenon
  <1> QED
    <2>1. CASE g.i > Last
      BY <1>4, <1>6, <2>1, Zenon DEF kernel_smp_shutdown_secondary
    <2>2. CASE ~(g.i > Last)
      BY <1>5, <1>7, <1>9, <2>2, Zenon DEF kernel_smp_shutdown_secondary
    <2> QED
      BY <2>1, <2>2, Zenon

(* The restart test sends its commands one after the other. *)
LEMMA RestartKeeps ==
    ASSUME Executes(0), RestartProgram
    PROVE  GuestInv' /\ HwEffect(0)
  <1> DEFINE g == guest[0]
             h == guest'[0]
  <1>0. /\ GuestInv /\ GuestTypes /\ Exact(0) /\ g.at \in {"first", "halted", "again"}
        /\ 0 \in CPUs /\ Last \in CPUs
    BY Topology DEF Executes, GuestInv, GuestTypes, ProcExact, RestartProgram
  <1>1. HardwareUnchanged /\ UNCHANGED <<dev, kcpu, lock, running>>
    BY Zenon DEF RestartProgram
  <1>2. Labels(plan.program, 0, g) /\ plan.program \in {"kernel", "restart"}
    BY <1>0, Zenon DEF Exact, GuestTypes
  <1>3. plan.program = "restart" /\ g.saved = "off"
    BY <1>0, <1>2, Zenon DEF Labels, KernelLabels, RestartLabels, Calling, InKernel
  <1>4. ASSUME NEW cmd \in Commands, NEW next \in {"halted", "again", "end"}, Call(0, cmd, Last, next)
        PROVE  GuestInv' /\ HwEffect(0)
    <2>1. /\ guest' \in [CPUs -> GuestState] /\ \A e \in CPUs \ {0} : guest'[e] = guest[e]
          /\ h.at = "core" /\ h.cmd = cmd /\ h.next = next /\ h.saved = g.saved
      BY <1>0, <1>4, Calls DEF GuestTypes, Places
    <2> HIDE DEF h, g
    <2>2. Labels(plan.program, 0, h)
      BY <1>3, <2>1, Zenon DEF Labels, RestartLabels, Calling, InKernel
    <2>3. Locked(plan.program, 0, h, lock)
      BY <1>3, Zenon DEF Locked
    <2>4. BootExact(guest[0])' /\ Calm(0)
      BY <1>3, Zenon DEF BootExact, Executes, Calm
    <2> QED
      BY <1>0, <1>1, <2>1, <2>2, <2>3, <2>4, BootStep, ZenonT(30) DEF h, g
  <1>5. CASE UNCHANGED guest
    BY <1>0, <1>1, <1>5, Polls, Zenon
  <1>6. "START" \in Commands /\ "RESET" \in Commands
    BY Zenon DEF Commands
  <1> QED
    BY <1>4, <1>5, <1>6, Zenon DEF RestartProgram

(* smp_wait_for_target waits for the processor just started, and the boot  *)
(* goes on with the next; after the last poll the start is undone.         *)
LEMMA WaitForTargetKeeps ==
    ASSUME Executes(0), smp_wait_for_target
    PROVE  GuestInv' /\ HwEffect(0)
  <1> DEFINE g == guest[0]
             h == guest'[0]
  <1>0. /\ GuestInv /\ GuestTypes /\ Exact(0) /\ BootExact(g) /\ g.at \in {"booted", "answered"}
        /\ 0 \in CPUs /\ CPUs = 0 .. Last /\ Last \in Nat \ {0}
    BY Topology, Zenon DEF Executes, GuestInv, GuestTypes, ProcExact, smp_wait_for_target
  <1>1. HardwareUnchanged /\ UNCHANGED <<dev, kcpu, lock, running, hw>> /\ plan' = plan
    BY Zenon DEF smp_wait_for_target, HardwareUnchanged, Executes
  <1>2. Labels(plan.program, 0, g) /\ plan.program \in {"kernel", "restart"}
    BY <1>0, Zenon DEF Exact, GuestTypes
  <1>3. /\ plan.program = "kernel" /\ Starting(g) /\ Booting(g) /\ g.saved \in {"off", "user"}
        /\ g.next \in {"off", "booted", "answered", "kick", "leave", "stopped", "undo"}
    BY <1>0, <1>2, Zenon DEF Labels, KernelLabels, RestartLabels, Calling, Booting, Starting
  <1>4. /\ g.i \in 1 .. Last /\ ~running /\ g.fail = "none" /\ ~g.bad
        /\ \A c \in CPUs \ {0} : guest[c].at \notin {"enter", "task"} \cup Calling
        /\ \A c \in CPUs : c > g.i => hw[c].state = "OFFLINE"
    BY <1>0, <1>3, Zenon DEF BootExact
  <1>5. CASE Call(0, "IPI", g.i, "answered")
    <2>0. g.i \in CPUs
      BY <1>0, <1>4
    <2>1. /\ guest' \in [CPUs -> GuestState] /\ \A e \in CPUs \ {0} : guest'[e] = guest[e]
          /\ h.at = "core" /\ h.cmd = "IPI" /\ h.i = g.i /\ h.next = "answered" /\ h.saved = g.saved
          /\ h.bad = g.bad /\ h.fail = g.fail
      <3>1. "answered" \in Places /\ "IPI" \in Commands /\ guest \in [CPUs -> GuestState]
        BY <1>0, Zenon DEF GuestTypes, Places, Commands
      <3> QED
        BY <1>0, <1>5, <2>0, <3>1, Calls
    <2> HIDE DEF h, g
    <2>2. Labels(plan.program, 0, h)
      BY <1>3, <2>1, Zenon DEF Labels, KernelLabels, Calling, InKernel
    <2>3. Locked(plan.program, 0, h, lock)
      BY <2>1, Zenon DEF Locked, Calling
    <2>4. BootExact(guest[0])' /\ Calm(0)
      <3>1. guest'[0] = h /\ g = guest[0]
        BY Zenon DEF h, g
      <3>2. /\ Starting(h) /\ ~Kicking(h) /\ ~Undoing(h) /\ h.at \notin {"valid", "start", "stop", "stopped", "undo", "result"}
        BY <2>1, Zenon DEF Starting, Kicking, Undoing, Calling
      <3>3. BootExact(guest[0])'
        BY <1>1, <1>4, <2>1, <3>1, <3>2, Zenon DEF BootExact
      <3>4. Calm(0)
        BY <1>0, <1>1, <2>1, <3>1, <3>2, CalmBoot, Zenon DEF Calling
      <3> QED
        BY <3>3, <3>4, Zenon
    <2> QED
      BY <1>0, <1>1, <2>1, <2>2, <2>3, <2>4, BootStep, ZenonT(30) DEF h, g
  <1>6. CASE guest' = [guest EXCEPT ![0].at = IF g.i = Last THEN "valid" ELSE "start",
                                    ![0].i = IF g.i = Last THEN 1 ELSE g.i + 1]
    <2> DEFINE l == IF g.i = Last THEN "valid" ELSE "start"
               j == IF g.i = Last THEN 1 ELSE g.i + 1
    <2>1. /\ guest' \in [CPUs -> GuestState] /\ \A e \in CPUs \ {0} : guest'[e] = guest[e]
          /\ h.at = l /\ h.i = j /\ h.next = g.next /\ h.saved = g.saved /\ h.bad = g.bad /\ h.fail = g.fail
      <3>1. l \in Places /\ j \in 0 .. Last + 1 /\ guest \in [CPUs -> GuestState]
        BY <1>0, <1>4 DEF GuestTypes, Places
      <3>2. Counts(0, l, j)
        BY <1>6, Zenon DEF Counts
      <3> HIDE DEF l, j
      <3> QED
        BY <1>0, <3>1, <3>2, GoesCounting
    <2> HIDE DEF h, g
    <2>2. Labels(plan.program, 0, h)
      BY <1>3, <2>1, Zenon DEF Labels, KernelLabels, Calling, InKernel
    <2>3. Locked(plan.program, 0, h, lock)
      BY <2>1, Zenon DEF Locked, Calling
    <2>4. BootExact(guest[0])'
      <3>1. guest'[0] = h /\ h.i \in 1 .. Last
        BY <1>0, <1>4, <2>1 DEF h
      <3>2. h.at = "start" => h.i = g.i + 1 /\ h.i \in CPUs
        BY <1>0, <1>4, <2>1, <3>1
      <3>3. /\ h.at \in {"start", "valid"} /\ h.at \notin Calling
            /\ (Starting(h) <=> h.at = "start") /\ ~Kicking(h) /\ ~Undoing(h)
        BY <2>1, Zenon DEF Calling, Starting, Kicking, Undoing
      <3>4. \A e \in CPUs \ {0} : guest'[e].at \notin {"enter", "task"} \cup Calling
        BY <1>4, <2>1, Zenon
      <3>5. \A e \in CPUs : h.at = "start" /\ (e > h.i \/ e = h.i) => e > g.i
        BY <1>0, <1>4, <3>2
      <3>6. \A e \in CPUs : h.at = "start" /\ (e > h.i \/ e = h.i) => hw'[e].state = "OFFLINE"
        BY <1>1, <1>4, <3>5, Zenon
      <3>7. h.fail = "none" /\ ~h.bad /\ ~running' /\ h.i >= 1
        BY <1>1, <1>4, <2>1, <3>1
      <3> QED
        BY <1>1, <3>1, <3>2, <3>3, <3>4, <3>6, <3>7, Zenon DEF BootExact
    <2>5. Calm(0)
      <3>1. g = guest[0] /\ h = guest'[0] /\ h.at # "result"
        BY <2>1, Zenon DEF g, h
      <3> QED
        BY <1>0, <1>1, <2>1, <3>1, CalmBoot, Zenon DEF Calling
    <2> QED
      BY <1>0, <1>1, <2>1, <2>2, <2>3, <2>4, <2>5, BootStep, ZenonT(30) DEF h, g
  <1>7. CASE UNCHANGED guest
    BY <1>0, <1>1, <1>7, Polls, Zenon
  <1>8. CASE Call(0, "STOP", g.i, "undo")
    BY <1>0, <1>1, <1>3, <1>8, UndoKeeps, Zenon
  <1> QED
    BY <1>5, <1>6, <1>7, <1>8, Zenon DEF smp_wait_for_target

(* What is said of the others outlives a step of the boot that writes the  *)
(* record of a processor which is not running, or which is stopping.       *)
LEMMA RecordStep ==
    ASSUME Executes(0), plan.program = "kernel", NEW i \in CPUs \ {0},
           UNCHANGED <<dev, lock, running, hw, vm, ctl>>,
           guest' \in [CPUs -> GuestState], \A e \in CPUs \ {0} : guest'[e] = guest[e],
           kcpu' \in [CPUs -> LocalState], \A e \in CPUs \ {i} : kcpu'[e] = kcpu[e],
           kcpu'[i].state \notin {"ONLINE", "WAITING"},
           hw[i].state \in Live => kcpu'[i].stack = "lost" /\ hw[i].stop,
           guest[0].at \notin {"user", "wait", "di"}, guest'[0].at \notin {"ei", "wait"},
           Labels(plan.program, 0, guest'[0]), Locked(plan.program, 0, guest'[0], lock), BootExact(guest[0])',
           Calm(0)
    PROVE  GuestInv' /\ HwEffect(0)
  <1>0. /\ GuestInv /\ GuestTypes /\ ProcExact /\ StackWhileLive /\ KernelExact(guest[0]) /\ UNCHANGED <<tpc, plan>>
        /\ 0 \in CPUs /\ ~hw[0].waiting
    BY Topology, Zenon DEF Executes, GuestInv
  <1>1. GuestTypes'
    <2>1. dev' \in DevState'
      BY <1>0 DEF GuestTypes, DevState
    <2> QED
      BY <1>0, <2>1, ZenonT(30) DEF GuestTypes
  <1>2. ASSUME NEW e \in CPUs PROVE Exact(e)'
    <2>1. Exact(e)
      BY <1>0, Zenon DEF ProcExact
    <2>2. CASE e = 0
      <3>1. Idle(hw[0], guest[0], kcpu[0]) /\ kcpu'[0] = kcpu[0]
        BY <2>1, <2>2, Zenon DEF Exact
      <3>2. Idle(hw[0], guest'[0], kcpu[0])
        BY <1>0, <3>1, Zenon DEF Idle, Live
      <3> QED
        BY <1>0, <2>2, <3>1, <3>2, Zenon DEF Exact
    <2>3. CASE e = i
      <3>1. guest'[e] = guest[e] /\ Idle(hw[e], guest[e], kcpu[e])
        BY <2>1, <2>3, Zenon DEF Exact
      <3>2. Idle(hw[e], guest[e], kcpu'[e])
        BY <2>3, <3>1, Zenon DEF Idle
      <3> QED
        BY <1>0, <2>1, <3>1, <3>2, Zenon DEF Exact
    <2>4. CASE e # 0 /\ e # i
      <3>1. guest'[e] = guest[e] /\ kcpu'[e] = kcpu[e]
        BY <2>4, Zenon
      <3> QED
        BY <1>0, <2>1, <3>1, Zenon DEF Exact
    <2> QED
      BY <2>2, <2>3, <2>4, Zenon
  <1>3. StackWhileLive'
    <2> SUFFICES ASSUME NEW e \in CPUs, hw[e].state \in Live
                 PROVE  kcpu'[e].stack = "allocated" \/ (kcpu'[e].stack = "lost" /\ hw[e].stop)
      BY Zenon DEF StackWhileLive
    <2>1. CASE e = i
      BY <2>1, Zenon
    <2>2. CASE e # i
      BY <1>0, <2>2, Zenon DEF StackWhileLive
    <2> QED
      BY <2>1, <2>2, Zenon
  <1>4. KernelExact(guest[0])'
    <2>1. \A e \in CPUs \ {0} : hw[e].state = "OFFLINE" => kcpu'[e].state \notin {"ONLINE", "WAITING"}
      BY <1>0, Zenon DEF KernelExact
    <2>2. Quiet(guest'[0]) => Quiet(guest[0]) /\ (guest'[0].at = "result" => guest[0].at = "result")
      BY Zenon DEF Calm
    <2> QED
      BY <1>0, <2>1, <2>2, Zenon DEF KernelExact
  <1>5. HwEffect(0)
    BY Zenon DEF HwEffect, VmQuiet
  <1> QED
    BY <1>1, <1>2, <1>3, <1>4, <1>5, Zenon DEF GuestInv, ProcExact

(* smp_start_secondary allocates a stack for the processor and sends       *)
(* START: the stack is there before the processor executes. It gives up if *)
(* there is no memory.                                                     *)
LEMMA StartSecondaryKeeps ==
    ASSUME Executes(0), smp_start_secondary
    PROVE  GuestInv' /\ HwEffect(0)
  <1> DEFINE g == guest[0]
             h == guest'[0]
             i == g.i
             k == [state |-> "BOOTING", ipis |-> 0, stack |-> "allocated"]
  <1>0. /\ GuestInv /\ GuestTypes /\ Exact(0) /\ BootExact(g) /\ g.at = "start"
        /\ 0 \in CPUs /\ CPUs = 0 .. Last /\ Last \in Nat \ {0}
    BY Topology, Zenon DEF Executes, GuestInv, GuestTypes, ProcExact, smp_start_secondary
  <1>1. HardwareUnchanged /\ UNCHANGED <<dev, lock, running, hw, vm, ctl, tpc, plan>>
    BY Zenon DEF smp_start_secondary, HardwareUnchanged, Executes
  <1>2. Labels(plan.program, 0, g) /\ plan.program \in {"kernel", "restart"}
    BY <1>0, Zenon DEF Exact, GuestTypes
  <1>3. /\ plan.program = "kernel" /\ Starting(g) /\ Booting(g) /\ g.saved \in {"off", "user"}
        /\ g.at \notin {"user", "wait", "di"} \cup InKernel \cup Calling
    BY <1>0, <1>2, Zenon DEF Labels, KernelLabels, RestartLabels, Calling, Booting, Starting, InKernel
  <1>a. CASE GiveUp("bootstrap") /\ UNCHANGED kcpu
    BY <1>1, <1>3, <1>a, GiveUpKeeps, Zenon
  <1>b. CASE kcpu' = [kcpu EXCEPT ![i] = k] /\ Call(0, "START", i, "booted")
    <2>4. /\ i \in 1 .. Last /\ ~running /\ hw[i].state = "OFFLINE" /\ g.fail = "none" /\ ~g.bad
          /\ \A c \in CPUs \ {0} : guest[c].at \notin {"enter", "task"} \cup Calling
          /\ \A c \in CPUs : c > i => hw[c].state = "OFFLINE"
      BY <1>0, <1>3, Zenon DEF BootExact
    <2>5. i \in CPUs \ {0}
      BY <1>0, <2>4
    <2>6. /\ kcpu' \in [CPUs -> LocalState] /\ kcpu'[i].stack = "allocated" /\ kcpu'[i].state = "BOOTING"
          /\ \A e \in CPUs \ {i} : kcpu'[e] = kcpu[e]
      <3>1. k \in LocalState /\ k.stack = "allocated" /\ k.state = "BOOTING"
        BY DEF LocalState
      <3> HIDE DEF k
      <3> QED
        BY <1>0, <1>b, <2>5, <3>1, Zenon DEF GuestTypes
    <2>7. /\ guest' \in [CPUs -> GuestState] /\ \A e \in CPUs \ {0} : guest'[e] = guest[e]
          /\ h.at = "core" /\ h.cmd = "START" /\ h.to = i /\ h.i = g.i /\ h.next = "booted" /\ h.saved = g.saved
          /\ h.bad = g.bad /\ h.fail = g.fail
      <3>1. "booted" \in Places /\ "START" \in Commands /\ guest \in [CPUs -> GuestState] /\ 0 \in CPUs
        BY <1>0, Zenon DEF GuestTypes, Places, Commands
      <3> HIDE DEF i
      <3> QED
        BY <1>b, <2>5, <3>1, Calls
    <2>8. h.i = i
      BY <2>7, Zenon
    <2> HIDE DEF h, g, i, k
    <2>9. Labels(plan.program, 0, h)
      BY <1>3, <2>7, Zenon DEF Labels, KernelLabels, Calling, InKernel
    <2>10. Locked(plan.program, 0, h, lock)
      BY <2>7, Zenon DEF Locked, Calling
    <2>11. BootExact(guest[0])'
      <3>1. guest'[0] = h
        BY Zenon DEF h
      <3>2. /\ Starting(h) /\ ~Kicking(h) /\ ~Undoing(h)
            /\ h.at \notin {"valid", "start", "stop", "stopped", "undo", "command", "result"}
        BY <2>7, Zenon DEF Starting, Kicking, Undoing, Calling
      <3> QED
        BY <1>1, <2>4, <2>6, <2>7, <2>8, <3>1, <3>2, Zenon DEF BootExact
    <2>12. Calm(0)
      <3>1. g = guest[0] /\ h = guest'[0] /\ h.at # "result"
        BY <2>7, Zenon DEF g, h
      <3> QED
        BY <1>0, <1>1, <2>7, <3>1, CalmBoot, Zenon DEF Calling
    <2>13. g = guest[0] /\ h = guest'[0] /\ ~(hw[i].state \in Live)
      BY <2>4, Zenon DEF g, h, Live
    <2> QED
      BY <1>0, <1>1, <1>3, <2>5, <2>6, <2>7, <2>9, <2>10, <2>11, <2>12, <2>13, RecordStep, Zenon
  <1> QED
    BY <1>a, <1>b, Zenon DEF smp_start_secondary

(* The end of smp_start_secondary that fails: the stack is freed. If the   *)
(* processor lives, its stop has been requested.                           *)
LEMMA StartFailedKeeps ==
    ASSUME Executes(0), smp_start_failed
    PROVE  GuestInv' /\ HwEffect(0)
  <1> DEFINE g == guest[0]
             h == guest'[0]
             i == g.i
             t == IF Status = "HALTED" THEN "none" ELSE "lost"
             k == [kcpu[i] EXCEPT !.state = "STOPPED", !.stack = t]
  <1>0. /\ GuestInv /\ GuestTypes /\ Exact(0) /\ BootExact(g) /\ g.at = "undo"
        /\ 0 \in CPUs /\ CPUs = 0 .. Last /\ Last \in Nat \ {0}
    BY Topology, Zenon DEF Executes, GuestInv, GuestTypes, ProcExact, smp_start_failed
  <1>1. HardwareUnchanged /\ UNCHANGED <<dev, lock, running, hw, vm, ctl, tpc, plan>>
    BY Zenon DEF smp_start_failed, HardwareUnchanged, Executes
  <1>2. Labels(plan.program, 0, g) /\ plan.program \in {"kernel", "restart"}
    BY <1>0, Zenon DEF Exact, GuestTypes
  <1>3. /\ plan.program = "kernel" /\ Starting(g) /\ Booting(g) /\ Undoing(g)
        /\ g.at \notin {"user", "wait", "di"} \cup InKernel \cup Calling
    BY <1>0, <1>2, Zenon DEF Labels, KernelLabels, RestartLabels, Calling, Booting, Starting, Undoing, InKernel
  <1>a. CASE UNCHANGED <<guest, kcpu>>
    BY <1>0, <1>1, <1>a, Polls, Zenon
  <1>b. CASE /\ kcpu' = [kcpu EXCEPT ![i].state = "STOPPED", ![i].stack = t]
             /\ GiveUp("bootstrap")
    <2>4. /\ i \in 1 .. Last /\ dev.core = i \div tpc /\ dev.thread = i % tpc
          /\ hw[i].state \in Live => hw[i].stop
      BY <1>0, <1>3, Zenon DEF BootExact
    <2>5. i \in CPUs \ {0}
      BY <1>0, <2>4
    <2>6. Status = hw[i].state
      <3>1. tpc \in {1, Last + 1}
        BY <1>0, Zenon DEF GuestTypes
      <3>2. Logical(i \div tpc, i % tpc) = i
        BY <2>5, <3>1, Selects, Zenon
      <3> QED
        BY <2>4, <3>2, Zenon DEF Status
    <2>7. hw[i].state \in Live => t = "lost"
      BY <2>6, Zenon DEF Live
    <2>8. /\ kcpu' \in [CPUs -> LocalState] /\ kcpu'[i].stack = t /\ kcpu'[i].state = "STOPPED"
          /\ \A e \in CPUs \ {i} : kcpu'[e] = kcpu[e]
      <3>1. kcpu[i] \in LocalState /\ kcpu \in [CPUs -> LocalState] /\ t \in {"none", "lost"}
        BY <1>0, <2>5, Zenon DEF GuestTypes
      <3>2. kcpu' = [kcpu EXCEPT ![i] = k]
        BY <1>b, Zenon
      <3> HIDE DEF t
      <3>3. k \in LocalState /\ k.stack = t /\ k.state = "STOPPED"
        BY <3>1, Zenon DEF LocalState
      <3> HIDE DEF k
      <3> QED
        BY ONLY <2>5, <3>1, <3>2, <3>3, Zenon
    <2>9. /\ guest' \in [CPUs -> GuestState] /\ \A e \in CPUs \ {0} : guest'[e] = guest[e]
          /\ h.at = "stop" /\ h.next = g.next /\ h.i = 1 /\ h.saved = g.saved /\ h.fail = "bootstrap"
      <3>1. guest \in [CPUs -> GuestState] /\ GiveUp("bootstrap")
        BY <1>0, <1>b, Zenon DEF GuestTypes
      <3> QED
        BY <3>1, GoesGivingUp, Zenon
    <2>10. /\ g.next \in {"off", "booted", "answered", "kick", "leave", "stopped", "undo"}
           /\ g.saved \in {"off", "user"} /\ ~running
           /\ \A c \in CPUs \ {0} : guest[c].at \notin {"enter", "task"} \cup Calling
      BY <1>0, <1>3, BootFacts, Zenon
    <2> HIDE DEF h, g, i, t, k
    <2>11. Labels(plan.program, 0, h)
      BY <1>3, <2>9, <2>10, Zenon DEF Labels, KernelLabels, Calling, InKernel
    <2>12. Locked(plan.program, 0, h, lock)
      BY <2>9, Zenon DEF Locked, Calling
    <2>13. BootExact(guest[0])'
      <3>1. guest'[0] = h /\ ~Starting(h) /\ ~Kicking(h) /\ ~Undoing(h) /\ h.at \notin Calling
        BY <2>9, Zenon DEF h, Starting, Kicking, Undoing, Calling
      <3>2. h.i >= 1
        BY <2>9
      <3> QED
        BY <1>1, <2>9, <2>10, <3>1, <3>2, Zenon DEF BootExact
    <2>14. Calm(0)
      BY <2>9, CalmStop, Zenon DEF h
    <2>15. g = guest[0] /\ h = guest'[0] /\ (hw[i].state \in Live => kcpu'[i].stack = "lost" /\ hw[i].stop)
      BY <2>4, <2>7, <2>8, Zenon DEF g, h
    <2> QED
      BY <1>0, <1>1, <1>3, <2>5, <2>8, <2>9, <2>11, <2>12, <2>13, <2>14, <2>15, RecordStep, Zenon
  <1> QED
    BY <1>a, <1>b, Zenon DEF smp_start_failed

(* smp_wait_for_halted waits until the device reports the processor        *)
(* halted, and only then is its stack freed.                               *)
LEMMA WaitForHaltedKeeps ==
    ASSUME Executes(0), smp_wait_for_halted
    PROVE  GuestInv' /\ HwEffect(0)
  <1> DEFINE g == guest[0]
             h == guest'[0]
             i == g.i
             j == g.i + 1
             k == [kcpu[i] EXCEPT !.state = "STOPPED", !.stack = "none"]
  <1>0. /\ GuestInv /\ GuestTypes /\ Exact(0) /\ BootExact(g) /\ g.at = "stopped"
        /\ 0 \in CPUs /\ CPUs = 0 .. Last /\ Last \in Nat \ {0}
    BY Topology, Zenon DEF Executes, GuestInv, GuestTypes, ProcExact, smp_wait_for_halted
  <1>1. HardwareUnchanged /\ UNCHANGED <<dev, lock, running, hw, vm, ctl, tpc, plan>>
    BY Zenon DEF smp_wait_for_halted, HardwareUnchanged, Executes
  <1>2. /\ Labels(plan.program, 0, g) /\ Locked(plan.program, 0, g, lock)
        /\ plan.program \in {"kernel", "restart"}
    BY <1>0, Zenon DEF Exact, GuestTypes
  <1>3. /\ plan.program = "kernel" /\ g.saved \in {"off", "user"} /\ (g.fail = "none" => lock = 0)
        /\ g.next \in {"off", "booted", "answered", "kick", "leave", "stopped", "undo"}
    BY <1>0, <1>2, Zenon DEF Labels, KernelLabels, RestartLabels, Calling, Locked
  <1>a. CASE UNCHANGED <<guest, kcpu>>
    BY <1>0, <1>1, <1>a, Polls, Zenon
  <1>b. CASE UNCHANGED kcpu /\ guest' = [guest EXCEPT ![0].at = "stop", ![0].i = j, ![0].bad = TRUE]
    <2>1. Marks(0, "stop", guest[0].i + 1, TRUE)
      BY <1>b, Zenon DEF Marks
    <2> QED
      BY <1>0, <1>1, <1>3, <1>b, <2>1, StopNextKeeps, Zenon
  <1>c. CASE /\ Status = "HALTED" /\ kcpu' = [kcpu EXCEPT ![i].state = "STOPPED", ![i].stack = "none"]
             /\ guest' = [guest EXCEPT ![0].at = "stop", ![0].i = j]
    <2>4. i \in 1 .. Last /\ dev.core = i \div tpc /\ dev.thread = i % tpc
      BY <1>0, <1>3, Zenon DEF BootExact
    <2>5. i \in CPUs \ {0} /\ j \in 0 .. Last + 1 /\ j >= 1
      BY <2>4, Topology
    <2>6. hw[i].state = "HALTED"
      <3>1. tpc \in {1, Last + 1}
        BY <1>0, Zenon DEF GuestTypes
      <3>2. Logical(i \div tpc, i % tpc) = i
        BY <2>5, <3>1, Selects, Zenon
      <3> QED
        BY <1>c, <2>4, <3>2, Zenon DEF Status
    <2>8. /\ kcpu' \in [CPUs -> LocalState] /\ kcpu'[i].state = "STOPPED"
          /\ \A e \in CPUs \ {i} : kcpu'[e] = kcpu[e]
      <3>1. kcpu[i] \in LocalState /\ kcpu \in [CPUs -> LocalState]
        BY <1>0, <2>5, Zenon DEF GuestTypes
      <3>2. k \in LocalState /\ k.state = "STOPPED"
        BY <3>1, Zenon DEF LocalState
      <3>3. kcpu' = [kcpu EXCEPT ![i] = k]
        BY <1>c, Zenon
      <3> HIDE DEF k
      <3> QED
        BY ONLY <2>5, <3>1, <3>2, <3>3, Zenon
    <2>9. /\ guest' \in [CPUs -> GuestState] /\ \A e \in CPUs \ {0} : guest'[e] = guest[e]
          /\ h.at = "stop" /\ h.i = j /\ h.next = g.next /\ h.saved = g.saved /\ h.fail = g.fail
      <3>1. "stop" \in Places /\ guest \in [CPUs -> GuestState]
        BY <1>0, Zenon DEF GuestTypes, Places
      <3>2. Counts(0, "stop", j)
        BY <1>c, Zenon DEF Counts
      <3> HIDE DEF j
      <3> QED
        BY <1>0, <2>5, <3>1, <3>2, GoesCounting
    <2> HIDE DEF h, g, i, j, k
    <2>10. Labels(plan.program, 0, h)
      BY <1>3, <2>9, Zenon DEF Labels, KernelLabels, Calling, InKernel
    <2>11. Locked(plan.program, 0, h, lock)
      BY <1>3, <2>9, Zenon DEF Locked, Calling
    <2>12. BootExact(guest[0])'
      <3>1. guest'[0] = h /\ ~Starting(h) /\ ~Kicking(h) /\ ~Undoing(h) /\ h.at \notin Calling
        BY <2>9, Zenon DEF h, Starting, Kicking, Undoing, Calling
      <3>2. Booting(h) => Booting(g)
        BY <2>9, <3>1, Zenon DEF Booting
      <3> QED
        BY <1>0, <1>1, <2>5, <2>9, <3>1, <3>2, Zenon DEF BootExact
    <2>13. Calm(0)
      BY <2>9, CalmStop, Zenon DEF h
    <2>14. g = guest[0] /\ h = guest'[0] /\ ~(hw[i].state \in Live)
      BY <2>6, Zenon DEF g, h, Live
    <2> QED
      BY <1>0, <1>1, <1>3, <2>5, <2>8, <2>9, <2>10, <2>11, <2>12, <2>13, <2>14, RecordStep, Zenon
  <1> QED
    BY <1>a, <1>b, <1>c, Zenon DEF smp_wait_for_halted

(* What a command does to processor d. *)
CommandEffect(cmd, d) ==
    /\ hw' \in [CPUs -> HwState] /\ vm' \in VmState /\ ctl' \in [CPUs -> SUBSET IpiLines]
    /\ dev' \in DevState /\ dev'.core = dev.core /\ dev'.thread = dev.thread
    /\ \A e \in CPUs \ {d} : hw'[e] = hw[e]
    /\ \/ /\ vm' = vm /\ hw'[d].state = hw[d].state /\ hw'[d].waiting = hw[d].waiting /\ hw'[d].ie = hw[d].ie
          /\ hw'[d].halted = hw[d].halted /\ (hw'[d].stop = hw[d].stop \/ (cmd = "STOP" /\ hw'[d].stop))
       \/ /\ cmd = "START" /\ Starts(d) /\ ~hw'[d].waiting /\ ~hw'[d].ie /\ ~hw'[d].stop /\ ~hw'[d].halted
       \/ /\ cmd = "RESET" /\ vm' = vm /\ hw[d].state \in {"OFFLINE", "HALTED"} /\ hw'[d].state = "OFFLINE"
          /\ ~hw'[d].waiting
    /\ cmd = "STOP" /\ hw[d].state \in Live => hw'[d].stop
    /\ cmd = "IPI" /\ hw[d].state \in Live => dev'.result

(* What a command written to core control does: nothing to any other       *)
(* processor, START makes an OFFLINE processor live and counts it, RESET   *)
(* takes a halted one OFFLINE; STOP and an interrupt reach a live one.     *)
LEMMA CommandActs ==
    ASSUME GuestTypes, NEW cmd, NEW d \in CPUs, execute_command(cmd, d)
    PROVE  CommandEffect(cmd, d)
  <1>0. /\ hw \in [CPUs -> HwState] /\ vm \in VmState /\ ctl \in [CPUs -> SUBSET IpiLines] /\ dev \in DevState
        /\ hw[d] \in HwState
    BY Zenon DEF GuestTypes
  <1>1. \A r \in BOOLEAN : dev' = [dev EXCEPT !.result = r] =>
            dev' \in DevState /\ dev'.core = dev.core /\ dev'.thread = dev.thread /\ dev'.result = r
    BY <1>0, Zenon DEF DevState
  <1>2. ASSUME Fails, cmd \in {"STOP", "IPI"} => hw[d].state \notin Live PROVE CommandEffect(cmd, d)
    BY <1>0, <1>1, <1>2, Zenon DEF Fails, HardwareUnchanged, CommandEffect
  <1>3. ASSUME Succeeds PROVE dev' \in DevState /\ dev'.core = dev.core /\ dev'.thread = dev.thread /\ dev'.result
    BY <1>1, <1>3, Zenon DEF Succeeds
  <1>4. /\ NewThread \in HwState /\ NewThread.state = "OFFLINE" /\ ~NewThread.waiting /\ ~NewThread.ie
        /\ ~NewThread.stop /\ ~NewThread.halted
    BY Zenon DEF NewThread, HwState
  <1>5. CASE cmd = "START" /\ vm_activate_hardware_thread(d)
    <2>1. CASE Fails
      BY <1>2, <1>5, <2>1, Zenon
    <2>2. CASE ~Fails
      <3> DEFINE n == [NewThread EXCEPT !.state = "RUNNABLE"]
      <3>1. /\ hw[d].state = "OFFLINE" /\ ~vm.stop /\ hw' = [hw EXCEPT ![d] = n]
            /\ vm' = [vm EXCEPT !.active = @ + 1] /\ ctl' = [ctl EXCEPT ![d] = {}] /\ Succeeds
        BY <1>5, <2>2, Zenon DEF vm_activate_hardware_thread
      <3>2. n \in HwState /\ n.state = "RUNNABLE" /\ ~n.waiting /\ ~n.ie /\ ~n.stop /\ ~n.halted
        BY <1>4, Zenon DEF HwState
      <3> HIDE DEF n
      <3>3. /\ hw' \in [CPUs -> HwState] /\ (\A e \in CPUs \ {d} : hw'[e] = hw[e])
            /\ hw'[d].state = "RUNNABLE" /\ ~hw'[d].waiting /\ ~hw'[d].ie /\ ~hw'[d].stop /\ ~hw'[d].halted
        BY <1>0, <3>1, <3>2, Zenon
      <3>4. vm' \in VmState
        BY <1>0, <3>1 DEF VmState
      <3>5. ctl' \in [CPUs -> SUBSET IpiLines]
        BY <1>0, <3>1, Zenon
      <3>6. Starts(d)
        BY <3>1, <3>3, Zenon DEF Starts
      <3> QED
        BY <1>3, <1>5, <3>1, <3>3, <3>4, <3>5, <3>6, Zenon DEF CommandEffect
    <2> QED
      BY <2>1, <2>2, Zenon
  <1>6. CASE cmd = "STOP" /\ vm_request_hardware_thread_stop(d)
    <2>1. CASE hw[d].state \notin Live
      BY <1>2, <1>6, <2>1, Zenon DEF vm_request_hardware_thread_stop
    <2>2. CASE hw[d].state \in Live
      <3>1. hw' = [hw EXCEPT ![d].stop = TRUE] /\ Succeeds /\ UNCHANGED <<vm, ctl>>
        BY <1>6, <2>2, Zenon DEF vm_request_hardware_thread_stop
      <3>2. /\ hw' \in [CPUs -> HwState] /\ (\A e \in CPUs \ {d} : hw'[e] = hw[e])
            /\ hw'[d].state = hw[d].state /\ hw'[d].waiting = hw[d].waiting /\ hw'[d].ie = hw[d].ie
            /\ hw'[d].halted = hw[d].halted /\ hw'[d].stop
        BY <1>0, <3>1, Zenon DEF HwState
      <3> QED
        BY <1>0, <1>3, <1>6, <3>1, <3>2, Zenon DEF CommandEffect
    <2> QED
      BY <2>1, <2>2, Zenon
  <1>7. CASE cmd = "RESET" /\ vm_reset_hardware_thread(d)
    <2>1. CASE Fails
      BY <1>2, <1>7, <2>1, Zenon
    <2>2. CASE ~Fails
      <3>1. /\ hw' = [hw EXCEPT ![d] = NewThread] /\ Succeeds /\ UNCHANGED vm /\ ctl' = [ctl EXCEPT ![d] = {}]
            /\ hw[d].state \in {"OFFLINE", "HALTED"}
        BY <1>7, <2>2, Zenon DEF vm_reset_hardware_thread
      <3>2. /\ hw' \in [CPUs -> HwState] /\ (\A e \in CPUs \ {d} : hw'[e] = hw[e])
            /\ hw'[d].state = "OFFLINE" /\ ~hw'[d].waiting
        BY <1>0, <1>4, <3>1, Zenon
      <3>3. ctl' \in [CPUs -> SUBSET IpiLines]
        BY <1>0, <3>1
      <3> QED
        BY <1>0, <1>3, <1>7, <3>1, <3>2, <3>3, Zenon DEF CommandEffect
    <2> QED
      BY <2>1, <2>2, Zenon
  <1>8. CASE cmd = "IPI" /\ vm_raise_hardware_thread_interrupt(d)
    <2>1. CASE hw[d].state \notin Live
      BY <1>2, <1>8, <2>1, Zenon DEF vm_raise_hardware_thread_interrupt
    <2>2. CASE hw[d].state \in Live
      <3>1. ctl' = [ctl EXCEPT ![d] = @ \cup {Ipi}] /\ Succeeds /\ UNCHANGED <<hw, vm>>
        BY <1>8, <2>2, Zenon DEF vm_raise_hardware_thread_interrupt
      <3>2. ctl' \in [CPUs -> SUBSET IpiLines]
        BY <1>0, <3>1, Topology, Zenon
      <3> QED
        BY <1>0, <1>3, <1>8, <3>1, <3>2, Zenon DEF CommandEffect
    <2> QED
      BY <2>1, <2>2, Zenon
  <1> QED
    BY <1>5, <1>6, <1>7, <1>8, Zenon DEF execute_command

(* A processor that has just been started or reset is where its entry      *)
(* point says, holds no lock and awaits nothing.                           *)
LEMMA EntryExact ==
    ASSUME NEW c \in CPUs \ {0}, NEW h, NEW s, NEW l,
           h.state = "OFFLINE" \/ (h.state = "RUNNABLE" /\ ~h.waiting /\ ~h.ie)
    PROVE  /\ Entry(c) \in GuestState /\ Labels(plan.program, c, Entry(c)) /\ Locked(plan.program, c, Entry(c), l)
           /\ Idle(h, Entry(c), s) /\ Entry(c).at \notin {"enter", "task"} \cup Calling
  <1> DEFINE w == IF plan.program = "kernel" THEN "trampoline" ELSE "work"
             n == Entry(c)
  <1>1. w \in {"trampoline", "work"} /\ w \in Places /\ "off" \in Places /\ "IPI" \in Commands
        /\ 0 \in CPUs /\ 0 \in 0 .. Last + 1 /\ (plan.program = "kernel" <=> w = "trampoline")
    BY Topology DEF Places, Commands
  <1>2. Off \in GuestState /\ Off.next = "off" /\ Off.saved = "off"
    BY <1>1, Zenon DEF Off, GuestState
  <1>3. n = [Off EXCEPT !.at = w]
    BY Zenon DEF Entry
  <1> HIDE DEF w
  <1>4. n \in GuestState /\ n.at = w /\ n.next = "off" /\ n.saved = "off"
    BY <1>1, <1>2, <1>3, Zenon DEF GuestState
  <1> HIDE DEF n
  <1>5. Labels(plan.program, c, n)
    BY <1>1, <1>4, Zenon DEF Labels, KernelLabels, RestartLabels, Calling, InKernel
  <1>6. Locked(plan.program, c, n, l) /\ n.at \notin {"enter", "task"} \cup Calling
    BY <1>1, <1>4, Zenon DEF Locked, Calling
  <1>7. Idle(h, n, s)
    BY <1>1, <1>4, Zenon DEF Idle, Live
  <1> QED
    BY <1>4, <1>5, <1>6, <1>7, Zenon DEF n

(* Writing the command register keeps the invariant: START finds a stack   *)
(* behind it, and nothing else makes a processor live.                     *)
LEMMA CommandKeeps ==
    ASSUME NEW c \in CPUs, Executes(c), Command(c)
    PROVE  GuestInv' /\ HwEffect(c)
  <1> DEFINE g == guest[c]
             n == [g EXCEPT !.at = "result"]
             d == Logical(dev.core, dev.thread)
             enters == g.cmd = "START" /\ hw[d].state = "OFFLINE"
  <1>0. /\ GuestInv /\ GuestTypes /\ ProcExact /\ StackWhileLive /\ BootExact(guest[0]) /\ Exact(c)
        /\ KernelExact(guest[0]) /\ UNCHANGED <<plan, tpc, kcpu, lock, running>>
        /\ g.at = "command" /\ hw[c].state = "RUNNABLE" /\ ~hw[c].waiting
    BY Zenon DEF Executes, GuestInv, ProcExact, Command
  <1>1. d \in CPUs
    BY <1>0, SelectsOne, Zenon DEF GuestTypes
  <1>2. /\ execute_command(g.cmd, d)
        /\ guest' = [e \in CPUs |-> IF e = c THEN n ELSE IF e = d /\ enters THEN Entry(d) ELSE guest[e]]
    BY Zenon DEF Command
  <1>3. CommandEffect(g.cmd, d)
    BY <1>0, <1>1, <1>2, CommandActs, Zenon
  <1>4. guest \in [CPUs -> GuestState] /\ g \in GuestState /\ g.at \in Calling
    BY <1>0, Zenon DEF GuestTypes, Calling
  <1>5. /\ n \in GuestState /\ n.at = "result" /\ n.to = g.to /\ n.cmd = g.cmd /\ n.next = g.next
        /\ n.i = g.i /\ n.saved = g.saved /\ n.bad = g.bad /\ n.fail = g.fail
    BY <1>4, Zenon DEF GuestState, Places, Calling
  <1>6. g.cmd \in {"START", "RESET"} => c = 0
    BY <1>0, <1>4, SecondaryCalls, Zenon
  <1>7. enters => c = 0 /\ d # 0 /\ d # c
    BY <1>0, <1>6, Zenon
  <1>8. enters => Entry(d) \in GuestState
    <2> SUFFICES ASSUME enters PROVE Entry(d) \in GuestState
      BY Zenon
    <2>1. d \in CPUs \ {0}
      BY <1>1, <1>7, Zenon
    <2>2. hw[d].state = "OFFLINE"
      BY Zenon
    <2> HIDE DEF d
    <2> QED
      BY <2>1, <2>2, EntryExact, Zenon
  <1> HIDE DEF d, n, g, enters
  <1>9. /\ guest' \in [CPUs -> GuestState] /\ guest'[c] = n
        /\ enters => guest'[d] = Entry(d)
        /\ \A e \in CPUs : e # c /\ (e # d \/ ~enters) => guest'[e] = guest[e]
    BY <1>1, <1>2, <1>4, <1>5, <1>7, <1>8, Zenon
  <1>10. /\ hw' \in [CPUs -> HwState] /\ vm' \in VmState /\ ctl' \in [CPUs -> SUBSET IpiLines]
         /\ dev' \in DevState' /\ dev'.core = dev.core /\ dev'.thread = dev.thread
         /\ \A e \in CPUs \ {d} : hw'[e] = hw[e]
    BY <1>0, <1>3, Zenon DEF CommandEffect, DevState
  <1>11. GuestTypes'
    BY <1>0, <1>9, <1>10, Zenon DEF GuestTypes
  <1>12. /\ hw[d].state = "OFFLINE" =>
              hw'[d].state = "OFFLINE" \/ (hw'[d].state = "RUNNABLE" /\ ~hw'[d].waiting /\ ~hw'[d].ie)
         /\ c = d => hw'[d].state = hw[d].state /\ hw'[d].waiting = hw[d].waiting /\ hw'[d].ie = hw[d].ie
         /\ \/ hw'[d].state = hw[d].state /\ hw'[d].waiting = hw[d].waiting /\ hw'[d].ie = hw[d].ie
            \/ enters \/ hw'[d].state = "OFFLINE"
    BY <1>0, <1>3, Zenon DEF CommandEffect, Starts, enters
  <1>13. ASSUME NEW e \in CPUs PROVE Exact(e)'
    <2>1. Exact(e)
      BY <1>0, Zenon DEF ProcExact
    <2>2. CASE e = c
      <3>1. hw'[c].state = hw[c].state /\ hw'[c].waiting = hw[c].waiting /\ hw'[c].ie = hw[c].ie
        BY <1>10, <1>12, Zenon
      <3>2. Labels(plan.program, c, g) /\ Idle(hw[c], g, kcpu[c]) /\ Locked(plan.program, c, g, lock)
        BY <1>0, Zenon DEF Exact, g
      <3>3. Labels(plan.program, c, n)
        BY <1>0, <1>4, <1>5, <3>2, Zenon DEF Labels, KernelLabels, RestartLabels, Calling, InKernel
      <3>4. Idle(hw'[c], n, kcpu[c])
        BY <1>0, <1>5, <3>1, <3>2, Zenon DEF Idle, Live
      <3>5. Locked(plan.program, c, n, lock)
        BY <1>0, <1>5, <3>2, Zenon DEF Locked, Calling
      <3> QED
        BY <1>0, <1>9, <2>2, <3>3, <3>4, <3>5, Zenon DEF Exact
    <2>3. CASE e = d /\ enters
      <3>1. d \in CPUs \ {0} /\ guest'[d] = Entry(d)
        BY <1>1, <1>7, <1>9, <2>3, Zenon
      <3>2. hw'[d].state = "OFFLINE" \/ (hw'[d].state = "RUNNABLE" /\ ~hw'[d].waiting /\ ~hw'[d].ie)
        BY <1>12, <2>3, Zenon DEF enters
      <3>3. Labels(plan.program, d, Entry(d)) /\ Locked(plan.program, d, Entry(d), lock)
            /\ Idle(hw'[d], Entry(d), kcpu[d])
        BY <3>1, <3>2, EntryExact, Zenon
      <3> QED
        BY <1>0, <2>3, <3>1, <3>3, Zenon DEF Exact
    <2>4. CASE e = d /\ ~enters /\ e # c
      <3>1. guest'[e] = guest[e]
        BY <1>9, <2>4, Zenon
      <3>2. \/ hw'[e].state = hw[e].state /\ hw'[e].waiting = hw[e].waiting /\ hw'[e].ie = hw[e].ie
            \/ hw'[e].state = "OFFLINE"
        BY <1>12, <2>4, Zenon
      <3>3. Idle(hw'[e], guest[e], kcpu[e])
        BY <2>1, <3>2, Zenon DEF Exact, Idle, Live
      <3> QED
        BY <1>0, <2>1, <3>1, <3>3, Zenon DEF Exact
    <2>5. CASE e # d /\ e # c
      <3>1. guest'[e] = guest[e] /\ hw'[e] = hw[e]
        BY <1>9, <1>10, <2>5, Zenon
      <3> QED
        BY <1>0, <2>1, <3>1, Zenon DEF Exact
    <2> QED
      BY <2>2, <2>3, <2>4, <2>5, Zenon
  <1>14. plan.program = "kernel" /\ g.cmd = "START" =>
            /\ c = 0 /\ d = g.i /\ g.next = "booted" /\ kcpu[d].stack = "allocated"
    <2> SUFFICES ASSUME plan.program = "kernel", g.cmd = "START"
                 PROVE  c = 0 /\ d = g.i /\ g.next = "booted" /\ kcpu[d].stack = "allocated"
      BY Zenon
    <2>1. c = 0 /\ g.next = "booted"
      BY <1>0, <1>4, <1>6, Zenon DEF Exact, Labels, g
    <2>2. g.i \in 1 .. Last /\ dev.core = g.i \div tpc /\ dev.thread = g.i % tpc /\ kcpu[g.i].stack = "allocated"
      BY <1>0, <1>4, <2>1, Zenon DEF BootExact, g
    <2>3. g.i \in CPUs /\ tpc \in {1, Last + 1}
      BY <1>0, <2>2, Topology DEF GuestTypes
    <2>4. d = g.i
      BY <2>2, <2>3, Selects, Zenon DEF d
    <2> QED
      BY <2>1, <2>2, <2>4, Zenon
  <1>15. plan.program = "kernel" => g.cmd # "RESET"
    BY <1>0, <1>4, Zenon DEF Exact, Labels, g
  <1>16. plan.program = "kernel" => \A e \in CPUs : hw'[e].state = hw[e].state \/ (e = g.i /\ g.cmd = "START")
    BY <1>3, <1>14, <1>15, Zenon DEF CommandEffect
  <1>17. BootExact(guest[0])'
    <2> SUFFICES ASSUME plan.program = "kernel" PROVE BootExact(guest[0])'
      BY <1>0, Zenon DEF BootExact
    <2> DEFINE y == guest[0]
               z == guest'[0]
    <2>1. BootExact(y) /\ 0 \in CPUs
      BY <1>0, Topology, Zenon
    <2>2. \A e \in CPUs \ {0} : guest'[e].at \in {"enter", "task"} \cup Calling =>
              guest[e].at \in {"enter", "task"} \cup Calling
      <3> SUFFICES ASSUME NEW e \in CPUs \ {0}, guest'[e].at \in {"enter", "task"} \cup Calling
                   PROVE  guest[e].at \in {"enter", "task"} \cup Calling
        BY Zenon
      <3>1. CASE e = c
        BY <1>4, <3>1, Zenon DEF g
      <3>2. CASE e # c /\ e = d /\ enters
        <4>1. Entry(d).at \notin {"enter", "task"} \cup Calling
          BY <3>2, EntryExact, Zenon DEF enters
        <4> QED
          BY <1>9, <3>2, <4>1, Zenon
      <3>3. CASE e # c /\ (e # d \/ ~enters)
        BY <1>9, <3>3, Zenon
      <3> QED
        BY <3>1, <3>2, <3>3, Zenon
    <2>3. CASE c = 0
      <3>1. z = n /\ y = g
        BY <1>9, <2>3, Zenon DEF g
      <3> HIDE DEF z, y
      <3>2. \A e \in CPUs : e > g.i => hw'[e].state = hw[e].state
        <4>1. g.i \in 0 .. Last + 1
          BY <1>4, Zenon DEF GuestState
        <4>2. \A e \in CPUs : e > g.i => e # g.i
          BY <4>1, Topology
        <4> QED
          BY <1>16, <4>2, Zenon
      <3>3. /\ z.at = "result" /\ y.at = "command" /\ z.at \in Calling /\ y.at \in Calling /\ z.i = y.i
            /\ z.next = y.next /\ z.to = y.to /\ z.bad = y.bad /\ z.fail = y.fail
        BY <1>0, <1>5, <3>1, ZenonT(30) DEF Calling
      <3>4. /\ (Starting(z) <=> Starting(y)) /\ (Booting(z) <=> Booting(y)) /\ (Kicking(z) <=> Kicking(y))
            /\ (Undoing(z) <=> z.next = "undo")
        BY <3>3, ZenonT(30) DEF Starting, Booting, Kicking, Undoing
      <3>5. Booting(z) => /\ ~running'
                          /\ \A e \in CPUs \ {0} : guest'[e].at \notin {"enter", "task"} \cup Calling
        BY <1>0, <2>1, <2>2, <3>4, Zenon DEF BootExact
      <3>6. Starting(z) => z.i \in 1 .. Last /\ \A e \in CPUs : e > z.i => hw'[e].state = "OFFLINE"
        BY <2>1, <3>1, <3>2, <3>3, <3>4, Zenon DEF BootExact
      <3>7. /\ Kicking(z) => z.i >= 1 /\ running' /\ z.fail = "none" /\ ~z.bad
            /\ Starting(z) => z.fail = "none" /\ ~z.bad
            /\ z.next \in {"booted", "stopped", "undo"} =>
                  /\ z.to = z.i /\ z.i \in 1 .. Last /\ dev.core = z.i \div tpc /\ dev.thread = z.i % tpc
                  /\ z.next = "booted" => kcpu[z.i].stack = "allocated"
        BY <1>0, <2>1, <3>3, <3>4, Zenon DEF BootExact
      <3>8. ASSUME Undoing(z), hw'[z.i].state \in Live PROVE hw'[z.i].stop
        <4>1. z.next = "undo" /\ z.i \in 1 .. Last /\ dev.core = z.i \div tpc /\ dev.thread = z.i % tpc
          BY <3>4, <3>7, <3>8, Zenon
        <4>2. z.i \in CPUs /\ tpc \in {1, Last + 1}
          BY <1>0, <4>1, Topology DEF GuestTypes
        <4>3. d = z.i
          BY <4>1, <4>2, Selects, Zenon DEF d
        <4>4. g.cmd = "STOP"
          BY <1>0, <1>4, <3>1, <3>3, <4>1, Zenon DEF Exact, Labels, g
        <4> QED
          BY <1>3, <3>8, <4>3, <4>4, Zenon DEF CommandEffect
      <3>9. z.at \notin {"start", "valid", "stop", "stopped", "undo", "core"}
        BY <3>3, Zenon
      <3> QED
        BY <1>0, <1>10, <3>3, <3>5, <3>6, <3>7, <3>8, <3>9, Zenon DEF BootExact, z
    <2>4. CASE c # 0
      <3>1. z = y /\ (\A e \in CPUs : hw'[e].state = hw[e].state)
        BY <1>7, <1>9, <1>14, <1>16, <2>1, <2>4, ZenonT(30)
      <3>2. ~Booting(y)
        BY <1>4, <2>1, <2>4, Zenon DEF BootExact, g
      <3> HIDE DEF z, y
      <3>3. ~Starting(y) /\ ~Undoing(y) /\ y.at \notin {"start", "undo", "valid"}
        BY <3>2, Zenon DEF Booting, Starting, Undoing, Calling
      <3>4. z = y /\ UNCHANGED <<tpc, plan, running, kcpu>> /\ dev'.core = dev.core /\ dev'.thread = dev.thread
        BY <1>0, <1>10, <3>1, Zenon
      <3> QED
        BY <2>1, <3>2, <3>3, <3>4, Zenon DEF BootExact, z
    <2> QED
      BY <2>3, <2>4, Zenon
  <1>18. StackWhileLive'
    <2> SUFFICES ASSUME plan.program = "kernel", NEW e \in CPUs, hw'[e].state \in Live
                 PROVE  kcpu[e].stack = "allocated" \/ (kcpu[e].stack = "lost" /\ hw'[e].stop)
      BY <1>0, Zenon DEF StackWhileLive
    <2>1. CASE g.cmd = "START" /\ e = d
      BY <1>14, <2>1, Zenon
    <2>2. CASE ~(g.cmd = "START" /\ e = d)
      <3>1. hw'[e].state = hw[e].state /\ (hw[e].stop => hw'[e].stop)
        BY <1>1, <1>3, <1>15, <2>2, Zenon DEF CommandEffect
      <3> QED
        BY <1>0, <2>2, <3>1, Zenon DEF StackWhileLive
    <2> QED
      BY <2>1, <2>2, Zenon
  <1>20. KernelExact(guest[0])'
    <2> SUFFICES ASSUME plan.program = "kernel" PROVE KernelExact(guest[0])'
      BY <1>0, Zenon DEF KernelExact
    <2> DEFINE z == guest'[0]
    <2>1. KernelExact(guest[0]) /\ 0 \in CPUs
      BY <1>0, Topology, Zenon
    <2>2. \A e \in CPUs : hw'[e].state = "OFFLINE" => hw[e].state = "OFFLINE"
      BY <1>3, <1>15, Zenon DEF CommandEffect, Starts
    <2>3. hw'[0].state # "OFFLINE" /\ \A e \in CPUs \ {0} : hw'[e].state = "OFFLINE" => kcpu'[e].state \notin {"ONLINE", "WAITING"}
      BY <1>0, <2>1, <2>2, Zenon DEF KernelExact
    <2>4. ASSUME Quiet(z) PROVE Quiet(guest[0]) /\ g.cmd # "STOP" /\ (running => g.cmd = "IPI")
      <3>1. /\ g.cmd = "START" <=> g.next = "booted"
            /\ g.cmd = "STOP" <=> g.next \in {"stopped", "undo"}
            /\ g.cmd # "RESET" /\ g.cmd \in {"START", "STOP", "IPI", "RESET"}
            /\ KernelLabels(c, g)
        BY <1>0, <1>4, Zenon DEF Exact, Labels, g, GuestState, Commands
      <3>2. CASE c = 0
        <4>1. z = n /\ guest[0] = g
          BY <1>9, <3>2, Zenon DEF g
        <4> HIDE DEF z
        <4>2. z.at = "result" /\ z.at \in Calling /\ z.next = g.next /\ z.fail = g.fail
          BY <1>5, <4>1, Zenon DEF Calling
        <4>3. g.fail = "none" /\ g.next \notin {"stopped", "undo"}
          BY <2>4, <4>2, Zenon DEF Quiet
        <4>4. Quiet(g)
          BY <1>0, <4>3, Zenon DEF Quiet, Calling
        <4>5. running => g.next # "booted"
          BY <1>0, <1>4, <4>1, Zenon DEF BootExact, Booting, Starting
        <4> QED
          BY <3>1, <4>1, <4>3, <4>4, <4>5, Zenon
      <3>3. CASE c # 0
        <4>1. z = guest[0]
          BY <1>7, <1>9, <2>1, <3>3, Zenon
        <4>2. g.next \in {"off", "leave"}
          BY <3>1, <3>3, Zenon DEF KernelLabels
        <4> QED
          BY <2>4, <3>1, <4>1, <4>2, Zenon
      <3> QED
        BY <3>2, <3>3, Zenon
    <2> HIDE DEF z
    <2>5. ASSUME Quiet(z), NEW e \in CPUs PROVE hw'[e].state # "HALTED" /\ ~hw'[e].stop /\ ~hw'[e].halted
      <3>1. hw[e].state # "HALTED" /\ ~hw[e].stop /\ ~hw[e].halted
        BY <2>1, <2>4, <2>5, Zenon DEF KernelExact
      <3>2. CASE e = d
        BY <1>3, <1>15, <2>4, <2>5, <3>1, <3>2, Zenon DEF CommandEffect, Starts
      <3>3. CASE e # d
        BY <1>10, <3>1, <3>3, Zenon
      <3> QED
        BY <3>2, <3>3, Zenon
    <2>6. ASSUME Quiet(z), running PROVE (\A e \in CPUs : hw'[e].state # "OFFLINE") /\ dev'.result
      <3>1. (\A e \in CPUs : hw[e].state # "OFFLINE" /\ hw[e].state # "HALTED") /\ g.cmd = "IPI"
        BY <2>1, <2>4, <2>6, Zenon DEF KernelExact
      <3>2. hw[d] \in HwState
        BY <1>0, <1>1, Zenon DEF GuestTypes
      <3>3. hw[d].state \in Live
        BY <1>1, <3>1, <3>2, Zenon DEF HwState, Live
      <3> QED
        BY <1>3, <2>2, <3>1, <3>3, Zenon DEF CommandEffect
    <2> QED
      BY <1>0, <2>3, <2>5, <2>6, Zenon DEF KernelExact, z
  <1>19. HwEffect(c)
    <2>1. \A e \in CPUs : hw'[e].waiting => hw[e].waiting
      BY <1>3, Zenon DEF CommandEffect
    <2> QED
      BY <1>1, <1>3, <1>15, <2>1, Zenon DEF CommandEffect, HwEffect, VmQuiet, Live
  <1> QED
    BY <1>11, <1>13, <1>17, <1>18, <1>19, <1>20, Zenon DEF GuestInv, ProcExact

(* An instruction of a running processor keeps what is said of the kernel  *)
(* and the devices, and changes the hardware only as HwEffect says.        *)
LEMMA InstructionKeeps ==
    ASSUME NEW c \in CPUs, Executes(c), Instruction(c)
    PROVE  GuestInv' /\ HwEffect(c)
  <1>1. CASE SelectCore(c) \/ SelectThread(c) \/ Command(c) \/ ReadResult(c)
    BY <1>1, SelectCoreKeeps, SelectThreadKeeps, CommandKeeps, ReadResultKeeps, Zenon
  <1>2. CASE c = 0 /\ (smp_start_secondary \/ smp_start_failed \/ smp_wait_for_target \/ kernel_smp_runtime_valid)
    BY <1>2, StartSecondaryKeeps, StartFailedKeeps, WaitForTargetKeeps, RuntimeValidKeeps, Zenon
  <1>3. CASE c = 0 /\ (kernel_smp_kick_secondaries \/ UserTrap)
    BY <1>3, KickKeeps, UserTrapKeeps, Zenon
  <1>4. CASE c = 0 /\ (kernel_smp_shutdown_secondary \/ smp_wait_for_halted \/ RestartProgram)
    BY <1>4, ShutdownKeeps, WaitForHaltedKeeps, RestartKeeps, Zenon
  <1>5. CASE kernel_secondary_main(c) \/ IdleLoop(c) \/ IdleEi(c) \/ IdleWait(c) \/ IdleDi(c)
    BY <1>5, SecondaryMainKeeps, IdleLoopKeeps, IdleEiKeeps, IdleWaitKeeps, IdleDiKeeps, Zenon
  <1>6. CASE kernel_smp_trap_enter(c) \/ Task(c) \/ kernel_smp_ipi_interrupt(c) \/ kernel_smp_trap_leave(c)
    BY <1>6, TrapEnterKeeps, TaskKeeps, IpiInterruptKeeps, TrapLeaveKeeps, Zenon
  <1>7. CASE vm_request_system_action(c) \/ Work(c)
    BY <1>7, SystemActionKeeps, WorkKeeps, Zenon
  <1> QED
    BY <1>1, <1>2, <1>3, <1>4, <1>5, <1>6, <1>7 DEF Instruction

=============================================================================
