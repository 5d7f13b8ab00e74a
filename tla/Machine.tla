------------------------------ MODULE Machine ------------------------------
(***************************************************************************)
(* The virtual machine and the kernel that starts and stops its            *)
(* processors.  A host thread per core executes the hardware threads of    *)
(* the core (src/vm.c); a processor commands the others through the        *)
(* core-control registers (src/core_control.c) and ends the machine        *)
(* through system control (src/system_control.c).  The guest is the SMP    *)
(* layer of the kernel (kernel/smp.c, kernel/kernel.s): the boot processor *)
(* starts the others, kicks them, executes tasks, stops them and halts;    *)
(* the others idle until an inter-processor interrupt.  A second guest     *)
(* program restarts a halted processor, as the tests of core control do.   *)
(*                                                                         *)
(* Each access to a shared register or flag is a step.  The registers that *)
(* hold the interrupt line and the entry address always hold the same      *)
(* value and are left out.  The polling loops of the kernel give up after  *)
(* two million polls: any poll that fails may be the last one.  What the   *)
(* kernel does when the boot fails is modelled to the end, except that     *)
(* kernel_smp_initialized is left out: a shutdown that has found every     *)
(* processor halted clears it, and nothing but a second shutdown reads it. *)
(***************************************************************************)
EXTENDS Interrupts

CONSTANTS MaxTasks,  \* bound: the kernel entries of a processor that send an IPI
          MaxResets  \* bound: warm resets

(* Processors are numbered from zero, and there is one to start. *)
ASSUME MachineAssumption ==
    /\ Targets \subseteq Nat /\ \E n \in Targets \ {0} : Targets = 0 .. n
    /\ IpiLines # {} /\ MaxTasks \in Nat /\ MaxResets \in Nat

CPUs == Targets
Last == CHOOSE c \in CPUs : \A d \in CPUs : d <= c
Ipi == CHOOSE l \in IpiLines : TRUE

VARIABLES tpc,    \* threads_per_core
          hw,     \* hw[c]: a hardware thread: its state, stop_requested and CPU
          vm,     \* stop_requested, failed, system_action, active_thread_count, phase
          wk,     \* wk[k]: the host thread of core k
          dev,    \* the core-control registers
          guest,  \* guest[c]: what processor c executes
          kcpu,   \* kcpu[c]: KernelCpuLocal: state, ipi_count, stack: "none" (NULL),
                  \* "allocated" or "lost", freed though the wait for its halt ran out
          lock,   \* the holder of kernel_smp_big_lock, or NoLine
          running,\* scheduler_active
          plan,   \* the guest program, and how it ends
          asked   \* ghost: processors that halt, or were told to stop, since they started

machineVars == <<tpc, hw, vm, wk, dev, guest, kcpu, lock, running, plan, asked>>
mvars == <<tpc, hw, vm, wk, dev, guest, kcpu, lock, running, plan, asked, ctl>>

Cores == {c \div tpc : c \in CPUs}
CoreThreads(k) == {c \in CPUs : c \div tpc = k}
Logical(core, thread) == core * tpc + thread

Live == {"RUNNABLE", "WAITING"}

-----------------------------------------------------------------------------
(* The guest.  A processor is at a label; to, cmd and next are what the    *)
(* command subroutine works on, i is a loop index, bad is the loop's       *)
(* failure flag, saved is the label that an interrupt handler returns to.  *)
(* The processor has given up the boot when fail is not "none": "bootstrap" *)
(* and "main" are the callers of the shutdown that follows.                *)

Off == [at |-> "off", to |-> 0, cmd |-> "IPI", next |-> "off", i |-> 0, bad |-> FALSE, fail |-> "none",
        saved |-> "off", tasks |-> 0]
Goto(c, label) == guest' = [guest EXCEPT ![c].at = label]

(* smp_select and a command: the result is tested at next. *)
Call(c, cmd, to, next) ==
    guest' = [guest EXCEPT ![c].at = "core", ![c].cmd = cmd, ![c].to = to, ![c].next = next]

HardwareUnchanged == UNCHANGED <<hw, vm, asked, ctl>>

SelectCore(c) ==
    /\ guest[c].at = "core" /\ Goto(c, "thread")
    /\ dev' = [dev EXCEPT !.core = guest[c].to \div tpc]
    /\ HardwareUnchanged /\ UNCHANGED <<kcpu, lock, running>>

SelectThread(c) ==
    /\ guest[c].at = "thread" /\ Goto(c, "command")
    /\ dev' = [dev EXCEPT !.thread = guest[c].to % tpc]
    /\ HardwareUnchanged /\ UNCHANGED <<kcpu, lock, running>>

-----------------------------------------------------------------------------
(* Core control: execute_command, with the operations of vm.c. *)

NewThread == [state |-> "OFFLINE", stop |-> FALSE, waiting |-> FALSE, halted |-> FALSE, ie |-> FALSE]

(* What a processor executes first. *)
Entry(c) == [Off EXCEPT !.at = IF plan.program = "kernel" THEN "trampoline" ELSE "work"]

Succeeds == dev' = [dev EXCEPT !.result = TRUE]
Fails == dev' = [dev EXCEPT !.result = FALSE] /\ HardwareUnchanged

(* Mutant: the thread that starts is not counted. *)
ActivateUncounted(d) ==
    IF hw[d].state # "OFFLINE" \/ vm.stop THEN Fails
    ELSE /\ hw' = [hw EXCEPT ![d] = [NewThread EXCEPT !.state = "RUNNABLE"]]
         /\ ctl' = [ctl EXCEPT ![d] = {}]
         /\ asked' = asked \ {d}
         /\ Succeeds /\ UNCHANGED vm

(* From OFFLINE, and not while the machine stops. *)
vm_activate_hardware_thread(d) ==
    IF hw[d].state # "OFFLINE" \/ vm.stop THEN Fails
    ELSE /\ hw' = [hw EXCEPT ![d] = [NewThread EXCEPT !.state = "RUNNABLE"]]
         /\ vm' = [vm EXCEPT !.active = @ + 1]
         /\ ctl' = [ctl EXCEPT ![d] = {}]
         /\ asked' = asked \ {d}
         /\ Succeeds

vm_request_hardware_thread_stop(d) ==
    IF hw[d].state \notin Live THEN Fails
    ELSE /\ hw' = [hw EXCEPT ![d].stop = TRUE]
         /\ asked' = asked \cup {d}
         /\ Succeeds /\ UNCHANGED <<vm, ctl>>

vm_reset_hardware_thread(d) ==
    IF hw[d].state \notin {"OFFLINE", "HALTED"} THEN Fails
    ELSE /\ hw' = [hw EXCEPT ![d] = NewThread]
         /\ ctl' = [ctl EXCEPT ![d] = {}]
         /\ Succeeds /\ UNCHANGED <<vm, asked>>

vm_raise_hardware_thread_interrupt(d) ==
    IF hw[d].state \notin Live THEN Fails
    ELSE /\ ctl' = [ctl EXCEPT ![d] = @ \cup {Ipi}]
         /\ Succeeds /\ UNCHANGED <<hw, vm, asked>>

execute_command(cmd, d) ==
    \/ cmd = "START" /\ vm_activate_hardware_thread(d)
    \/ cmd = "STOP" /\ vm_request_hardware_thread_stop(d)
    \/ cmd = "RESET" /\ vm_reset_hardware_thread(d)
    \/ cmd = "IPI" /\ vm_raise_hardware_thread_interrupt(d)

(* A processor that starts begins at its entry. *)
Command(c) ==
    /\ guest[c].at = "command"
    /\ \E d \in {Logical(dev.core, dev.thread)} :
         /\ execute_command(guest[c].cmd, d)
         /\ guest' = [e \in CPUs |->
               IF e = c THEN [guest[c] EXCEPT !.at = "result"]
               ELSE IF e = d /\ guest[c].cmd = "START" /\ hw[d].state = "OFFLINE" THEN Entry(d)
               ELSE guest[e]]
    /\ UNCHANGED <<kcpu, lock, running>>

(* The guest gives up and executes HALT. *)
Panic(c) ==
    /\ hw' = [hw EXCEPT ![c].halted = TRUE]
    /\ asked' = asked \cup {c}
    /\ UNCHANGED <<guest, vm, ctl>>

(* The kernel shuts the secondary processors down and gives up. *)
GiveUp(caller) ==
    guest' = [guest EXCEPT ![0].at = "stop", ![0].i = 1, ![0].bad = FALSE, ![0].fail = caller]

(* Where a result other than SUCCESS leads the kernel: a start is undone,  *)
(* a kick or a stop goes on with the next processor.                       *)
Refused(g) ==
    IF g.next \in {"booted", "answered"} THEN [g EXCEPT !.at = "core", !.cmd = "STOP", !.to = g.i, !.next = "undo"]
    ELSE IF g.next = "kick" THEN [g EXCEPT !.at = "kick", !.bad = TRUE]
    ELSE [g EXCEPT !.at = "stop", !.i = @ + 1, !.bad = TRUE]

(* The wakers of kernel entries and the undoing of a start ignore it; the  *)
(* other guest program ends.                                               *)
ReadResult(c) ==
    /\ guest[c].at = "result"
    /\ IF dev.result \/ guest[c].next \in {"leave", "undo"}
       THEN Goto(c, guest[c].next) /\ HardwareUnchanged
       ELSE IF plan.program = "kernel"
       THEN guest' = [guest EXCEPT ![c] = Refused(guest[c])] /\ HardwareUnchanged
       ELSE Panic(c)
    /\ UNCHANGED <<dev, kcpu, lock, running>>

Status == hw[Logical(dev.core, dev.thread)].state

-----------------------------------------------------------------------------
(* kernel/smp.c on the boot processor. *)

(* kernel_malloc may fail. *)
smp_start_secondary ==
    /\ guest[0].at = "start"
    /\ LET i == guest[0].i IN
         \/ /\ kcpu' = [kcpu EXCEPT ![i] = [state |-> "BOOTING", ipis |-> 0, stack |-> "allocated"]]
            /\ Call(0, "START", i, "booted")
         \/ GiveUp("bootstrap") /\ UNCHANGED kcpu
    /\ HardwareUnchanged /\ UNCHANGED <<dev, lock, running>>

(* Polls the state that the processor has stored and the status of its     *)
(* hardware thread.  After the last poll the processor is told to stop.    *)
smp_wait_for_target ==
    /\ guest[0].at \in {"booted", "answered"}
    /\ LET i == guest[0].i
           ready == /\ kcpu[i].state = "WAITING" /\ Status = "WAITING"
                    /\ guest[0].at = "answered" => kcpu[i].ipis >= 1 IN
         \/ ready /\ guest[0].at = "booted" /\ Call(0, "IPI", i, "answered")
         \/ ready /\ guest[0].at = "answered"
            /\ guest' = [guest EXCEPT ![0].at = IF i = Last THEN "valid" ELSE "start",
                                      ![0].i = IF i = Last THEN 1 ELSE i + 1]
         \/ ~ready /\ UNCHANGED guest
         \/ ~ready /\ Call(0, "STOP", i, "undo")
    /\ HardwareUnchanged /\ UNCHANGED <<dev, kcpu, lock, running>>

(* The end of smp_start_secondary on its failure path: smp_wait_for_halted *)
(* is called, and the stack is freed whatever it returns.                  *)
smp_start_failed ==
    /\ guest[0].at = "undo"
    /\ \/ Status # "HALTED" /\ UNCHANGED <<guest, kcpu>>
       \/ /\ kcpu' = [kcpu EXCEPT ![guest[0].i].state = "STOPPED",
                                  ![guest[0].i].stack = IF Status = "HALTED" THEN "none" ELSE "lost"]
          /\ GiveUp("bootstrap")
    /\ HardwareUnchanged /\ UNCHANGED <<dev, lock, running>>

(* kernel_smp_runtime_valid, and the start of the scheduler. *)
kernel_smp_runtime_valid ==
    /\ guest[0].at = "valid"
    /\ IF \A c \in CPUs \ {0} : /\ kcpu[c].state \in {"ONLINE", "WAITING"}
                                /\ kcpu[c].ipis >= 1 /\ kcpu[c].stack = "allocated"
       THEN running' = TRUE /\ Goto(0, "kick")
       ELSE UNCHANGED running /\ GiveUp("main")
    /\ HardwareUnchanged /\ UNCHANGED <<dev, kcpu, lock>>

(* Without the big lock.  If a processor does not take its interrupt, the  *)
(* scheduler does not start.                                               *)
kernel_smp_kick_secondaries ==
    /\ guest[0].at = "kick"
    /\ LET i == guest[0].i IN
       IF i <= Last
       THEN /\ guest' = [guest EXCEPT ![0].at = "core", ![0].cmd = "IPI", ![0].to = i,
                                      ![0].next = "kick", ![0].i = i + 1]
            /\ UNCHANGED <<hw, running>>
       ELSE IF guest[0].bad THEN GiveUp("main") /\ running' = FALSE /\ UNCHANGED hw
       ELSE /\ guest' = [guest EXCEPT ![0].at = "user"]
            /\ hw' = [hw EXCEPT ![0].ie = TRUE]
            /\ UNCHANGED running
    /\ UNCHANGED <<vm, asked, ctl, dev, kcpu, lock>>

(* A task on the boot processor traps into the kernel, which disables      *)
(* interrupts.                                                             *)
UserTrap ==
    /\ guest[0].at = "user"
    /\ guest' = [guest EXCEPT ![0].at = "enter", ![0].saved = "user"]
    /\ hw' = [hw EXCEPT ![0].ie = FALSE]
    /\ UNCHANGED <<vm, asked, ctl, dev, kcpu, lock, running>>

(* kernel_smp_shutdown_secondary: stop a processor that has a stack, wait  *)
(* until it has halted, free the stack.  In kernel_main a failed boot is   *)
(* followed by another shutdown, which finds nothing to do if the first    *)
(* was complete.                                                           *)
kernel_smp_shutdown_secondary ==
    /\ guest[0].at = "stop"
    /\ LET i == guest[0].i
           again == guest[0].fail = "bootstrap" /\ guest[0].bad
       IN  IF i > Last THEN IF again THEN GiveUp("main") ELSE Goto(0, "end")
           ELSE IF kcpu[i].stack = "allocated" THEN Call(0, "STOP", i, "stopped")
           ELSE guest' = [guest EXCEPT ![0].i = i + 1]
    /\ HardwareUnchanged /\ UNCHANGED <<dev, kcpu, lock, running>>

(* Mutant: the stack is freed when the stop has been accepted. *)
FreeWhenAccepted ==
    /\ guest[0].at = "stopped"
    /\ LET i == guest[0].i IN
         /\ kcpu' = [kcpu EXCEPT ![i].state = "STOPPED", ![i].stack = "none"]
         /\ guest' = [guest EXCEPT ![0].at = "stop", ![0].i = i + 1]
    /\ HardwareUnchanged /\ UNCHANGED <<dev, lock, running>>

(* A processor that has not halted by the last poll keeps its stack. *)
smp_wait_for_halted ==
    /\ guest[0].at = "stopped"
    /\ LET i == guest[0].i IN
       \/ Status # "HALTED" /\ UNCHANGED <<guest, kcpu>>
       \/ /\ Status # "HALTED" /\ UNCHANGED kcpu
          /\ guest' = [guest EXCEPT ![0].at = "stop", ![0].i = i + 1, ![0].bad = TRUE]
       \/ /\ Status = "HALTED"
          /\ kcpu' = [kcpu EXCEPT ![i].state = "STOPPED", ![i].stack = "none"]
          /\ guest' = [guest EXCEPT ![0].at = "stop", ![0].i = i + 1]
    /\ HardwareUnchanged /\ UNCHANGED <<dev, lock, running>>

-----------------------------------------------------------------------------
(* kernel/smp.c and kernel/kernel.s on any processor. *)

(* The trampoline and kernel_secondary_main, which halts without a stack. *)
kernel_secondary_main(c) ==
    /\ guest[c].at = "trampoline"
    /\ IF kcpu[c].stack # "allocated" THEN Panic(c) /\ UNCHANGED kcpu
       ELSE /\ kcpu' = [kcpu EXCEPT ![c].state = "ONLINE"]
            /\ Goto(c, "loop") /\ HardwareUnchanged
    /\ UNCHANGED <<dev, lock, running>>

(* The idle loop: kernel_scheduler_secondary_start if the scheduler runs,  *)
(* else or afterwards kernel_smp_idle_enter.                               *)
IdleLoop(c) ==
    /\ guest[c].at = "loop"
    /\ IF running /\ guest[c].tasks < MaxTasks
       THEN guest' = [guest EXCEPT ![c].at = "enter", ![c].saved = "loop"] /\ UNCHANGED kcpu
       ELSE /\ kcpu' = [kcpu EXCEPT ![c].state = "WAITING"]
            /\ Goto(c, "ei")
    /\ HardwareUnchanged /\ UNCHANGED <<dev, lock, running>>

(* kernel_idle_wait: EI, WAIT, DI; then kernel_smp_idle_leave. *)
IdleEi(c) ==
    /\ guest[c].at = "ei" /\ Goto(c, "wait")
    /\ hw' = [hw EXCEPT ![c].ie = TRUE]
    /\ UNCHANGED <<vm, asked, ctl, dev, kcpu, lock, running>>

IdleWait(c) ==
    /\ guest[c].at = "wait" /\ Goto(c, "di")
    /\ hw' = [hw EXCEPT ![c].waiting = TRUE]
    /\ UNCHANGED <<vm, asked, ctl, dev, kcpu, lock, running>>

IdleDi(c) ==
    /\ guest[c].at = "di" /\ Goto(c, "loop")
    /\ hw' = [hw EXCEPT ![c].ie = FALSE]
    /\ kcpu' = [kcpu EXCEPT ![c].state = "ONLINE"]
    /\ UNCHANGED <<vm, asked, ctl, dev, lock, running>>

(* kernel_smp_trap_enter, and kernel_smp_switch_reacquire: spins.          *)
kernel_smp_trap_enter(c) ==
    /\ guest[c].at \in {"enter", "handler"}
    /\ IF lock # NoLine THEN UNCHANGED <<guest, kcpu, lock>>
       ELSE /\ lock' = c
            /\ kcpu' = [kcpu EXCEPT ![c].state = "ONLINE"]
            /\ Goto(c, IF guest[c].at = "enter" THEN "task" ELSE "ipi")
    /\ HardwareUnchanged /\ UNCHANGED <<dev, running>>

(* A kernel entry that wakes another processor: kernel_smp_wake_logical,   *)
(* kernel_smp_wake_idle_other, kernel_smp_reschedule_others.  In the end   *)
(* the boot processor enters scheduler_finish.                             *)
Task(c) ==
    /\ guest[c].at = "task"
    /\ \/ /\ guest[c].tasks < MaxTasks
          /\ \E d \in CPUs \ {c} :
               guest' = [guest EXCEPT ![c].at = "core", ![c].cmd = "IPI", ![c].to = d,
                                      ![c].next = "leave", ![c].tasks = @ + 1]
          /\ UNCHANGED running
       \/ /\ c = 0 /\ guest[c].tasks = MaxTasks
          /\ guest' = [guest EXCEPT ![c].at = "stop", ![c].i = 1, ![c].bad = FALSE]
          /\ running' = FALSE
    /\ HardwareUnchanged /\ UNCHANGED <<dev, kcpu, lock>>

(* Mutant: a handler returns to the instruction it interrupted. *)
NoRedirect(c) ==
    /\ guest[c].at = "ipi"
    /\ kcpu' = [kcpu EXCEPT ![c].ipis = 1]
    /\ Goto(c, "leave")
    /\ HardwareUnchanged /\ UNCHANGED <<dev, lock, running>>

(* kernel_smp_ipi_interrupt and kernel_scheduler_interrupt_return: a frame *)
(* that would return to the WAIT of the idle loop skips it.                *)
kernel_smp_ipi_interrupt(c) ==
    /\ guest[c].at = "ipi"
    /\ kcpu' = [kcpu EXCEPT ![c].ipis = 1]
    /\ guest' = [guest EXCEPT ![c].at = "leave", ![c].saved = IF @ = "wait" THEN "di" ELSE @]
    /\ HardwareUnchanged /\ UNCHANGED <<dev, lock, running>>

(* kernel_smp_trap_leave and the return from the trap: interrupts are as   *)
(* they were, off in the idle loop and on in the task and in its wait.     *)
kernel_smp_trap_leave(c) ==
    /\ guest[c].at = "leave"
    /\ lock' = IF lock = c THEN NoLine ELSE lock
    /\ guest' = [guest EXCEPT ![c].at = guest[c].saved]
    /\ hw' = [hw EXCEPT ![c].ie = guest[c].saved # "loop"]
    /\ UNCHANGED <<vm, asked, ctl, dev, kcpu, running>>

(* The kernel returns from kernel_main and halts, as it does when the boot *)
(* has failed, or the guest asks system control for the end.               *)
vm_request_system_action(c) ==
    /\ guest[c].at = "end"
    /\ lock' = IF lock = c THEN NoLine ELSE lock
    /\ Goto(c, "off")
    /\ IF plan.end = "HALT" \/ guest[c].fail # "none"
       THEN hw' = [hw EXCEPT ![c].halted = TRUE] /\ UNCHANGED vm
       ELSE /\ vm' = IF vm.action # "NONE" THEN vm
                     ELSE [vm EXCEPT !.action = plan.end, !.stop = TRUE]
            /\ UNCHANGED hw
    /\ asked' = asked \cup {c}
    /\ UNCHANGED <<ctl, dev, kcpu, running>>

-----------------------------------------------------------------------------
(* The other guest program: the boot processor starts a processor, waits   *)
(* until it has halted, resets it and starts it again.                     *)

RestartProgram ==
    /\ \/ guest[0].at = "first" /\ Call(0, "START", Last, "halted")
       \/ /\ guest[0].at = "halted"
          /\ IF Status = "HALTED" THEN Call(0, "RESET", Last, "again") ELSE UNCHANGED guest
       \/ guest[0].at = "again" /\ Call(0, "START", Last, "end")
    /\ HardwareUnchanged /\ UNCHANGED <<dev, kcpu, lock, running>>

(* Some instructions, and HALT. *)
Work(c) ==
    /\ guest[c].at \in {"work", "halt"}
    /\ IF guest[c].at = "work" THEN Goto(c, "halt") /\ UNCHANGED <<hw, asked>>
       ELSE /\ hw' = [hw EXCEPT ![c].halted = TRUE]
            /\ asked' = asked \cup {c}
            /\ UNCHANGED guest
    /\ UNCHANGED <<vm, ctl, dev, kcpu, lock, running>>

Instruction(c) ==
    \/ SelectCore(c) \/ SelectThread(c) \/ Command(c) \/ ReadResult(c)
    \/ c = 0 /\ (\/ smp_start_secondary \/ smp_wait_for_target \/ smp_start_failed \/ kernel_smp_runtime_valid
                 \/ kernel_smp_kick_secondaries \/ UserTrap
                 \/ kernel_smp_shutdown_secondary \/ smp_wait_for_halted \/ RestartProgram)
    \/ kernel_secondary_main(c) \/ IdleLoop(c) \/ IdleEi(c) \/ IdleWait(c) \/ IdleDi(c)
    \/ kernel_smp_trap_enter(c) \/ Task(c) \/ kernel_smp_ipi_interrupt(c)
    \/ kernel_smp_trap_leave(c) \/ vm_request_system_action(c) \/ Work(c)

-----------------------------------------------------------------------------
(* vm.c: the host thread of a core.  at is where it is, thread the         *)
(* hardware thread it works on, next the round-robin index.                *)

At(k, label) == wk' = [wk EXCEPT ![k].at = label]
GuestUnchanged == UNCHANGED <<dev, guest, kcpu, lock, running>>

(* cpu_check_interrupt *)
cpu_check_interrupt(c, h, g, controller) ==
    IF h.ie /\ ~h.halted /\ controller # {}
    THEN [hw |-> [h EXCEPT !.ie = FALSE, !.waiting = FALSE],
          guest |-> [g EXCEPT !.saved = g.at, !.at = "handler"]]
    ELSE [hw |-> h, guest |-> g]

(* finish_hardware_thread, its exchange: HALTED becomes visible before the *)
(* flags of the thread are written.                                        *)
Finish(k, c) ==
    /\ hw' = [hw EXCEPT ![c].state = "HALTED", ![c].stop = FALSE]
    /\ wk' = [wk EXCEPT ![k].at = "flags", ![k].thread = c]
    /\ UNCHANGED <<vm, asked, ctl>> /\ GuestUnchanged

FinishFlags(k) ==
    /\ wk[k].at = "flags" /\ At(k, "unstop")
    /\ hw' = [hw EXCEPT ![wk[k].thread].waiting = FALSE, ![wk[k].thread].halted = TRUE]
    /\ UNCHANGED <<vm, asked, ctl>> /\ GuestUnchanged

FinishStop(k) ==
    /\ wk[k].at = "unstop" /\ At(k, "count")
    /\ hw' = [hw EXCEPT ![wk[k].thread].stop = FALSE]
    /\ UNCHANGED <<vm, asked, ctl>> /\ GuestUnchanged

(* Mutant: the last processor to halt does not stop the machine. *)
CountWithoutStop(k) ==
    /\ wk[k].at = "count" /\ At(k, "top")
    /\ vm' = [vm EXCEPT !.active = @ - 1]
    /\ UNCHANGED <<hw, asked, ctl>> /\ GuestUnchanged

FinishCount(k) ==
    /\ wk[k].at = "count" /\ At(k, "top")
    /\ vm' = [vm EXCEPT !.active = @ - 1, !.stop = @ \/ vm.active = 1]
    /\ UNCHANGED <<hw, asked, ctl>> /\ GuestUnchanged

(* The head of the loop of core_worker. *)
WorkerTop(k) ==
    /\ wk[k].at = "top"
    /\ At(k, IF vm.stop THEN "exit" ELSE "service")
    /\ HardwareUnchanged /\ GuestUnchanged

(* service_waiting_hardware_threads: threads that wait, in any order. *)
Waiters(k) == {c \in CoreThreads(k) : hw[c].state = "WAITING"}

service_waiting_hardware_threads(k) ==
    /\ wk[k].at = "service"
    /\ \/ \E c \in Waiters(k) : hw[c].stop /\ Finish(k, c)
       \/ \E c \in Waiters(k) :
            /\ ~hw[c].stop
            /\ \E r \in {cpu_check_interrupt(c, hw[c], guest[c], ctl[c])} :
                 /\ r.hw # hw[c]
                 /\ hw' = [hw EXCEPT ![c] = [r.hw EXCEPT !.state = "RUNNABLE"]]
                 /\ guest' = [guest EXCEPT ![c] = r.guest]
                 /\ ctl' = [ctl EXCEPT ![c] = {}]
            /\ At(k, "select")
            /\ UNCHANGED <<vm, asked, dev, kcpu, lock, running>>
       \/ /\ \A c \in Waiters(k) : ~hw[c].stop /\ ~(hw[c].ie /\ ctl[c] # {})
          /\ At(k, "select")
          /\ HardwareUnchanged /\ GuestUnchanged

(* select_hardware_thread: the next runnable one, round robin. *)
Distance(k, c) == ((c % tpc) - wk[k].next + tpc) % tpc
Runnables(k) == {c \in CoreThreads(k) : hw[c].state = "RUNNABLE"}

select_hardware_thread(k) ==
    /\ wk[k].at = "select"
    /\ \/ Runnables(k) = {} /\ At(k, "top") /\ UNCHANGED hw
       \/ \E c \in Runnables(k) :
            /\ \A d \in Runnables(k) : Distance(k, c) <= Distance(k, d)
            /\ hw' = [hw EXCEPT ![c].stop = FALSE,
                                ![c].state = IF hw[c].stop THEN "HALTED" ELSE @]
            /\ wk' = [wk EXCEPT ![k] = [at |-> IF hw[c].stop THEN "flags" ELSE "step",
                                        thread |-> c, next |-> ((c % tpc) + 1) % tpc]]
    /\ UNCHANGED <<vm, asked, ctl>> /\ GuestUnchanged

(* cpu_step *)
WorkerStep(k) ==
    /\ wk[k].at = "step"
    /\ IF hw[wk[k].thread].halted THEN HardwareUnchanged /\ GuestUnchanged
       ELSE Instruction(wk[k].thread)
    /\ At(k, "check")

WorkerCheck(k) ==
    /\ wk[k].at = "check" /\ At(k, "post")
    /\ \E c \in {wk[k].thread} :
       \E r \in {cpu_check_interrupt(c, hw[c], guest[c], ctl[c])} :
         /\ hw' = [hw EXCEPT ![c] = r.hw]
         /\ guest' = [guest EXCEPT ![c] = r.guest]
         /\ ctl' = IF r.hw = hw[c] THEN ctl ELSE [ctl EXCEPT ![c] = {}]
    /\ UNCHANGED <<vm, asked, dev, kcpu, lock, running>>

(* The end of the loop of core_worker. *)
WorkerPost(k) ==
    /\ wk[k].at = "post"
    /\ LET c == wk[k].thread IN
       IF hw[c].halted \/ hw[c].stop
       THEN /\ hw' = [hw EXCEPT ![c].state = "HALTED", ![c].stop = FALSE]
            /\ At(k, "flags")
       ELSE /\ hw' = [hw EXCEPT ![c].state = IF hw[c].waiting THEN "WAITING" ELSE @]
            /\ At(k, "top")
    /\ UNCHANGED <<vm, asked, ctl>> /\ GuestUnchanged

CoreWorker(k) ==
    /\ \/ WorkerTop(k) \/ service_waiting_hardware_threads(k) \/ select_hardware_thread(k)
       \/ WorkerStep(k) \/ WorkerCheck(k) \/ WorkerPost(k)
       \/ FinishFlags(k) \/ FinishStop(k) \/ FinishCount(k)
    /\ UNCHANGED <<tpc, plan>>

-----------------------------------------------------------------------------
(* The main thread: run_workers, prepare_warm_reset, vm_run. *)

BootHardware == [c \in CPUs |-> IF c = 0 THEN [NewThread EXCEPT !.state = "RUNNABLE"] ELSE NewThread]
BootGuest(program) == [c \in CPUs |->
    IF c = 0 THEN [Off EXCEPT !.at = IF program = "kernel" THEN "start" ELSE "first", !.i = 1] ELSE Off]
BootKernel == [c \in CPUs |-> [state |-> IF c = 0 THEN "ONLINE" ELSE "OFFLINE", ipis |-> 0,
                            stack |-> IF c = 0 THEN "allocated" ELSE "none"]]
NewWorkers == [k \in Cores |-> [at |-> "top", thread |-> k * tpc, next |-> 0]]
NoTarget == [core |-> 0, thread |-> 0, result |-> FALSE]

prepare_warm_reset ==
    /\ hw' = BootHardware
    /\ vm' = [vm EXCEPT !.stop = FALSE, !.action = "NONE", !.active = 1, !.resets = @ + 1]
    /\ wk' = NewWorkers
    /\ ctl' = [c \in CPUs |-> {}]
    /\ dev' = NoTarget
    /\ guest' = BootGuest(plan.program) /\ kcpu' = BootKernel
    /\ lock' = NoLine /\ running' = FALSE /\ asked' = {}
    /\ \E e \in {"HALT", "SHUTDOWN"} \cup (IF vm.resets + 1 < MaxResets THEN {"WARM_RESET"} ELSE {}) :
         plan' = [plan EXCEPT !.end = e]
    /\ UNCHANGED tpc

vm_run ==
    /\ vm.phase = "running"
    /\ \A k \in Cores : wk[k].at = "exit"
    /\ \/ vm.action = "WARM_RESET" /\ prepare_warm_reset
       \/ /\ vm.action # "WARM_RESET"
          /\ vm' = [vm EXCEPT !.phase = "ended"]
          /\ UNCHANGED <<tpc, hw, wk, dev, guest, kcpu, lock, running, plan, asked, ctl>>

MachineInit ==
    /\ tpc \in {1, Last + 1}
    /\ hw = BootHardware
    /\ vm = [stop |-> FALSE, action |-> "NONE", active |-> 1, phase |-> "running", resets |-> 0]
    /\ wk = NewWorkers
    /\ dev = NoTarget
    /\ \E p \in {"kernel", "restart"}, e \in {"HALT", "SHUTDOWN"} \cup (IF MaxResets > 0 THEN {"WARM_RESET"} ELSE {}) :
         plan = [program |-> p, end |-> e]
    /\ guest = BootGuest(plan.program)
    /\ kcpu = BootKernel
    /\ lock = NoLine /\ running = FALSE /\ asked = {}

MachineNext == (\E k \in Cores : CoreWorker(k)) \/ vm_run

MachineSpec == MachineInit /\ ctl = [c \in CPUs |-> {}] /\ [][MachineNext]_mvars

-----------------------------------------------------------------------------
(* The machine stops by itself only when no processor is left that could   *)
(* do anything: active_thread_count never falls to zero early, although    *)
(* processors start, halt, are stopped and are reset concurrently.         *)
StopsOnlyWhenIdle ==
    vm.stop /\ vm.action = "NONE" => \A c \in CPUs : hw[c].state \notin Live

(* The stack of a processor is allocated as long as it may execute: the    *)
(* shutdown frees it once the processor has halted, also when commands are *)
(* refused or polls run out.  Only smp_start_secondary frees the stack of  *)
(* a processor that lives, and the processor has a stop request pending    *)
(* then: it halts after the instruction that it is in.                     *)
StackWhileLive ==
    plan.program = "kernel" =>
        \A c \in CPUs : hw[c].state \in Live =>
            kcpu[c].stack = "allocated" \/ (kcpu[c].stack = "lost" /\ hw[c].stop)

(* docs/kernel/README.md: every path that ends a processor frees its stack *)
(* after it has seen HALTED.  smp_start_secondary does not look at what    *)
(* smp_wait_for_halted returns.                                            *)
StackFreedAfterHalt ==
    plan.program = "kernel" => \A c \in CPUs : hw[c].state \in Live => kcpu[c].stack = "allocated"

(* A command of core control reaches the processor that its sender has     *)
(* selected, though selection and command are three writes.                *)
CommandReachesTarget ==
    \A c \in CPUs : guest[c].at = "command" => Logical(dev.core, dev.thread) = guest[c].to

(* A processor halts because it executes HALT or because it was told to    *)
(* stop since it was started.                                              *)
HaltsOnRequest ==
    [][\A c \in CPUs : hw[c].state \in Live /\ hw'[c].state = "HALTED" => c \in asked]_mvars

(* No wakeup is lost: a processor that sleeps has gone round its idle      *)
(* loop, and so looked for work, since its last interrupt, the handler of  *)
(* which has marked it as not waiting.  The window is between EI and WAIT. *)
(* A processor that smp_start_secondary has given up is marked as stopped. *)
SleepsAfterLooking ==
    \A c \in CPUs : hw[c].state = "WAITING" /\ kcpu[c].stack # "lost" => kcpu[c].state = "WAITING"

(* The machine comes to an end: the boot processor finds every processor   *)
(* waiting, each answers its IPI, all tasks end, all processors stop; or   *)
(* the boot fails, at any step, and all processors stop.                   *)
MachineEnds == <>(vm.phase = "ended")
=============================================================================
