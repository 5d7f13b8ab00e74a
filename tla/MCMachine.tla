----------------------------- MODULE MCMachine -----------------------------
(* Interrupt delivery and the machine, checked side by side: a behaviour is *)
(* of one or of the other.                                                  *)
EXTENDS Machine

VARIABLE model  \* "interrupts" or "machine"

vars == <<irqVars, machineVars, model>>

Ended == vm.phase = "ended" /\ UNCHANGED vars

Init ==
    /\ model \in {"interrupts", "machine"}
    /\ IrqInit /\ MachineInit
    /\ model = "interrupts" => tpc = 1 /\ plan = [program |-> "kernel", end |-> "HALT"]

MachineStep ==
    /\ model = "machine"
    /\ MachineNext
    /\ UNCHANGED <<enabled, pending, active, routes, selected_line, timer, handling, model>>

IrqStep == model = "interrupts" /\ IrqNext /\ UNCHANGED <<machineVars, model>>

Next == MachineStep \/ IrqStep \/ Ended

(* Each core has a host thread, and the main thread joins them. *)
Fairness ==
    /\ \A k \in CPUs : WF_vars(/\ model = "machine" /\ k \in Cores /\ CoreWorker(k)
                               /\ UNCHANGED <<enabled, pending, active, routes, selected_line, timer, handling, model>>)
    /\ WF_vars(/\ model = "machine" /\ vm_run
               /\ UNCHANGED <<enabled, pending, active, routes, selected_line, timer, handling, model>>)
    /\ WF_vars(model = "interrupts" /\ TimerTicks /\ UNCHANGED <<machineVars, model>>)
    /\ WF_vars(model = "interrupts" /\ Take(0) /\ UNCHANGED <<machineVars, model>>)
    /\ WF_vars(model = "interrupts" /\ HandlerReturns(0) /\ UNCHANGED <<machineVars, model>>)

Spec == Init /\ [][Next]_vars /\ Fairness

(* The machine alone, running one of the two programs. *)
KernelSpec == Init /\ model = "machine" /\ plan.program = "kernel" /\ [][Next]_vars
RestartSpec == Init /\ model = "machine" /\ plan.program = "restart" /\ [][Next]_vars

(* The machine, in a behaviour that is the machine's, comes to its end.     *)
MachineAlwaysEnds == model = "machine" => MachineEnds
=============================================================================
