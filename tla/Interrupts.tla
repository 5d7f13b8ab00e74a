----------------------------- MODULE Interrupts -----------------------------
(***************************************************************************)
(* Interrupt delivery of the virtual machine: the interrupt controller of  *)
(* each hardware thread and the router in front of them (src/interrupt.c), *)
(* the registers through which the guest programs the router               *)
(* (src/irq_controller.c) and the timer, a device that raises a line       *)
(* (src/timer.c).                                                          *)
(*                                                                         *)
(* A set of line numbers stands for a bit mask.  Every operation of the    *)
(* router runs under its lock, so each is one step; pending of a           *)
(* controller is changed by single atomic operations.  The router is       *)
(* programmable, as it is from the moment that the machine has an          *)
(* interrupt controller device.                                            *)
(***************************************************************************)
EXTENDS Integers, FiniteSets

CONSTANTS Lines,     \* the external lines, 0 .. INTERRUPT_EXTERNAL_LINE_COUNT - 1
          IpiLines,  \* the lines of inter-processor interrupts, above the external ones
          Targets,   \* the logical processors, 0 .. target_count - 1
          Compare    \* the period that the guest programs into the timer

ASSUME LineAssumption ==
    /\ Lines \subseteq Nat /\ IpiLines \subseteq Nat /\ Targets \subseteq Nat
    /\ 0 \in Lines /\ 0 \in Targets
    /\ \A l \in Lines, m \in IpiLines : l < m
    /\ Compare \in Nat \ {0}

VARIABLES enabled,       \* router.enabled
          pending,       \* router.pending
          active,        \* router.active
          routes,        \* router.routes
          ctl,           \* ctl[t]: pending of the controller of processor t
          selected_line, \* the LINE_SELECT register of the interrupt controller device
          timer,         \* the timer: [on, repeat, irq, counter, status]
          handling       \* handling[t]: the line whose handler t executes, or NoLine

router == <<enabled, pending, active, routes>>
irqVars == <<enabled, pending, active, routes, ctl, selected_line, timer, handling>>

NoLine == -1

-----------------------------------------------------------------------------
(* The router. *)

(* dispatch_target_locked for every processor of T: a processor with no    *)
(* active line gets the lowest line that is pending, enabled and routed to *)
(* it.  Lines of different processors do not interfere, so the order of    *)
(* dispatch_all_locked does not matter.                                    *)
Deliverable(p, a, en, rt, T) ==
    {l \in p \cap en : /\ rt[l] \in T
                       /\ \A m \in a : rt[m] # rt[l]
                       /\ \A m \in p \cap en : rt[m] = rt[l] => l <= m}

Move(p, a, rt, c, k) ==
    /\ pending' = p \ k
    /\ active' = a \cup k
    /\ ctl' = [t \in Targets |-> c[t] \cup {l \in k : rt[l] = t}]

Dispatch(p, a, en, rt, c, T) == Move(p, a, rt, c, Deliverable(p, a, en, rt, T))

interrupt_router_raise(l) ==
    /\ IF l \in active
       THEN pending' = pending \cup {l} /\ UNCHANGED <<active, ctl>>
       ELSE Dispatch(pending \cup {l}, active, enabled, routes, ctl, {routes[l]})
    /\ UNCHANGED <<enabled, routes>>

(* A device withdraws its line. *)
interrupt_router_clear(l) ==
    /\ IF l \in active
       THEN Dispatch(pending \ {l}, active \ {l}, enabled, routes,
                     [ctl EXCEPT ![routes[l]] = @ \ {l}], {routes[l]})
       ELSE pending' = pending \ {l} /\ UNCHANGED <<active, ctl>>
    /\ UNCHANGED <<enabled, routes>>

interrupt_router_set_enabled(mask) ==
    /\ enabled' = mask
    /\ Dispatch(pending, active, mask, routes, ctl, Targets)
    /\ UNCHANGED routes

interrupt_router_disable_lines(mask) ==
    /\ enabled' = enabled \ mask
    /\ UNCHANGED <<pending, active, routes, ctl>>

(* The route of an active line cannot be changed. *)
interrupt_router_set_route(l, t) ==
    /\ l \notin active
    /\ routes' = [routes EXCEPT ![l] = t]
    /\ Dispatch(pending, active, enabled, [routes EXCEPT ![l] = t], ctl, {t})
    /\ UNCHANGED enabled

(* Mutant: the end of an interrupt does not look for the next line. *)
EoiWithoutDispatch(l) ==
    /\ l \in active
    /\ active' = active \ {l}
    /\ UNCHANGED <<enabled, pending, routes, ctl>>

interrupt_router_eoi(l) ==
    /\ l \in active
    /\ Dispatch(pending, active \ {l}, enabled, routes, ctl, {routes[l]})
    /\ UNCHANGED <<enabled, routes>>

interrupt_router_programmable_reset ==
    /\ enabled' = {} /\ pending' = {} /\ active' = {}
    /\ routes' = [l \in Lines |-> 0]
    /\ ctl' = [t \in Targets |-> {}]

(* interrupt_controller_init, when a hardware thread starts or is reset. *)
interrupt_controller_init(t) ==
    /\ ctl' = [ctl EXCEPT ![t] = {}]
    /\ UNCHANGED router

(* interrupt_controller_raise for a line that bypasses the router. *)
RaiseIpi(t, l) ==
    /\ ctl' = [ctl EXCEPT ![t] = @ \cup {l}]
    /\ UNCHANGED router

(* interrupt_controller_take_next: the lowest inter-processor line, else   *)
(* the lowest one.                                                         *)
Selected(available, l) ==
    /\ l \in available
    /\ available \cap IpiLines # {} => l \in IpiLines
    /\ \A m \in available : (m \in IpiLines \/ available \cap IpiLines = {}) => l <= m

interrupt_controller_take_next(t, l) ==
    /\ Selected(ctl[t], l)
    /\ ctl' = [ctl EXCEPT ![t] = @ \ {l}]
    /\ UNCHANGED router

-----------------------------------------------------------------------------
(* irq_controller_write.  A write that names no line or no processor is    *)
(* refused and changes only the RESULT register, which is left out.        *)

WriteEnable(mask) == interrupt_router_set_enabled(mask) /\ UNCHANGED selected_line

(* interrupt_router_enable_lines *)
WriteEnableSet(mask) ==
    interrupt_router_set_enabled(enabled \cup mask) /\ UNCHANGED selected_line

WriteEnableClear(mask) == interrupt_router_disable_lines(mask) /\ UNCHANGED selected_line

WriteLineSelect(v) ==
    /\ selected_line' = v
    /\ UNCHANGED <<enabled, pending, active, routes, ctl>>

(* BUSY if the line is active. *)
WriteRoute(v) == interrupt_router_set_route(selected_line, v) /\ UNCHANGED selected_line

(* NOT_ACTIVE if it is not. *)
WriteEoi(v) == interrupt_router_eoi(v) /\ UNCHANGED selected_line

irq_controller_reset ==
    interrupt_router_programmable_reset /\ selected_line' = 0

-----------------------------------------------------------------------------
(* The timer, on line 0. *)

TimerOff == [on |-> FALSE, repeat |-> FALSE, irq |-> FALSE, counter |-> 0, compare |-> 0,
             status |-> FALSE]

UntilCompare == IF timer.counter < timer.compare THEN timer.compare - timer.counter ELSE 0

(* Mutant: a repeating timer stops when it fires. *)
TimerStops(ticks) ==
    [timer EXCEPT !.status = TRUE, !.counter = (ticks - UntilCompare) % timer.compare, !.on = FALSE]

TimerFired(ticks) ==
    IF timer.repeat
    THEN [timer EXCEPT !.status = TRUE, !.counter = (ticks - UntilCompare) % timer.compare]
    ELSE [timer EXCEPT !.status = TRUE, !.counter = timer.compare, !.on = FALSE]

(* timer_tick.  With compare = 0 the counter runs freely, modulo 2^64. *)
timer_tick(ticks) ==
    /\ timer.on
    /\ IF timer.compare # 0 /\ ticks >= UntilCompare
       THEN /\ timer' = TimerFired(ticks)
            /\ IF timer.irq THEN interrupt_router_raise(0)
               ELSE UNCHANGED <<enabled, pending, active, routes, ctl>>
       ELSE /\ timer' = [timer EXCEPT !.counter = IF timer.compare = 0 THEN @ ELSE @ + ticks]
            /\ UNCHANGED <<enabled, pending, active, routes, ctl>>

(* timer_write of CONTROL, STATUS, COUNTER and COMPARE. *)
timer_write(t) ==
    timer' = t /\ UNCHANGED <<enabled, pending, active, routes, ctl>>

-----------------------------------------------------------------------------
(* The machine around the router: devices raise and withdraw their lines,  *)
(* the device thread ticks the timer, processors take lines, and the guest *)
(* programs the registers as it likes.  Its one obligation is that only    *)
(* the handler of a line ends it.                                          *)

DeviceRaises(l) == interrupt_router_raise(l) /\ UNCHANGED <<selected_line, timer, handling>>

(* A device is detached; the guest has quiesced it, so that no handler of  *)
(* its line executes.                                                      *)
DeviceWithdraws(l) ==
    /\ \A t \in Targets : handling[t] # l
    /\ interrupt_router_clear(l)
    /\ UNCHANGED <<selected_line, timer, handling>>

TimerTicks == \E n \in 1..2 : timer_tick(n) /\ UNCHANGED <<selected_line, handling>>

ThreadStarts(t) ==
    /\ handling[t] = NoLine
    /\ interrupt_controller_init(t)
    /\ UNCHANGED <<selected_line, timer, handling>>

IpiArrives(t) == \E l \in IpiLines : RaiseIpi(t, l) /\ UNCHANGED <<selected_line, timer, handling>>

(* A handler executes with interrupts disabled, so there is one at a time. *)
Take(t) ==
    /\ handling[t] = NoLine
    /\ \E l \in ctl[t] : /\ interrupt_controller_take_next(t, l)
                         /\ handling' = [handling EXCEPT ![t] = l]
    /\ UNCHANGED <<selected_line, timer>>

(* The handler ends the line, unless it is an inter-processor one or has   *)
(* been withdrawn or reset, and returns.                                   *)
HandlerReturns(t) ==
    /\ handling[t] # NoLine
    /\ handling' = [handling EXCEPT ![t] = NoLine]
    /\ \/ handling[t] \in active /\ WriteEoi(handling[t])
       \/ handling[t] \notin active /\ UNCHANGED <<enabled, pending, active, routes, ctl, selected_line>>
    /\ UNCHANGED timer

GuestWrites ==
    /\ \/ \E mask \in SUBSET Lines : WriteEnable(mask) \/ WriteEnableSet(mask) \/ WriteEnableClear(mask)
       \/ \E v \in Lines : WriteLineSelect(v)
       \/ \E v \in Targets : WriteRoute(v)
    /\ UNCHANGED <<timer, handling>>

(* Off, one shot, periodic, or running freely; the status is kept or       *)
(* cleared.                                                                *)
TimerSettings ==
    {TimerOff,
     [TimerOff EXCEPT !.on = TRUE, !.irq = TRUE, !.compare = Compare],
     [TimerOff EXCEPT !.on = TRUE, !.irq = TRUE, !.compare = Compare, !.repeat = TRUE],
     [TimerOff EXCEPT !.on = TRUE]}

GuestSetsTimer ==
    /\ \E t \in TimerSettings, status \in {FALSE, timer.status} :
         timer_write([t EXCEPT !.status = status])
    /\ UNCHANGED <<selected_line, handling>>

(* Every processor is stopped when the machine is reset. *)
WarmReset ==
    /\ irq_controller_reset
    /\ timer' = TimerOff
    /\ handling' = [t \in Targets |-> NoLine]

IrqInit ==
    /\ enabled = {} /\ pending = {} /\ active = {}
    /\ routes = [l \in Lines |-> 0]
    /\ ctl = [t \in Targets |-> {}]
    /\ selected_line = 0
    /\ timer = TimerOff
    /\ handling = [t \in Targets |-> NoLine]

IrqNext ==
    \/ \E l \in Lines \ {0} : DeviceRaises(l) \/ DeviceWithdraws(l)
    \/ TimerTicks
    \/ \E t \in Targets \ {0} : ThreadStarts(t)
    \/ \E t \in Targets : IpiArrives(t) \/ Take(t) \/ HandlerReturns(t)
    \/ GuestWrites \/ GuestSetsTimer \/ WarmReset

(* The device thread polls the timer for ever, the boot processor executes *)
(* instructions with interrupts enabled for ever, and its handlers return. *)
IrqSpec ==
    /\ IrqInit /\ [][IrqNext]_irqVars
    /\ WF_irqVars(TimerTicks) /\ WF_irqVars(Take(0)) /\ WF_irqVars(HandlerReturns(0))

-----------------------------------------------------------------------------
(* A processor has at most one active external line, and what its          *)
(* controller holds of external lines is that line: dispatch_target_locked *)
(* and interrupt_router_set_route together exclude re-entry, whatever the  *)
(* guest routes, masks and unmasks in between.                             *)
NoReentry ==
    /\ \A l, m \in active : routes[l] = routes[m] => l = m
    /\ \A t \in Targets : \A l \in ctl[t] \cap Lines : l \in active /\ routes[l] = t

(* The router never sits on work: a line that is pending and enabled waits *)
(* only for an active line of the same processor.  Every operation that    *)
(* ends an active line, enables one or reroutes one must dispatch.         *)
WorkConserving ==
    \A l \in pending \cap enabled : \E m \in active : routes[m] = routes[l]

(* The router hands a processor one external line at a time, and hands it  *)
(* the next as soon as it may (dispatch_target_locked).                    *)
RouterExact == NoReentry /\ WorkConserving

(* A timer that is set to repeat and left alone, with its line enabled     *)
(* and routed to the boot processor, interrupts it again and again,        *)
(* whatever the other lines do; inter-processor interrupts have priority,  *)
(* so they must end.                                                       *)
TimerKeepsInterrupting ==
    (/\ <>[][TimerTicks]_timer
     /\ <>[](/\ timer.repeat /\ 0 \in enabled /\ routes[0] = 0
             /\ ctl[0] \cap IpiLines = {}))
        => []<>(handling[0] = 0)
=============================================================================
