------------------------------ MODULE Keyboard ------------------------------
(***************************************************************************)
(* The path of a key: the host's input service (src/keyboard_input.c), the *)
(* keyboard device (devices/keyboard/keyboard_device.c), the kernel's      *)
(* handler, its ring and the threads that read file 0 (kernel/devices.c).  *)
(*                                                                         *)
(* A key is known by the number that the input service gives it; the usage *)
(* code that the kernel makes of an event is left out.  A step is one      *)
(* access to the device under its lock, or kernel code between two.  The   *)
(* Big Kernel Lock excludes the handler and the readers from each other.   *)
(***************************************************************************)
EXTENDS Integers, Sequences, FiniteSets

CONSTANTS QueueCapacity,  \* VM_KEYBOARD_QUEUE_CAPACITY
          RingCapacity,   \* KERNEL_KEYBOARD_BUFFER_CAPACITY
          Readers,        \* threads that read the keyboard
          MaxKeys,        \* bound: keys pressed
          MaxKeyResets    \* bound: warm resets

ASSUME KeyboardAssumption == QueueCapacity \in Nat \ {0} /\ RingCapacity \in Nat \ {0}

VARIABLES kbd,      \* the device: enable, irq_enable, events, irq_status, overflow, dropped
          input,    \* the input service: sequence, and whether its thread still has to raise the line
          kline,    \* the device's line at the controller
          ring,     \* kernel_keyboard_buffer, the oldest byte first
          waiters,  \* kernel_keyboard_waiters
          phase,    \* how far the kernel is with the device
          khandler, \* the handler: where it is, and the IRQ_STATUS that it read
          keys      \* auxiliary: keys delivered in order, keys given up, resets

keyVars == <<kbd, input, kline, ring, waiters, phase, khandler, keys>>

QuietLine == [pending |-> FALSE, active |-> FALSE, enabled |-> FALSE]
ResetDevice == [enable |-> FALSE, irq_enable |-> FALSE, events |-> <<>>, irq_status |-> {},
                overflow |-> FALSE, dropped |-> 0]

-----------------------------------------------------------------------------
(* The host. *)

(* keyboard_receive in an enabled device: a full queue keeps its events.   *)
keyboard_receive(k) ==
    LET full == Len(kbd.events) = QueueCapacity
        cause == IF full THEN "OVERFLOW" ELSE "EVENT"
    IN /\ kbd' = [kbd EXCEPT !.events = IF full THEN @ ELSE Append(@, k),
                             !.dropped = IF full THEN @ + 1 ELSE @,
                             !.overflow = @ \/ full, !.irq_status = @ \cup {cause}]
       /\ input' = [sequence |-> k, raising |-> kbd.irq_enable]
       /\ keys' = IF full THEN [keys EXCEPT !.given_up = @ \cup {k}] ELSE keys

(* The input lock is held until the line is raised: the next key waits.    *)
keyboard_input_emit ==
    /\ ~input.raising /\ input.sequence < MaxKeys
    /\ IF kbd.enable
       THEN keyboard_receive(input.sequence + 1)
       ELSE /\ input' = [input EXCEPT !.sequence = @ + 1]
            /\ keys' = [keys EXCEPT !.given_up = @ \cup {input.sequence + 1}]
            /\ UNCHANGED kbd
    /\ UNCHANGED <<kline, ring, waiters, phase, khandler>>

keyboard_raise_irq ==
    /\ input.raising
    /\ input' = [input EXCEPT !.raising = FALSE]
    /\ kline' = [kline EXCEPT !.pending = TRUE]
    /\ UNCHANGED <<kbd, ring, waiters, phase, khandler, keys>>
-----------------------------------------------------------------------------
(* The kernel. *)

KernelIdle == khandler.at = "idle"

(* EVENT_DATA: the oldest event leaves the queue. *)
Popped ==
    [kbd EXCEPT !.events = Tail(@),
                !.irq_status = IF Len(kbd.events) = 1 THEN @ \ {"EVENT"} ELSE @]

(* The reader that waits longest is given the key and woken, or, when its  *)
(* buffer is no longer there, woken with an error and without the key.     *)
kernel_wait_queue_wake_read_one(k) ==
    /\ waiters' = Tail(waiters)
    /\ \/ keys' = [keys EXCEPT !.delivered = Append(@, k)]
       \/ keys' = [keys EXCEPT !.given_up = @ \cup {k}]
    /\ UNCHANGED ring

(* The ring keeps the byte, or has no room for it. *)
keyboard_buffer_push(k) ==
    /\ IF Len(ring) < RingCapacity
       THEN ring' = Append(ring, k) /\ UNCHANGED keys
       ELSE keys' = [keys EXCEPT !.given_up = @ \cup {k}] /\ UNCHANGED ring
    /\ UNCHANGED waiters

(* Mutant: the byte goes to the ring whether a reader waits or not. *)
DeliverToRing(k) == keyboard_buffer_push(k)

keyboard_deliver_event(k) ==
    IF waiters # <<>> THEN kernel_wait_queue_wake_read_one(k) ELSE keyboard_buffer_push(k)

(* A pass of the loop that empties the device. *)
Drain ==
    /\ kbd.events # <<>>
    /\ keyboard_deliver_event(Head(kbd.events))
    /\ kbd' = Popped

(* handle_keyboard_interrupt: IRQ_STATUS is read, the queue is emptied,    *)
(* what was read is acknowledged, and the line gets its EOI.               *)
HandlerStarts ==
    /\ KernelIdle /\ kline.pending /\ kline.enabled /\ ~kline.active
    /\ kline' = [kline EXCEPT !.pending = FALSE, !.active = TRUE]
    /\ khandler' = [at |-> "drain", irq |-> kbd.irq_status]
    /\ UNCHANGED <<kbd, input, ring, waiters, phase, keys>>

HandlerDrains ==
    /\ khandler.at = "drain"
    /\ Drain
    /\ UNCHANGED <<input, kline, phase, khandler>>

HandlerSeesNone ==
    /\ khandler.at = "drain" /\ kbd.events = <<>>
    /\ khandler' = [khandler EXCEPT !.at = "ack"]
    /\ UNCHANGED <<kbd, input, kline, ring, waiters, phase, keys>>

(* Mutant: the end of the interrupt also withdraws a line raised meanwhile. *)
AcksLateLine ==
    /\ khandler.at = "ack"
    /\ kbd' = [kbd EXCEPT !.irq_status = @ \ khandler.irq]
    /\ kline' = [kline EXCEPT !.active = FALSE, !.pending = FALSE]
    /\ khandler' = [at |-> "idle", irq |-> {}]
    /\ UNCHANGED <<input, ring, waiters, phase, keys>>

HandlerAcks ==
    /\ khandler.at = "ack"
    /\ kbd' = [kbd EXCEPT !.irq_status = @ \ khandler.irq]
    /\ kline' = [kline EXCEPT !.active = FALSE]
    /\ khandler' = [at |-> "idle", irq |-> {}]
    /\ UNCHANGED <<input, ring, waiters, phase, keys>>

handle_keyboard_interrupt == HandlerStarts \/ HandlerDrains \/ HandlerSeesNone \/ HandlerAcks

(* kernel_keyboard_read takes up to n bytes, or waits for one. *)
kernel_keyboard_read(r, n) ==
    /\ KernelIdle /\ phase = "running"
    /\ \A i \in 1..Len(waiters) : waiters[i] # r
    /\ IF ring # <<>>
       THEN /\ keys' = [keys EXCEPT !.delivered = @ \o SubSeq(ring, 1, IF n < Len(ring) THEN n ELSE Len(ring))]
            /\ ring' = SubSeq(ring, n + 1, Len(ring))
            /\ UNCHANGED waiters
       ELSE waiters' = Append(waiters, r) /\ UNCHANGED <<ring, keys>>
    /\ UNCHANGED <<kbd, input, kline, phase, khandler>>

(* kernel_devices_init enables the device without its interrupt. *)
Initialise ==
    /\ phase = "off"
    /\ kbd' = [kbd EXCEPT !.enable = TRUE]
    /\ phase' = "test"
    /\ UNCHANGED <<input, kline, ring, waiters, khandler, keys>>

(* The self-test ends with kernel_keyboard_poll: with the ring empty, the  *)
(* oldest event of the device is taken and dropped.                        *)
SelfTest ==
    /\ phase = "test"
    /\ IF kbd.events = <<>>
       THEN UNCHANGED <<kbd, keys>>
       ELSE kbd' = Popped /\ keys' = [keys EXCEPT !.given_up = @ \cup {Head(kbd.events)}]
    /\ phase' = "polling"
    /\ UNCHANGED <<input, kline, ring, waiters, khandler>>

(* kernel_devices_enable_interrupts: the causes are cleared; CONTROL, when *)
(* a cause has come since, raises the line; what is queued is drained; the *)
(* line is enabled.                                                        *)
ClearCauses ==
    /\ phase = "polling"
    /\ kbd' = [kbd EXCEPT !.irq_status = {}]
    /\ phase' = "cleared"
    /\ UNCHANGED <<input, kline, ring, waiters, khandler, keys>>

EnableInterrupt ==
    /\ phase = "cleared"
    /\ kbd' = [kbd EXCEPT !.irq_enable = TRUE]
    /\ kline' = [kline EXCEPT !.pending = @ \/ kbd.irq_status # {}]
    /\ phase' = "draining"
    /\ UNCHANGED <<input, ring, waiters, khandler, keys>>

BootDrains ==
    /\ phase = "draining"
    /\ Drain
    /\ UNCHANGED <<input, kline, phase, khandler>>

EnableKeyLine ==
    /\ phase = "draining" /\ kbd.events = <<>>
    /\ kline' = [kline EXCEPT !.enabled = TRUE]
    /\ phase' = "running"
    /\ UNCHANGED <<kbd, input, ring, waiters, khandler, keys>>

BootKeyboard ==
    Initialise \/ SelfTest \/ ClearCauses \/ EnableInterrupt \/ BootDrains \/ EnableKeyLine

(* A warm reset: the device is reset, and the kernel's memory is new. *)
keyboard_reset ==
    /\ keys.resets < MaxKeyResets
    /\ kbd' = ResetDevice /\ kline' = QuietLine
    /\ ring' = <<>> /\ waiters' = <<>> /\ phase' = "off"
    /\ khandler' = [at |-> "idle", irq |-> {}]
    /\ keys' = [keys EXCEPT !.resets = @ + 1,
                            !.given_up = @ \cup {ring[i] : i \in 1..Len(ring)}
                                           \cup {kbd.events[i] : i \in 1..Len(kbd.events)}]
    /\ UNCHANGED input
-----------------------------------------------------------------------------
KeyInit ==
    /\ kbd = ResetDevice /\ kline = QuietLine
    /\ input = [sequence |-> 0, raising |-> FALSE]
    /\ ring = <<>> /\ waiters = <<>> /\ phase = "off"
    /\ khandler = [at |-> "idle", irq |-> {}]
    /\ keys = [delivered |-> <<>>, given_up |-> {}, resets |-> 0]

KeyNext ==
    \/ keyboard_input_emit \/ keyboard_raise_irq
    \/ handle_keyboard_interrupt
    \/ \E r \in Readers, n \in 1..2 : kernel_keyboard_read(r, n)
    \/ BootKeyboard \/ keyboard_reset

(* The host thread that holds the input lock goes on, a processor takes    *)
(* the interrupt, and the kernel boots.  Nobody has to press a key or read.*)
KeyFairness ==
    WF_keyVars(keyboard_raise_irq) /\ WF_keyVars(handle_keyboard_interrupt) /\ WF_keyVars(BootKeyboard)

KeySpec == KeyInit /\ [][KeyNext]_keyVars /\ KeyFairness
-----------------------------------------------------------------------------
Journey == keys.delivered \o ring \o kbd.events

(* Keys stay in order and none is handed out twice, through the device's   *)
(* queue, the ring and the readers; a key is missing only when it met a    *)
(* full queue or ring, a disabled device, a reset or a reader whose buffer *)
(* was gone.                                                               *)
KeysInOrder ==
    /\ \A i, j \in 1..Len(Journey) : i < j => Journey[i] < Journey[j]
    /\ 1..input.sequence = {Journey[i] : i \in 1..Len(Journey)} \cup keys.given_up
    /\ \A i \in 1..Len(Journey) : Journey[i] \notin keys.given_up

(* Nobody sleeps on the keyboard while the ring holds a byte: the test for *)
(* bytes and the wait of kernel_keyboard_read are one step for the handler,*)
(* whatever the order of presses, reads and interrupts.                    *)
SleepersFindNothing == waiters # <<>> => ring = <<>>

(* A key reaches one reader, in order, and no reader sleeps through it     *)
(* (keyboard_deliver_event and kernel_keyboard_read).                      *)
KeysExact == KeysInOrder /\ SleepersFindNothing

(* A key that the device took leaves it: an event that arrives between the *)
(* handler's last look and its acknowledgement is not left behind.         *)
EventsAreTaken == (kbd.events # <<>>) ~> (kbd.events = <<>>)
=============================================================================
