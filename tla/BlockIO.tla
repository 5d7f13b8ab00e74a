------------------------------ MODULE BlockIO ------------------------------
(***************************************************************************)
(* The path of a sector: the kernel's block driver (kernel/devices.c), the *)
(* registers of the block device and its worker thread                     *)
(* (devices/block/block_device.c), and the line between them.              *)
(*                                                                         *)
(* The kernel makes one call at a time: the storage gate of KernelVfs and  *)
(* KernelScheduler orders the callers.  A call moves one sector through    *)
(* the bounce page.  A step is one access to the device, which its         *)
(* state_lock makes atomic, or a stretch of kernel code between two of     *)
(* them.  Kernel code of the call and of the interrupt handler excludes    *)
(* each other (the Big Kernel Lock); the worker interleaves with both.     *)
(***************************************************************************)
EXTENDS Integers, FiniteSets

CONSTANTS Capacity,   \* sectors of the medium
          ReadOnly,   \* whether the backing file was opened read-only
          MaxCalls,   \* bound: calls of the kernel
          MaxResets   \* bound: warm resets of the machine

ASSUME BlockAssumption == Capacity \in Nat \ {0} /\ ReadOnly \in BOOLEAN

VARIABLES dev,      \* registers: status, error, control, irq_status, request, request_pending
          worker,   \* the worker thread: where it is, its request and its result
          medium,   \* the backing file
          bounce,   \* the page kernel_block_dma_virtual
          line,     \* the device's line at the controller: [pending, active, enabled]
          driver,   \* interrupts_enabled, request_pending, request_success
          call,     \* the call under way: [at, id, op, lba, data, okay]
          handler,  \* the interrupt handler: where it is and what it read
          story     \* auxiliary: what was asked, what was done, and overlaps

blockVars == <<dev, worker, medium, bounce, line, driver, call, handler, story>>

Blank == 0
NoRequest == [id |-> 0, op |-> "NONE", lba |-> 0]
Lbas == 0..Capacity - 1
Ops == {"READ", "WRITE", "FLUSH"}

ready_status == {"READY"}

-----------------------------------------------------------------------------
(* The device. *)

Created ==
    [status |-> ready_status, error |-> "NONE", control |-> FALSE, irq_status |-> {},
     request |-> NoRequest, request_pending |-> FALSE]

(* The COMMAND register: the device after it, and the reason to interrupt. *)
submit_request(d, request) ==
    IF "BUSY" \in d.status
    THEN <<[d EXCEPT !.error = "BUSY"], {"ERROR"}>>
    ELSE IF request.op = "WRITE" /\ ReadOnly
    THEN <<[d EXCEPT !.status = ready_status \cup {"ERROR"}, !.error = "READ_ONLY"], {"ERROR"}>>
    ELSE IF request.op # "FLUSH" /\ request.lba \notin Lbas
    THEN <<[d EXCEPT !.status = ready_status \cup {"ERROR"}, !.error = "RANGE"], {"ERROR"}>>
    ELSE <<[d EXCEPT !.request = request, !.status = {"BUSY"}, !.error = "NONE",
                     !.request_pending = TRUE], {}>>

(* The line is raised: the controller remembers it, and delivers it once   *)
(* the line is enabled and not active (module Interrupts).                 *)
Raised == [line EXCEPT !.pending = TRUE]

WorkerTakes ==
    /\ worker.at = "idle" /\ dev.request_pending
    /\ dev' = [dev EXCEPT !.request_pending = FALSE]
    /\ worker' = [worker EXCEPT !.at = "execute", !.request = dev.request]
    /\ UNCHANGED <<medium, bounce, line, driver, call, handler, story>>

(* The transfer succeeds, or the host file fails.  Only the worker touches *)
(* the medium, so that the DMA decides the moment.                         *)
execute_request(error) ==
    /\ worker.at = "execute"
    /\ worker' = [worker EXCEPT !.at = "publish", !.error = error]
    /\ LET r == worker.request
           good == error = "NONE"
       IN /\ medium' = IF good /\ r.op = "WRITE" THEN [medium EXCEPT ![r.lba] = bounce] ELSE medium
          /\ bounce' = IF good /\ r.op = "READ" THEN medium[r.lba] ELSE bounce
          /\ story' = IF good THEN [story EXCEPT !.done = @ \cup {r.id}] ELSE story
    /\ UNCHANGED <<dev, line, driver, call, handler>>

WorkerPublishes ==
    /\ worker.at = "publish"
    /\ dev' = [dev EXCEPT !.error = worker.error,
                          !.status = ready_status \cup
                                     {IF worker.error = "NONE" THEN "DONE" ELSE "ERROR"}]
    /\ worker' = [worker EXCEPT !.at = "flag"]
    /\ UNCHANGED <<medium, bounce, line, driver, call, handler, story>>

(* raise_irq first sets the cause and looks at CONTROL, under the lock,    *)
(* and then raises the line, after it has left the lock.                   *)
WorkerFlags ==
    /\ worker.at = "flag"
    /\ dev' = [dev EXCEPT !.irq_status = @ \cup
                   {IF worker.error = "NONE" THEN "COMPLETE" ELSE "ERROR"}]
    /\ worker' = [worker EXCEPT !.at = IF dev.control THEN "raise" ELSE "idle"]
    /\ UNCHANGED <<medium, bounce, line, driver, call, handler, story>>

(* Mutant: the cause is set and the line is not raised. *)
FlagOnly ==
    /\ worker.at = "raise"
    /\ worker' = [worker EXCEPT !.at = "idle"]
    /\ UNCHANGED <<dev, line, medium, bounce, driver, call, handler, story>>

WorkerRaises ==
    /\ worker.at = "raise"
    /\ line' = Raised
    /\ worker' = [worker EXCEPT !.at = "idle"]
    /\ UNCHANGED <<dev, medium, bounce, driver, call, handler, story>>

block_worker ==
    \/ WorkerTakes
    \/ \E error \in {"NONE", "IO"} : execute_request(error)
    \/ WorkerPublishes \/ WorkerFlags \/ WorkerRaises
-----------------------------------------------------------------------------
(* The driver's calls. *)

InKernel == call.at \notin {"idle", "wait", "woken"}
KernelFree == handler.at = "idle"

(* kernel_block_read, kernel_block_write and kernel_block_flush up to      *)
(* block_command: the range is checked, and a write fills the bounce page. *)
(* Every write carries contents of its own, its number.                    *)
kernel_block_call(op, lba) ==
    /\ call.at = "idle" /\ KernelFree /\ call.id < MaxCalls
    /\ driver.boot # "enabling"
    /\ op = "FLUSH" => lba = 0
    /\ call' = [at |-> IF (op # "FLUSH" /\ lba \notin Lbas) \/ (op = "WRITE" /\ ReadOnly)
                       THEN "idle" ELSE "command",
                id |-> call.id + 1, op |-> op, lba |-> lba, data |-> Blank, okay |-> FALSE]
    /\ bounce' = IF call'.at = "command" /\ op = "WRITE" THEN call'.id ELSE bounce
    /\ story' = IF op = "WRITE" /\ lba \in Lbas
                THEN [story EXCEPT !.asked[lba] = @ \cup {call'.id}] ELSE story
    /\ UNCHANGED <<dev, worker, medium, line, driver, handler>>

(* Mutant: the driver forgets that a request is still with the device. *)
CommandForgets ==
    /\ call.at = "command" /\ KernelFree
    /\ call' = [call EXCEPT !.at = "submit"]
    /\ IF driver.interrupts_enabled
       THEN /\ dev' = [dev EXCEPT !.irq_status = {}]
            /\ driver' = [driver EXCEPT !.request_pending = TRUE, !.request_success = FALSE]
       ELSE UNCHANGED <<dev, driver>>
    /\ UNCHANGED <<worker, medium, bounce, line, handler, story>>

(* block_command up to the registers.  With interrupts on, a request that  *)
(* timed out keeps the device.                                             *)
block_command ==
    /\ call.at = "command" /\ KernelFree
    /\ IF driver.interrupts_enabled /\ driver.request_pending
       THEN call' = [call EXCEPT !.at = "idle"] /\ UNCHANGED <<dev, driver>>
       ELSE /\ call' = [call EXCEPT !.at = "submit"]
            /\ IF driver.interrupts_enabled
               THEN /\ dev' = [dev EXCEPT !.irq_status = {}]
                    /\ driver' = [driver EXCEPT !.request_pending = TRUE, !.request_success = FALSE]
               ELSE UNCHANGED <<dev, driver>>
    /\ UNCHANGED <<worker, medium, bounce, line, handler, story>>

(* block_wait, by sleeping or by polling. *)
Waiting == IF driver.interrupts_enabled THEN "wait" ELSE "poll"

(* The registers are written, COMMAND last. *)
Submit ==
    /\ call.at = "submit"
    /\ \E answer \in {submit_request(dev, [id |-> call.id, op |-> call.op, lba |-> call.lba])} :
          /\ dev' = answer[1]
          /\ call' = [call EXCEPT !.at = IF answer[2] = {} THEN Waiting ELSE "flag"]
    /\ UNCHANGED <<worker, medium, bounce, line, driver, handler, story>>

(* A refusal interrupts from the processor's own access to COMMAND: the    *)
(* two steps of raise_irq, the first under the lock again.                 *)
RefusalFlags ==
    /\ call.at = "flag"
    /\ dev' = [dev EXCEPT !.irq_status = @ \cup {"ERROR"}]
    /\ call' = [call EXCEPT !.at = IF dev.control THEN "raise" ELSE Waiting]
    /\ UNCHANGED <<worker, medium, bounce, line, driver, handler, story>>

RefusalRaises ==
    /\ call.at = "raise"
    /\ line' = Raised
    /\ call' = [call EXCEPT !.at = Waiting]
    /\ UNCHANGED <<dev, worker, medium, bounce, driver, handler, story>>

(* block_wait without interrupts: a look at STATUS.                        *)
Answered(okay) == call' = [call EXCEPT !.at = "idle", !.okay = okay,
                                       !.data = IF okay /\ call.op = "READ" THEN bounce ELSE @]

PollStatus ==
    /\ call.at = "poll" /\ dev.status \cap {"DONE", "ERROR"} # {}
    /\ Answered("ERROR" \notin dev.status)
    /\ UNCHANGED <<dev, worker, medium, bounce, line, driver, handler, story>>

(* KERNEL_BLOCK_WAIT_LIMIT looks were not enough.                          *)
PollGivesUp ==
    /\ call.at = "poll" /\ dev.status \cap {"DONE", "ERROR"} = {}
    /\ Answered(FALSE)
    /\ story' = [story EXCEPT !.overlap = TRUE]
    /\ UNCHANGED <<dev, worker, medium, bounce, line, driver, handler>>

(* block_wait with interrupts: the timer ends the wait of a thread that is *)
(* still asleep.                                                           *)
WaitTimesOut ==
    /\ call.at = "wait" /\ KernelFree
    /\ Answered(FALSE)
    /\ driver' = [driver EXCEPT !.request_success = FALSE]
    /\ UNCHANGED <<dev, worker, medium, bounce, line, handler, story>>

(* The thread that was woken runs again. *)
WaitReturns ==
    /\ call.at = "woken" /\ KernelFree
    /\ Answered(driver.request_success)
    /\ UNCHANGED <<dev, worker, medium, bounce, line, driver, handler, story>>

Caller == block_command \/ Submit \/ RefusalFlags \/ RefusalRaises \/ PollStatus \/ WaitReturns
-----------------------------------------------------------------------------
(* The interrupt handler. *)

(* Processor 0 takes the line, gets the Big Kernel Lock and reads          *)
(* IRQ_STATUS, then STATUS.                                                *)
HandlerEnters ==
    /\ KernelFree /\ ~InKernel
    /\ line.pending /\ line.enabled /\ ~line.active
    /\ line' = [line EXCEPT !.pending = FALSE, !.active = TRUE]
    /\ handler' = [handler EXCEPT !.at = "status", !.irq = dev.irq_status]
    /\ UNCHANGED <<dev, worker, medium, bounce, driver, call, story>>

HandlerReads ==
    /\ handler.at = "status"
    /\ handler' = [handler EXCEPT !.at = "ack", !.status = dev.status]
    /\ UNCHANGED <<dev, worker, medium, bounce, line, driver, call, story>>

(* block_request_complete, then the waiter, then the EOI. *)
block_request_complete ==
    IF driver.request_pending
    THEN [driver EXCEPT !.request_pending = FALSE,
                        !.request_success = /\ "COMPLETE" \in handler.irq
                                            /\ "ERROR" \notin handler.irq
                                            /\ "ERROR" \notin handler.status]
    ELSE driver


HandlerCompletes ==
    /\ handler.at = "ack"
    /\ dev' = [dev EXCEPT !.irq_status = @ \ handler.irq]
    /\ driver' = block_request_complete
    /\ call' = IF driver.request_pending /\ call.at = "wait" THEN [call EXCEPT !.at = "woken"] ELSE call
    /\ line' = [line EXCEPT !.active = FALSE]
    /\ handler' = [at |-> "idle", irq |-> {}, status |-> {}]
    /\ UNCHANGED <<worker, medium, bounce, story>>

handle_block_interrupt == HandlerEnters \/ HandlerReads \/ HandlerCompletes
-----------------------------------------------------------------------------
(* Boot. *)

(* kernel_devices_enable_interrupts, between two calls, when the scheduler *)
(* starts: the cause is cleared, CONTROL and then the line are enabled.    *)
EnableControl ==
    /\ call.at = "idle" /\ driver.boot = "polling"
    /\ dev' = [dev EXCEPT !.irq_status = {}, !.control = TRUE]
    /\ driver' = [driver EXCEPT !.boot = "enabling"]
    /\ story' = [story EXCEPT !.overlap = @ \/ worker.at # "idle" \/ dev.request_pending]
    /\ UNCHANGED <<worker, medium, bounce, line, call, handler>>

EnableLine ==
    /\ driver.boot = "enabling"
    /\ line' = [line EXCEPT !.enabled = TRUE]
    /\ driver' = [driver EXCEPT !.boot = "running", !.interrupts_enabled = TRUE]
    /\ UNCHANGED <<dev, worker, medium, bounce, call, handler, story>>

Booted == [boot |-> "polling", interrupts_enabled |-> FALSE, request_pending |-> FALSE,
           request_success |-> FALSE]

(* A warm reset: block_reset leaves a busy device alone, the router is     *)
(* reset, and a kernel starts afresh.                                      *)
block_reset ==
    /\ story.resets < MaxResets
    /\ dev' = IF "BUSY" \in dev.status THEN dev
              ELSE [Created EXCEPT !.request = dev.request, !.request_pending = dev.request_pending]
    /\ line' = [pending |-> FALSE, active |-> FALSE, enabled |-> FALSE]
    /\ driver' = Booted
    /\ call' = [call EXCEPT !.at = "idle", !.okay = FALSE]
    /\ handler' = [at |-> "idle", irq |-> {}, status |-> {}]
    /\ story' = [story EXCEPT !.resets = @ + 1, !.overlap = @ \/ worker.at # "idle" \/ dev.request_pending]
    /\ UNCHANGED <<worker, medium, bounce>>

-----------------------------------------------------------------------------
BlockInit ==
    /\ dev = Created
    /\ worker = [at |-> "idle", request |-> NoRequest, error |-> "NONE"]
    /\ medium = [s \in Lbas |-> Blank]
    /\ bounce = Blank
    /\ line = [pending |-> FALSE, active |-> FALSE, enabled |-> FALSE]
    /\ driver = Booted
    /\ call = [at |-> "idle", id |-> 0, op |-> "NONE", lba |-> 0, data |-> Blank, okay |-> FALSE]
    /\ handler = [at |-> "idle", irq |-> {}, status |-> {}]
    /\ story = [asked |-> [s \in Lbas |-> {Blank}], done |-> {}, overlap |-> FALSE, resets |-> 0]

BlockNext ==
    \/ \E op \in Ops, lba \in 0..Capacity : kernel_block_call(op, lba)
    \/ Caller \/ PollGivesUp \/ WaitTimesOut
    \/ block_worker \/ handle_block_interrupt
    \/ EnableControl \/ EnableLine \/ block_reset

(* The host runs the worker, and a processor takes interrupts and runs     *)
(* threads that are ready.  Neither the timer nor the limit of looks is    *)
(* counted on.                                                             *)
BlockFairness ==
    WF_blockVars(Caller) /\ WF_blockVars(block_worker) /\ WF_blockVars(handle_block_interrupt)

BlockSpec == BlockInit /\ [][BlockNext]_blockVars /\ BlockFairness
-----------------------------------------------------------------------------
(* A call that succeeds was served: the device executed this very request, *)
(* and a read returns the sector as it is on the medium.  The late         *)
(* completion of a request that timed out never answers a newer one.  The  *)
(* exception is named by overlap: a polled call gave up, interrupts were   *)
(* enabled, or the machine was reset while the worker was still busy with  *)
(* the request before.                                                     *)
Served ==
    call.okay => call.id \in story.done /\ (call.op = "READ" => call.data = medium[call.lba])

SuccessMeansDone == ~story.overlap => Served

(* What BLOCK_DEVICE.md says of the driver that sleeps: the completion of  *)
(* an earlier request is never delivered as the success of a new one.      *)
NoStaleSuccess == call.at = "woken" /\ driver.request_success => call.id \in story.done

(* A timed-out request stays with the device and what it transfers stays   *)
(* its own: a sector holds what some write asked for that sector.          *)
WritesLandWhereAsked == ~story.overlap => \A s \in Lbas : medium[s] \in story.asked[s]

(* A call returns and the driver gets its device back, by the device's own *)
(* completion: no timeout is needed for either.                            *)
RequestsEnd ==
    /\ (call.at = "wait") ~> (call.at # "wait")
    /\ driver.request_pending ~> ~driver.request_pending
=============================================================================
