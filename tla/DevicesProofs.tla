---------------------------- MODULE DevicesProofs ---------------------------
(***************************************************************************)
(* What the drivers of the three devices promise, for every value of the   *)
(* constants: the answers of the block driver are true (BlockIO), every    *)
(* key is delivered once and in order (Keyboard), and the frames that are  *)
(* shown belong to their owner (Display). A part for each.                 *)
(***************************************************************************)
EXTENDS BlockIO, Keyboard, Display, SequenceTheorems, FiniteSetTheorems, TLAPS

-----------------------------------------------------------------------------
(***************************************************************************)
(* The block device. A request is a token that moves from the call to the  *)
(* device, to the worker, to the line and to the handler. BlockInv says    *)
(* where it can be and, at each place, what is known of the request.       *)
(***************************************************************************)

(* The types of the parts of the state. *)
StatusBits == {"READY", "BUSY", "DONE", "ERROR"}
Causes == {"COMPLETE", "ERROR"}
AnyOp == Ops \cup {"NONE"}
Request == [id : Nat, op : AnyOp, lba : Lbas]

DeviceState ==
    [status : SUBSET StatusBits, error : {"NONE", "BUSY", "READ_ONLY", "RANGE", "IO"}, control : BOOLEAN,
     irq_status : SUBSET Causes, request : Request, request_pending : BOOLEAN]
WorkerState == [at : {"idle", "execute", "publish", "flag", "raise"}, request : Request, error : {"NONE",
                "IO"}]
LineState == [pending : BOOLEAN, active : BOOLEAN, enabled : BOOLEAN]
DriverState ==
    [boot : {"polling", "enabling", "running"}, interrupts_enabled : BOOLEAN,
     request_pending : BOOLEAN, request_success : BOOLEAN]
CallState ==
    [at : {"idle", "command", "submit", "flag", "raise", "poll", "wait", "woken"}, id : Nat, op : AnyOp, lba : Int,
     data : Nat, okay : BOOLEAN]
HandlerState == [at : {"idle", "status", "ack"}, irq : SUBSET Causes, status : SUBSET StatusBits]
StoryState == [asked : [Lbas -> SUBSET Nat], done : SUBSET Nat, overlap : BOOLEAN, resets : Nat]

BlockTypes ==
    /\ dev \in DeviceState /\ worker \in WorkerState /\ medium \in [Lbas -> Nat] /\ bounce \in Nat
    /\ line \in LineState /\ driver \in DriverState /\ call \in CallState
    /\ handler \in HandlerState /\ story \in StoryState

(* BUSY says that the device has a request, and that there is only one. *)
BusyExact ==
    /\ "BUSY" \in dev.status <=> dev.request_pending \/ worker.at \in {"execute", "publish"}
    /\ "BUSY" \in dev.status => dev.status = {"BUSY"}
    /\ dev.request_pending => worker.at \notin {"execute", "publish"}
    /\ worker.at \in {"execute", "publish"} => worker.request = dev.request

(* What the driver does in each stage of the boot. *)
Stages ==
    /\ call.at # "idle" => call.lba \in Lbas /\ call.op \in Ops /\ ~(call.op = "WRITE" /\ ReadOnly)
    /\ driver.interrupts_enabled <=> driver.boot = "running"
    /\ driver.boot = "running" => call.at # "poll"
    /\ driver.boot = "enabling" => call.at = "idle"
    /\ driver.boot # "running" => /\ ~driver.request_pending /\ ~line.enabled /\ handler.at = "idle"
                                  /\ call.at \notin {"wait", "woken"}

(* A driver that polls and never gave up has the device for itself. *)
PollingExact ==
    driver.boot # "running" =>
        /\ ~line.pending /\ worker.at # "raise" /\ (call.at # "poll" => "BUSY" \notin dev.status)
        /\ driver.boot = "polling" => ~dev.control
        /\ driver.boot = "enabling" => worker.at = "idle" /\ dev.irq_status = {}

(* A driver that sleeps has at most one request under way, in one place. *)
RunningExact ==
    driver.boot = "running" =>
        /\ ~driver.request_pending => /\ ~dev.request_pending /\ worker.at = "idle" /\ ~line.pending
                                      /\ handler.at = "idle" /\ call.at \notin {"submit", "wait"}
        /\ call.at = "submit" => /\ ~dev.request_pending /\ worker.at = "idle" /\ ~line.pending
                                 /\ handler.at = "idle" /\ dev.irq_status = {}
        /\ dev.request_pending \/ worker.at # "idle" => ~line.pending /\ handler.at = "idle"
        /\ dev.request_pending => worker.at = "idle"
        /\ line.pending => handler.at = "idle"
        /\ handler.at # "idle" => call.at \notin {"command", "submit"}
        /\ call.at = "woken" => ~driver.request_pending

(* With interrupts, COMPLETE is never the news of an earlier request. *)
NewsIsFresh ==
    driver.boot = "running" =>
        /\ "COMPLETE" \in dev.irq_status => "DONE" \in dev.status
        /\ worker.at \in {"flag", "raise"} /\ worker.error = "NONE" => "DONE" \in dev.status
        /\ handler.at # "idle" /\ "COMPLETE" \in handler.irq => "DONE" \in dev.status

(* The request of the call is done, and the bounce page is the sector. *)
Fine == call.id \in story.done /\ (call.op = "READ" => bounce = medium[call.lba])

AnswersTrue ==
    /\ call.at \notin {"flag", "raise"}
    /\ call.at \in {"poll", "wait"} =>
         /\ dev.request = [id |-> call.id, op |-> call.op, lba |-> call.lba]
         /\ worker.at = "publish" /\ worker.error = "NONE" => Fine
         /\ "DONE" \in dev.status => Fine
         /\ "BUSY" \in dev.status \/ "DONE" \in dev.status \/ "ERROR" \in dev.status
    /\ call.at = "woken" /\ driver.request_success => Fine
    /\ call.okay => /\ call.at = "idle" /\ ~dev.request_pending /\ worker.at # "execute"
                    /\ ~driver.request_pending /\ Served

BlockInv ==
    /\ BlockTypes /\ BusyExact /\ Stages
    /\ ~story.overlap => PollingExact /\ RunningExact /\ NewsIsFresh /\ AnswersTrue

(* kernel_block_read, write and flush start with no request of their own.  *)
LEMMA KernelBlockCallKeeps ==
    ASSUME BlockInv, NEW op \in Ops, NEW lba \in 0..Capacity, kernel_block_call(op, lba)
    PROVE  BlockInv'
<1> DEFINE refused == (op # "FLUSH" /\ lba \notin Lbas) \/ (op = "WRITE" /\ ReadOnly)
           next == [at |-> IF refused THEN "idle" ELSE "command", id |-> call.id + 1, op |-> op,
                    lba |-> lba,
                    data |-> Blank, okay |-> FALSE]
<1>a. /\ call.at = "idle" /\ handler.at = "idle" /\ driver.boot # "enabling" /\ call' = next
      /\ bounce' = (IF call'.at = "command" /\ op = "WRITE" THEN call'.id ELSE bounce)
      /\ op = "FLUSH" => lba = 0
      /\ UNCHANGED <<dev, worker, medium, line, driver, handler>>
  BY Zenon DEF kernel_block_call, KernelFree
<1>b. /\ next.at \in {"idle", "command"} /\ (next.at = "command" => ~refused)
      /\ next.id = call.id + 1 /\ next.op = op
      /\ next.lba = lba /\ next.data = 0 /\ next.okay = FALSE
  BY Zenon DEF Blank
<1>c. next \in CallState
  BY BlockAssumption DEF BlockInv, BlockTypes, CallState, AnyOp, Blank
<1> HIDE DEF next
<1>d. bounce' \in Nat
  BY <1>a, <1>b DEF BlockInv, BlockTypes, CallState
<1>e. ~refused => op \in Ops /\ lba \in Lbas /\ ~(op = "WRITE" /\ ReadOnly)
  BY <1>a, BlockAssumption DEF Lbas
<1>f. story' \in StoryState /\ story'.overlap = story.overlap /\ story'.done = story.done
  <2>1. CASE op = "WRITE" /\ lba \in Lbas
    <3>1. story' = [story EXCEPT !.asked[lba] = @ \cup {next.id}]
      BY <1>a, <2>1, Zenon DEF kernel_block_call
    <3>2. next.id \in Nat
      BY <1>b DEF BlockInv, BlockTypes, CallState
    <3> QED
      BY <2>1, <3>1, <3>2, Zenon DEF BlockInv, BlockTypes, StoryState
  <2>2. CASE ~(op = "WRITE" /\ lba \in Lbas)
    BY <2>2, Zenon DEF kernel_block_call, BlockInv, BlockTypes
  <2> QED
    BY <2>1, <2>2, Zenon
<1> HIDE DEF refused
<1>1. BlockTypes'
  BY <1>a, <1>c, <1>d, <1>f, Zenon DEF BlockInv, BlockTypes
<1>2. BusyExact'
  BY <1>a, <1>b, <1>e, <1>f, Zenon DEF BlockInv, BlockTypes, BusyExact
<1>3. Stages'
  BY <1>a, <1>b, <1>e, <1>f, Zenon DEF BlockInv, BlockTypes, Stages
<1>4. ASSUME ~story'.overlap PROVE ~story.overlap
  BY <1>a, <1>b, <1>e, <1>f, <1>4, Zenon DEF BlockInv, BlockTypes
<1>5. ASSUME ~story'.overlap PROVE PollingExact'
  BY <1>a, <1>b, <1>e, <1>f, <1>4, <1>5, Zenon DEF BlockInv, BlockTypes, PollingExact
<1>6. ASSUME ~story'.overlap PROVE RunningExact'
  BY <1>a, <1>b, <1>e, <1>f, <1>4, <1>6, Zenon DEF BlockInv, BlockTypes, RunningExact
<1>7. ASSUME ~story'.overlap PROVE NewsIsFresh'
  BY <1>a, <1>b, <1>e, <1>f, <1>4, <1>7, Zenon DEF BlockInv, BlockTypes, NewsIsFresh
<1>8. ASSUME ~story'.overlap PROVE AnswersTrue'
  BY <1>a, <1>b, <1>e, <1>f, <1>4, <1>8, Zenon DEF BlockInv, BlockTypes, AnswersTrue
<1> QED
  BY <1>1, <1>2, <1>3, <1>5, <1>6, <1>7, <1>8, Zenon DEF BlockInv

(* The driver's checks before a command: it goes on only when the device   *)
(* is not busy and no request is pending.                                  *)
LEMMA BlockCommandKeeps ==
    ASSUME BlockInv, block_command
    PROVE  BlockInv'
<1>0. /\ call.at = "command" /\ handler.at = "idle"
      /\ UNCHANGED <<worker, medium, bounce, line, handler, story>>
  BY Zenon DEF block_command, KernelFree
<1>1. CASE driver.interrupts_enabled /\ driver.request_pending
  <2>1. call' = [call EXCEPT !.at = "idle"] /\ UNCHANGED <<dev, driver>>
    BY <1>1, Zenon DEF block_command
  <2>2. /\ call' \in CallState /\ call'.at = "idle" /\ call'.id = call.id /\ call'.op = call.op
        /\ call'.lba = call.lba
        /\ call'.data = call.data /\ call'.okay = call.okay
    BY <2>1, Zenon DEF BlockInv, BlockTypes, CallState
  <2>3. BlockTypes' /\ BusyExact' /\ Stages'
    BY <1>0, <2>1, <2>2, Zenon DEF BlockInv, BlockTypes, BusyExact, Stages
  <2>4. ASSUME ~story'.overlap PROVE PollingExact' /\ RunningExact' /\ NewsIsFresh' /\ AnswersTrue'
    BY <1>0, <1>1, <2>1, <2>2, <2>4, Zenon
       DEF BlockInv, PollingExact, RunningExact, NewsIsFresh, AnswersTrue
  <2> QED
    BY <2>3, <2>4, Zenon DEF BlockInv
<1>2. CASE driver.interrupts_enabled /\ ~driver.request_pending
  <2>1. /\ call' = [call EXCEPT !.at = "submit"] /\ dev' = [dev EXCEPT !.irq_status = {}]
        /\ driver' = [driver EXCEPT !.request_pending = TRUE, !.request_success = FALSE]
    BY <1>2, Zenon DEF block_command
  <2>2. /\ call' \in CallState /\ call'.at = "submit" /\ call'.id = call.id /\ call'.op = call.op
        /\ call'.lba = call.lba
        /\ call'.data = call.data /\ call'.okay = call.okay
    BY <2>1, Zenon DEF BlockInv, BlockTypes, CallState
  <2>3. /\ dev' \in DeviceState /\ dev'.status = dev.status /\ dev'.request = dev.request
        /\ dev'.control = dev.control
        /\ dev'.request_pending = dev.request_pending /\ dev'.irq_status = {}
    BY <2>1, Zenon DEF BlockInv, BlockTypes, DeviceState
  <2>4. /\ driver' \in DriverState /\ driver'.boot = driver.boot /\ driver'.request_pending
        /\ driver'.interrupts_enabled = driver.interrupts_enabled
    BY <2>1, Zenon DEF BlockInv, BlockTypes, DriverState
  <2>5. BlockTypes' /\ BusyExact' /\ Stages'
    BY <1>0, <1>2, <2>2, <2>3, <2>4, Zenon DEF BlockInv, BlockTypes, BusyExact, Stages
  <2>6. ASSUME ~story'.overlap PROVE PollingExact' /\ RunningExact' /\ NewsIsFresh' /\ AnswersTrue'
    BY <1>0, <1>2, <2>2, <2>3, <2>4, <2>6, Zenon
       DEF BlockInv, PollingExact, RunningExact, NewsIsFresh, AnswersTrue
  <2> QED
    BY <2>5, <2>6, Zenon DEF BlockInv
<1>3. CASE ~driver.interrupts_enabled
  <2>1. call' = [call EXCEPT !.at = "submit"] /\ UNCHANGED <<dev, driver>>
    BY <1>3, Zenon DEF block_command
  <2>2. /\ call' \in CallState /\ call'.at = "submit" /\ call'.id = call.id /\ call'.op = call.op
        /\ call'.lba = call.lba
        /\ call'.data = call.data /\ call'.okay = call.okay
    BY <2>1, Zenon DEF BlockInv, BlockTypes, CallState
  <2>3. BlockTypes' /\ BusyExact' /\ Stages'
    BY <1>0, <1>3, <2>1, <2>2, Zenon DEF BlockInv, BlockTypes, BusyExact, Stages
  <2>4. ASSUME ~story'.overlap PROVE PollingExact' /\ RunningExact' /\ NewsIsFresh' /\ AnswersTrue'
    BY <1>0, <1>3, <2>1, <2>2, <2>4, Zenon
       DEF BlockInv, Stages, PollingExact, RunningExact, NewsIsFresh, AnswersTrue
  <2> QED
    BY <2>3, <2>4, Zenon DEF BlockInv
<1> QED
  BY <1>1, <1>2, <1>3, Zenon

(* The command register: the device takes the request of the call, or      *)
(* refuses it.                                                             *)
LEMMA SubmitKeeps ==
    ASSUME BlockInv, Submit
    PROVE  BlockInv'
<1> DEFINE r == [id |-> call.id, op |-> call.op, lba |-> call.lba]
<1>0. /\ call.at = "submit" /\ UNCHANGED <<worker, medium, bounce, line, driver, handler, story>>
      /\ call' = [call EXCEPT !.at = IF submit_request(dev, r)[2] = {} THEN Waiting ELSE "flag"]
      /\ dev' = submit_request(dev, r)[1]
  BY Zenon DEF Submit
<1>a. /\ call' \in CallState
      /\ call'.at = (IF submit_request(dev, r)[2] = {} THEN Waiting ELSE "flag")
      /\ call'.id = call.id /\ call'.op = call.op /\ call'.lba = call.lba
      /\ call'.data = call.data /\ call'.okay = call.okay
  BY <1>0, Zenon DEF BlockInv, BlockTypes, CallState, Waiting
<1>b. r \in Request /\ ~(call.op = "WRITE" /\ ReadOnly) /\ call.lba \in Lbas
  BY <1>0, Zenon DEF BlockInv, BlockTypes, CallState, Stages, Request, AnyOp
<1>1. CASE "BUSY" \in dev.status
  <2>1. submit_request(dev, r) = <<[dev EXCEPT !.error = "BUSY"], {"ERROR"}>>
    BY <1>1, Zenon DEF submit_request
  <2>2. /\ dev' \in DeviceState /\ dev'.status = dev.status /\ dev'.request = dev.request
        /\ dev'.request_pending = dev.request_pending
    BY <1>0, <2>1 DEF BlockInv, BlockTypes, DeviceState
  <2>3. call'.at = "flag"
    BY <1>a, <2>1
  <2>4. BlockTypes' /\ BusyExact' /\ Stages'
    BY <1>0, <1>a, <2>2, <2>3 DEF BlockInv, BlockTypes, BusyExact, Stages
  <2>5. story.overlap
    BY <1>0, <1>1, Zenon DEF BlockInv, BlockTypes, BusyExact, PollingExact, RunningExact
  <2> QED
    BY <1>0, <2>4, <2>5, Zenon DEF BlockInv
<1>2. CASE "BUSY" \notin dev.status
  <2>1. submit_request(dev, r) = <<[dev EXCEPT !.request = r, !.status = {"BUSY"}, !.error = "NONE",
                                               !.request_pending = TRUE], {}>>
    BY <1>b, <1>2, Zenon DEF submit_request
  <2> HIDE DEF r
  <2> DEFINE taken == [dev EXCEPT !.request = r, !.status = {"BUSY"}, !.error = "NONE",
                                !.request_pending = TRUE]
  <2>a. /\ taken \in DeviceState /\ taken.status = {"BUSY"} /\ taken.request = r
        /\ taken.control = dev.control
        /\ taken.request_pending /\ taken.irq_status = dev.irq_status
    BY <1>b, Zenon DEF BlockInv, BlockTypes, DeviceState, StatusBits
  <2>b. submit_request(dev, r)[1] = taken /\ submit_request(dev, r)[2] = {}
    BY <2>1
  <2> HIDE DEF taken
  <2>2. /\ dev' \in DeviceState /\ dev'.status = {"BUSY"} /\ dev'.request = r /\ dev'.control = dev.control
        /\ dev'.request_pending /\ dev'.irq_status = dev.irq_status
    BY <1>0, <2>a, <2>b, Zenon
  <2>3. call'.at = (IF driver.interrupts_enabled THEN "wait" ELSE "poll")
    BY <1>a, <2>b DEF Waiting
  <2>4. BlockTypes' /\ BusyExact' /\ Stages'
    BY <1>0, <1>a, <1>2, <2>2, <2>3 DEF BlockInv, BlockTypes, BusyExact, Stages
  <2>5. ASSUME ~story'.overlap PROVE PollingExact' /\ RunningExact' /\ NewsIsFresh'
    BY <1>0, <1>a, <1>2, <2>2, <2>3, <2>5
       DEF BlockInv, BlockTypes, Stages, PollingExact, RunningExact, NewsIsFresh
  <2>6. ASSUME ~story'.overlap PROVE AnswersTrue'
    BY <1>0, <1>a, <1>2, <2>2, <2>3, <2>6 DEF r, BlockInv, BusyExact, AnswersTrue
  <2> QED
    BY <2>4, <2>5, <2>6, Zenon DEF BlockInv
<1> QED
  BY <1>1, <1>2, Zenon

(* The interrupt of a refusal, in its two steps: there was an overlap.     *)
LEMMA RefusalKeeps ==
    ASSUME BlockInv, RefusalFlags \/ RefusalRaises
    PROVE  BlockInv'
<1>1. /\ call.at \in {"flag", "raise"} /\ call'.at \in {"raise", Waiting}
      /\ UNCHANGED <<worker, medium, bounce, driver, handler, story>> /\ call' \in CallState
      /\ call'.op = call.op /\ call'.lba = call.lba
  BY DEF RefusalFlags, RefusalRaises, Waiting, BlockInv, BlockTypes, CallState
<1>2. /\ dev' \in DeviceState /\ dev'.status = dev.status /\ dev'.request = dev.request
      /\ dev'.request_pending = dev.request_pending
  BY DEF RefusalFlags, RefusalRaises, BlockInv, BlockTypes, DeviceState, Causes
<1>3. line' \in LineState /\ line'.enabled = line.enabled
  BY DEF RefusalFlags, RefusalRaises, Raised, BlockInv, BlockTypes, LineState
<1>4. story.overlap
  BY <1>1, Zenon DEF BlockInv, AnswersTrue
<1>5. BlockTypes' /\ BusyExact' /\ Stages'
  BY <1>1, <1>2, <1>3 DEF Waiting, BlockInv, BlockTypes, BusyExact, Stages
<1> QED
  BY <1>1, <1>4, <1>5, Zenon DEF BlockInv

(* A polled status that is DONE is that of the call's own request.         *)
LEMMA PollStatusKeeps ==
    ASSUME BlockInv, PollStatus
    PROVE  BlockInv'
<1>1. BlockTypes'
  <2>1. call' \in CallState
    BY Zenon DEF BlockInv, BlockTypes, CallState, DriverState, PollStatus, Answered
  <2> QED
    BY <2>1, Zenon DEF BlockInv, BlockTypes, PollStatus
<1>2. BusyExact'
  BY Zenon DEF BlockInv, BlockTypes, BusyExact, PollStatus, Answered
<1>3. Stages'
  BY DEF BlockInv, BlockTypes, Stages, PollStatus, Answered
<1>4. ASSUME ~story'.overlap PROVE ~story.overlap
  BY <1>4, Zenon DEF BlockInv, BlockTypes, PollStatus, Answered
<1>5. ASSUME ~story'.overlap PROVE PollingExact'
  BY <1>4, <1>5, Zenon DEF BlockInv, BlockTypes, BusyExact, PollingExact, PollStatus, Answered
<1>6. ASSUME ~story'.overlap PROVE RunningExact'
  BY <1>4, <1>6 DEF BlockInv, BlockTypes, RunningExact, PollStatus, Answered
<1>7. ASSUME ~story'.overlap PROVE NewsIsFresh'
  BY <1>4, <1>7, Zenon DEF BlockInv, BlockTypes, NewsIsFresh, PollStatus, Answered
<1>8. ASSUME ~story'.overlap PROVE AnswersTrue'
  BY <1>4, <1>8 DEF BlockInv, BlockTypes, LineState, Stages, BusyExact, AnswersTrue, Fine, Served,
                    PollStatus, Answered
<1> QED
  BY <1>1, <1>2, <1>3, <1>5, <1>6, <1>7, <1>8, Zenon DEF BlockInv

(* A polled call that gives up while the device is busy is an overlap.     *)
LEMMA PollGivesUpKeeps ==
    ASSUME BlockInv, PollGivesUp
    PROVE  BlockInv'
<1>1. BlockTypes'
  <2>1. call' \in CallState
    BY Zenon DEF BlockInv, BlockTypes, CallState, DriverState, PollGivesUp, Answered
  <2>2. story' \in StoryState
    BY Zenon DEF BlockInv, BlockTypes, StoryState, PollGivesUp, Answered
  <2> QED
    BY <2>1, <2>2, Zenon DEF BlockInv, BlockTypes, PollGivesUp
<1>2. BusyExact'
  BY Zenon DEF BlockInv, BlockTypes, BusyExact, PollGivesUp, Answered
<1>3. Stages'
  BY DEF BlockInv, BlockTypes, Stages, PollGivesUp, Answered
<1>4. ASSUME ~story'.overlap PROVE ~story.overlap
  BY <1>4 DEF BlockInv, BlockTypes, PollGivesUp, Answered
<1>5. ASSUME ~story'.overlap PROVE PollingExact'
  BY <1>4, <1>5 DEF BlockInv, BlockTypes, PollGivesUp, Answered
<1>6. ASSUME ~story'.overlap PROVE RunningExact'
  BY <1>4, <1>6 DEF BlockInv, BlockTypes, PollGivesUp, Answered
<1>7. ASSUME ~story'.overlap PROVE NewsIsFresh'
  BY <1>4, <1>7 DEF BlockInv, BlockTypes, PollGivesUp, Answered
<1>8. ASSUME ~story'.overlap PROVE AnswersTrue'
  BY <1>4, <1>8 DEF BlockInv, BlockTypes, AnswersTrue, PollGivesUp, Answered
<1> QED
  BY <1>1, <1>2, <1>3, <1>5, <1>6, <1>7, <1>8, Zenon DEF BlockInv

(* A sleeping call that times out leaves its request pending, which bars   *)
(* the next call.                                                          *)
LEMMA WaitTimesOutKeeps ==
    ASSUME BlockInv, WaitTimesOut
    PROVE  BlockInv'
<1>1. BlockTypes'
  <2>1. call' \in CallState
    BY Zenon DEF BlockInv, BlockTypes, CallState, DriverState, WaitTimesOut, Answered, KernelFree
  <2>2. driver' \in DriverState
    BY Zenon DEF BlockInv, BlockTypes, DriverState, WaitTimesOut, Answered, KernelFree
  <2> QED
    BY <2>1, <2>2, Zenon DEF BlockInv, BlockTypes, WaitTimesOut
<1>2. BusyExact'
  BY Zenon DEF BlockInv, BlockTypes, BusyExact, WaitTimesOut, Answered, KernelFree
<1>3. Stages'
  BY DEF BlockInv, BlockTypes, Stages, WaitTimesOut, Answered, KernelFree
<1>4. ASSUME ~story'.overlap PROVE ~story.overlap
  BY <1>4, Zenon DEF BlockInv, BlockTypes, WaitTimesOut, Answered, KernelFree
<1>5. ASSUME ~story'.overlap PROVE PollingExact'
  BY <1>4, <1>5 DEF BlockInv, BlockTypes, PollingExact, WaitTimesOut, Answered, KernelFree
<1>6. ASSUME ~story'.overlap PROVE RunningExact'
  BY <1>4, <1>6, Zenon DEF BlockInv, BlockTypes, DeviceState, WorkerState, LineState, DriverState, CallState,
                    HandlerState, StoryState, Stages, BusyExact, PollingExact, RunningExact,
                    WaitTimesOut, Answered, KernelFree
<1>7. ASSUME ~story'.overlap PROVE NewsIsFresh'
  BY <1>4, <1>7 DEF BlockInv, BlockTypes, NewsIsFresh, WaitTimesOut, Answered, KernelFree
<1>8. ASSUME ~story'.overlap PROVE AnswersTrue'
  BY <1>4, <1>8 DEF BlockInv, BlockTypes, AnswersTrue, WaitTimesOut, Answered, KernelFree
<1> QED
  BY <1>1, <1>2, <1>3, <1>5, <1>6, <1>7, <1>8, Zenon DEF BlockInv

(* A woken call answers with the success of its own request. *)
LEMMA WaitReturnsKeeps ==
    ASSUME BlockInv, WaitReturns
    PROVE  BlockInv'
<1>1. BlockTypes'
  <2>1. call' \in CallState
    BY Zenon DEF BlockInv, BlockTypes, CallState, DriverState, WaitReturns, Answered, KernelFree
  <2> QED
    BY <2>1, Zenon DEF BlockInv, BlockTypes, WaitReturns
<1>2. BusyExact'
  BY Zenon DEF BlockInv, BlockTypes, BusyExact, WaitReturns, Answered, KernelFree
<1>3. Stages'
  BY DEF BlockInv, BlockTypes, Stages, WaitReturns, Answered, KernelFree
<1>4. ASSUME ~story'.overlap PROVE ~story.overlap
  BY <1>4, Zenon DEF BlockInv, BlockTypes, WaitReturns, Answered, KernelFree
<1>5. ASSUME ~story'.overlap PROVE PollingExact'
  BY <1>4, <1>5, Zenon DEF BlockInv, BlockTypes, PollingExact, WaitReturns, Answered, KernelFree
<1>6. ASSUME ~story'.overlap PROVE RunningExact'
  BY <1>4, <1>6 DEF BlockInv, BlockTypes, RunningExact, WaitReturns, Answered, KernelFree
<1>7. ASSUME ~story'.overlap PROVE NewsIsFresh'
  BY <1>4, <1>7, Zenon DEF BlockInv, BlockTypes, NewsIsFresh, WaitReturns, Answered, KernelFree
<1>8. ASSUME ~story'.overlap PROVE AnswersTrue'
  BY <1>4, <1>8 DEF BlockInv, BlockTypes, Stages, RunningExact, AnswersTrue, Fine, Served, WaitReturns,
                    Answered, KernelFree
<1> QED
  BY <1>1, <1>2, <1>3, <1>5, <1>6, <1>7, <1>8, Zenon DEF BlockInv

(* The worker takes the request that is pending. *)
LEMMA WorkerTakesKeeps ==
    ASSUME BlockInv, WorkerTakes
    PROVE  BlockInv'
<1>1. BlockTypes'
  <2>1. dev' \in DeviceState
    BY Zenon DEF BlockInv, BlockTypes, DeviceState, WorkerState, WorkerTakes
  <2>2. worker' \in WorkerState
    BY Zenon DEF BlockInv, BlockTypes, WorkerState, DeviceState, WorkerTakes
  <2> QED
    BY <2>1, <2>2, Zenon DEF BlockInv, BlockTypes, WorkerTakes
<1>2. BusyExact'
  BY DEF BlockInv, BlockTypes, BusyExact, WorkerTakes
<1>3. Stages'
  BY Zenon DEF BlockInv, BlockTypes, Stages, WorkerTakes
<1>4. ASSUME ~story'.overlap PROVE ~story.overlap
  BY <1>4, Zenon DEF BlockInv, BlockTypes, WorkerTakes
<1>5. ASSUME ~story'.overlap PROVE PollingExact'
  BY <1>4, <1>5 DEF BlockInv, BlockTypes, Stages, BusyExact, PollingExact, WorkerTakes
<1>6. ASSUME ~story'.overlap PROVE RunningExact'
  BY <1>4, <1>6 DEF BlockInv, BlockTypes, RunningExact, WorkerTakes
<1>7. ASSUME ~story'.overlap PROVE NewsIsFresh'
  BY <1>4, <1>7 DEF BlockInv, BlockTypes, NewsIsFresh, WorkerTakes
<1>8. ASSUME ~story'.overlap PROVE AnswersTrue'
  BY <1>4, <1>8 DEF BlockInv, BlockTypes, AnswersTrue, Fine, WorkerTakes
<1> QED
  BY <1>1, <1>2, <1>3, <1>5, <1>6, <1>7, <1>8, Zenon DEF BlockInv

(* execute_request does what the request of the call asks. *)
LEMMA ExecuteRequestKeeps ==
    ASSUME BlockInv, NEW error \in {"NONE", "IO"}, execute_request(error)
    PROVE  BlockInv'
<1>1. BlockTypes'
  <2>1. worker' \in WorkerState
    BY Zenon DEF BlockInv, BlockTypes, WorkerState, execute_request
  <2>2. medium' \in [Lbas -> Nat]
    BY Zenon DEF BlockInv, BlockTypes, execute_request
  <2>3. bounce' \in Nat
    BY Zenon DEF BlockInv, BlockTypes, WorkerState, Request, execute_request
  <2>4. story' \in StoryState
    BY Zenon DEF BlockInv, BlockTypes, StoryState, WorkerState, Request, execute_request
  <2> QED
    BY <2>1, <2>2, <2>3, <2>4, Zenon DEF BlockInv, BlockTypes, execute_request
<1>2. BusyExact'
  BY DEF BlockInv, BlockTypes, BusyExact, execute_request
<1>3. Stages'
  BY Zenon DEF BlockInv, BlockTypes, Stages, execute_request
<1>4. ASSUME ~story'.overlap PROVE ~story.overlap
  BY <1>4 DEF BlockInv, BlockTypes, execute_request
<1>5. ASSUME ~story'.overlap PROVE PollingExact'
  BY <1>4, <1>5 DEF BlockInv, BlockTypes, PollingExact, execute_request
<1>6. ASSUME ~story'.overlap PROVE RunningExact'
  BY <1>4, <1>6, Zenon DEF BlockInv, BlockTypes, RunningExact, execute_request
<1>7. ASSUME ~story'.overlap PROVE NewsIsFresh'
  BY <1>4, <1>7 DEF BlockInv, BlockTypes, NewsIsFresh, execute_request
<1>8. ASSUME ~story'.overlap PROVE AnswersTrue'
  BY <1>4, <1>8 DEF BlockInv, BlockTypes, BusyExact, RunningExact, PollingExact, AnswersTrue, Fine,
                    execute_request
<1> QED
  BY <1>1, <1>2, <1>3, <1>5, <1>6, <1>7, <1>8, Zenon DEF BlockInv

(* The worker publishes the status of the request it executed. *)
LEMMA WorkerPublishesKeeps ==
    ASSUME BlockInv, WorkerPublishes
    PROVE  BlockInv'
<1>1. BlockTypes'
  <2>1. dev' \in DeviceState
    BY Zenon DEF BlockInv, BlockTypes, DeviceState, WorkerState, StatusBits, WorkerPublishes, ready_status
  <2>2. worker' \in WorkerState
    BY Zenon DEF BlockInv, BlockTypes, WorkerState, WorkerPublishes
  <2> QED
    BY <2>1, <2>2, Zenon DEF BlockInv, BlockTypes, WorkerPublishes
<1>2. BusyExact'
  BY DEF BlockInv, BlockTypes, BusyExact, WorkerPublishes, ready_status
<1>3. Stages'
  BY Zenon DEF BlockInv, BlockTypes, Stages, WorkerPublishes
<1>4. ASSUME ~story'.overlap PROVE ~story.overlap
  BY <1>4, Zenon DEF BlockInv, BlockTypes, WorkerPublishes
<1>5. ASSUME ~story'.overlap PROVE PollingExact'
  BY <1>4, <1>5 DEF BlockInv, BlockTypes, PollingExact, WorkerPublishes, ready_status
<1>6. ASSUME ~story'.overlap PROVE RunningExact'
  BY <1>4, <1>6 DEF BlockInv, BlockTypes, RunningExact, WorkerPublishes
<1>7. ASSUME ~story'.overlap PROVE NewsIsFresh'
  BY <1>4, <1>7 DEF BlockInv, BlockTypes, BusyExact, NewsIsFresh, WorkerPublishes
<1>8. ASSUME ~story'.overlap PROVE AnswersTrue'
  BY <1>4, <1>8 DEF BlockInv, BlockTypes, AnswersTrue, Fine, Served, WorkerPublishes, ready_status
<1> QED
  BY <1>1, <1>2, <1>3, <1>5, <1>6, <1>7, <1>8, Zenon DEF BlockInv

(* The worker sets the cause after the status. *)
LEMMA WorkerFlagsKeeps ==
    ASSUME BlockInv, WorkerFlags
    PROVE  BlockInv'
<1>1. BlockTypes'
  <2>1. dev' \in DeviceState
    BY Zenon DEF BlockInv, BlockTypes, DeviceState, WorkerState, Causes, WorkerFlags
  <2>2. worker' \in WorkerState
    BY Zenon DEF BlockInv, BlockTypes, WorkerState, WorkerFlags
  <2> QED
    BY <2>1, <2>2, Zenon DEF BlockInv, BlockTypes, WorkerFlags
<1>2. BusyExact'
  BY DEF BlockInv, BlockTypes, BusyExact, WorkerFlags
<1>3. Stages'
  BY Zenon DEF BlockInv, BlockTypes, Stages, WorkerFlags
<1>4. ASSUME ~story'.overlap PROVE ~story.overlap
  BY <1>4, Zenon DEF BlockInv, BlockTypes, WorkerFlags
<1>5. ASSUME ~story'.overlap PROVE PollingExact'
  BY <1>4, <1>5 DEF BlockInv, BlockTypes, DriverState, PollingExact, WorkerFlags
<1>6. ASSUME ~story'.overlap PROVE RunningExact'
  BY <1>4, <1>6 DEF BlockInv, BlockTypes, RunningExact, WorkerFlags
<1>7. ASSUME ~story'.overlap PROVE NewsIsFresh'
  BY <1>4, <1>7 DEF BlockInv, BlockTypes, NewsIsFresh, WorkerFlags
<1>8. ASSUME ~story'.overlap PROVE AnswersTrue'
  BY <1>4, <1>8 DEF BlockInv, BlockTypes, AnswersTrue, Fine, Served, WorkerFlags
<1> QED
  BY <1>1, <1>2, <1>3, <1>5, <1>6, <1>7, <1>8, Zenon DEF BlockInv

(* The worker raises the line after the cause. *)
LEMMA WorkerRaisesKeeps ==
    ASSUME BlockInv, WorkerRaises
    PROVE  BlockInv'
<1>1. BlockTypes'
  <2>1. line' \in LineState
    BY Zenon DEF BlockInv, BlockTypes, LineState, WorkerRaises, Raised
  <2>2. worker' \in WorkerState
    BY Zenon DEF BlockInv, BlockTypes, WorkerState, WorkerRaises, Raised
  <2> QED
    BY <2>1, <2>2, Zenon DEF BlockInv, BlockTypes, WorkerRaises
<1>2. BusyExact'
  BY DEF BlockInv, BlockTypes, BusyExact, WorkerRaises, Raised
<1>3. Stages'
  BY DEF BlockInv, BlockTypes, Stages, WorkerRaises, Raised
<1>4. ASSUME ~story'.overlap PROVE ~story.overlap
  BY <1>4, Zenon DEF BlockInv, BlockTypes, WorkerRaises, Raised
<1>5. ASSUME ~story'.overlap PROVE PollingExact'
  BY <1>4, <1>5, Zenon DEF BlockInv, BlockTypes, PollingExact, WorkerRaises, Raised
<1>6. ASSUME ~story'.overlap PROVE RunningExact'
  BY <1>4, <1>6 DEF BlockInv, BlockTypes, RunningExact, WorkerRaises, Raised
<1>7. ASSUME ~story'.overlap PROVE NewsIsFresh'
  BY <1>4, <1>7 DEF BlockInv, BlockTypes, NewsIsFresh, WorkerRaises, Raised
<1>8. ASSUME ~story'.overlap PROVE AnswersTrue'
  BY <1>4, <1>8 DEF BlockInv, BlockTypes, AnswersTrue, Fine, Served, WorkerRaises, Raised
<1> QED
  BY <1>1, <1>2, <1>3, <1>5, <1>6, <1>7, <1>8, Zenon DEF BlockInv

(* The handler takes the line. *)
LEMMA HandlerEntersKeeps ==
    ASSUME BlockInv, HandlerEnters
    PROVE  BlockInv'
<1>1. BlockTypes'
  <2>1. line' \in LineState
    BY Zenon DEF BlockInv, BlockTypes, LineState, HandlerEnters, KernelFree, InKernel
  <2>2. handler' \in HandlerState
    BY Zenon DEF BlockInv, BlockTypes, HandlerState, DeviceState, HandlerEnters, KernelFree, InKernel
  <2> QED
    BY <2>1, <2>2, Zenon DEF BlockInv, BlockTypes, HandlerEnters
<1>2. BusyExact'
  BY Zenon DEF BlockInv, BlockTypes, BusyExact, HandlerEnters, KernelFree, InKernel
<1>3. Stages'
  BY Zenon DEF BlockInv, BlockTypes, Stages, HandlerEnters, KernelFree, InKernel
<1>4. ASSUME ~story'.overlap PROVE ~story.overlap
  BY <1>4, Zenon DEF BlockInv, BlockTypes, HandlerEnters, KernelFree, InKernel
<1>5. ASSUME ~story'.overlap PROVE PollingExact'
  BY <1>4, <1>5, Zenon DEF BlockInv, BlockTypes, PollingExact, HandlerEnters, KernelFree, InKernel
<1>6. ASSUME ~story'.overlap PROVE RunningExact'
  BY <1>4, <1>6 DEF BlockInv, BlockTypes, RunningExact, HandlerEnters, KernelFree, InKernel
<1>7. ASSUME ~story'.overlap PROVE NewsIsFresh'
  BY <1>4, <1>7 DEF BlockInv, BlockTypes, NewsIsFresh, HandlerEnters, KernelFree, InKernel
<1>8. ASSUME ~story'.overlap PROVE AnswersTrue'
  BY <1>4, <1>8, Zenon DEF BlockInv, BlockTypes, AnswersTrue, Fine, Served, HandlerEnters, KernelFree, InKernel
<1> QED
  BY <1>1, <1>2, <1>3, <1>5, <1>6, <1>7, <1>8, Zenon DEF BlockInv

(* The handler reads the cause and the status of the request under way.    *)
LEMMA HandlerReadsKeeps ==
    ASSUME BlockInv, HandlerReads
    PROVE  BlockInv'
<1>1. BlockTypes'
  <2>1. handler' \in HandlerState
    BY Zenon DEF BlockInv, BlockTypes, HandlerState, DeviceState, HandlerReads
  <2> QED
    BY <2>1, Zenon DEF BlockInv, BlockTypes, HandlerReads
<1>2. BusyExact'
  BY Zenon DEF BlockInv, BlockTypes, BusyExact, HandlerReads
<1>3. Stages'
  BY Zenon DEF BlockInv, BlockTypes, Stages, HandlerReads
<1>4. ASSUME ~story'.overlap PROVE ~story.overlap
  BY <1>4, Zenon DEF BlockInv, BlockTypes, HandlerReads
<1>5. ASSUME ~story'.overlap PROVE PollingExact'
  BY <1>4, <1>5, Zenon DEF BlockInv, BlockTypes, PollingExact, HandlerReads
<1>6. ASSUME ~story'.overlap PROVE RunningExact'
  BY <1>4, <1>6, Zenon DEF BlockInv, BlockTypes, RunningExact, HandlerReads
<1>7. ASSUME ~story'.overlap PROVE NewsIsFresh'
  BY <1>4, <1>7 DEF BlockInv, BlockTypes, NewsIsFresh, HandlerReads
<1>8. ASSUME ~story'.overlap PROVE AnswersTrue'
  BY <1>4, <1>8, Zenon DEF BlockInv, BlockTypes, AnswersTrue, Fine, Served, HandlerReads
<1> QED
  BY <1>1, <1>2, <1>3, <1>5, <1>6, <1>7, <1>8, Zenon DEF BlockInv

(* block_request_complete ends the pending request and wakes its call.     *)
LEMMA HandlerCompletesKeeps ==
    ASSUME BlockInv, HandlerCompletes
    PROVE  BlockInv'
<1>1. BlockTypes'
  <2>1. dev' \in DeviceState
    BY Zenon DEF BlockInv, BlockTypes, DeviceState, WorkerState, HandlerCompletes, block_request_complete
  <2>2. driver' \in DriverState
    BY Zenon DEF BlockInv, BlockTypes, DriverState, HandlerCompletes, block_request_complete
  <2>3. call' \in CallState
    BY Zenon DEF BlockInv, BlockTypes, CallState, DriverState, HandlerCompletes, block_request_complete
  <2>4. line' \in LineState
    BY Zenon DEF BlockInv, BlockTypes, LineState, HandlerCompletes, block_request_complete
  <2>5. handler' \in HandlerState
    BY Zenon DEF BlockInv, BlockTypes, HandlerState, HandlerCompletes, block_request_complete
  <2> QED
    BY <2>1, <2>2, <2>3, <2>4, <2>5, Zenon DEF BlockInv, BlockTypes, HandlerCompletes
<1>2. BusyExact'
  BY DEF BlockInv, BlockTypes, BusyExact, HandlerCompletes, block_request_complete
<1>3. Stages'
  BY DEF BlockInv, BlockTypes, Stages, HandlerCompletes, block_request_complete
<1>4. ASSUME ~story'.overlap PROVE ~story.overlap
  BY <1>4, Zenon DEF BlockInv, BlockTypes, HandlerCompletes, block_request_complete
<1>5. ASSUME ~story'.overlap PROVE PollingExact'
  BY <1>4, <1>5 DEF BlockInv, BlockTypes, PollingExact, HandlerCompletes, block_request_complete
<1>6. ASSUME ~story'.overlap PROVE RunningExact'
  BY <1>4, <1>6 DEF BlockInv, BlockTypes, RunningExact, HandlerCompletes, block_request_complete
<1>7. ASSUME ~story'.overlap PROVE NewsIsFresh'
  BY <1>4, <1>7 DEF BlockInv, BlockTypes, NewsIsFresh, HandlerCompletes, block_request_complete
<1>8. ASSUME ~story'.overlap PROVE AnswersTrue'
  BY <1>4, <1>8 DEF BlockInv, BlockTypes, Stages, RunningExact, NewsIsFresh, AnswersTrue, Fine,
                    HandlerCompletes, block_request_complete
<1> QED
  BY <1>1, <1>2, <1>3, <1>5, <1>6, <1>7, <1>8, Zenon DEF BlockInv

(* block_enable_interrupts sets the control register: an overlap if the    *)
(* device has a request.                                                   *)
LEMMA EnableControlKeeps ==
    ASSUME BlockInv, EnableControl
    PROVE  BlockInv'
<1>1. BlockTypes'
  <2>1. dev' \in DeviceState
    BY Zenon DEF BlockInv, BlockTypes, DeviceState, WorkerState, EnableControl
  <2>2. driver' \in DriverState
    BY Zenon DEF BlockInv, BlockTypes, DriverState, EnableControl
  <2>3. story' \in StoryState
    BY Zenon DEF BlockInv, BlockTypes, StoryState, EnableControl
  <2> QED
    BY <2>1, <2>2, <2>3, Zenon DEF BlockInv, BlockTypes, EnableControl
<1>2. BusyExact'
  BY DEF BlockInv, BlockTypes, BusyExact, EnableControl
<1>3. Stages'
  BY DEF BlockInv, BlockTypes, Stages, EnableControl
<1>4. ASSUME ~story'.overlap PROVE ~story.overlap
  BY <1>4, Zenon DEF BlockInv, BlockTypes, StoryState, EnableControl
<1>5. ASSUME ~story'.overlap PROVE PollingExact'
  BY <1>4, <1>5, Zenon DEF BlockInv, BlockTypes, DeviceState, DriverState, StoryState, PollingExact,
     EnableControl
<1>6. ASSUME ~story'.overlap PROVE RunningExact'
  BY <1>4, <1>6 DEF BlockInv, BlockTypes, RunningExact, EnableControl
<1>7. ASSUME ~story'.overlap PROVE NewsIsFresh'
  BY <1>4, <1>7 DEF BlockInv, BlockTypes, NewsIsFresh, EnableControl
<1>8. ASSUME ~story'.overlap PROVE AnswersTrue'
  BY <1>4, <1>8 DEF BlockInv, BlockTypes, AnswersTrue, Served, EnableControl
<1> QED
  BY <1>1, <1>2, <1>3, <1>5, <1>6, <1>7, <1>8, Zenon DEF BlockInv

(* block_enable_interrupts enables the line, with nothing pending on it.   *)
LEMMA EnableLineKeeps ==
    ASSUME BlockInv, EnableLine
    PROVE  BlockInv'
<1>1. BlockTypes'
  <2>1. line' \in LineState
    BY Zenon DEF BlockInv, BlockTypes, LineState, EnableLine
  <2>2. driver' \in DriverState
    BY Zenon DEF BlockInv, BlockTypes, DriverState, EnableLine
  <2> QED
    BY <2>1, <2>2, Zenon DEF BlockInv, BlockTypes, EnableLine
<1>2. BusyExact'
  BY Zenon DEF BlockInv, BlockTypes, BusyExact, EnableLine
<1>3. Stages'
  BY DEF BlockInv, BlockTypes, Stages, EnableLine
<1>4. ASSUME ~story'.overlap PROVE ~story.overlap
  BY <1>4, Zenon DEF BlockInv, BlockTypes, EnableLine
<1>5. ASSUME ~story'.overlap PROVE PollingExact'
  BY <1>4, <1>5 DEF BlockInv, BlockTypes, PollingExact, EnableLine
<1>6. ASSUME ~story'.overlap PROVE RunningExact'
  BY <1>4, <1>6 DEF BlockInv, BlockTypes, Stages, BusyExact, PollingExact, RunningExact, EnableLine
<1>7. ASSUME ~story'.overlap PROVE NewsIsFresh'
  BY <1>4, <1>7, Zenon DEF BlockInv, BlockTypes, Stages, PollingExact, NewsIsFresh, EnableLine
<1>8. ASSUME ~story'.overlap PROVE AnswersTrue'
  BY <1>4, <1>8 DEF BlockInv, BlockTypes, AnswersTrue, Fine, Served, EnableLine
<1> QED
  BY <1>1, <1>2, <1>3, <1>5, <1>6, <1>7, <1>8, Zenon DEF BlockInv

(* block_reset starts again: an overlap if the device has a request.       *)
LEMMA BlockResetKeeps ==
    ASSUME BlockInv, block_reset
    PROVE  BlockInv'
<1>1. BlockTypes'
  <2>1. dev' \in DeviceState
    <3>1. Created \in DeviceState
      <4>1. NoRequest \in Request
        BY BlockAssumption DEF NoRequest, Request, AnyOp, Lbas
      <4> QED
        BY <4>1, Zenon DEF Created, ready_status, DeviceState, StatusBits
    <3>2. [Created EXCEPT !.request = dev.request, !.request_pending = dev.request_pending] \in DeviceState
      BY <3>1, Zenon DEF BlockInv, BlockTypes, DeviceState
    <3> QED
      BY <3>2, Zenon DEF block_reset, BlockInv, BlockTypes
  <2>2. line' \in LineState
    BY Zenon DEF BlockInv, BlockTypes, LineState, block_reset
  <2>3. driver' \in DriverState
    BY Zenon DEF BlockInv, BlockTypes, DriverState, block_reset, Booted
  <2>4. call' \in CallState
    BY Zenon DEF BlockInv, BlockTypes, CallState, DriverState, block_reset
  <2>5. handler' \in HandlerState
    BY Zenon DEF BlockInv, BlockTypes, HandlerState, block_reset
  <2>6. story' \in StoryState
    <3> DEFINE busy == story.overlap \/ worker.at # "idle" \/ dev.request_pending
    <3>1. busy \in BOOLEAN
      BY Zenon
    <3>2. story' = [story EXCEPT !.resets = @ + 1, !.overlap = busy]
      BY Zenon DEF block_reset
    <3>3. story \in StoryState /\ story.resets + 1 \in Nat
      BY DEF BlockInv, BlockTypes, StoryState
    <3> HIDE DEF busy
    <3> QED
      BY <3>1, <3>2, <3>3, Zenon DEF StoryState
  <2> QED
    BY <2>1, <2>2, <2>3, <2>4, <2>5, <2>6, Zenon DEF BlockInv, BlockTypes, block_reset
<1>2. BusyExact'
  BY Zenon DEF BlockInv, BlockTypes, BusyExact, block_reset, Created, ready_status
<1>3. Stages'
  BY DEF BlockInv, BlockTypes, Stages, block_reset, Booted
<1>4. ASSUME ~story'.overlap PROVE ~story.overlap
  BY <1>4, Zenon DEF BlockInv, BlockTypes, StoryState, block_reset
<1>5. ASSUME ~story'.overlap PROVE PollingExact'
  BY <1>4, <1>5, Zenon DEF BlockInv, BlockTypes, StoryState, BusyExact, PollingExact, block_reset, Created,
                    ready_status
<1>6. ASSUME ~story'.overlap PROVE RunningExact'
  BY <1>4, <1>6, Zenon DEF BlockInv, BlockTypes, RunningExact, block_reset, Booted
<1>7. ASSUME ~story'.overlap PROVE NewsIsFresh'
  BY <1>4, <1>7, Zenon DEF BlockInv, BlockTypes, NewsIsFresh, block_reset, Booted
<1>8. ASSUME ~story'.overlap PROVE AnswersTrue'
  BY <1>4, <1>8 DEF BlockInv, BlockTypes, AnswersTrue, block_reset
<1> QED
  BY <1>1, <1>2, <1>3, <1>5, <1>6, <1>7, <1>8, Zenon DEF BlockInv

(* The driver, its device and its line after the start. *)
LEMMA BlockInitially == BlockInit => BlockInv
<1> SUFFICES ASSUME BlockInit PROVE BlockInv
  BY Zenon
<1>1. NoRequest \in Request
  BY BlockAssumption DEF NoRequest, Request, AnyOp, Lbas
<1> HIDE DEF NoRequest
<1>2. BlockTypes
  <2>1. dev \in DeviceState /\ worker \in WorkerState
    BY <1>1, Zenon DEF BlockInit, Created, ready_status, DeviceState, WorkerState, StatusBits
  <2>2. medium \in [Lbas -> Nat] /\ bounce \in Nat /\ line \in LineState /\ driver \in DriverState
    BY Zenon DEF BlockInit, Blank, LineState, DriverState, Booted
  <2>3. call \in CallState /\ handler \in HandlerState /\ story \in StoryState
    BY DEF BlockInit, Blank, CallState, AnyOp, HandlerState, StoryState
  <2> QED
    BY <2>1, <2>2, <2>3, Zenon DEF BlockTypes
<1>3. BusyExact /\ Stages
  BY Zenon DEF BlockInit, Created, ready_status, Booted, BusyExact, Stages
<1>4. PollingExact /\ RunningExact /\ NewsIsFresh /\ AnswersTrue
  BY Zenon DEF BlockInit, Created, ready_status, PollingExact, RunningExact, NewsIsFresh, AnswersTrue
<1> QED
  BY <1>2, <1>3, <1>4, Zenon DEF BlockInv

(* Every step keeps the invariant. *)
LEMMA BlockStep == BlockInv /\ [BlockNext]_blockVars => BlockInv'
<1> SUFFICES ASSUME BlockInv, [BlockNext]_blockVars PROVE BlockInv'
  BY Zenon
<1>1. ASSUME NEW op \in Ops, NEW lba \in 0..Capacity, kernel_block_call(op, lba) PROVE BlockInv'
  BY <1>1, KernelBlockCallKeeps, Zenon
<1>2. CASE Caller
  BY <1>2, BlockCommandKeeps, SubmitKeeps, RefusalKeeps, PollStatusKeeps, WaitReturnsKeeps, Zenon DEF Caller
<1>3. CASE PollGivesUp \/ WaitTimesOut
  BY <1>3, PollGivesUpKeeps, WaitTimesOutKeeps, Zenon
<1>4. CASE block_worker
  BY Zenon, <1>4, WorkerTakesKeeps, ExecuteRequestKeeps, WorkerPublishesKeeps, WorkerFlagsKeeps,
     WorkerRaisesKeeps
     DEF block_worker
<1>5. CASE handle_block_interrupt
  BY <1>5, HandlerEntersKeeps, HandlerReadsKeeps, HandlerCompletesKeeps, Zenon DEF handle_block_interrupt
<1>6. CASE EnableControl \/ EnableLine \/ block_reset
  BY <1>6, EnableControlKeeps, EnableLineKeeps, BlockResetKeeps, ZenonT(30)
<1>7. CASE UNCHANGED blockVars
  BY <1>7 DEF blockVars, BlockInv, BlockTypes, BusyExact, Stages, PollingExact, RunningExact,
     NewsIsFresh,
              AnswersTrue, Fine, Served
<1> QED
  BY <1>1, <1>2, <1>3, <1>4, <1>5, <1>6, <1>7, Zenon DEF BlockNext

(* The token has one place at a time, in every state. *)
THEOREM OneRequestUnderWay == BlockSpec => []BlockInv
  BY BlockInitially, BlockStep, PTL DEF BlockSpec

(* A call that the driver reports as successful (kernel_block_read,        *)
(* kernel_block_write, kernel_block_flush) was executed by the device as   *)
(* this very request, and a read returns the sector, unless there was an   *)
(* overlap: the late completion of a request that timed out answers no     *)
(* newer call.                                                             *)
THEOREM AnswersAreTrue == BlockSpec => []SuccessMeansDone
<1>1. BlockInv => SuccessMeansDone
  BY Zenon DEF BlockInv, BlockTypes, SuccessMeansDone, AnswersTrue, Served
<1> QED
  BY <1>1, OneRequestUnderWay, PTL

-----------------------------------------------------------------------------
(***************************************************************************)
(* The keyboard. A key moves from the device's queue to the kernel's ring  *)
(* and to a reader; the three in a row are its journey. Each step moves    *)
(* the border between two neighbours, or takes keys out of the row.        *)
(***************************************************************************)

(* The journey J of the keys 1 .. n that were not given up (G): in the     *)
(* order of their numbers, none twice, none missing.                       *)
Ordered(J, n, G) ==
    /\ J \in Seq(Nat) /\ n \in Nat
    /\ \A i, j \in 1..Len(J) : i < j => J[i] < J[j]
    /\ 1..n = {J[i] : i \in 1..Len(J)} \cup G
    /\ \A i \in 1..Len(J) : J[i] \notin G

(* The types of the keyboard's state. *)
KbdState == [enable : BOOLEAN, irq_enable : BOOLEAN, events : Seq(Nat), irq_status : SUBSET {"EVENT", "OVERFLOW"},
             overflow : BOOLEAN, dropped : Nat]
KeyTypes ==
    /\ kbd \in KbdState /\ input \in [sequence : Nat, raising : BOOLEAN]
    /\ ring \in Seq(Nat) /\ waiters \in Seq(Readers)
    /\ keys \in [delivered : Seq(Nat), given_up : SUBSET Nat, resets : Nat]

(* KeysExact is inductive as it stands, with the types. *)
KeyInv == KeyTypes /\ KeysExact

(* A key that the device queues is the last of the journey                 *)
(* (keyboard_receive).                                                     *)
LEMMA NextKey ==
    ASSUME NEW J, NEW n, NEW G, Ordered(J, n, G)
    PROVE  Ordered(Append(J, n + 1), n + 1, G)
  <1> DEFINE K == Append(J, n + 1)
  <1>1. J \in Seq(Nat) /\ n \in Nat /\ Len(J) \in Nat
    BY DEF Ordered
  <1>2. K \in Seq(Nat) /\ Len(K) = Len(J) + 1 /\ K[Len(J) + 1] = n + 1 /\ \A i \in 1..Len(J) : K[i] = J[i]
    BY <1>1
  <1>3. \A i \in 1..Len(J) : J[i] \in 1..n
    BY Zenon DEF Ordered
  <1> HIDE DEF K
  <1>4. \A i, j \in 1..Len(K) : i < j => K[i] < K[j]
    <2> SUFFICES ASSUME NEW i \in 1..Len(K), NEW j \in 1..Len(K), i < j PROVE K[i] < K[j]
      BY Zenon
    <2>0. Len(J) \in Nat /\ i \in 1..Len(J) + 1 /\ j \in 1..Len(J) + 1 /\ i < j
      BY <1>1, <1>2, Zenon
    <2>1. i \in 1..Len(J) /\ (j \in 1..Len(J) \/ j = Len(J) + 1)
      <3> DEFINE l == Len(J)
      <3>1. l \in Nat /\ i \in 1..l + 1 /\ j \in 1..l + 1 /\ i < j
        BY <2>0, Zenon
      <3> HIDE DEF l
      <3>2. i \in 1..l /\ (j \in 1..l \/ j = l + 1)
        BY ONLY <3>1
      <3> QED
        BY <3>2, Zenon DEF l
    <2>2. CASE j \in 1..Len(J)
      BY <1>2, <2>1, <2>2, Zenon DEF Ordered
    <2>3. CASE j = Len(J) + 1
      <3>1. J[i] \in 1..n /\ K[i] = J[i] /\ K[j] = n + 1
        BY <1>2, <1>3, <2>1, <2>3, Zenon
      <3> QED
        BY <1>1, <3>1
    <2> QED
      BY <2>1, <2>2, <2>3, Zenon
  <1>5. {K[i] : i \in 1..Len(K)} = {J[i] : i \in 1..Len(J)} \cup {n + 1}
    <2>1. 1..Len(K) = 1..Len(J) \cup {Len(J) + 1}
      BY <1>1, <1>2
    <2> QED
      BY <1>2, <2>1, Zenon
  <1>6. 1..n + 1 = 1..n \cup {n + 1} /\ n + 1 \notin 1..n
    BY <1>1
  <1>7. n + 1 \notin G
    BY <1>6, Zenon DEF Ordered
  <1>8. \A i \in 1..Len(K) : K[i] \notin G
    <2> SUFFICES ASSUME NEW i \in 1..Len(K) PROVE K[i] \notin G
      BY Zenon
    <2>1. i \in 1..Len(J) \/ i = Len(J) + 1
      BY <1>1, <1>2
    <2>2. CASE i \in 1..Len(J)
      BY <1>2, <2>2, Zenon DEF Ordered
    <2>3. CASE i = Len(J) + 1
      BY <1>2, <1>7, <2>3, Zenon
    <2> QED
      BY <2>1, <2>2, <2>3, Zenon
  <1> QED
    <2>1. n + 1 \in Nat
      BY <1>1
    <2>2. 1..n = {J[i] : i \in 1..Len(J)} \cup G
      BY Zenon DEF Ordered
    <2>3. 1..n + 1 = {K[i] : i \in 1..Len(K)} \cup G
      BY <1>5, <1>6, <2>2, Zenon
    <2> QED
      BY <1>2, <1>4, <1>8, <2>1, <2>3, Zenon DEF Ordered, K

(* A key that a full or a disabled device does not take is given up        *)
(* (keyboard_receive, keyboard_input_emit).                                *)
LEMMA MissedKey ==
    ASSUME NEW J, NEW n, NEW G, Ordered(J, n, G)
    PROVE  Ordered(J, n + 1, G \cup {n + 1})
  <1>1. n \in Nat /\ 1..n + 1 = 1..n \cup {n + 1} /\ n + 1 \notin 1..n
    BY DEF Ordered
  <1>2. \A i \in 1..Len(J) : J[i] # n + 1
    BY <1>1, Zenon DEF Ordered
  <1>3. J \in Seq(Nat) /\ n + 1 \in Nat /\ \A i, j \in 1..Len(J) : i < j => J[i] < J[j]
    BY <1>1 DEF Ordered
  <1> DEFINE N == n + 1
             I == 1..Len(J)
             D == {J[i] : i \in I}
  <1>4. 1..n = D \cup G /\ \A i \in I : J[i] \notin G
    BY Zenon DEF Ordered
  <1>5. 1..N = 1..n \cup {N} /\ \A i \in I : J[i] # N
    BY <1>1, <1>2, Zenon
  <1> HIDE DEF N, I
  <1>6. \A i \in I : J[i] \notin G \cup {N}
    BY <1>4, <1>5, Zenon
  <1> HIDE DEF D
  <1>7. 1..N = D \cup (G \cup {N})
    BY <1>4, <1>5, Zenon
  <1> QED
    BY <1>3, <1>6, <1>7, Zenon DEF Ordered, N, I, D

(* Keys taken out of the middle of the journey are given up, and the order *)
(* of the others stays.                                                    *)
LEMMA DroppedKeys ==
    ASSUME NEW A \in Seq(Nat), NEW M \in Seq(Nat), NEW B \in Seq(Nat), NEW n, NEW G,
           Ordered(A \o M \o B, n, G)
    PROVE  Ordered(A \o B, n, G \cup {M[i] : i \in 1..Len(M)})
  <1> DEFINE J == A \o M \o B
             K == A \o B
             a == Len(A)
             m == Len(M)
             b == Len(B)
  <1>1. a \in Nat /\ m \in Nat /\ b \in Nat /\ J \in Seq(Nat) /\ K \in Seq(Nat)
    OBVIOUS
  <1>2. /\ Len(J) = a + m + b /\ Len(K) = a + b
        /\ \A i \in 1..a : J[i] = A[i] /\ K[i] = A[i]
        /\ \A i \in 1..m : J[a + i] = M[i]
        /\ \A i \in 1..b : J[a + m + i] = B[i] /\ K[a + i] = B[i]
    OBVIOUS
  <1> HIDE DEF J, K, a, m, b
  <1> DEFINE f(i) == IF i <= a THEN i ELSE i + m
  <1>3. \A i \in 1..a + b : f(i) \in 1..a + m + b /\ K[i] = J[f(i)]
    <2> SUFFICES ASSUME NEW i \in 1..a + b PROVE f(i) \in 1..a + m + b /\ K[i] = J[f(i)]
      BY Zenon
    <2>1. CASE i <= a
      BY <1>1, <1>2, <2>1
    <2>2. CASE ~(i <= a)
      <3>1. i - a \in 1..b /\ i = a + (i - a) /\ i + m = a + m + (i - a)
        BY <1>1, <2>2
      <3> QED
        <4> DEFINE k == i - a
        <4>1. k \in 1..b /\ i = a + k /\ f(i) = a + m + k /\ f(i) \in 1..a + m + b
          BY <1>1, <2>2, <3>1
        <4> HIDE DEF k, f
        <4> QED
          BY <1>2, <4>1, Zenon
    <2> QED
      BY <2>1, <2>2, Zenon
  <1>4. \A i, j \in 1..a + b : i < j => f(i) < f(j)
    BY <1>1
  <1>5. \A i \in 1..a + b, j \in 1..m : f(i) # a + j
    BY <1>1
  <1>6. \A j \in 1..a + m + b : (\E i \in 1..a + b : j = f(i)) \/ (\E i \in 1..m : j = a + i)
    <2> SUFFICES ASSUME NEW j \in 1..a + m + b
                 PROVE  (\E i \in 1..a + b : j = f(i)) \/ (\E i \in 1..m : j = a + i)
      BY Zenon
    <2>1. CASE j <= a
      <3>1. j \in 1..a + b /\ j = f(j)
        BY <1>1, <2>1
      <3> QED
        BY <3>1, Zenon
    <2>2. CASE a < j /\ j <= a + m
      <3>1. j - a \in 1..m /\ j = a + (j - a)
        BY <1>1, <2>2
      <3> QED
        BY <3>1, Zenon
    <2>3. CASE a + m < j
      <3>1. j - m \in 1..a + b /\ j = f(j - m)
        BY <1>1, <2>3
      <3> QED
        BY <3>1, Zenon
    <2> QED
      BY <1>1, <2>1, <2>2, <2>3
  <1> HIDE DEF f
  <1>7. \A j \in 1..m : a + j \in 1..a + m + b
    BY <1>1
  <1> DEFINE D == {M[i] : i \in 1..m}
  <1>8. \A i, j \in 1..Len(J) : i < j => J[i] < J[j]
    BY Zenon DEF Ordered, J
  <1>8a. \A i, j \in 1..Len(J) : i # j => J[i] # J[j]
    <2> SUFFICES ASSUME NEW i \in 1..Len(J), NEW j \in 1..Len(J), i # j PROVE J[i] # J[j]
      BY Zenon
    <2>a. J \in Seq(Nat)
      BY <1>1, Zenon
    <2>b. J[i] \in Nat /\ J[j] \in Nat
      BY ONLY <2>a, i \in 1..Len(J), j \in 1..Len(J)
    <2>c. i < j \/ j < i
      BY ONLY <2>a, i \in 1..Len(J), j \in 1..Len(J), i # j
    <2>1. J[i] \in Nat /\ J[j] \in Nat /\ (i < j \/ j < i)
      BY <2>b, <2>c, Zenon
    <2> QED
      BY <1>8, <2>1
  <1>9. \A i, j \in 1..Len(K) : i < j => K[i] < K[j]
    BY <1>2, <1>3, <1>4, <1>8
  <1>10. \A i \in 1..Len(K) : K[i] \notin G \cup D
    <2> SUFFICES ASSUME NEW i \in 1..Len(K) PROVE K[i] \notin G /\ K[i] \notin D
      BY Zenon
    <2>1. f(i) \in 1..Len(J) /\ K[i] = J[f(i)] /\ \A j \in 1..m : f(i) # a + j
      BY <1>2, <1>3, <1>5, Zenon
    <2>2. J[f(i)] \notin G
      BY <2>1, Zenon DEF Ordered, J
    <2>3. \A j \in 1..m : J[f(i)] # M[j]
      BY <1>2, <1>7, <1>8a, <2>1
    <2> QED
      BY <2>1, <2>2, <2>3, Zenon
  <1>11. {J[i] : i \in 1..Len(J)} = {K[i] : i \in 1..Len(K)} \cup D
    <2>1. ASSUME NEW j \in 1..Len(J) PROVE J[j] \in {K[i] : i \in 1..Len(K)} \cup D
      <3>1. CASE \E i \in 1..a + b : j = f(i)
        <4>1. PICK i \in 1..a + b : j = f(i)
          BY <3>1, Zenon
        <4>2. i \in 1..Len(K) /\ J[j] = K[i]
          BY <1>2, <1>3, <4>1, Zenon
        <4> QED
          BY <4>2, Zenon
      <3>2. CASE \E i \in 1..m : j = a + i
        BY <1>2, <3>2, Zenon
      <3> QED
        BY <1>2, <1>6, <3>1, <3>2, Zenon
    <2>2. ASSUME NEW i \in 1..Len(K) PROVE K[i] \in {J[j] : j \in 1..Len(J)}
      BY <1>2, <1>3, Zenon
    <2>3. ASSUME NEW i \in 1..m PROVE M[i] \in {J[j] : j \in 1..Len(J)}
      BY <1>2, <1>7, Zenon
    <2> QED
      BY <2>1, <2>2, <2>3, Zenon
  <1>12. 1..n = {J[i] : i \in 1..Len(J)} \cup G /\ n \in Nat
    BY Zenon DEF Ordered, J
  <1>13. 1..n = {K[i] : i \in 1..Len(K)} \cup (G \cup D)
    BY <1>11, <1>12, Zenon
  <1>14. Ordered(K, n, G \cup D)
    BY <1>1, <1>9, <1>10, <1>12, <1>13, Zenon DEF Ordered
  <1> QED
    BY <1>14, Zenon DEF K, D, m

(* What KeysInOrder says of the state is Ordered of the keys delivered, in *)
(* the ring and in the device.                                             *)
LEMMA KeysOrdered ==
    ASSUME KeyTypes
    PROVE  KeysInOrder <=> Ordered(Journey, input.sequence, keys.given_up)
  <1>1. Journey \in Seq(Nat) /\ input.sequence \in Nat
    BY DEF KeyTypes, KbdState, Journey
  <1> QED
    BY <1>1, Zenon DEF KeysInOrder, Ordered

(* The same of the next state. *)
LEMMA KeysOrderedNext ==
    ASSUME KeyTypes', Ordered(Journey', input'.sequence, keys'.given_up)
    PROVE  KeysInOrder'
  <1>1. Journey' \in Seq(Nat) /\ input'.sequence \in Nat
    BY DEF KeyTypes, KbdState, Journey
  <1> QED
    BY <1>1, Zenon DEF KeysInOrder, Ordered

(* The parts of a journey may be joined from either end. *)
Joined(a, b, c) == (a \o b) \o c = a \o (b \o c)

(* Joining sequences is associative. *)
LEMMA Joins ==
    ASSUME NEW a \in Seq(Nat), NEW b \in Seq(Nat), NEW c \in Seq(Nat)
    PROVE  Joined(a, b, c)
  BY ConcatAssociative, SMTT(30) DEF Joined

(* The oldest event of the device (Head(e)) as the one after the bytes     *)
(* delivered (d) and those in the ring (r), wherever it goes next.         *)
FirstOf(d, r, e) ==
    /\ Head(e) \in Nat /\ Tail(e) \in Seq(Nat)
    /\ d \o r \o e = (d \o r) \o <<Head(e)>> \o Tail(e)
    /\ d \o r \o e = d \o Append(r, Head(e)) \o Tail(e)
    /\ r = <<>> => d \o r \o e = Append(d, Head(e)) \o r \o Tail(e)

(* The oldest event of the device can go to the ring, and with the ring    *)
(* empty to a reader, without leaving its place in the journey.            *)
LEMMA OldestKey ==
    ASSUME NEW d \in Seq(Nat), NEW r \in Seq(Nat), NEW e \in Seq(Nat), e # <<>>
    PROVE  FirstOf(d, r, e)
  <1> DEFINE k == Head(e)
             t == Tail(e)
             h == <<k>>
             f == d \o r
  <1>1. k \in Nat /\ t \in Seq(Nat) /\ h \in Seq(Nat) /\ f \in Seq(Nat)
    OBVIOUS
  <1>2. e = h \o t
    OBVIOUS
  <1>3. Append(r, k) = r \o h /\ Append(d, k) = d \o h
    OBVIOUS
  <1>a. r = <<>> => f = d /\ (d \o h) \o r = d \o h
    BY <1>1
  <1> HIDE DEF t, h, k
  <1>5. f \o h = d \o (r \o h)
    <2>1. Joined(d, r, h)
      BY <1>1, Joins, Zenon
    <2> QED
      BY <2>1, Zenon DEF Joined
  <1> HIDE DEF f
  <1>4. (f \o h) \o t = f \o (h \o t)
    <2>1. Joined(f, h, t)
      BY <1>1, Joins, Zenon
    <2> QED
      BY <2>1, Zenon DEF Joined
  <1>6. f \o e = (f \o h) \o t /\ f \o e = (d \o Append(r, k)) \o t
    BY <1>2, <1>3, <1>4, <1>5, Zenon
  <1>7. r = <<>> => f \o e = (Append(d, k) \o r) \o t
    BY <1>3, <1>6, <1>a, Zenon
  <1> QED
    BY <1>1, <1>6, <1>7, Zenon DEF f, h, t, k, FirstOf

(* Appending to the device's queue appends to the journey. *)
LEMMA LatestKey ==
    ASSUME NEW a \in Seq(Nat), NEW b \in Seq(Nat), NEW k \in Nat
    PROVE  a \o Append(b, k) = Append(a \o b, k)
  <1>1. Append(b, k) = b \o <<k>> /\ <<k>> \in Seq(Nat) /\ Append(a \o b, k) = (a \o b) \o <<k>>
    <2>1. Append(b, k) = b \o <<k>> /\ <<k>> \in Seq(Nat)
      OBVIOUS
    <2> DEFINE s == a \o b
    <2>2. s \in Seq(Nat)
      OBVIOUS
    <2> HIDE DEF s
    <2>3. Append(s, k) = s \o <<k>>
      BY <2>2
    <2> QED
      BY <2>1, <2>3, Zenon DEF s
  <1> DEFINE m == <<k>>
  <1>2. m \in Seq(Nat)
    BY <1>1, Zenon
  <1> HIDE DEF m
  <1>3. (a \o b) \o m = a \o (b \o m)
    <2>1. Joined(a, b, m)
      BY <1>2, Joins, Zenon
    <2> QED
      BY <2>1, Zenon DEF Joined
  <1> QED
    BY <1>1, <1>3, Zenon DEF m

(* The oldest event of the device is dropped. *)
LEMMA HeadDropped ==
    ASSUME NEW a \in Seq(Nat), NEW b \in Seq(Nat), NEW c \in Seq(Nat), c # <<>>, NEW n, NEW G,
           Ordered(a \o b \o c, n, G)
    PROVE  Ordered((a \o b) \o Tail(c), n, G \cup {Head(c)})
  <1> DEFINE k == Head(c)
             M == <<k>>
  <1>1. a \o b \in Seq(Nat) /\ M \in Seq(Nat) /\ {M[i] : i \in 1..Len(M)} = {k} /\ Tail(c) \in Seq(Nat)
    OBVIOUS
  <1>2. a \o b \o c = (a \o b) \o <<Head(c)>> \o Tail(c)
    <2>1. FirstOf(a, b, c)
      BY OldestKey, Zenon
    <2> QED
      BY <2>1, Zenon DEF FirstOf
  <1> HIDE DEF k, M
  <1>3. Ordered((a \o b) \o M \o Tail(c), n, G)
    BY <1>2, Zenon DEF k, M
  <1>4. Ordered((a \o b) \o Tail(c), n, G \cup {M[i] : i \in 1..Len(M)})
    BY <1>1, <1>3, DroppedKeys, Zenon
  <1> QED
    BY <1>1, <1>4, Zenon DEF k

(* A pass of the loop that empties the device hands the oldest event to a  *)
(* reader, to the ring, or to nobody (keyboard_deliver_event). A reader    *)
(* waits only while the ring is empty: this is what keeps the order.       *)
LEMMA DrainKeeps ==
    ASSUME KeyInv, Drain, UNCHANGED input
    PROVE  KeyInv'
  <1> DEFINE d == keys.delivered
             e == kbd.events
             k == Head(e)
             G == keys.given_up
             n == input.sequence
  <1>0. KeyTypes /\ Ordered(d \o ring \o e, n, G) /\ SleepersFindNothing
    BY KeysOrdered, Zenon DEF KeyInv, KeysExact, Journey
  <1>1. /\ kbd \in KbdState /\ ring \in Seq(Nat) /\ waiters \in Seq(Readers) /\ input \in [sequence : Nat, raising : BOOLEAN]
        /\ d \in Seq(Nat) /\ e \in Seq(Nat) /\ e # <<>> /\ keys \in [delivered : Seq(Nat), given_up : SUBSET Nat, resets : Nat]
    BY <1>0, Zenon DEF KeyTypes, KbdState, Drain
  <1>2. /\ k \in Nat /\ Tail(e) \in Seq(Nat)
        /\ d \o ring \o e = (d \o ring) \o <<k>> \o Tail(e)
        /\ d \o ring \o e = d \o Append(ring, k) \o Tail(e)
        /\ ring = <<>> => d \o ring \o e = Append(d, k) \o ring \o Tail(e)
    <2>1. FirstOf(d, ring, e)
      BY <1>1, OldestKey, Zenon
    <2> QED
      BY <2>1, Zenon DEF FirstOf
  <1>3. kbd' \in KbdState /\ kbd'.events = Tail(e) /\ input' = input
    BY <1>1, <1>2, Zenon DEF Drain, Popped, KbdState
  <1>4. Ordered((d \o ring) \o Tail(e), n, G \cup {k})
    BY <1>0, <1>1, HeadDropped, Zenon
  <1>5. CASE waiters # <<>> /\ keys' = [keys EXCEPT !.delivered = Append(@, k)] /\ waiters' = Tail(waiters) /\ ring' = ring
    <2>1. keys' \in [delivered : Seq(Nat), given_up : SUBSET Nat, resets : Nat] /\ keys'.delivered = Append(d, k)
          /\ keys'.given_up = G /\ waiters' \in Seq(Readers)
      <3>1. Append(d, k) \in Seq(Nat) /\ waiters' \in Seq(Readers)
        BY <1>1, <1>2, <1>5
      <3> QED
        BY <1>1, <1>5, <3>1, ZenonT(30)
    <2>2. KeyTypes'
      BY <1>1, <1>3, <1>5, <2>1, Zenon DEF KeyTypes
    <2>3. ring = <<>>
      BY <1>0, <1>5, Zenon DEF SleepersFindNothing
    <2>4. Journey' = d \o ring \o e
      BY <1>2, <1>3, <1>5, <2>1, <2>3, Zenon DEF Journey
    <2>5. KeysInOrder'
      BY <1>0, <1>3, <2>1, <2>2, <2>4, KeysOrderedNext, Zenon
    <2> QED
      BY <1>5, <2>2, <2>3, <2>5, Zenon DEF KeyInv, KeysExact, SleepersFindNothing
  <1>6. CASE /\ keys' = [keys EXCEPT !.given_up = @ \cup {k}] /\ ring' = ring
             /\ waiters' = waiters \/ (waiters # <<>> /\ waiters' = Tail(waiters))
    <2>1. keys' \in [delivered : Seq(Nat), given_up : SUBSET Nat, resets : Nat] /\ keys'.delivered = d
          /\ keys'.given_up = G \cup {k} /\ waiters' \in Seq(Readers)
      <3>1. G \cup {k} \in SUBSET Nat
        BY <1>1, <1>2, Zenon
      <3>2. waiters' \in Seq(Readers)
        <4>1. waiters # <<>> => Tail(waiters) \in Seq(Readers)
          BY <1>1
        <4> QED
          BY <1>1, <1>6, <4>1, Zenon
      <3> QED
        BY <1>1, <1>6, <3>1, <3>2, Zenon
    <2>2. KeyTypes'
      BY <1>1, <1>3, <1>6, <2>1, Zenon DEF KeyTypes
    <2>3. waiters' # <<>> => ring' = <<>>
      BY <1>0, <1>6, Zenon DEF SleepersFindNothing
    <2>4. Journey' = (d \o ring) \o Tail(e)
      BY <1>3, <1>6, <2>1, Zenon DEF Journey
    <2>5. KeysInOrder'
      BY <1>4, <1>3, <2>1, <2>2, <2>4, KeysOrderedNext, Zenon
    <2> QED
      BY <2>2, <2>3, <2>5, Zenon DEF KeyInv, KeysExact, SleepersFindNothing
  <1>7. CASE waiters = <<>> /\ ring' = Append(ring, k) /\ keys' = keys /\ waiters' = waiters
    <2>1. ring' \in Seq(Nat)
      BY <1>1, <1>2, <1>7
    <2>2. KeyTypes'
      BY <1>1, <1>3, <1>7, <2>1, Zenon DEF KeyTypes
    <2>4. Journey' = d \o ring \o e
      BY <1>2, <1>3, <1>7, Zenon DEF Journey
    <2>5. KeysInOrder'
      BY <1>0, <1>3, <1>7, <2>2, <2>4, KeysOrderedNext, Zenon
    <2> QED
      BY <1>7, <2>2, <2>5, ZenonT(30) DEF KeyInv, KeysExact, SleepersFindNothing
  <1> QED
    BY <1>5, <1>6, <1>7, Zenon DEF Drain, keyboard_deliver_event, kernel_wait_queue_wake_read_one,
       keyboard_buffer_push

(* keyboard_input_emit with the device enabled or not. *)
LEMMA EmitKeeps ==
    ASSUME KeyInv, keyboard_input_emit
    PROVE  KeyInv'
  <1> DEFINE J == Journey
             G == keys.given_up
             n == input.sequence
  <1>0. KeyTypes /\ Ordered(J, n, G) /\ SleepersFindNothing /\ UNCHANGED <<ring, waiters>>
    BY KeysOrdered, Zenon DEF KeyInv, KeysExact, keyboard_input_emit
  <1>1. /\ kbd \in KbdState /\ ring \in Seq(Nat) /\ waiters \in Seq(Readers) /\ input \in [sequence : Nat, raising : BOOLEAN]
        /\ kbd.events \in Seq(Nat) /\ keys \in [delivered : Seq(Nat), given_up : SUBSET Nat, resets : Nat]
    BY <1>0, Zenon DEF KeyTypes, KbdState
  <1>2. n + 1 \in Nat /\ Ordered(Append(J, n + 1), n + 1, G) /\ Ordered(J, n + 1, G \cup {n + 1})
    <2>1. n + 1 \in Nat
      BY <1>1
    <2> HIDE DEF J, G, n
    <2> QED
      BY <1>0, <2>1, NextKey, MissedKey, Zenon
  <1>3. CASE /\ kbd' \in KbdState /\ kbd'.events = kbd.events
             /\ input' \in [sequence : Nat, raising : BOOLEAN] /\ input'.sequence = n + 1
             /\ keys' = [keys EXCEPT !.given_up = @ \cup {n + 1}]
    <2>1. keys' \in [delivered : Seq(Nat), given_up : SUBSET Nat, resets : Nat]
          /\ keys'.delivered = keys.delivered /\ keys'.given_up = G \cup {n + 1}
      BY <1>1, <1>2, <1>3, Zenon
    <2>2. KeyTypes'
      BY <1>0, <1>1, <1>3, <2>1, Zenon DEF KeyTypes
    <2>3. Journey' = J
      BY <1>0, <1>3, <2>1, Zenon DEF Journey
    <2>4. KeysInOrder'
      BY <1>2, <1>3, <2>1, <2>2, <2>3, KeysOrderedNext, ZenonT(30)
    <2> QED
      BY <1>0, <2>2, <2>4, Zenon DEF KeyInv, KeysExact, SleepersFindNothing
  <1>4. CASE /\ kbd' \in KbdState /\ kbd'.events = Append(kbd.events, n + 1)
             /\ input' \in [sequence : Nat, raising : BOOLEAN] /\ input'.sequence = n + 1 /\ keys' = keys
    <2>2. KeyTypes'
      BY <1>0, <1>1, <1>4, Zenon DEF KeyTypes
    <2>3. Journey' = Append(J, n + 1)
      <3>1. keys.delivered \o ring \in Seq(Nat)
        BY <1>1
      <3>2. (keys.delivered \o ring) \o Append(kbd.events, n + 1) = Append((keys.delivered \o ring) \o kbd.events, n + 1)
        BY <1>1, <1>2, <3>1, LatestKey, ZenonT(30)
      <3> QED
        BY <1>0, <1>4, <3>2, Zenon DEF Journey
    <2>4. KeysInOrder'
      BY <1>2, <1>4, <2>2, <2>3, KeysOrderedNext, Zenon
    <2> QED
      BY <1>0, <2>2, <2>4, Zenon DEF KeyInv, KeysExact, SleepersFindNothing
  <1>5. CASE kbd.enable
    <2> DEFINE full == Len(kbd.events) = QueueCapacity
    <2>1. /\ kbd' = [kbd EXCEPT !.events = IF full THEN @ ELSE Append(@, n + 1),
                             !.dropped = IF full THEN @ + 1 ELSE @,
                             !.overflow = @ \/ full,
                             !.irq_status = @ \cup {IF full THEN "OVERFLOW" ELSE "EVENT"}]
          /\ input' = [sequence |-> n + 1, raising |-> kbd.irq_enable]
          /\ keys' = IF full THEN [keys EXCEPT !.given_up = @ \cup {n + 1}] ELSE keys
      BY <1>5, Zenon DEF keyboard_input_emit, keyboard_receive
    <2>2. full \in BOOLEAN
      BY Zenon
    <2>3. kbd' \in KbdState /\ kbd'.events = IF full THEN kbd.events ELSE Append(kbd.events, n + 1)
      <3>1. (IF full THEN kbd.events ELSE Append(kbd.events, n + 1)) \in Seq(Nat)
        BY <1>1, <1>2
      <3>2. (IF full THEN kbd.dropped + 1 ELSE kbd.dropped) \in Nat
        BY <1>1 DEF KbdState
      <3>3. kbd.irq_status \cup {IF full THEN "OVERFLOW" ELSE "EVENT"} \in SUBSET {"EVENT", "OVERFLOW"}
        BY <1>1, Zenon DEF KbdState
      <3>4. (kbd.overflow \/ full) \in BOOLEAN
        BY Zenon
      <3> HIDE DEF full
      <3> QED
        BY <1>1, <2>1, <3>1, <3>2, <3>3, <3>4, Zenon DEF KbdState
    <2>4. input' \in [sequence : Nat, raising : BOOLEAN] /\ input'.sequence = n + 1
      BY <1>1, <1>2, <2>1, Zenon DEF KbdState
    <2> QED
      BY <1>3, <1>4, <2>1, <2>3, <2>4, Zenon
  <1>6. CASE ~kbd.enable
    <2>1. /\ input' = [input EXCEPT !.sequence = @ + 1] /\ keys' = [keys EXCEPT !.given_up = @ \cup {n + 1}]
          /\ kbd' = kbd
      BY <1>6, Zenon DEF keyboard_input_emit
    <2>2. input' \in [sequence : Nat, raising : BOOLEAN] /\ input'.sequence = n + 1
      BY <1>1, <1>2, <2>1, Zenon
    <2> QED
      BY <1>1, <1>3, <2>1, <2>2, Zenon
  <1> QED
    BY <1>5, <1>6, Zenon


(* A step that moves no key keeps the invariant. *)
LEMMA QuietKeys ==
    ASSUME KeyInv, kbd' \in KbdState, kbd'.events = kbd.events, input' \in [sequence : Nat, raising : BOOLEAN],
           input'.sequence = input.sequence, UNCHANGED <<ring, waiters, keys>>
    PROVE  KeyInv'
  <1>1. KeyTypes /\ Ordered(Journey, input.sequence, keys.given_up) /\ SleepersFindNothing
    BY KeysOrdered, Zenon DEF KeyInv, KeysExact
  <1>2. KeyTypes'
    BY <1>1, Zenon DEF KeyTypes
  <1>3. Journey' = Journey
    BY Zenon DEF Journey
  <1>4. KeysInOrder'
    BY <1>1, <1>2, <1>3, KeysOrderedNext, Zenon
  <1> QED
    BY <1>1, <1>2, <1>4, Zenon DEF KeyInv, KeysExact, SleepersFindNothing

(* kernel_keyboard_read splits the ring into the bytes it takes and those  *)
(* it leaves.                                                              *)
LEMMA TakenKeys ==
    ASSUME NEW r \in Seq(Nat), NEW n \in Nat \ {0}
    PROVE  LET m == IF n < Len(r) THEN n ELSE Len(r)
           IN /\ SubSeq(r, 1, m) \in Seq(Nat) /\ SubSeq(r, n + 1, Len(r)) \in Seq(Nat)
              /\ SubSeq(r, 1, m) \o SubSeq(r, n + 1, Len(r)) = r
  <1> DEFINE l == Len(r)
             m == IF n < l THEN n ELSE l
             s == SubSeq(r, 1, m)
             t == SubSeq(r, n + 1, l)
  <1>1. l \in Nat /\ m \in 0..l /\ (m # n => m = l /\ l < n)
    OBVIOUS
  <1> HIDE DEF m
  <1>2. s \in Seq(Nat) /\ Len(s) = m /\ \A i \in 1..m : s[i] = r[i]
    BY <1>1
  <1>3. CASE m = n
    <2>1. t \in Seq(Nat) /\ Len(t) = l - m /\ \A i \in 1..l - m : t[i] = r[n + i]
      BY <1>1, <1>3
    <2> HIDE DEF s, t
    <2>2. s \o t \in Seq(Nat) /\ Len(s \o t) = Len(r)
      <3>1. s \in Seq(Nat) /\ t \in Seq(Nat)
        BY <1>2, <2>1, Zenon
      <3>2. s \o t \in Seq(Nat) /\ Len(s \o t) = Len(s) + Len(t)
        BY ONLY <3>1
      <3> QED
        BY ONLY <1>1, <1>2, <2>1, <3>2
    <2>3. ASSUME NEW i \in 1..l PROVE (s \o t)[i] = r[i]
      <3>1. CASE i <= m
        <4>1. s \in Seq(Nat) /\ t \in Seq(Nat) /\ i \in 1..Len(s) /\ i \in 1..m
          BY <1>1, <1>2, <2>1, <3>1
        <4>2. (s \o t)[i] = s[i]
          BY ONLY <4>1
        <4> QED
          BY <1>2, <4>1, <4>2, Zenon
      <3>2. CASE i > m
        <4>1. i - m \in 1..l - m /\ n + (i - m) = i
          BY <1>1, <1>3, <3>2
        <4>2. (s \o t)[i] = t[i - m]
          <5>1. s \in Seq(Nat) /\ t \in Seq(Nat) /\ i \in Len(s) + 1..Len(s) + Len(t)
            BY <1>1, <1>2, <2>1, <3>2
          <5>2. (s \o t)[i] = t[i - Len(s)]
            BY ONLY <5>1
          <5> QED
            BY <1>2, <5>2, Zenon
        <4> QED
          BY <2>1, <4>1, <4>2, Zenon
      <3>3. i <= m \/ i > m
        BY <1>1
      <3> QED
        BY <3>1, <3>2, <3>3, Zenon
    <2>4. s \o t = r
      BY <2>2, <2>3, SeqEqual, Zenon
    <2> QED
      BY <1>2, <2>1, <2>4, Zenon DEF s, t, m
  <1>4. CASE m # n
    <2>1. t = <<>>
      BY <1>1, <1>4
    <2>2. s = r
      BY <1>1, <1>2, <1>4, SeqEqual, Zenon
    <2>3. t \in Seq(Nat) /\ s \o t = r
      <3>1. s \o <<>> = s /\ <<>> \in Seq(Nat)
        BY <1>2, ConcatEmptySeq
      <3> QED
        BY <2>1, <2>2, <3>1, Zenon
    <2> HIDE DEF s, t
    <2> QED
      BY <1>2, <2>3, Zenon DEF s, t, m
  <1> QED
    BY <1>3, <1>4, Zenon

(* kernel_keyboard_read. *)
LEMMA ReadKeeps ==
    ASSUME KeyInv, NEW r \in Readers, NEW n \in 1..2, kernel_keyboard_read(r, n)
    PROVE  KeyInv'
  <1> DEFINE d == keys.delivered
             m == IF n < Len(ring) THEN n ELSE Len(ring)
             s == SubSeq(ring, 1, m)
             t == SubSeq(ring, n + 1, Len(ring))
  <1>0. /\ KeyTypes /\ Ordered(d \o ring \o kbd.events, input.sequence, keys.given_up) /\ SleepersFindNothing
        /\ kbd' = kbd /\ input' = input
    BY KeysOrdered, Zenon DEF KeyInv, KeysExact, Journey, kernel_keyboard_read
  <1>1. /\ ring \in Seq(Nat) /\ waiters \in Seq(Readers) /\ d \in Seq(Nat) /\ kbd.events \in Seq(Nat)
        /\ keys \in [delivered : Seq(Nat), given_up : SUBSET Nat, resets : Nat]
    BY <1>0, Zenon DEF KeyTypes, KbdState
  <1>2. CASE ring # <<>>
    <2>1. keys' = [keys EXCEPT !.delivered = @ \o s] /\ ring' = t /\ waiters' = waiters
      BY <1>2, Zenon DEF kernel_keyboard_read
    <2>2. s \in Seq(Nat) /\ t \in Seq(Nat) /\ s \o t = ring
      <3>1. n \in Nat \ {0} /\ ring \in Seq(Nat)
        BY <1>1
      <3> QED
        BY ONLY <3>1, TakenKeys, Zenon DEF s, t, m
    <2> HIDE DEF s, t
    <2>3. d \o s \in Seq(Nat)
      BY <1>1, <2>2
    <2>4. /\ keys' \in [delivered : Seq(Nat), given_up : SUBSET Nat, resets : Nat]
          /\ keys'.delivered = d \o s /\ keys'.given_up = keys.given_up
      BY <1>1, <2>1, <2>3, Zenon
    <2>5. KeyTypes'
      BY <1>0, <2>1, <2>2, <2>4, Zenon DEF KeyTypes
    <2>6. (d \o s) \o t = d \o ring
      <3>1. (d \o s) \o t = d \o (s \o t)
        <4>1. Joined(d, s, t)
          BY <1>1, <2>2, Joins, Zenon
        <4> QED
          BY <4>1, Zenon DEF Joined
      <3> QED
        BY <2>2, <3>1, Zenon
    <2>7. Journey' = d \o ring \o kbd.events
      BY <1>0, <2>1, <2>4, <2>6, Zenon DEF Journey
    <2>8. KeysInOrder'
      BY <1>0, <2>4, <2>5, <2>7, KeysOrderedNext, Zenon
    <2> QED
      BY <1>0, <1>2, <2>1, <2>5, <2>8, Zenon DEF KeyInv, KeysExact, SleepersFindNothing
  <1>3. CASE ring = <<>>
    <2>1. waiters' = Append(waiters, r) /\ ring' = ring /\ keys' = keys
      BY <1>3, Zenon DEF kernel_keyboard_read
    <2>2. waiters' \in Seq(Readers)
      BY <1>1, <2>1
    <2>3. KeyTypes'
      BY <1>0, <2>1, <2>2, Zenon DEF KeyTypes
    <2>4. Journey' = d \o ring \o kbd.events
      BY <1>0, <2>1, Zenon DEF Journey
    <2>5. KeysInOrder'
      BY <1>0, <2>1, <2>3, <2>4, KeysOrderedNext, Zenon
    <2> QED
      BY <1>3, <2>1, <2>3, <2>5, Zenon DEF KeyInv, KeysExact, SleepersFindNothing
  <1> QED
    BY <1>2, <1>3, Zenon

(* The poll at the end of the self-test. *)
LEMMA SelfTestKeeps ==
    ASSUME KeyInv, SelfTest
    PROVE  KeyInv'
  <1> DEFINE d == keys.delivered
             e == kbd.events
             k == Head(e)
             G == keys.given_up
             n == input.sequence
  <1>0. /\ KeyTypes /\ Ordered(d \o ring \o e, n, G) /\ SleepersFindNothing
        /\ input' = input /\ ring' = ring /\ waiters' = waiters
    BY KeysOrdered, Zenon DEF KeyInv, KeysExact, Journey, SelfTest
  <1>1. /\ kbd \in KbdState /\ ring \in Seq(Nat) /\ d \in Seq(Nat) /\ e \in Seq(Nat)
        /\ keys \in [delivered : Seq(Nat), given_up : SUBSET Nat, resets : Nat]
    BY <1>0, Zenon DEF KeyTypes, KbdState
  <1>2. CASE e = <<>>
    <2>1. kbd' = kbd /\ keys' = keys
      BY <1>2, Zenon DEF SelfTest
    <2> QED
      BY <1>0, <1>1, <2>1, QuietKeys, Zenon DEF KeyTypes
  <1>3. CASE e # <<>>
    <2>1. kbd' = Popped /\ keys' = [keys EXCEPT !.given_up = @ \cup {k}]
      BY <1>3, Zenon DEF SelfTest
    <2>2. k \in Nat /\ Tail(e) \in Seq(Nat)
      BY <1>1, <1>3
    <2>3. kbd' \in KbdState /\ kbd'.events = Tail(e)
      BY <1>1, <2>1, <2>2, Zenon DEF Popped, KbdState
    <2>4. /\ keys' \in [delivered : Seq(Nat), given_up : SUBSET Nat, resets : Nat]
          /\ keys'.delivered = d /\ keys'.given_up = G \cup {k}
      BY <1>1, <2>1, <2>2, Zenon
    <2>5. KeyTypes'
      BY <1>0, <2>3, <2>4, Zenon DEF KeyTypes
    <2>6. Ordered((d \o ring) \o Tail(e), n, G \cup {k})
      BY <1>0, <1>1, <1>3, HeadDropped, Zenon
    <2>7. Journey' = (d \o ring) \o Tail(e)
      BY <1>0, <2>3, <2>4, Zenon DEF Journey
    <2>8. KeysInOrder'
      BY <1>0, <2>4, <2>5, <2>6, <2>7, KeysOrderedNext, Zenon
    <2> QED
      BY <1>0, <2>5, <2>8, Zenon DEF KeyInv, KeysExact, SleepersFindNothing
  <1> QED
    BY <1>2, <1>3, Zenon

(* keyboard_reset gives up what the device and the ring hold. *)
LEMMA KeyResetKeeps ==
    ASSUME KeyInv, keyboard_reset
    PROVE  KeyInv'
  <1> DEFINE d == keys.delivered
             e == kbd.events
             G == keys.given_up
             n == input.sequence
             M == ring \o e
             D == {ring[i] : i \in 1..Len(ring)} \cup {e[i] : i \in 1..Len(e)}
  <1>0. KeyTypes /\ Ordered(d \o ring \o e, n, G)
    BY KeysOrdered, Zenon DEF KeyInv, KeysExact, Journey
  <1>1. /\ ring \in Seq(Nat) /\ d \in Seq(Nat) /\ e \in Seq(Nat) /\ input \in [sequence : Nat, raising : BOOLEAN]
        /\ keys \in [delivered : Seq(Nat), given_up : SUBSET Nat, resets : Nat]
    BY <1>0, Zenon DEF KeyTypes, KbdState
  <1>2. /\ kbd' = ResetDevice /\ ring' = <<>> /\ waiters' = <<>> /\ input' = input
        /\ keys' = [keys EXCEPT !.resets = @ + 1, !.given_up = G \cup D]
    BY <1>1, Zenon DEF keyboard_reset
  <1>3. M \in Seq(Nat) /\ {M[i] : i \in 1..Len(M)} = D
    <2>1. /\ M \in Seq(Nat) /\ Len(M) = Len(ring) + Len(e) /\ Len(ring) \in Nat /\ Len(e) \in Nat
          /\ \A i \in 1..Len(ring) : M[i] = ring[i]
          /\ \A i \in 1..Len(e) : M[Len(ring) + i] = e[i]
      BY <1>1
    <2> HIDE DEF M, e
    <2>2. ASSUME NEW i \in 1..Len(M) PROVE i \in 1..Len(ring) \/ \E j \in 1..Len(e) : i = Len(ring) + j
      <3>1. CASE i <= Len(ring)
        BY <2>1, <3>1
      <3>2. CASE i > Len(ring)
        <4>1. i - Len(ring) \in 1..Len(e) /\ i = Len(ring) + (i - Len(ring))
          BY <2>1, <3>2
        <4> QED
          BY <4>1, Zenon
      <3> QED
        BY <2>1, <3>1, <3>2
    <2>3. ASSUME NEW i \in 1..Len(ring) PROVE i \in 1..Len(M)
      BY <2>1
    <2>4. ASSUME NEW i \in 1..Len(e) PROVE Len(ring) + i \in 1..Len(M)
      BY <2>1
    <2>5. ASSUME NEW i \in 1..Len(M) PROVE M[i] \in D
      BY <2>1, <2>2, Zenon
    <2>6. ASSUME NEW x \in D PROVE \E i \in 1..Len(M) : x = M[i]
      BY <2>1, <2>3, <2>4, Zenon
    <2> HIDE DEF D
    <2> QED
      BY <2>1, <2>5, <2>6, Zenon
  <1>4. D \in SUBSET Nat
    BY <1>1
  <1>5. Ordered(d \o <<>>, n, G \cup D)
    <2>1. d \o ring \o e = d \o M /\ d \o M \o <<>> = d \o M /\ <<>> \in Seq(Nat)
      <3>1. d \o ring \o e = d \o M
        <4>1. Joined(d, ring, e)
          BY <1>1, Joins, Zenon
        <4> QED
          BY <4>1, Zenon DEF Joined
      <3>2. d \o M \in Seq(Nat)
        BY <1>1, <1>3
      <3>3. <<>> \in Seq(Nat) /\ (d \o M) \o <<>> = d \o M
        BY <3>2, ConcatEmptySeq
      <3> QED
        BY <3>1, <3>3, Zenon
    <2> HIDE DEF M, D, d, e, n, G
    <2>2. Ordered(d \o M \o <<>>, n, G)
      BY <1>0, <2>1, Zenon
    <2>3. Ordered(d \o <<>>, n, G \cup {M[i] : i \in 1..Len(M)})
      BY <1>1, <1>3, <2>1, <2>2, DroppedKeys, Zenon
    <2> QED
      BY <1>3, <2>3, Zenon
  <1>6. /\ keys' \in [delivered : Seq(Nat), given_up : SUBSET Nat, resets : Nat]
        /\ keys'.delivered = d /\ keys'.given_up = G \cup D
    <2>1. keys.resets + 1 \in Nat /\ G \cup D \in SUBSET Nat
      BY <1>1, <1>4
    <2> HIDE DEF D
    <2> QED
      BY <1>1, <1>2, <2>1, Zenon
  <1>7. kbd' \in KbdState /\ kbd'.events = <<>> /\ <<>> \in Seq(Nat) /\ <<>> \in Seq(Readers)
    BY <1>2 DEF ResetDevice, KbdState
  <1>8. KeyTypes'
    BY <1>1, <1>2, <1>6, <1>7, Zenon DEF KeyTypes
  <1>9. Journey' = d \o <<>>
    <2>1. d \o <<>> = d
      BY <1>1
    <2> QED
      BY <1>2, <1>6, <1>7, <2>1, Zenon DEF Journey
  <1>10. KeysInOrder'
    BY <1>2, <1>5, <1>6, <1>8, <1>9, KeysOrderedNext, Zenon
  <1> QED
    BY <1>2, <1>8, <1>10, Zenon DEF KeyInv, KeysExact, SleepersFindNothing

(* Every step of the keyboard keeps the invariant. *)
LEMMA KeyStep ==
    KeyInv /\ [KeyNext]_keyVars => KeyInv'
  <1> SUFFICES ASSUME KeyInv, [KeyNext]_keyVars PROVE KeyInv'
    BY Zenon
  <1>0. kbd \in KbdState /\ input \in [sequence : Nat, raising : BOOLEAN]
    BY Zenon DEF KeyInv, KeyTypes
  <1>1. CASE keyboard_raise_irq
    <2>1. input' \in [sequence : Nat, raising : BOOLEAN] /\ input'.sequence = input.sequence
      BY <1>0, <1>1, Zenon DEF keyboard_raise_irq
    <2>2. UNCHANGED <<kbd, ring, waiters, keys>>
      BY <1>1, Zenon DEF keyboard_raise_irq
    <2> QED
      BY <1>0, <2>1, <2>2, QuietKeys, Zenon
  <1>2. CASE UNCHANGED <<kbd, input, ring, waiters, keys>>
    BY <1>0, <1>2, QuietKeys, Zenon
  <1>3. CASE HandlerAcks \/ Initialise \/ ClearCauses \/ EnableInterrupt
    <2>1. kbd' \in KbdState /\ kbd'.events = kbd.events
      <3>1. \/ kbd' = [kbd EXCEPT !.irq_status = @ \ khandler.irq] \/ kbd' = [kbd EXCEPT !.irq_status = {}]
            \/ kbd' = [kbd EXCEPT !.enable = TRUE] \/ kbd' = [kbd EXCEPT !.irq_enable = TRUE]
        BY <1>3, Zenon DEF HandlerAcks, Initialise, ClearCauses, EnableInterrupt
      <3> QED
        BY <1>0, <3>1, ZenonT(30) DEF KbdState
    <2>2. UNCHANGED <<input, ring, waiters, keys>>
      BY <1>3, ZenonT(30) DEF HandlerAcks, Initialise, ClearCauses, EnableInterrupt
    <2> QED
      BY <1>0, <2>1, <2>2, QuietKeys, Zenon
  <1>4. CASE HandlerDrains \/ BootDrains
    BY <1>4, DrainKeeps, Zenon DEF HandlerDrains, BootDrains
  <1>5. CASE \E r \in Readers, n \in 1..2 : kernel_keyboard_read(r, n)
    BY <1>5, ReadKeeps, Zenon
  <1>6. CASE HandlerStarts \/ HandlerSeesNone \/ EnableKeyLine
    BY <1>2, <1>6, Zenon DEF HandlerStarts, HandlerSeesNone, EnableKeyLine
  <1>7. CASE UNCHANGED keyVars
    BY <1>2, <1>7, Zenon DEF keyVars
  <1> QED
    BY <1>1, <1>3, <1>4, <1>5, <1>6, <1>7, EmitKeeps, SelfTestKeeps, KeyResetKeeps, ZenonT(30)
       DEF KeyNext, handle_keyboard_interrupt, BootKeyboard

(* The keyboard starts in it. *)
LEMMA KeyStarts ==
    KeyInit => KeyInv
  <1> SUFFICES ASSUME KeyInit PROVE KeyInv
    BY Zenon
  <1>1. KeyTypes
    BY DEF KeyInit, KeyTypes, KbdState, ResetDevice
  <1>2. Journey = <<>> /\ Len(Journey) = 0 /\ input.sequence = 0 /\ keys.given_up = {} /\ 1..0 = {}
    BY DEF KeyInit, Journey, ResetDevice
  <1>3. KeysInOrder
    BY <1>2, Zenon DEF KeysInOrder
  <1> QED
    BY <1>1, <1>3, ZenonT(30) DEF KeyInit, KeyInv, KeysExact, SleepersFindNothing

(* Whatever the sizes of the device's queue and of the kernel's ring, and  *)
(* however interrupts, reads and resets interleave: every key that the     *)
(* host sent is delivered once and in order, is still on its way, or was   *)
(* given up where a queue was full, a buffer was gone or a reset came; and *)
(* no reader waits while there is something to read                        *)
(* (handle_keyboard_interrupt, kernel_keyboard_read).                      *)
THEOREM EveryKeyOnce == KeySpec => []KeysExact
  <1>1. KeyInv => KeysExact
    BY Zenon DEF KeyInv
  <1> QED
    BY KeyStarts, KeyStep, <1>1, PTL DEF KeySpec

-----------------------------------------------------------------------------
(***************************************************************************)
(* The display. A change of mode exchanges a buffer and reprograms the     *)
(* device, in steps each of which can fail; what an exit or a reset finds  *)
(* must be one of the states that the invariant allows.                    *)
(***************************************************************************)

(* The types of the display's state. *)
ModeState == [pages : Nat, variant : Int]
ScreenState ==
    [mode : ModeState, framebuffer : Int \cup Buffers, size : Nat, active : ModeState, control : BOOLEAN,
     error : BOOLEAN, irq_status : SUBSET {"ERROR", "PRESENT_COMPLETE"}, frame_number : Nat]
FrameState == [buffer : Buffers \cup {None}, mode : ModeState]
PresentState == [pending : BOOLEAN, waits : Int, completions : Int, sleeper : Processes \cup {None}]
WindowState == [queue : Seq(Nat), shown : Nat]
DStoryState == [last : Nat, frames : Nat, modes : Nat, resets : Nat]

DisplayTypes ==
    /\ screen \in ScreenState /\ dline \in BOOLEAN /\ owner \in Processes \cup {None}
    /\ fb \in [Processes -> FrameState] /\ view \in [Processes -> Buffers \cup {None}]
    /\ present \in PresentState /\ window \in WindowState /\ dstory \in DStoryState

(* A process has a buffer exactly while it has a mode, and it holds as     *)
(* many pages as the mode has.                                             *)
BufferExact(p) ==
    /\ fb[p].buffer = None <=> fb[p].mode.pages = 0
    /\ fb[p].buffer # None => held[fb[p].buffer] = fb[p].mode.pages
(* The registers of the device are those of the owner's buffer, which has  *)
(* pages.                                                                  *)
OwnerExact ==
    owner # None => /\ screen.control /\ fb[owner].mode.pages # 0
                    /\ screen.framebuffer = fb[owner].buffer /\ screen.size = fb[owner].mode.pages
(* Every buffer that is allocated belongs to one process. *)
HeldExact ==
    /\ DOMAIN held = {fb[p].buffer : p \in Processes} \ {None}
    /\ \A p, q \in Processes : fb[p].buffer = fb[q].buffer /\ p # q => fb[p].buffer = None
(* What is mapped at KERNEL_USER_FRAMEBUFFER_BASE is the process's own     *)
(* buffer, or nothing.                                                     *)
ViewExact == \A p \in Processes : view[p] \in {None, fb[p].buffer}
(* The frame accepted last is shown, or is the last in the queue.          *)
ShownExact == dstory.last = IF window.queue = <<>> THEN window.shown ELSE window.queue[Len(window.queue)]
(* Every wait for a present but the one under way has been ended.          *)
WaitsExact ==
    /\ present.waits = present.completions + (IF present.pending THEN 1 ELSE 0)
    /\ present.pending <=> present.sleeper # None
(* The inductive invariant: DisplayExact bounds the size of the registers  *)
(* by the pages held, and what keeps the two equal is that a mode and its  *)
(* buffer are always recorded together.                                    *)
DisplayInv ==
    /\ DisplayTypes /\ (\A p \in Processes : BufferExact(p)) /\ OwnerExact /\ HeldExact /\ ViewExact
    /\ ShownExact /\ WaitsExact

(* The invariant says what DisplayExact says. *)
LEMMA DisplayConsequence ==
    DisplayInv => DisplayExact
  <1> SUFFICES ASSUME DisplayInv PROVE DisplayExact
    BY Zenon
  <1>1. owner # None => screen.framebuffer = fb[owner].buffer /\ screen.size <= held[fb[owner].buffer]
    <2> SUFFICES ASSUME owner # None PROVE screen.framebuffer = fb[owner].buffer /\ screen.size <= held[fb[owner].buffer]
      BY Zenon
    <2>1. owner \in Processes /\ BufferExact(owner) /\ fb[owner].mode.pages # 0 /\ screen.framebuffer = fb[owner].buffer
          /\ screen.size = fb[owner].mode.pages
      BY Zenon DEF DisplayInv, DisplayTypes, OwnerExact
    <2>2. screen.size \in Nat
      BY Zenon DEF DisplayInv, DisplayTypes, ScreenState
    <2>3. held[fb[owner].buffer] = screen.size
      BY <2>1, Zenon DEF BufferExact
    <2> QED
      BY <2>1, <2>2, <2>3
  <1>2. FramesBelong
    BY <1>1, Zenon DEF FramesBelong, DisplayInv, HeldExact, ViewExact
  <1>3. PresentsCounted
    BY Zenon DEF PresentsCounted, DisplayInv, ShownExact, WaitsExact
  <1> QED
    BY <1>2, <1>3, Zenon DEF DisplayExact

(* r is d, as far as the buffer that the registers name and CONTROL go.    *)
SameTarget(r, d) == r \in ScreenState /\ r.framebuffer = d.framebuffer /\ r.size = d.size /\ r.control = d.control

(* display_set_error touches the status and the causes only. *)
LEMMA ErrorSet ==
    ASSUME NEW d \in ScreenState
    PROVE  SameTarget(display_set_error(d), d) /\ display_set_error(d).error
  <1>1. d.irq_status \cup {"ERROR"} \in SUBSET {"ERROR", "PRESENT_COMPLETE"}
    BY Zenon DEF ScreenState
  <1> QED
    BY <1>1, Zenon DEF display_set_error, ScreenState, SameTarget

(* display_apply_mode leaves the buffer alone, and accepts no mode without *)
(* pages.                                                                  *)
LEMMA ModeApplied ==
    ASSUME NEW d \in ScreenState, NEW c \in BOOLEAN
    PROVE  /\ SameTarget(display_apply_mode(d, c), d)
           /\ ~display_apply_mode(d, c).error => d.mode.pages # 0
  <1> DEFINE n == [d EXCEPT !.active = d.mode, !.error = FALSE]
  <1>1. SameTarget(n, d)
    BY Zenon DEF ScreenState, SameTarget
  <1>2. CASE d.mode.pages = 0 \/ (d.active # d.mode /\ ~c)
    BY <1>2, ErrorSet, Zenon DEF display_apply_mode
  <1>3. CASE ~(d.mode.pages = 0 \/ (d.active # d.mode /\ ~c))
    BY <1>1, <1>3, Zenon DEF display_apply_mode
  <1> QED
    BY <1>2, <1>3, Zenon

(* display_present leaves the buffer and CONTROL alone. *)
LEMMA Presented ==
    ASSUME NEW d \in ScreenState, NEW c \in BOOLEAN, NEW t \in BOOLEAN
    PROVE  SameTarget(display_present(d, c, t), d)
  <1> DEFINE a == display_apply_mode(d, c)
             n == [a EXCEPT !.frame_number = @ + 1, !.irq_status = @ \cup {"PRESENT_COMPLETE"}]
  <1>1. SameTarget(a, d)
    BY ModeApplied, Zenon
  <1> HIDE DEF a
  <1>2. a.irq_status \cup {"PRESENT_COMPLETE"} \in SUBSET {"ERROR", "PRESENT_COMPLETE"} /\ a.frame_number + 1 \in Nat
    BY <1>1 DEF ScreenState, SameTarget
  <1>3. SameTarget(n, d)
    BY <1>1, <1>2, Zenon DEF ScreenState, SameTarget
  <1>4. SameTarget(display_set_error(a), d)
    BY <1>1, ErrorSet, Zenon DEF SameTarget
  <1>5. display_present(d, c, t) \in {a, n, display_set_error(a)}
    BY Zenon DEF display_present, a
  <1> HIDE DEF n
  <1> QED
    BY <1>1, <1>3, <1>4, <1>5, Zenon

(* The writes of a mode, a buffer and a size to the registers. *)
LEMMA RegistersSet ==
    ASSUME NEW d \in ScreenState, NEW m \in ModeState, NEW b \in Int \cup Buffers
    PROVE  /\ Programmed(d, m, b) \in ScreenState /\ Programmed(d, m, b).framebuffer = b
           /\ Programmed(d, m, b).size = m.pages /\ Programmed(d, m, b).control = d.control
           /\ Programmed(d, m, b).mode = m
  <1>1. m.pages \in Nat
    BY Zenon DEF ModeState
  <1> QED
    BY <1>1, Zenon DEF Programmed, ScreenState

(* A step that leaves owner and buffers alone keeps the invariant.         *)
LEMMA QuietScreen ==
    ASSUME DisplayInv, SameTarget(screen', screen), dline' \in BOOLEAN, UNCHANGED <<owner, fb, held>>,
           present' \in PresentState, window' \in WindowState, dstory' \in DStoryState,
           view' \in [Processes -> Buffers \cup {None}], ViewExact', ShownExact', WaitsExact'
    PROVE  DisplayInv'
  <1>1. DisplayTypes'
    BY Zenon DEF DisplayInv, DisplayTypes, SameTarget
  <1>2. \A p \in Processes : BufferExact(p)'
    BY Zenon DEF DisplayInv, BufferExact
  <1>3. OwnerExact' /\ HeldExact'
    BY Zenon DEF DisplayInv, OwnerExact, HeldExact, SameTarget
  <1> QED
    BY <1>1, <1>2, <1>3, Zenon DEF DisplayInv

(* handle_display_interrupt ends the wait under way, if any. *)
LEMMA InterruptKeeps ==
    ASSUME DisplayInv, handle_display_interrupt
    PROVE  DisplayInv'
  <1>1. screen \in ScreenState /\ present \in PresentState /\ UNCHANGED <<owner, fb, view, held, window, dstory>> /\ dline' = FALSE
    BY Zenon DEF DisplayInv, DisplayTypes, handle_display_interrupt
  <1>2. SameTarget(screen', screen)
    BY <1>1, Zenon DEF handle_display_interrupt, ScreenState, SameTarget
  <1>3. present' \in PresentState /\ WaitsExact'
    <2>1. CASE present' = present
      BY <1>1, <2>1, Zenon DEF DisplayInv, WaitsExact
    <2>2. CASE present.pending /\ present' = [present EXCEPT !.pending = FALSE, !.completions = @ + 1, !.sleeper = None]
      <3>1. present.completions + 1 \in Int /\ None \in Processes \cup {None} /\ present.completions \in Int
        BY <1>1 DEF PresentState
      <3>2. /\ present' \in PresentState /\ ~present'.pending /\ present'.completions = present.completions + 1
            /\ present'.waits = present.waits /\ present'.sleeper = None
        BY <1>1, <2>2, <3>1, Zenon DEF PresentState
      <3>3. present.waits = present.completions + 1
        BY <2>2, Zenon DEF DisplayInv, WaitsExact
      <3> QED
        BY <3>1, <3>2, <3>3 DEF WaitsExact
    <2> QED
      BY <2>1, <2>2, Zenon DEF handle_display_interrupt
  <1>4. ViewExact' /\ ShownExact'
    BY <1>1, Zenon DEF DisplayInv, ViewExact, ShownExact
  <1> QED
    BY <1>1, <1>2, <1>3, <1>4, QuietScreen, Zenon DEF DisplayInv, DisplayTypes

(* display_frame_queue_push makes the frame the last, whether or not it    *)
(* drops the first.                                                        *)
LEMMA QueuePushed ==
    ASSUME NEW w \in WindowState, NEW n \in Nat
    PROVE  LET x == display_frame_queue_push(w, n)
           IN x \in WindowState /\ x.queue # <<>> /\ x.queue[Len(x.queue)] = n
  <1> DEFINE q == IF Len(w.queue) = FrameCapacity THEN Tail(w.queue) ELSE w.queue
             s == Append(q, n)
  <1>1. w.queue \in Seq(Nat)
    BY Zenon DEF WindowState
  <1>2. q \in Seq(Nat)
    <2>1. CASE Len(w.queue) = FrameCapacity
      <3>1. w.queue # <<>>
        BY <1>1, <2>1, DisplayAssumption, Zenon
      <3> QED
        BY <1>1, <2>1, <3>1
    <2>2. CASE Len(w.queue) # FrameCapacity
      BY <1>1, <2>2, Zenon
    <2> QED
      BY <2>1, <2>2, Zenon
  <1> HIDE DEF q
  <1>3. s \in Seq(Nat) /\ s # <<>> /\ s[Len(s)] = n
    BY <1>2
  <1>4. display_frame_queue_push(w, n) = [w EXCEPT !.queue = s]
    BY Zenon DEF display_frame_queue_push, q
  <1> HIDE DEF s
  <1>5. [w EXCEPT !.queue = s] \in WindowState /\ [w EXCEPT !.queue = s].queue = s
    BY <1>3, Zenon DEF WindowState
  <1> QED
    BY <1>3, <1>4, <1>5, Zenon

(* display_frame_queue_take_latest shows the last frame. *)
LEMMA TakeKeeps ==
    ASSUME DisplayInv, display_frame_queue_take_latest
    PROVE  DisplayInv'
  <1>1. /\ screen \in ScreenState /\ window \in WindowState /\ window.queue # <<>> /\ window.queue \in Seq(Nat)
        /\ UNCHANGED <<screen, dline, owner, fb, view, held, present, dstory>>
        /\ window' = [queue |-> <<>>, shown |-> window.queue[Len(window.queue)]]
    BY Zenon DEF DisplayInv, DisplayTypes, WindowState, display_frame_queue_take_latest
  <1>2. window.queue[Len(window.queue)] \in Nat /\ <<>> \in Seq(Nat)
    BY <1>1
  <1>3. window' \in WindowState /\ window'.queue = <<>> /\ window'.shown = window.queue[Len(window.queue)]
    BY <1>1, <1>2, Zenon DEF WindowState
  <1>4. ShownExact'
    BY <1>1, <1>3, Zenon DEF ShownExact, DisplayInv
  <1>5. ViewExact' /\ WaitsExact' /\ SameTarget(screen', screen)
    BY <1>1, Zenon DEF DisplayInv, ViewExact, WaitsExact, SameTarget
  <1> QED
    BY <1>1, <1>3, <1>4, <1>5, QuietScreen, Zenon DEF DisplayInv, DisplayTypes

(* kernel_display_present, with the thread asleep or not. *)
LEMMA PresentKeeps ==
    ASSUME DisplayInv, NEW p \in Processes, kernel_display_present(p)
    PROVE  DisplayInv'
  <1>0. /\ screen \in ScreenState /\ window \in WindowState /\ present \in PresentState /\ dstory \in DStoryState
        /\ UNCHANGED <<owner, fb, view, held>> /\ ~present.pending /\ dline' = TRUE /\ owner = p /\ p # None
    BY DisplayAssumption, Zenon DEF DisplayInv, DisplayTypes, kernel_display_present, None
  <1> DEFINE P(d, sleeps) ==
               /\ screen' = IF sleeps THEN d ELSE [d EXCEPT !.irq_status = {}]
               /\ dline' = TRUE
               /\ present' = IF sleeps THEN [present EXCEPT !.pending = TRUE, !.waits = @ + 1, !.sleeper = p]
                             ELSE present
               /\ window' = IF d.error THEN window ELSE display_frame_queue_push(window, dstory.frames + 1)
               /\ dstory' = [dstory EXCEPT !.frames = @ + 1, !.last = IF d.error THEN @ ELSE dstory.frames + 1]
             F(consent, taken) == {display_present([screen EXCEPT !.irq_status = {}], consent, taken)}
  <1>a. \E consent, taken, sleeps \in BOOLEAN : \E d \in F(consent, taken) : P(d, sleeps)
    BY Zenon DEF kernel_display_present
  <1>b. PICK consent \in BOOLEAN, taken \in BOOLEAN, sleeps \in BOOLEAN : \E d \in F(consent, taken) : P(d, sleeps)
    BY <1>a, Zenon
  <1>1. PICK d \in F(consent, taken) : P(d, sleeps)
    BY <1>b, Zenon
  <1>2. SameTarget(d, screen)
    <2> DEFINE s == [screen EXCEPT !.irq_status = {}]
    <2>1. SameTarget(s, screen)
      BY <1>0, Zenon DEF ScreenState, SameTarget
    <2> HIDE DEF s
    <2>2. s \in ScreenState
      BY <2>1, Zenon DEF SameTarget
    <2>3. d = display_present(s, consent, taken)
      BY <1>1, Zenon DEF s
    <2>4. SameTarget(display_present(s, consent, taken), s)
      BY <2>2, Presented, Zenon
    <2> QED
      BY <2>1, <2>3, <2>4, Zenon DEF SameTarget
  <1>3. SameTarget(screen', screen)
    <2>1. SameTarget([d EXCEPT !.irq_status = {}], screen)
      BY <1>2, Zenon DEF ScreenState, SameTarget
    <2> QED
      BY <1>1, <1>2, <2>1, Zenon
  <1>4. present' \in PresentState /\ WaitsExact'
    <2>1. CASE ~sleeps
      BY <1>0, <1>1, <2>1, Zenon DEF DisplayInv, WaitsExact
    <2>2. CASE sleeps
      <3>1. present.waits + 1 \in Int /\ present.waits \in Int /\ present.completions \in Int /\ p \in Processes \cup {None}
        BY <1>0 DEF PresentState
      <3>2. /\ present' \in PresentState /\ present'.pending /\ present'.completions = present.completions
            /\ present'.waits = present.waits + 1 /\ present'.sleeper = p
        BY <1>0, <1>1, <2>2, <3>1, Zenon DEF PresentState
      <3>3. present.waits = present.completions + 0
        BY <1>0, Zenon DEF DisplayInv, WaitsExact
      <3> QED
        BY <1>0, <3>1, <3>2, <3>3 DEF WaitsExact
    <2> QED
      BY <2>1, <2>2, Zenon
  <1>5. window' \in WindowState /\ dstory' \in DStoryState /\ ShownExact'
    <2>1. dstory.frames + 1 \in Nat
      BY <1>0 DEF DStoryState
    <2>2. CASE d.error
      <3>1. dstory' \in DStoryState /\ dstory'.last = dstory.last
        BY <1>0, <1>1, <2>1, <2>2, Zenon DEF DStoryState
      <3> QED
        BY <1>0, <1>1, <2>2, <3>1, Zenon DEF DisplayInv, ShownExact
    <2>3. CASE ~d.error
      <3>1. dstory' \in DStoryState /\ dstory'.last = dstory.frames + 1
        BY <1>0, <1>1, <2>1, <2>3, Zenon DEF DStoryState
      <3>2. window' \in WindowState /\ window'.queue # <<>> /\ window'.queue[Len(window'.queue)] = dstory.frames + 1
        BY <1>0, <1>1, <2>1, <2>3, QueuePushed, Zenon
      <3> QED
        BY <3>1, <3>2, Zenon DEF ShownExact
    <2> QED
      BY <2>2, <2>3, Zenon
  <1>6. ViewExact'
    BY <1>0, Zenon DEF DisplayInv, ViewExact
  <1> QED
    BY <1>0, <1>3, <1>4, <1>5, <1>6, QuietScreen, Zenon DEF DisplayInv, DisplayTypes

(* A process exchanges its buffer for a free one, or gives it back: every  *)
(* buffer still belongs to one process.                                    *)
LEMMA FrameMoved ==
    ASSUME DisplayInv, NEW p \in Processes, NEW b \in Buffers \cup {None}, NEW m \in ModeState, b \notin DOMAIN held,
           fb' = [fb EXCEPT ![p] = [buffer |-> b, mode |-> m]],
           DOMAIN held' = (DOMAIN held \ {fb[p].buffer}) \cup ({b} \ {None}),
           \A x \in DOMAIN held \ {fb[p].buffer} : held'[x] = held[x],
           b = None <=> m.pages = 0, b # None => held'[b] = m.pages
    PROVE  /\ fb' \in [Processes -> FrameState] /\ HeldExact' /\ fb'[p] = [buffer |-> b, mode |-> m]
           /\ \A q \in Processes : q # p => fb'[q] = fb[q]
           /\ \A q \in Processes : BufferExact(q)'
  <1>1. fb \in [Processes -> FrameState] /\ HeldExact
    BY Zenon DEF DisplayInv, DisplayTypes
  <1> DEFINE f == [buffer |-> b, mode |-> m]
  <1>2. f \in FrameState /\ f.buffer = b /\ f.mode = m
    BY Zenon DEF FrameState
  <1> HIDE DEF f
  <1>3. fb' \in [Processes -> FrameState] /\ fb'[p] = f /\ \A q \in Processes : q # p => fb'[q] = fb[q]
    BY <1>1, <1>2, Zenon DEF f
  <1>4. \A q \in Processes : fb[q].buffer # None => fb[q].buffer \in DOMAIN held
    BY <1>1, Zenon DEF HeldExact
  <1>5. \A q \in Processes : q # p /\ fb[q].buffer # None => fb[q].buffer \in DOMAIN held \ {fb[p].buffer}
    BY <1>1, <1>4, Zenon DEF HeldExact
  <1>6. \A q \in Processes : BufferExact(q)'
    <2> SUFFICES ASSUME NEW q \in Processes PROVE BufferExact(q)'
      BY Zenon
    <2>1. CASE q = p
      BY <1>2, <1>3, <2>1, Zenon DEF BufferExact
    <2>2. CASE q # p
      <3>1. fb'[q] = fb[q] /\ BufferExact(q)
        BY <1>3, <2>2, Zenon DEF DisplayInv
      <3>2. fb[q].buffer # None => held'[fb[q].buffer] = held[fb[q].buffer]
        BY <1>5, <2>2, Zenon
      <3> QED
        BY <3>1, <3>2, Zenon DEF BufferExact
    <2> QED
      BY <2>1, <2>2, Zenon
  <1>7. \A q, r \in Processes : fb'[q].buffer = fb'[r].buffer /\ q # r => fb'[q].buffer = None
    <2> SUFFICES ASSUME NEW q \in Processes, NEW r \in Processes, fb'[q].buffer = fb'[r].buffer, q # r, fb'[q].buffer # None
                 PROVE FALSE
      BY Zenon
    <2>1. CASE q # p /\ r # p
      BY <1>1, <1>3, <2>1, Zenon DEF HeldExact
    <2>2. CASE q = p
      BY <1>2, <1>3, <1>4, <2>2, Zenon
    <2>3. CASE r = p
      BY <1>2, <1>3, <1>4, <2>3, Zenon
    <2> QED
      BY <2>1, <2>2, <2>3, Zenon
  <1>8. DOMAIN held' = {fb'[q].buffer : q \in Processes} \ {None}
    <2>1. ASSUME NEW x \in DOMAIN held' PROVE x \in {fb'[q].buffer : q \in Processes} \ {None}
      <3>1. CASE x \in DOMAIN held \ {fb[p].buffer}
        <4>1. PICK q \in Processes : x = fb[q].buffer /\ x # None
          BY <1>1, <3>1, Zenon DEF HeldExact
        <4>2. q # p /\ fb'[q].buffer = x
          BY <1>3, <3>1, <4>1, Zenon
        <4> QED
          BY <4>1, <4>2, Zenon
      <3>2. CASE x = b /\ x # None
        BY <1>2, <1>3, <3>2, Zenon
      <3> QED
        BY <2>1, <3>1, <3>2, Zenon
    <2>2. ASSUME NEW q \in Processes, fb'[q].buffer # None PROVE fb'[q].buffer \in DOMAIN held'
      <3>1. CASE q = p
        BY <1>2, <1>3, <2>2, <3>1, Zenon
      <3>2. CASE q # p
        BY <1>3, <1>5, <2>2, <3>2, Zenon
      <3> QED
        BY <3>1, <3>2, Zenon
    <2>3. ASSUME NEW x \in {fb'[q].buffer : q \in Processes} \ {None} PROVE x \in DOMAIN held'
      <3>1. PICK q \in Processes : x = fb'[q].buffer
        BY <2>3, Zenon
      <3> QED
        BY <2>2, <2>3, <3>1, Zenon
    <2> DEFINE A == DOMAIN held'
               B == {fb'[q].buffer : q \in Processes} \ {None}
    <2>4. \A x : x \in A <=> x \in B
      BY <2>1, <2>3, Zenon
    <2> HIDE DEF A, B
    <2>5. A = B
      BY <2>4, Zenon
    <2> QED
      BY <2>5, Zenon DEF A, B
  <1> QED
    BY <1>3, <1>6, <1>7, <1>8, Zenon DEF HeldExact, f

(* A buffer is taken off those that are held. *)
LEMMA FieldRemoved ==
    ASSUME NEW f, NEW k
    PROVE  /\ DOMAIN Without(f, k) = DOMAIN f \ {k}
           /\ \A x \in DOMAIN f \ {k} : Without(f, k)[x] = f[x]
  BY Zenon DEF Without

(* After a reset nothing is held. *)
LEMMA NothingHeld ==
    ASSUME fb' = [p \in Processes |-> NoFrame], view' = [p \in Processes |-> None], held' = <<>>, owner' = None
    PROVE  /\ fb' \in [Processes -> FrameState] /\ view' \in [Processes -> Buffers \cup {None}]
           /\ (\A p \in Processes : BufferExact(p)') /\ OwnerExact' /\ HeldExact' /\ ViewExact'
  <1>1. NoMode \in ModeState /\ NoMode.pages = 0
    BY DEF NoMode, ModeState
  <1>2. NoFrame \in FrameState /\ NoFrame.buffer = None /\ NoFrame.mode.pages = 0
    BY <1>1, Zenon DEF NoFrame, FrameState
  <1>3. DOMAIN held' = {}
    BY SMT
  <1>4. \A p \in Processes : fb'[p] = NoFrame /\ view'[p] = None
    BY Zenon
  <1> QED
    BY <1>2, <1>3, <1>4, Zenon DEF BufferExact, OwnerExact, HeldExact, ViewExact

(* display_reset. *)
LEMMA DisplayResetKeeps ==
    ASSUME DisplayInv, display_reset
    PROVE  DisplayInv'
  <1>1. NoMode \in ModeState
    BY DEF NoMode, ModeState
  <1>2. ResetScreen \in ScreenState
    <2>1. None \in Int \cup Buffers /\ 0 \in Nat /\ {} \in SUBSET {"ERROR", "PRESENT_COMPLETE"}
      BY DEF None
    <2> QED
      BY <1>1, <2>1, Zenon DEF ResetScreen, ScreenState
  <1>3. NoPresent \in PresentState /\ WaitsExact'
    <2>1. present' = NoPresent
      BY Zenon DEF display_reset
    <2>2. NoPresent \in PresentState
      BY DEF NoPresent, PresentState
    <2>3. NoPresent.waits = 0 /\ NoPresent.completions = 0 /\ ~NoPresent.pending /\ NoPresent.sleeper = None
      BY Zenon DEF NoPresent
    <2> QED
      BY <2>1, <2>2, <2>3 DEF WaitsExact
  <1>4. dstory' \in DStoryState /\ dstory'.last = dstory.last
    <2>1. dstory \in DStoryState /\ dstory.resets + 1 \in Nat
      BY DEF DisplayInv, DisplayTypes, DStoryState
    <2> QED
      BY <2>1, Zenon DEF display_reset, DStoryState
  <1>5. ShownExact'
    BY <1>4, Zenon DEF ShownExact, DisplayInv, display_reset
  <1>6. /\ fb' = [p \in Processes |-> NoFrame] /\ view' = [p \in Processes |-> None] /\ held' = <<>> /\ owner' = None
        /\ screen' = ResetScreen /\ dline' = FALSE /\ present' = NoPresent /\ window' = window
    BY Zenon DEF display_reset
  <1> QED
    BY <1>2, <1>3, <1>4, <1>5, <1>6, NothingHeld, Zenon DEF DisplayInv, DisplayTypes

(* The display starts in the invariant. *)
LEMMA DisplayStarts ==
    DisplayInit => DisplayInv
  <1> SUFFICES ASSUME DisplayInit PROVE DisplayInv
    BY Zenon
  <1>1. NoMode \in ModeState /\ NoMode.pages = 0
    BY DEF NoMode, ModeState
  <1>2. ResetScreen \in ScreenState
    <2>1. None \in Int \cup Buffers /\ 0 \in Nat /\ {} \in SUBSET {"ERROR", "PRESENT_COMPLETE"}
      BY DEF None
    <2> QED
      BY <1>1, <2>1, Zenon DEF ResetScreen, ScreenState
  <1>3. present \in PresentState /\ WaitsExact
    <2>1. present = NoPresent
      BY Zenon DEF DisplayInit
    <2>2. NoPresent \in PresentState
      BY DEF NoPresent, PresentState
    <2>3. NoPresent.waits = 0 /\ NoPresent.completions = 0 /\ ~NoPresent.pending /\ NoPresent.sleeper = None
      BY Zenon DEF NoPresent
    <2> QED
      BY <2>1, <2>2, <2>3 DEF WaitsExact
  <1>4. dstory \in DStoryState /\ window \in WindowState /\ ShownExact
    BY DEF DisplayInit, DStoryState, WindowState, ShownExact
  <1>5. NoFrame \in FrameState /\ NoFrame.buffer = None /\ NoFrame.mode.pages = 0
    BY <1>1, Zenon DEF NoFrame, FrameState
  <1>6. \A p \in Processes : fb[p] = NoFrame /\ view[p] = None
    BY Zenon DEF DisplayInit
  <1>7. held = <<>>
    BY Zenon DEF DisplayInit
  <1>8. DOMAIN held = {}
    BY <1>7, SMT
  <1>9. (\A p \in Processes : BufferExact(p)) /\ OwnerExact /\ HeldExact /\ ViewExact
    <2>1. owner = None
      BY Zenon DEF DisplayInit
    <2> QED
      BY <1>5, <1>6, <1>8, <2>1, Zenon DEF BufferExact, OwnerExact, HeldExact, ViewExact
  <1> QED
    BY <1>2, <1>3, <1>4, <1>5, <1>9, ZenonT(30) DEF DisplayInv, DisplayTypes, DisplayInit

(* The test pattern of the boot uses a buffer of the kernel, while nobody  *)
(* owns the display.                                                       *)
LEMMA BootKeeps ==
    ASSUME DisplayInv, BootDisplay
    PROVE  DisplayInv'
  <1>1. /\ screen \in ScreenState /\ ~screen.control /\ window \in WindowState /\ dstory \in DStoryState
        /\ UNCHANGED <<dline, owner, fb, view, held, present>>
        /\ window' = display_frame_queue_push(window, 0) /\ dstory' = [dstory EXCEPT !.last = 0]
    BY Zenon DEF DisplayInv, DisplayTypes, BootDisplay
  <1>2. owner = None
    BY <1>1, Zenon DEF DisplayInv, OwnerExact
  <1>3. screen' \in ScreenState
    <2> DEFINE d == Programmed(screen, TestPattern, KernelBuffer)
               e == display_present(d, TRUE, TRUE)
    <2>1. TestPattern \in ModeState /\ KernelBuffer \in Int \cup Buffers
      BY DEF TestPattern, ModeState, KernelBuffer
    <2>2. d \in ScreenState
      BY <1>1, <2>1, RegistersSet, Zenon
    <2> HIDE DEF d
    <2>3. e \in ScreenState
      BY <2>2, Presented, Zenon DEF SameTarget
    <2>4. screen' = [e EXCEPT !.irq_status = {}, !.control = TRUE]
      BY Zenon DEF BootDisplay, d
    <2> HIDE DEF e
    <2> QED
      BY <2>3, <2>4, Zenon DEF ScreenState
  <1>4. window' \in WindowState /\ window'.queue # <<>> /\ window'.queue[Len(window'.queue)] = 0
    <2>1. 0 \in Nat
      BY Zenon
    <2> QED
      BY <1>1, <2>1, QueuePushed, Zenon
  <1>5. dstory' \in DStoryState /\ dstory'.last = 0
    <2>1. 0 \in Nat
      BY Zenon
    <2> QED
      BY <1>1, <2>1, Zenon DEF DStoryState
  <1>6. DisplayTypes'
    BY <1>1, <1>3, <1>4, <1>5, Zenon DEF DisplayInv, DisplayTypes
  <1>7. (\A p \in Processes : BufferExact(p)') /\ OwnerExact' /\ HeldExact' /\ ViewExact' /\ WaitsExact'
    <2>1. (\A p \in Processes : BufferExact(p)') /\ ViewExact'
      BY <1>1, Zenon DEF DisplayInv, BufferExact, ViewExact
    <2>2. HeldExact' /\ WaitsExact'
      BY <1>1, Zenon DEF DisplayInv, HeldExact, WaitsExact
    <2>3. OwnerExact'
      BY <1>1, <1>2, Zenon DEF OwnerExact
    <2> QED
      BY <2>1, <2>2, <2>3, Zenon
  <1>8. ShownExact'
    BY <1>4, <1>5, Zenon DEF ShownExact
  <1> QED
    BY <1>6, <1>7, <1>8, Zenon DEF DisplayInv

(* kernel_display_release_process gives the buffer back and takes the wait *)
(* back.                                                                   *)
LEMMA DisplayReleaseKeeps ==
    ASSUME DisplayInv, NEW p \in Processes, kernel_display_release_process(p)
    PROVE  DisplayInv'
  <1>1. /\ screen \in ScreenState /\ present \in PresentState /\ UNCHANGED <<dline, window, dstory>>
        /\ held' = Without(held, fb[p].buffer) /\ fb' = [fb EXCEPT ![p] = NoFrame]
        /\ view' = [view EXCEPT ![p] = None] /\ owner' = (IF owner = p THEN None ELSE owner)
        /\ fb \in [Processes -> FrameState] /\ view \in [Processes -> Buffers \cup {None}]
        /\ owner \in Processes \cup {None}
    BY Zenon DEF DisplayInv, DisplayTypes, kernel_display_release_process
  <1>2. NoMode \in ModeState /\ NoMode.pages = 0 /\ NoFrame = [buffer |-> None, mode |-> NoMode]
        /\ NoFrame.buffer = None
    BY DEF NoMode, ModeState, NoFrame
  <1>3. None \notin DOMAIN held
    BY Zenon DEF DisplayInv, HeldExact
  <1>4. /\ fb' \in [Processes -> FrameState] /\ HeldExact' /\ fb'[p] = NoFrame
        /\ \A q \in Processes : q # p => fb'[q] = fb[q]
        /\ \A q \in Processes : BufferExact(q)'
    <2>0. {None} \ {None} = {}
      BY SMT
    <2>1. DOMAIN held' = (DOMAIN held \ {fb[p].buffer}) \cup ({None} \ {None})
      <3>1. DOMAIN held' = DOMAIN held \ {fb[p].buffer}
        BY <1>1, FieldRemoved, Zenon
      <3> QED
        BY <2>0, <3>1, Zenon
    <2>2. \A x \in DOMAIN held \ {fb[p].buffer} : held'[x] = held[x]
      BY <1>1, FieldRemoved, ZenonT(30)
    <2>3. fb' = [fb EXCEPT ![p] = [buffer |-> None, mode |-> NoMode]]
      BY <1>1, <1>2, Zenon
    <2> QED
      BY <1>2, <1>3, <2>1, <2>2, <2>3, FrameMoved, Zenon
  <1>5. SameTarget(screen', screen)
    <2>1. SameTarget([screen EXCEPT !.irq_status = {}], screen) /\ SameTarget(screen, screen)
      BY <1>1, Zenon DEF ScreenState, SameTarget
    <2> QED
      BY <2>1, Zenon DEF kernel_display_release_process
  <1>6. present' \in PresentState /\ WaitsExact'
    <2>1. CASE present' = present
      BY <1>1, <2>1, Zenon DEF DisplayInv, WaitsExact
    <2>2. CASE present.pending /\ present' = [present EXCEPT !.pending = FALSE, !.waits = @ - 1, !.sleeper = None]
      <3>1. present.waits - 1 \in Int /\ None \in Processes \cup {None} /\ present.completions \in Int /\ present.waits \in Int
        BY <1>1 DEF PresentState
      <3>2. /\ present' \in PresentState /\ ~present'.pending /\ present'.completions = present.completions
            /\ present'.waits = present.waits - 1 /\ present'.sleeper = None
        BY <1>1, <2>2, <3>1, Zenon DEF PresentState
      <3>3. present.waits = present.completions + 1
        BY <2>2, Zenon DEF DisplayInv, WaitsExact
      <3> QED
        BY <3>1, <3>2, <3>3 DEF WaitsExact
    <2> QED
      BY <2>1, <2>2, Zenon DEF kernel_display_release_process
  <1>7. view' \in [Processes -> Buffers \cup {None}] /\ ViewExact'
    <2>1. view' \in [Processes -> Buffers \cup {None}] /\ view'[p] = None
          /\ \A q \in Processes : q # p => view'[q] = view[q]
      BY <1>1, Zenon
    <2> QED
      BY <1>4, <2>1, Zenon DEF DisplayInv, ViewExact
  <1>8. owner' \in Processes \cup {None} /\ OwnerExact'
    <2>1. CASE owner = p
      BY <1>1, <2>1, Zenon DEF OwnerExact
    <2>2. CASE owner # p
      <3>1. owner' = owner
        BY <1>1, <2>2, Zenon
      <3>2. owner # None => fb'[owner] = fb[owner]
        BY <1>1, <1>4, <2>2, Zenon
      <3> QED
        BY <1>1, <1>5, <3>1, <3>2, Zenon DEF DisplayInv, OwnerExact, SameTarget
    <2> QED
      BY <2>1, <2>2, Zenon
  <1>9. ShownExact'
    BY <1>1, Zenon DEF DisplayInv, ShownExact
  <1> QED
    BY <1>1, <1>4, <1>5, <1>6, <1>7, <1>8, <1>9, Zenon DEF DisplayInv, DisplayTypes, SameTarget

(* The device refuses a mode: the registers of before are written again,   *)
(* and owner and buffers are those of before.                              *)
LEMMA RefusedKeeps ==
    ASSUME DisplayInv, NEW p \in Processes, NEW d \in ScreenState, d.control = screen.control, NEW new \in Buffers \cup {None},
           owner \in {None, p}, ModeRefused(p, d, new), dstory' \in DStoryState, dstory'.last = dstory.last,
           UNCHANGED <<present, window>>
    PROVE  DisplayInv'
  <1>1. /\ dline' = TRUE /\ UNCHANGED <<owner, fb, held>> /\ fb \in [Processes -> FrameState]
        /\ view \in [Processes -> Buffers \cup {None}] /\ fb[p] \in FrameState
    BY Zenon DEF DisplayInv, DisplayTypes, ModeRefused
  <1>2. fb[p].buffer \in Buffers \cup {None} /\ fb[p].mode \in ModeState
    BY <1>1, Zenon DEF FrameState
  <1>3. screen' \in ScreenState /\ screen'.control = screen.control
        /\ (fb[p].mode.pages # 0 => screen'.framebuffer = fb[p].buffer /\ screen'.size = fb[p].mode.pages)
    <2>1. CASE fb[p].mode.pages = 0
      BY <2>1, Zenon DEF ModeRefused, ScreenState
    <2>2. CASE fb[p].mode.pages # 0
      <3> DEFINE e == Programmed(d, fb[p].mode, fb[p].buffer)
      <3>1. fb[p].buffer \in Int \cup Buffers
        BY <1>2 DEF None
      <3>2. e \in ScreenState /\ e.framebuffer = fb[p].buffer /\ e.size = fb[p].mode.pages /\ e.control = d.control
        BY <1>2, <3>1, RegistersSet, ZenonT(30)
      <3>3. PICK consent \in BOOLEAN : screen' = display_apply_mode(e, consent)
        BY <2>2, Zenon DEF ModeRefused
      <3> HIDE DEF e
      <3>4. SameTarget(screen', e)
        BY <3>2, <3>3, ModeApplied, Zenon
      <3> QED
        BY <3>2, <3>4, Zenon DEF SameTarget
    <2> QED
      BY <2>1, <2>2, Zenon
  <1>4. view' \in [Processes -> Buffers \cup {None}] /\ ViewExact'
    <2>1. PICK remapped \in BOOLEAN : view' = (IF new = None THEN view ELSE Restored(p, remapped))
      BY Zenon DEF ModeRefused
    <2>2. CASE new = None
      BY <1>1, <2>1, <2>2, Zenon DEF DisplayInv, ViewExact
    <2>3. CASE new # None
      <3> DEFINE b == IF remapped THEN fb[p].buffer ELSE None
      <3>1. view' = [view EXCEPT ![p] = b] /\ b \in {None, fb[p].buffer} /\ b \in Buffers \cup {None}
        BY <1>2, <2>1, <2>3, Zenon DEF Restored
      <3> HIDE DEF b
      <3>2. view' \in [Processes -> Buffers \cup {None}] /\ view'[p] = b /\ \A q \in Processes : q # p => view'[q] = view[q]
        BY <1>1, <3>1, Zenon
      <3> QED
        BY <1>1, <3>1, <3>2, Zenon DEF DisplayInv, ViewExact
    <2> QED
      BY <2>2, <2>3, Zenon
  <1>5. OwnerExact'
    BY <1>1, <1>3, Zenon DEF DisplayInv, OwnerExact
  <1>6. (\A q \in Processes : BufferExact(q)') /\ HeldExact'
    <2>1. \A q \in Processes : BufferExact(q)'
      BY <1>1, Zenon DEF DisplayInv, BufferExact
    <2>2. HeldExact'
      BY <1>1, Zenon DEF DisplayInv, HeldExact
    <2> QED
      BY <2>1, <2>2, Zenon
  <1>7. ShownExact' /\ WaitsExact'
    BY Zenon DEF DisplayInv, ShownExact, WaitsExact
  <1>8. DisplayTypes'
    BY <1>1, <1>3, <1>4, Zenon DEF DisplayInv, DisplayTypes
  <1> QED
    BY <1>4, <1>5, <1>6, <1>7, <1>8, Zenon DEF DisplayInv

(* The device accepts a mode: the process owns the display, with the new   *)
(* buffer or the one it had.                                               *)
LEMMA AcceptedKeeps ==
    ASSUME DisplayInv, NEW p \in Processes, NEW m \in ModeState, m.pages # 0, NEW d \in ScreenState, d.control,
           NEW new \in Free \cup {None}, new = None => fb[p].mode.pages = m.pages,
           d.framebuffer = (IF new = None THEN fb[p].buffer ELSE new), d.size = m.pages,
           ModeAccepted(p, d, m, new), dstory' \in DStoryState, dstory'.last = dstory.last, UNCHANGED <<present, window>>
    PROVE  DisplayInv'
  <1> DEFINE b == IF new = None THEN fb[p].buffer ELSE new
  <1>1. /\ screen' = d /\ owner' = p /\ UNCHANGED dline /\ fb \in [Processes -> FrameState]
        /\ view \in [Processes -> Buffers \cup {None}] /\ fb[p] \in FrameState /\ HeldExact /\ BufferExact(p) /\ p # None
    BY DisplayAssumption, Zenon DEF DisplayInv, DisplayTypes, ModeAccepted, None
  <1>2. /\ held' = (IF new = None THEN held ELSE With(Without(held, fb[p].buffer), new, m.pages))
        /\ fb' = [fb EXCEPT ![p] = [buffer |-> b, mode |-> m]]
        /\ view' = [view EXCEPT ![p] = IF new = None THEN view[p] ELSE new]
    BY <1>1, Zenon DEF ModeAccepted
  <1>3. b \in Buffers /\ b # None /\ d.framebuffer = b
    <2>1. CASE new = None
      BY <1>1, <2>1, Zenon DEF FrameState, BufferExact
    <2>2. CASE new # None
      BY <2>2, DisplayAssumption, Zenon DEF Free
    <2> QED
      BY <2>1, <2>2, Zenon
  <1> HIDE DEF b
  <1> DEFINE f == [buffer |-> b, mode |-> m]
  <1>4. f \in FrameState /\ f.buffer = b /\ f.mode = m
    BY <1>3, Zenon DEF FrameState
  <1>5. fb' \in [Processes -> FrameState] /\ fb'[p] = f /\ \A q \in Processes : q # p => fb'[q] = fb[q]
    BY <1>1, <1>2, <1>4, Zenon
  <1>6. HeldExact' /\ \A q \in Processes : BufferExact(q)'
    <2>1. CASE new # None
      <3> DEFINE h == Without(held, fb[p].buffer)
      <3>1. b = new /\ new \notin DOMAIN held
        BY <2>1, Zenon DEF b, Free, None
      <3>2. held' = With(h, b, m.pages)
        BY <1>2, <2>1, <3>1, Zenon
      <3>3. DOMAIN h = DOMAIN held \ {fb[p].buffer} /\ \A x \in DOMAIN held \ {fb[p].buffer} : h[x] = held[x]
        BY FieldRemoved, Zenon
      <3> HIDE DEF h
      <3>4. /\ DOMAIN held' = DOMAIN h \cup {b} /\ held'[b] = m.pages
            /\ \A x \in DOMAIN h : x # b => held'[x] = h[x]
        <4> DEFINE n == m.pages
        <4>1. held' = With(h, b, n)
          BY <3>2, Zenon
        <4> HIDE DEF n, f
        <4>2. /\ DOMAIN With(h, b, n) = DOMAIN h \cup {b} /\ With(h, b, n)[b] = n
              /\ \A x \in DOMAIN h : x # b => With(h, b, n)[x] = h[x]
          BY ONLY Zenon DEF With
        <4> QED
          BY <4>1, <4>2, Zenon DEF n
      <3>5. \A x \in DOMAIN held \ {fb[p].buffer} : held'[x] = held[x]
        BY <3>1, <3>3, <3>4, Zenon
      <3>6. DOMAIN held' = (DOMAIN held \ {fb[p].buffer}) \cup ({b} \ {None})
        <4>1. {b} \ {None} = {b}
          BY <1>3, SMT
        <4> QED
          BY <3>3, <3>4, <4>1, Zenon
      <3>7. b \in Buffers \cup {None}
        BY <1>3, Zenon
      <3>8. b \notin DOMAIN held /\ (b = None <=> m.pages = 0) /\ (b # None => held'[b] = m.pages)
        BY <1>3, <3>1, <3>4, Zenon
      <3>9. fb' = [fb EXCEPT ![p] = [buffer |-> b, mode |-> m]]
        BY <1>2, Zenon
      <3> HIDE DEF f
      <3> QED
        BY <3>5, <3>6, <3>7, <3>8, <3>9, FrameMoved, ZenonT(30)
    <2>2. CASE new = None
      <3>1. b = fb[p].buffer /\ held' = held /\ m.pages = fb[p].mode.pages
        BY <1>2, <2>2, Zenon DEF b
      <3> HIDE DEF f
      <3>2. \A q \in Processes : fb'[q].buffer = fb[q].buffer /\ fb'[q].mode.pages = fb[q].mode.pages
        BY <1>4, <1>5, <3>1, Zenon
      <3>3. \A q \in Processes : BufferExact(q)'
        BY <3>1, <3>2, ZenonT(30) DEF DisplayInv, BufferExact
      <3>4. {fb'[q].buffer : q \in Processes} = {fb[q].buffer : q \in Processes}
        <4>1. \A q \in Processes : fb'[q].buffer = fb[q].buffer
          BY <3>2, Zenon
        <4> QED
          BY ONLY <4>1, Zenon
      <3>5. \A q, r \in Processes : fb'[q].buffer = fb'[r].buffer /\ q # r => fb'[q].buffer = None
        <4>1. \A q, r \in Processes : fb[q].buffer = fb[r].buffer /\ q # r => fb[q].buffer = None
          BY <1>1, Zenon DEF HeldExact
        <4> SUFFICES ASSUME NEW q \in Processes, NEW r \in Processes PROVE fb'[q].buffer = fb'[r].buffer /\ q # r => fb'[q].buffer = None
          BY Zenon
        <4>2. fb'[q].buffer = fb[q].buffer /\ fb'[r].buffer = fb[r].buffer
          BY <3>2, Zenon
        <4> QED
          BY ONLY <4>1, <4>2, Zenon
      <3>6. DOMAIN held' = {fb'[q].buffer : q \in Processes} \ {None}
        BY <1>1, <3>1, <3>4, Zenon DEF HeldExact
      <3> QED
        BY <3>3, <3>5, <3>6, Zenon DEF HeldExact
    <2> QED
      BY <2>1, <2>2, Zenon
  <1>7. view' \in [Processes -> Buffers \cup {None}] /\ ViewExact'
    <2> DEFINE v == IF new = None THEN view[p] ELSE new
    <2>1. v \in Buffers \cup {None} /\ v \in {None, b}
      <3>1. CASE new = None
        BY <1>1, <3>1, Zenon DEF b, DisplayInv, ViewExact
      <3>2. CASE new # None
        BY <1>3, <3>2, Zenon DEF b
      <3> QED
        BY <3>1, <3>2, Zenon
    <2> HIDE DEF v
    <2>2. view' \in [Processes -> Buffers \cup {None}] /\ view'[p] = v /\ \A q \in Processes : q # p => view'[q] = view[q]
      BY <1>1, <1>2, <2>1, Zenon DEF v
    <2> HIDE DEF f
    <2> QED
      BY <1>4, <1>5, <2>1, <2>2, Zenon DEF DisplayInv, ViewExact
  <1> HIDE DEF f
  <1>8. OwnerExact'
    BY <1>1, <1>3, <1>4, <1>5, Zenon DEF OwnerExact
  <1>9. ShownExact' /\ WaitsExact'
    BY Zenon DEF DisplayInv, ShownExact, WaitsExact
  <1>10. DisplayTypes'
    BY <1>1, <1>5, <1>7, Zenon DEF DisplayInv, DisplayTypes
  <1> QED
    BY <1>6, <1>7, <1>8, <1>9, <1>10, Zenon DEF DisplayInv

(* kernel_display_set_mode, wherever it fails. *)
LEMMA SetModeKeeps ==
    ASSUME DisplayInv, NEW p \in Processes, NEW m \in Modes, kernel_display_set_mode(p, m)
    PROVE  DisplayInv'
  <1>1. /\ screen \in ScreenState /\ screen.control /\ owner \in {None, p} /\ dstory \in DStoryState
        /\ UNCHANGED <<present, window>> /\ dstory' = [dstory EXCEPT !.modes = @ + 1]
    BY Zenon DEF DisplayInv, DisplayTypes, kernel_display_set_mode
  <1>2. dstory' \in DStoryState /\ dstory'.last = dstory.last
    <2>1. dstory.modes + 1 \in Nat
      BY <1>1 DEF DStoryState
    <2> QED
      BY <1>1, <2>1, Zenon DEF DStoryState
  <1>3. m \in ModeState
    BY DisplayAssumption DEF ModeState
  <1>4. fb[p] \in FrameState /\ view \in [Processes -> Buffers \cup {None}]
    BY Zenon DEF DisplayInv, DisplayTypes
  <1>5. CASE ModeUnaffordable(p, m)
    <2>1. UNCHANGED <<screen, dline, owner, fb, held>>
      BY <1>5, Zenon DEF ModeUnaffordable
    <2>2. view' \in [Processes -> Buffers \cup {None}] /\ ViewExact'
      <3>1. CASE UNCHANGED view
        BY <1>4, <2>1, <3>1, Zenon DEF DisplayInv, ViewExact
      <3>2. CASE \E remapped \in BOOLEAN : view' = Restored(p, remapped)
        <4>1. PICK remapped \in BOOLEAN : view' = Restored(p, remapped)
          BY <3>2, Zenon
        <4> DEFINE b == IF remapped THEN fb[p].buffer ELSE None
        <4>2. view' = [view EXCEPT ![p] = b] /\ b \in {None, fb[p].buffer} /\ b \in Buffers \cup {None}
          BY <1>4, <4>1, Zenon DEF Restored, FrameState
        <4> HIDE DEF b
        <4>3. view' \in [Processes -> Buffers \cup {None}] /\ view'[p] = b /\ \A q \in Processes : q # p => view'[q] = view[q]
          BY <1>4, <4>2, Zenon
        <4> QED
          BY <2>1, <4>2, <4>3, Zenon DEF DisplayInv, ViewExact
      <3> QED
        BY <1>5, <3>1, <3>2, Zenon DEF ModeUnaffordable
    <2>3. SameTarget(screen', screen) /\ ShownExact' /\ WaitsExact' /\ dline' \in BOOLEAN
      BY <1>1, <1>2, <2>1, Zenon DEF SameTarget, DisplayInv, DisplayTypes, ShownExact, WaitsExact
    <2>4. present' \in PresentState /\ window' \in WindowState
      BY <1>1, Zenon DEF DisplayInv, DisplayTypes
    <2> QED
      BY <1>2, <2>1, <2>2, <2>3, <2>4, QuietScreen, Zenon
  <1>6. CASE ~ModeUnaffordable(p, m)
    <2>1. PICK new \in (IF fb[p].mode.pages = m.pages THEN {None} ELSE Free) : \E consent \in BOOLEAN :
            \E d \in {display_apply_mode(Programmed(screen, m, IF new = None THEN fb[p].buffer ELSE new), consent)} :
             /\ new = None \/ Unmappable(p)
             /\ IF d.error THEN ModeRefused(p, d, new) ELSE ModeAccepted(p, d, m, new)
      BY <1>6, Zenon DEF kernel_display_set_mode
    <2> DEFINE b == IF new = None THEN fb[p].buffer ELSE new
               e == Programmed(screen, m, b)
    <2>2. PICK consent \in BOOLEAN : \E d \in {display_apply_mode(e, consent)} :
             IF d.error THEN ModeRefused(p, d, new) ELSE ModeAccepted(p, d, m, new)
      BY <2>1, Zenon
    <2>3. new \in Free \cup {None} /\ new \in Buffers \cup {None} /\ (new = None => fb[p].mode.pages = m.pages)
      <3>1. None \notin Free
        BY DisplayAssumption, Zenon DEF Free, None
      <3> QED
        BY <2>1, <3>1, Zenon DEF Free
    <2>4. b \in Int \cup Buffers
      <3>1. fb[p].buffer \in Buffers \cup {None}
        BY <1>4, Zenon DEF FrameState
      <3> QED
        BY <2>3, <3>1 DEF None
    <2> HIDE DEF b
    <2>5. e \in ScreenState /\ e.framebuffer = b /\ e.size = m.pages /\ e.control = screen.control /\ e.mode = m
      <3>1. screen \in ScreenState
        BY <1>1, Zenon
      <3>2. /\ Programmed(screen, m, b) \in ScreenState /\ Programmed(screen, m, b).framebuffer = b
            /\ Programmed(screen, m, b).size = m.pages /\ Programmed(screen, m, b).control = screen.control
            /\ Programmed(screen, m, b).mode = m
        BY ONLY <3>1, <1>3, <2>4, RegistersSet, Zenon
      <3> QED
        BY <3>2, Zenon
    <2> HIDE DEF e
    <2> DEFINE d == display_apply_mode(e, consent)
    <2>6. SameTarget(d, e) /\ (~d.error => m.pages # 0)
      BY <2>5, ModeApplied, Zenon
    <2>7. IF d.error THEN ModeRefused(p, d, new) ELSE ModeAccepted(p, d, m, new)
      BY <2>2, Zenon
    <2> HIDE DEF d
    <2>8. d \in ScreenState /\ d.framebuffer = b /\ d.size = m.pages /\ d.control = screen.control
      BY <2>5, <2>6, Zenon DEF SameTarget
    <2>9. CASE d.error
      BY <1>1, <1>2, <2>3, <2>7, <2>8, <2>9, RefusedKeeps, ZenonT(30)
    <2>10. CASE ~d.error
      BY <1>1, <1>2, <1>3, <2>3, <2>6, <2>7, <2>8, <2>10, AcceptedKeeps, ZenonT(30) DEF b
    <2> QED
      BY <2>9, <2>10, Zenon
  <1> QED
    BY <1>5, <1>6, Zenon

(* Every step of the display keeps the invariant. *)
LEMMA DisplayStep ==
    DisplayInv /\ [DisplayNext]_displayVars => DisplayInv'
  <1> SUFFICES ASSUME DisplayInv, [DisplayNext]_displayVars PROVE DisplayInv'
    BY Zenon
  <1>1. CASE \E p \in Processes, m \in Modes : kernel_display_set_mode(p, m)
    BY <1>1, SetModeKeeps, Zenon
  <1>2. CASE \E p \in Processes : kernel_display_present(p)
    BY <1>2, PresentKeeps, Zenon
  <1>3. CASE \E p \in Processes : kernel_display_release_process(p)
    BY <1>3, DisplayReleaseKeeps, Zenon
  <1>4. CASE handle_display_interrupt
    BY <1>4, InterruptKeeps, Zenon
  <1>5. CASE display_frame_queue_take_latest
    BY <1>5, TakeKeeps, ZenonT(30)
  <1>6. CASE BootDisplay
    BY <1>6, BootKeeps, Zenon
  <1>7. CASE display_reset
    BY <1>7, DisplayResetKeeps, Zenon
  <1>8. CASE UNCHANGED displayVars
    <2>1. SameTarget(screen', screen) /\ UNCHANGED <<dline, owner, fb, view, held, present, window, dstory>>
      BY <1>8, Zenon DEF displayVars, SameTarget, DisplayInv, DisplayTypes
    <2>2. ViewExact' /\ ShownExact' /\ WaitsExact'
      BY <2>1, Zenon DEF DisplayInv, ViewExact, ShownExact, WaitsExact
    <2> QED
      BY <2>1, <2>2, QuietScreen, Zenon DEF DisplayInv, DisplayTypes
  <1> QED
    BY <1>1, <1>2, <1>3, <1>4, <1>5, <1>6, <1>7, <1>8, ZenonT(30) DEF DisplayNext

(* For any processes, modes and buffers: the device reads by DMA only the  *)
(* owner's buffer, and no more pages of it than are allocated; buffers are *)
(* neither leaked nor shared nor given back twice; waits and completions   *)
(* agree; and the frame accepted last is shown or is next, whichever step  *)
(* of kernel_display_set_mode or of kernel_display_present fails.          *)
THEOREM DisplayIsExact ==
    DisplaySpec => []DisplayExact
  <1>1. DisplayInit => DisplayInv
    BY DisplayStarts, Zenon
  <1>2. DisplayInv /\ [DisplayNext]_displayVars => DisplayInv'
    BY DisplayStep, Zenon
  <1>3. DisplayInv => DisplayExact
    BY DisplayConsequence, Zenon
  <1> QED
    BY <1>1, <1>2, <1>3, PTL DEF DisplaySpec
=============================================================================
