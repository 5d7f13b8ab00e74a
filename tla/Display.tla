------------------------------ MODULE Display ------------------------------
(***************************************************************************)
(* Frames: the display calls of the kernel (kernel/devices.c), the display *)
(* device (devices/display/display_device.c), and the frontend that shows  *)
(* what the device presents (src/display_queue.c, src/headless_display.c). *)
(*                                                                         *)
(* A mode is a number of pages, with a variant: two modes of one size      *)
(* share a buffer.  A buffer is a run of physical pages that the page      *)
(* allocator gave out.  The device works within the processor's access, so *)
(* that a display call is one step but for the sleep of a present.         *)
(***************************************************************************)
EXTENDS Integers, Sequences, FiniteSets

CONSTANTS Processes,      \* processes that use the display
          Modes,          \* [pages, variant]: the modes they ask for
          Buffers,        \* buffers that the allocator may give out, positive numbers
          FrameCapacity,  \* DISPLAY_FRAME_QUEUE_CAPACITY
          MaxFrames,      \* bound: frames presented
          MaxModes,       \* bound: calls that set a mode
          MaxDisplayResets \* bound: warm resets

ASSUME DisplayAssumption ==
    /\ 0 \notin Processes /\ 0 \notin Buffers /\ FrameCapacity \in Nat \ {0}
    /\ Modes \subseteq [pages : Nat, variant : Nat]

VARIABLES screen,   \* the device: mode and framebuffer registers, active mode, status, irq_status, frame_number
          dline,    \* its line is pending
          owner,    \* kernel_display_owner
          fb,       \* fb[p]: framebuffer_physical, framebuffer_mapped_size and mode of a process
          view,     \* view[p]: the buffer mapped at KERNEL_USER_FRAMEBUFFER_BASE
          held,     \* buffers allocated, as [buffer -> pages]
          present,  \* kernel_display_request_pending, the counts, and the process that sleeps
          window,   \* the queue of frames and the frame shown
          dstory    \* auxiliary: the last frame that the frontend accepted, and the bounds

displayVars == <<screen, dline, owner, fb, view, held, present, window, dstory>>

None == 0
NoMode == [pages |-> 0, variant |-> 0]
NoFrame == [buffer |-> None, mode |-> NoMode]
KernelBuffer == -1    \* kernel_display_buffer_physical
TestPattern == [pages |-> 1, variant |-> -1]
NoPresent == [pending |-> FALSE, waits |-> 0, completions |-> 0, sleeper |-> None]
ResetScreen == [mode |-> NoMode, framebuffer |-> None, size |-> 0, active |-> NoMode, control |-> FALSE,
                error |-> FALSE, irq_status |-> {}, frame_number |-> 0]

-----------------------------------------------------------------------------
(* The frontend: display_frame_queue_push and display_frame_queue_take_latest. *)

display_frame_queue_push(w, n) ==
    [w EXCEPT !.queue = Append(IF Len(@) = FrameCapacity THEN Tail(@) ELSE @, n)]

display_frame_queue_take_latest ==
    /\ window.queue # <<>>
    /\ window' = [queue |-> <<>>, shown |-> window.queue[Len(window.queue)]]
    /\ UNCHANGED <<screen, dline, owner, fb, view, held, present, dstory>>
-----------------------------------------------------------------------------
(* The device.  An operator yields the device after it, with the reasons   *)
(* for which it interrupts added to irq_status.                            *)

display_set_error(d) == [d EXCEPT !.error = TRUE, !.irq_status = @ \cup {"ERROR"}]

(* display_apply_mode: a mode that differs from the active one needs the   *)
(* frontend's consent.                                                     *)
display_apply_mode(d, consent) ==
    IF d.mode.pages = 0 \/ (d.active # d.mode /\ ~consent)
    THEN display_set_error(d)
    ELSE [d EXCEPT !.active = d.mode, !.error = FALSE]

(* Mutant: a present that the frontend refuses ends without a cause. *)
PresentSilently(d, consent, taken) ==
    LET applied == display_apply_mode(d, consent)
    IN IF applied.error THEN applied
       ELSE IF d.mode.pages > d.size \/ ~taken THEN [applied EXCEPT !.error = TRUE]
       ELSE [applied EXCEPT !.frame_number = @ + 1, !.irq_status = @ \cup {"PRESENT_COMPLETE"}]

(* display_present: the mode is applied, the buffer must be large enough,  *)
(* and the frontend must take the frame.                                   *)
display_present(d, consent, taken) ==
    LET applied == display_apply_mode(d, consent)
    IN IF applied.error THEN applied
       ELSE IF d.mode.pages > d.size \/ ~taken THEN display_set_error(applied)
       ELSE [applied EXCEPT !.frame_number = @ + 1, !.irq_status = @ \cup {"PRESENT_COMPLETE"}]

(* The registers of a mode, CONTROL and SET_MODE. *)
Programmed(d, m, buffer) ==
    [d EXCEPT !.mode = m, !.framebuffer = buffer, !.size = m.pages, !.error = FALSE]
-----------------------------------------------------------------------------
(* The kernel's calls. *)

Free == Buffers \ DOMAIN held
Without(f, k) == [x \in DOMAIN f \ {k} |-> f[x]]
With(f, k, v) == [x \in DOMAIN f \cup {k} |-> IF x = k THEN v ELSE f[x]]

(* What the mapping of the framebuffer is once the old one is restored,    *)
(* which may fail.                                                         *)
Restored(p, remapped) == [view EXCEPT ![p] = IF remapped THEN fb[p].buffer ELSE None]

(* The old buffer is unmapped page by page only when every page of it is   *)
(* mapped.                                                                 *)
Unmappable(p) == fb[p].mode.pages = 0 \/ view[p] = fb[p].buffer

(* The device refused, and its error interrupts: the registers and the     *)
(* mode of before are restored, and so is the mapping, and the new buffer  *)
(* is given back.  Neither the second SET_MODE nor the mapping is checked. *)
ModeRefused(p, d, new) ==
    /\ \E consent \in BOOLEAN :
          screen' = IF fb[p].mode.pages = 0 THEN [d EXCEPT !.error = FALSE]
                    ELSE display_apply_mode(Programmed(d, fb[p].mode, fb[p].buffer), consent)
    /\ \E remapped \in BOOLEAN : view' = IF new = None THEN view ELSE Restored(p, remapped)
    /\ dline' = TRUE
    /\ UNCHANGED <<owner, fb, held>>

(* The device accepted: the buffer of before is given back, and the        *)
(* process owns the display.                                               *)
ModeAccepted(p, d, m, new) ==
    /\ screen' = d
    /\ held' = IF new = None THEN held
               ELSE With(Without(held, fb[p].buffer), new, m.pages)
    /\ fb' = [fb EXCEPT ![p] = [buffer |-> IF new = None THEN @.buffer ELSE new, mode |-> m]]
    /\ view' = [view EXCEPT ![p] = IF new = None THEN @ ELSE new]
    /\ owner' = p
    /\ UNCHANGED dline

(* A mode of another size needs a new buffer.  There may be none, or the   *)
(* old mapping may be missing, or there is no page for the new mapping: by *)
(* then the old one is gone, and its restoration may fail as well.         *)
ModeUnaffordable(p, m) ==
    /\ fb[p].mode.pages # m.pages
    /\ \/ UNCHANGED view
       \/ Unmappable(p) /\ \E remapped \in BOOLEAN : view' = Restored(p, remapped)
    /\ UNCHANGED <<screen, dline, owner, fb, held>>

(* kernel_display_set_mode(p, m), after the checks that refuse the call.   *)
kernel_display_set_mode(p, m) ==
    /\ screen.control
    /\ dstory.modes < MaxModes
    /\ owner \in {None, p} /\ ~present.pending
    /\ dstory' = [dstory EXCEPT !.modes = @ + 1]
    /\ \/ ModeUnaffordable(p, m)
       \/ \E new \in IF fb[p].mode.pages = m.pages THEN {None} ELSE Free :
          \E consent \in BOOLEAN :
          \E d \in {display_apply_mode(Programmed(screen, m, IF new = None THEN fb[p].buffer ELSE new), consent)} :
             /\ new = None \/ Unmappable(p)
             /\ IF d.error THEN ModeRefused(p, d, new) ELSE ModeAccepted(p, d, m, new)
    /\ UNCHANGED <<present, window>>

(* kernel_display_present: causes are cleared, the device presents, which  *)
(* interrupts in either case, and the thread sleeps until the interrupt.   *)
(* When there is no thread to switch to, the kernel takes the request back. *)
kernel_display_present(p) ==
    /\ owner = p /\ fb[p].mode.pages # 0 /\ ~present.pending
    /\ dstory.frames < MaxFrames
    /\ \E consent, taken, sleeps \in BOOLEAN :
       \E d \in {display_present([screen EXCEPT !.irq_status = {}], consent, taken)} :
          /\ screen' = IF sleeps THEN d ELSE [d EXCEPT !.irq_status = {}]
          /\ dline' = TRUE
          /\ present' = IF sleeps THEN [present EXCEPT !.pending = TRUE, !.waits = @ + 1, !.sleeper = p]
                        ELSE present
          /\ window' = IF d.error THEN window ELSE display_frame_queue_push(window, dstory.frames + 1)
          /\ dstory' = [dstory EXCEPT !.frames = @ + 1, !.last = IF d.error THEN @ ELSE dstory.frames + 1]
    /\ UNCHANGED <<owner, fb, view, held>>

(* handle_display_interrupt, with the EOI. *)
handle_display_interrupt ==
    /\ dline
    /\ dline' = FALSE
    /\ present' = IF present.pending /\ screen.irq_status # {}
                  THEN [present EXCEPT !.pending = FALSE, !.completions = @ + 1, !.sleeper = None]
                  ELSE present
    /\ screen' = [screen EXCEPT !.irq_status = {}]
    /\ UNCHANGED <<owner, fb, view, held, window, dstory>>

(* Mutant: an exit leaves the count of waits as it is. *)
ReleaseUncounted(p) ==
    /\ present' = IF owner = p /\ present.pending
                  THEN [present EXCEPT !.pending = FALSE, !.sleeper = None]
                  ELSE present
    /\ screen' = IF owner = p /\ present.pending THEN [screen EXCEPT !.irq_status = {}] ELSE screen
    /\ held' = Without(held, fb[p].buffer)
    /\ fb' = [fb EXCEPT ![p] = NoFrame]
    /\ view' = [view EXCEPT ![p] = None]
    /\ owner' = IF owner = p THEN None ELSE owner
    /\ UNCHANGED <<dline, window, dstory>>

(* The process exits, execs or is killed; its sleeping thread is taken off *)
(* the wait queue.                                                         *)
kernel_display_release_process(p) ==
    /\ present' = IF owner = p /\ present.pending
                  THEN [present EXCEPT !.pending = FALSE, !.waits = @ - 1, !.sleeper = None]
                  ELSE present
    /\ screen' = IF owner = p /\ present.pending THEN [screen EXCEPT !.irq_status = {}] ELSE screen
    /\ held' = Without(held, fb[p].buffer)
    /\ fb' = [fb EXCEPT ![p] = NoFrame]
    /\ view' = [view EXCEPT ![p] = None]
    /\ owner' = IF owner = p THEN None ELSE owner
    /\ UNCHANGED <<dline, window, dstory>>
-----------------------------------------------------------------------------
(* kernel_display_present_test_pattern during boot, from the kernel's own  *)
(* buffer and without interrupts, and then the display's part of           *)
(* kernel_devices_enable_interrupts.                                       *)
BootDisplay ==
    /\ ~screen.control
    /\ screen' = [display_present(Programmed(screen, TestPattern, KernelBuffer), TRUE, TRUE)
                      EXCEPT !.irq_status = {}, !.control = TRUE]
    /\ window' = display_frame_queue_push(window, 0)
    /\ dstory' = [dstory EXCEPT !.last = 0]
    /\ UNCHANGED <<dline, owner, fb, view, held, present>>

(* A warm reset: the device is reset, the kernel's memory is new, and the  *)
(* window goes on.                                                         *)
display_reset ==
    /\ dstory.resets < MaxDisplayResets
    /\ dstory' = [dstory EXCEPT !.resets = @ + 1]
    /\ screen' = ResetScreen /\ dline' = FALSE
    /\ owner' = None
    /\ fb' = [p \in Processes |-> NoFrame]
    /\ view' = [p \in Processes |-> None]
    /\ held' = <<>>
    /\ present' = NoPresent
    /\ UNCHANGED window

DisplayInit ==
    /\ screen = ResetScreen /\ dline = FALSE
    /\ owner = None
    /\ fb = [p \in Processes |-> NoFrame]
    /\ view = [p \in Processes |-> None]
    /\ held = <<>>
    /\ present = NoPresent
    /\ window = [queue |-> <<>>, shown |-> 0]
    /\ dstory = [last |-> 0, frames |-> 0, modes |-> 0, resets |-> 0]

DisplayNext ==
    \/ \E p \in Processes :
          \/ \E m \in Modes : kernel_display_set_mode(p, m)
          \/ kernel_display_present(p)
          \/ kernel_display_release_process(p)
    \/ handle_display_interrupt
    \/ display_frame_queue_take_latest
    \/ BootDisplay \/ display_reset

DisplayFairness == WF_displayVars(handle_display_interrupt) /\ WF_displayVars(display_frame_queue_take_latest)

DisplaySpec == DisplayInit /\ [][DisplayNext]_displayVars /\ DisplayFairness
-----------------------------------------------------------------------------
(* The device is never left with a buffer that is not the owner's: what a  *)
(* present reads by DMA is the buffer of the process that owns the         *)
(* display, as large as the registers say, still allocated and mapped for  *)
(* nobody else; buffers are neither leaked nor given back twice, whichever *)
(* step of a change of mode fails.                                         *)
FramesBelong ==
    /\ owner # None => /\ screen.framebuffer = fb[owner].buffer
                       /\ screen.size <= held[fb[owner].buffer]
    /\ DOMAIN held = {fb[p].buffer : p \in Processes} \ {None}
    /\ \A p \in Processes : view[p] \in {None, fb[p].buffer}
    /\ \A p, q \in Processes : fb[p].buffer = fb[q].buffer /\ p # q => fb[p].buffer = None

(* The books of kernel_devices_runtime_valid: every wait for a present was *)
(* ended by one interrupt, or taken back, and a thread sleeps exactly      *)
(* while a request is under way; the frame that the frontend accepted last *)
(* is shown or is next to be shown, whatever the queue had to drop.        *)
PresentsCounted ==
    /\ present.waits = present.completions + (IF present.pending THEN 1 ELSE 0)
    /\ present.pending <=> present.sleeper # None
    /\ dstory.last = IF window.queue = <<>> THEN window.shown ELSE window.queue[Len(window.queue)]

(* Whichever step of a present or of a change of mode fails, buffers and   *)
(* books are exact (display_set_mode, display_present and the release of a *)
(* process).                                                               *)
DisplayExact == FramesBelong /\ PresentsCounted

(* Whoever presents wakes up. *)
PresentsEnd == present.pending ~> ~present.pending
=============================================================================
