----------------------------- MODULE MCDevices -----------------------------
(* The drivers and their devices, checked side by side: a behaviour is of   *)
(* the block device, of the keyboard or of the display.                     *)
EXTENDS BlockIO, Keyboard, Display

VARIABLE model  \* "block", "keyboard" or "display"

vars == <<blockVars, keyVars, displayVars, model>>

(* Two modes of one page, which share a buffer, and one of two. *)
ThreeModes == {[pages |-> 1, variant |-> 0], [pages |-> 1, variant |-> 1], [pages |-> 2, variant |-> 0]}

Init == model \in {"block", "keyboard", "display"} /\ BlockInit /\ KeyInit /\ DisplayInit

(* A step A of the block device alone, and likewise of the other two. *)
OfBlock(A) == model = "block" /\ A /\ UNCHANGED <<keyVars, displayVars, model>>
OfKeyboard(A) == model = "keyboard" /\ A /\ UNCHANGED <<blockVars, displayVars, model>>
OfDisplay(A) == model = "display" /\ A /\ UNCHANGED <<blockVars, keyVars, model>>

Next == OfBlock(BlockNext) \/ OfKeyboard(KeyNext) \/ OfDisplay(DisplayNext)

(* The fairness of the three modules. *)
Fairness ==
    /\ WF_vars(OfBlock(Caller)) /\ WF_vars(OfBlock(block_worker)) /\ WF_vars(OfBlock(handle_block_interrupt))
    /\ WF_vars(OfKeyboard(keyboard_raise_irq)) /\ WF_vars(OfKeyboard(handle_keyboard_interrupt))
    /\ WF_vars(OfKeyboard(BootKeyboard))
    /\ WF_vars(OfDisplay(handle_display_interrupt)) /\ WF_vars(OfDisplay(display_frame_queue_take_latest))

Spec == Init /\ [][Next]_vars /\ Fairness

BlockOnly == Init /\ model = "block" /\ [][Next]_vars
=============================================================================
