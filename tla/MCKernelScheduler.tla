------------------------- MODULE MCKernelScheduler --------------------------
(* Instances of KernelScheduler for TLC. *)
EXTENDS KernelScheduler

(* The processes of the boot self-test: PID 1 is init with threads 1 and   *)
(* 2; PID 2, with thread 3, is its child or has no parent.                 *)
InitAndChildProcOf == <<1, 1, 2>>
InitAndChildParentOf == <<0, 1>>
NoParentOf == <<0, 0>>

(* One process with two threads. *)
OneProcessProcOf == <<1, 1>>
OneProcessParentOf == <<0>>
=============================================================================
