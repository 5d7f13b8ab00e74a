---------------------------- MODULE MCKernelVfs ----------------------------
(* Instances of KernelVfs for TLC: two threads of one process and one of   *)
(* another.                                                                *)
EXTENDS KernelVfs
LOCAL INSTANCE TLC

CONSTANTS t1, t2, t3

ProcessOf == [t \in {t1, t2, t3} |-> IF t = t3 THEN "b" ELSE "a"]

OneTag == [t \in {t1, t2, t3} |-> 1]

ProcessTag == [t \in {t1, t2, t3} |-> IF t = t3 THEN 2 ELSE 1]

ReadOrAppend == {{"read"}, {"write", "append"}}

AppendOnly == {{"write", "append"}}

Symmetry == {f @@ g @@ h : f \in Permutations(Files), g \in Permutations(Paths),
                           h \in Permutations({t1, t2})}
=============================================================================
