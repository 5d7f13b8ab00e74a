----------------------------- MODULE KernelList -----------------------------
(***************************************************************************)
(* The intrusive doubly linked list of kernel/runtime.c.                   *)
(*                                                                         *)
(* A node is embedded in the object it links (a thread's run_node, a       *)
(* process's reap_node), so an object is linked at most once.  A list over *)
(* a set of objects is modelled by the position of each object's node: 1   *)
(* for the node next to the sentinel, Count(l) for the last one, and 0 for *)
(* an object whose node is not linked (the "queued" flag of its owner).    *)
(***************************************************************************)
LOCAL INSTANCE Naturals
LOCAL INSTANCE FiniteSets

(* kernel_list_init: nothing is linked. *)
EmptyList(S) == [x \in S |-> 0]

Linked(l) == {x \in DOMAIN l : l[x] # 0}

(* list->count *)
Count(l) == Cardinality(Linked(l))

(* A loop of kernel_list_push_back over the members of S, taken in         *)
(* increasing order of key.                                                *)
PushAll(l, S, key) ==
    [x \in DOMAIN l |->
        IF x \in S
        THEN Count(l) + Cardinality({y \in S : key[y] <= key[x]})
        ELSE l[x]]

(* kernel_list_push_back *)
PushBack(l, x) == PushAll(l, {x}, l)

(* kernel_list_remove of every member of S that is linked: the others keep *)
(* their order.                                                            *)
Unlink(l, S) ==
    [x \in DOMAIN l |->
        IF x \in S \/ l[x] = 0
        THEN 0
        ELSE Cardinality({y \in Linked(l) \ S : l[y] <= l[x]})]

(* x is the member of S nearest to the front of the list. *)
IsFirst(l, S, x) == x \in S \cap Linked(l) /\ \A y \in S \cap Linked(l) : l[x] <= l[y]

Behind(l, x) == {y \in Linked(l) : l[y] > l[x]}

(* Popping nodes from the front and pushing each of them at the back,      *)
(* until x is popped, which stays unlinked.                                *)
RotateOut(l, x) ==
    [y \in DOMAIN l |->
        IF y = x \/ l[y] = 0 THEN 0
        ELSE IF y \in Behind(l, x) THEN Cardinality({z \in Behind(l, x) : l[z] <= l[y]})
        ELSE Cardinality(Behind(l, x))
               + Cardinality({z \in Linked(l) \ {x} : l[z] <= l[y]})]
=============================================================================
