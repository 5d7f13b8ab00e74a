----------------------- MODULE KernelSchedulerProofs ------------------------
(***************************************************************************)
(* For any number of CPUs, threads and processes: the scheduler keeps its  *)
(* types, and no kernel stack is used by two CPUs.                         *)
(***************************************************************************)
EXTENDS KernelScheduler, FiniteSetTheorems, TLAPS

(* kernel_list_init gives every object position 0. *)
LEMMA EmptyListType ==
    ASSUME NEW S
    PROVE  EmptyList(S) \in [S -> Nat]
BY DEF EmptyList

(* A list over finitely many objects has a count. *)
LEMMA LinkedFinite ==
    ASSUME NEW S, IsFiniteSet(S), NEW l \in [S -> Nat]
    PROVE  IsFiniteSet(Linked(l)) /\ Count(l) \in Nat
<1>1. Linked(l) \subseteq S
    BY DEF Linked
<1>2. IsFiniteSet(Linked(l))
    BY <1>1, FS_Subset
<1> QED
    BY <1>2, FS_CardinalityType DEF Count

(* kernel_list_push_back gives list positions. *)
LEMMA PushAllType ==
    ASSUME NEW S, IsFiniteSet(S), NEW l \in [S -> Nat],
           NEW T, IsFiniteSet(T), NEW key
    PROVE  PushAll(l, T, key) \in [S -> Nat]
<1>1. ASSUME NEW x \in S
      PROVE  Count(l) + Cardinality({y \in T : key[y] <= key[x]}) \in Nat
  <2>1. IsFiniteSet({y \in T : key[y] <= key[x]})
      BY FS_Subset
  <2> QED
      BY <2>1, FS_CardinalityType, LinkedFinite
<1> QED
    BY <1>1 DEF PushAll

(* kernel_list_remove gives list positions. *)
LEMMA UnlinkType ==
    ASSUME NEW S, IsFiniteSet(S), NEW l \in [S -> Nat], NEW T
    PROVE  Unlink(l, T) \in [S -> Nat]
<1>1. ASSUME NEW x \in S
      PROVE  Cardinality({y \in Linked(l) \ T : l[y] <= l[x]}) \in Nat
  <2>1. IsFiniteSet({y \in Linked(l) \ T : l[y] <= l[x]})
      BY FS_Subset, LinkedFinite
  <2> QED
      BY <2>1, FS_CardinalityType
<1> QED
    BY <1>1 DEF Unlink

(* So does the rotation of scheduler_dequeue. *)
LEMMA RotateOutType ==
    ASSUME NEW S, IsFiniteSet(S), NEW l \in [S -> Nat], NEW x
    PROVE  RotateOut(l, x) \in [S -> Nat]
<1>1. IsFiniteSet(Behind(l, x)) /\ Cardinality(Behind(l, x)) \in Nat
  <2>1. IsFiniteSet(Behind(l, x))
      BY LinkedFinite, FS_Subset DEF Behind
  <2> QED
      BY <2>1, FS_CardinalityType
<1>2. ASSUME NEW y
      PROVE  Cardinality({z \in Behind(l, x) : l[z] <= l[y]}) \in Nat
  <2>1. IsFiniteSet({z \in Behind(l, x) : l[z] <= l[y]})
      BY <1>1, FS_Subset
  <2> QED
      BY <2>1, FS_CardinalityType
<1>3. ASSUME NEW y
      PROVE  Cardinality(Behind(l, x))
               + Cardinality({z \in Linked(l) \ {x} : l[z] <= l[y]}) \in Nat
  <2>1. IsFiniteSet({z \in Linked(l) \ {x} : l[z] <= l[y]})
      BY LinkedFinite, FS_Subset
  <2> QED
      BY <1>1, <2>1, FS_CardinalityType
<1> QED
    BY <1>2, <1>3 DEF RotateOut

-----------------------------------------------------------------------------
(* What every helper but Dequeue does: it returns a kernel state, with the *)
(* affinities it was given.                                                *)
Keeps(s, r) == r \in KernelState /\ r.aff = s.aff

(* scheduler_detach_wait touches wait queue and deadline only. *)
LEMMA DetachWaitType ==
    ASSUME NEW s \in KernelState, NEW S
    PROVE  Keeps(s, DetachWait(s, S))
<1>1. Unlink(s.wq, S) \in [Threads -> Nat]
    BY UnlinkType, ThreadAssumption DEF KernelState
<1>2. PutAll(s.on, S, "none") \in [Threads -> {"none", "sleep", "gate", "block"}]
    BY DEF PutAll, KernelState
<1>3. PutAll(s.timer, S, 0) \in [Threads -> Nat]
    BY DEF PutAll, KernelState
<1> QED
    BY <1>1, <1>2, <1>3 DEF DetachWait, KernelState, Keeps

(* kernel_smp_reschedule_others only posts IPIs. *)
LEMMA RescheduleOthersType ==
    ASSUME NEW s \in KernelState, NEW c \in CPUs
    PROVE  Keeps(s, RescheduleOthers(s, c))
BY DEF RescheduleOthers, KernelState, Keeps

(* scheduler_wake_waiter never re-pins a thread that it wakes. *)
LEMMA WakeWaitersType ==
    ASSUME NEW s \in KernelState, NEW c \in CPUs, NEW W, IsFiniteSet(W),
           NEW key, NEW result \in [Threads -> {0, 1}]
    PROVE  Keeps(s, WakeWaiters(s, c, W, key, result))
<1> DEFINE S == WakeTargets(s, W)
           d == DetachWait(s, S)
<1>1. d \in KernelState /\ d.aff = s.aff
    BY DetachWaitType DEF Keeps
<1>2. PushAll(s.runq, S, key) \in [Threads -> Nat]
  <2>1. IsFiniteSet(S)
      BY FS_Subset DEF WakeTargets
  <2> QED
      BY <2>1, PushAllType, ThreadAssumption DEF KernelState
<1>3. PutAll(s.st, S, "RUNNABLE") \in [Threads -> ThreadStates]
    BY DEF PutAll, KernelState, ThreadStates
<1>4. [t \in Threads |-> IF t \in S /\ s.call[t] # "none" THEN result[t] ELSE s.res[t]]
        \in [Threads -> {0, 1}]
    BY DEF KernelState
<1>5. /\ PutAll(s.waitPid, S, None) \in [Threads -> Procs \cup {None, AnyChild}]
      /\ PutAll(s.waitTid, S, None) \in [Threads -> Threads \cup {None}]
      /\ PutAll(s.bad, S, FALSE) \in [Threads -> BOOLEAN]
    BY DEF PutAll, KernelState
<1>6. s.ipi \cup {w \in CPUs \ {c} : \E t \in S : s.aff[t] = w} \in SUBSET CPUs
    BY DEF KernelState
<1>7. (s.err \/ \E t \in S : s.runq[t] # 0) \in BOOLEAN
    BY DEF KernelState
<1> QED
    BY <1>1, <1>2, <1>3, <1>4, <1>5, <1>6, <1>7, ZenonT(120) DEF WakeWaiters, KernelState, Keeps

(* The results that wakeups deliver. *)
LEMMA ZeroOneType ==
    Zero \in [Threads -> {0, 1}] /\ NonZero \in [Threads -> {0, 1}]
BY DEF Zero, NonZero

(* kernel_wait_queue_wake_one, with an empty queue too. *)
LEMMA WakeOneType ==
    ASSUME NEW s \in KernelState, NEW c \in CPUs, NEW q,
           NEW result \in [Threads -> {0, 1}]
    PROVE  Keeps(s, WakeOne(s, c, q, result))
<1>1. ASSUME NEW t PROVE Keeps(s, WakeWaiters(s, c, {t}, ByTid, result))
    BY WakeWaitersType, FS_Singleton
<1>2. Keeps(s, s) /\ Keeps(s, [s EXCEPT !.err = TRUE])
    BY DEF Keeps, KernelState
<1> QED
    BY <1>1, <1>2 DEF WakeOne

(* scheduler_expire_timeouts leaves no negative deadline. *)
LEMMA TickType ==
    ASSUME NEW s \in KernelState, NEW c \in CPUs
    PROVE  Keeps(s, Tick(s, c))
<1> DEFINE due == {t \in Threads : s.timer[t] = 1}
           s1 == [s EXCEPT !.timer = [t \in Threads |->
                    IF s.timer[t] > 1 THEN s.timer[t] - 1 ELSE s.timer[t]]]
           result == [t \in Threads |-> IF s.on[t] = "sleep" THEN 0 ELSE 1]
<1>1. IsFiniteSet(due)
    BY FS_Subset, ThreadAssumption
<1>2. [t \in Threads |-> IF s.timer[t] > 1 THEN s.timer[t] - 1 ELSE s.timer[t]]
        \in [Threads -> Nat]
    BY DEF KernelState
<1>3. Keeps(s, s1)
    BY <1>2 DEF Keeps, KernelState
<1>4. result \in [Threads -> {0, 1}]
    OBVIOUS
<1> HIDE DEF due, s1, result
<1>5. Keeps(s1, WakeWaiters(s1, c, due, s.wq, result))
    BY <1>1, <1>3, <1>4, WakeWaitersType DEF Keeps
<1> QED
    BY <1>3, <1>5 DEF Tick, Keeps, due, s1, result

(* scheduler_queue_thread_reap, on its error path too. *)
LEMMA QueueThreadReapType ==
    ASSUME NEW s \in KernelState, NEW t
    PROVE  Keeps(s, QueueThreadReap(s, t))
<1>1. PushBack(s.treap, t) \in [Threads -> Nat]
    BY PushAllType, FS_Singleton, ThreadAssumption DEF PushBack, KernelState
<1> QED
    BY <1>1, ZenonT(120) DEF QueueThreadReap, Keeps, KernelState

(* scheduler_queue_reap of any set of processes. *)
LEMMA QueueReapType ==
    ASSUME NEW s \in KernelState, NEW P, IsFiniteSet(P)
    PROVE  Keeps(s, QueueReap(s, P))
<1> DEFINE new == {p \in P : s.par[p] = None /\ s.preap[p] = 0}
<1>1. IsFiniteSet(new)
    BY FS_Subset
<1>2. PushAll(s.preap, new, [p \in Procs |-> p]) \in [Procs -> Nat]
    BY <1>1, PushAllType, ProcAssumption DEF KernelState
<1> QED
    BY <1>2 DEF QueueReap, Keeps, KernelState

(* The reap queue that scheduler_reap_deferred leaves. *)
LEMMA AfterReapType ==
    ASSUME NEW S, IsFiniteSet(S), NEW l \in [S -> Nat], NEW InUse
    PROVE  AfterReap(l, InUse) \in [S -> Nat]
<1>1. ASSUME NEW T, NEW x
      PROVE  PushBack(Unlink(l, T), x) \in [S -> Nat]
    BY UnlinkType, PushAllType, FS_Singleton DEF PushBack
<1>2. EmptyList(DOMAIN l) \in [S -> Nat]
    BY EmptyListType
<1> QED
    BY <1>1, <1>2 DEF AfterReap

(* scheduler_reap_deferred frees threads and keeps every pin. *)
LEMMA ReapDeferredType ==
    ASSUME NEW s \in KernelState, NEW cs
    PROVE  Keeps(s, ReapDeferred(s, cs))
<1> DEFINE busyT == {t \in Threads : ThreadActive(cs, t)}
           busyP == {p \in Procs : ProcessActive(cs, p)}
           gone == BeforeFirst(s.treap, busyT)
           stopped == Linked(s.treap) \cap busyT # {}
           goneP == IF stopped THEN {} ELSE BeforeFirst(s.preap, busyP)
<1>1. AfterReap(s.treap, busyT) \in [Threads -> Nat]
    BY AfterReapType, ThreadAssumption DEF KernelState
<1>2. (IF stopped THEN s.preap ELSE AfterReap(s.preap, busyP)) \in [Procs -> Nat]
    BY AfterReapType, ProcAssumption DEF KernelState
<1> HIDE DEF gone, goneP
<1>3. [t \in Threads |-> IF ProcOf[t] \in goneP \/ (t \in gone /\ Destroyable(s, t))
                         THEN "DEAD" ELSE s.st[t]] \in [Threads -> ThreadStates]
    BY DEF KernelState, ThreadStates
<1>4. [p \in Procs |-> IF p \in goneP THEN "DEAD" ELSE s.pst[p]] \in [Procs -> ProcStates]
    BY DEF KernelState, ProcStates
<1>5. [p \in Procs |-> IF p \in goneP \/ s.par[p] \in goneP THEN None ELSE s.par[p]]
        \in [Procs -> Procs \cup {None}]
    BY DEF KernelState
<1>6. (s.err \/ \E t \in gone : ~Destroyable(s, t)) \in BOOLEAN
    BY DEF KernelState
<1> QED
    BY <1>1, <1>2, <1>3, <1>4, <1>5, <1>6, ZenonT(120) DEF ReapDeferred, gone, goneP, Keeps, KernelState

(* A process has finitely many threads. *)
LEMMA ThreadsOfFinite ==
    ASSUME NEW p
    PROVE  /\ ThreadsOf(p) \subseteq Threads
           /\ \A S \in SUBSET ThreadsOf(p) : IsFiniteSet(S)
<1>1. ThreadsOf(p) \subseteq Threads
    BY DEF ThreadsOf
<1> QED
    BY <1>1, FS_Subset, ThreadAssumption

(* scheduler_notify_joiner on each of its four paths. *)
LEMMA NotifyJoinerType ==
    ASSUME NEW s \in KernelState, NEW c \in CPUs, NEW target
    PROVE  Keeps(s, NotifyJoiner(s, c, target))
<1> DEFINE s1 == [s EXCEPT !.joinW = Put(@, target, None)]
<1>1. Put(s.joinW, target, None) \in [Threads -> Threads \cup {None}]
    BY DEF Put, KernelState
<1>2. Keeps(s, s) /\ Keeps(s, s1) /\ Keeps(s, [s1 EXCEPT !.err = TRUE])
    BY <1>1 DEF Keeps, KernelState
<1>3. Keeps(s1, QueueThreadReap(s1, target))
    BY <1>2, QueueThreadReapType DEF Keeps
<1>4. ASSUME NEW r \in KernelState, NEW t
      PROVE  Keeps(r, WakeWaiters(r, c, {t}, ByTid, NonZero))
    BY WakeWaitersType, FS_Singleton, ZeroOneType
<1> HIDE DEF s1
<1>5. ASSUME NEW t
      PROVE  /\ Keeps(s, WakeWaiters(s1, c, {t}, ByTid, NonZero))
             /\ Keeps(s, WakeWaiters(QueueThreadReap(s1, target), c, {t}, ByTid, NonZero))
    BY <1>2, <1>3, <1>4 DEF Keeps
<1> QED
    BY <1>2, <1>5 DEF NotifyJoiner, s1

(* scheduler_collect_child unlinks a child from its parent. *)
LEMMA CollectChildType ==
    ASSUME NEW s \in KernelState, NEW child
    PROVE  Keeps(s, CollectChild(s, child))
<1> DEFINE s1 == [s EXCEPT !.par = Put(@, child, None)]
<1>1. Put(s.par, child, None) \in [Procs -> Procs \cup {None}]
    BY DEF Put, KernelState
<1>2. Keeps(s, s1)
    BY <1>1 DEF Keeps, KernelState
<1> HIDE DEF s1
<1>3. Keeps(s1, QueueReap(s1, {child}))
    BY <1>2, QueueReapType, FS_Singleton DEF Keeps
<1> QED
    BY <1>2, <1>3 DEF CollectChild, Keeps, s1

(* scheduler_wake_stale_waiters for any parent. *)
LEMMA WakeStaleWaitersType ==
    ASSUME NEW s \in KernelState, NEW c \in CPUs, NEW parent, NEW pid
    PROVE  Keeps(s, WakeStaleWaiters(s, c, parent, pid))
<1> DEFINE W == {t \in ThreadsOf(parent) :
                    \/ s.waitPid[t] = pid
                    \/ s.waitPid[t] \in {None, AnyChild} /\ Children(s, parent) = {}}
<1>1. IsFiniteSet(W)
    BY ThreadsOfFinite
<1>2. Keeps(s, WakeWaiters(s, c, W, ByTid, NonZero))
    BY <1>1, WakeWaitersType, ZeroOneType
<1> QED
    BY <1>2 DEF WakeStaleWaiters

(* scheduler_notify_parent, with and without a usable waiter. *)
LEMMA NotifyParentType ==
    ASSUME NEW s \in KernelState, NEW c \in CPUs, NEW child
    PROVE  Keeps(s, NotifyParent(s, c, child))
<1> DEFINE parent == s.par[child]
           match == {t \in ThreadsOf(parent) :
                       /\ s.st[t] = "BLOCKED"
                       /\ s.waitPid[t] \in {None, AnyChild, child}}
           good == {t \in match : ~s.bad[t]}
           first == CHOOSE t \in good : \A u \in good : t <= u
           failed == {t \in match : \A u \in good : t < u}
           s1 == WakeWaiters(s, c, failed, ByTid, NonZero)
           s2 == CollectChild(s1, child)
           s3 == WakeWaiters(s2, c, {first}, ByTid, NonZero)
           s4 == WakeStaleWaiters(s3, c, parent, child)
<1>1. IsFiniteSet(failed)
    BY ThreadsOfFinite
<1> HIDE DEF failed, first
<1>2. Keeps(s, s1)
    BY <1>1, WakeWaitersType, ZeroOneType
<1> HIDE DEF s1
<1>3. Keeps(s, s2)
    BY <1>2, CollectChildType DEF Keeps
<1> HIDE DEF s2
<1>4. Keeps(s, s3)
  <2>1. IsFiniteSet({first})
      BY FS_Singleton
  <2> QED
      BY <1>3, <2>1, WakeWaitersType, ZeroOneType DEF Keeps
<1> HIDE DEF s3
<1>5. Keeps(s, s4)
    BY <1>4, WakeStaleWaitersType DEF Keeps
<1>6. Keeps(s, s)
    BY DEF Keeps
<1> HIDE DEF s4
<1>7. NotifyParent(s, c, child) \in {s, s1, s4}
    BY DEF NotifyParent, s1, s2, s3, s4, first, failed
<1> QED
    BY <1>2, <1>5, <1>6, <1>7

(* scheduler_orphan_children keeps parents among the processes. *)
LEMMA OrphanChildrenType ==
    ASSUME NEW s \in KernelState, NEW p
    PROVE  Keeps(s, OrphanChildren(s, p))
<1> DEFINE newParent == IF p # InitProc /\ s.pst[InitProc] = "ACTIVE" THEN InitProc ELSE None
           par == [q \in Procs |-> IF s.par[q] = p THEN newParent ELSE s.par[q]]
           s1 == [s EXCEPT !.par = par]
           zombies == {q \in Children(s, p) : s.pst[q] = "ZOMBIE"}
<1>1. par \in [Procs -> Procs \cup {None}]
    BY ProcAssumption DEF KernelState
<1>2. IsFiniteSet(zombies)
  <2>1. zombies \subseteq Procs
      BY DEF Children
  <2> QED
      BY <2>1, FS_Subset, ProcAssumption
<1> HIDE DEF zombies, par
<1>3. Keeps(s, s1)
    BY <1>1 DEF Keeps, KernelState
<1> HIDE DEF s1
<1>4. Keeps(s1, QueueReap(s1, zombies))
    BY <1>2, <1>3, QueueReapType DEF Keeps
<1>5. OrphanChildren(s, p) \in {s1, QueueReap(s1, zombies)}
    BY DEF OrphanChildren, s1, par, zombies
<1> QED
    BY <1>3, <1>4, <1>5 DEF Keeps

(* scheduler_record_process_completion. *)
LEMMA RecordCompletionType ==
    ASSUME NEW s \in KernelState, NEW c \in CPUs, NEW p
    PROVE  Keeps(s, RecordCompletion(s, c, p))
<1> DEFINE bad == s.err \/ \E t \in ThreadsOf(p) : s.st[t] \notin {"ZOMBIE", "DEAD"}
           s1 == [s EXCEPT !.pst = Put(@, p, "ZOMBIE"), !.err = bad]
           s2 == OrphanChildren(s1, p)
           s3 == NotifyParent(s2, c, p)
<1>1. bad \in BOOLEAN
    BY DEF KernelState
<1>2. Put(s.pst, p, "ZOMBIE") \in [Procs -> ProcStates]
    BY DEF Put, KernelState, ProcStates
<1> HIDE DEF bad
<1>3. Keeps(s, s1) /\ Keeps(s, [s1 EXCEPT !.err = TRUE])
    BY <1>1, <1>2 DEF Keeps, KernelState
<1> HIDE DEF s1
<1>4. Keeps(s, s2)
    BY <1>3, OrphanChildrenType DEF Keeps
<1> HIDE DEF s2
<1>5. Keeps(s, s3)
    BY <1>4, NotifyParentType DEF Keeps
<1> HIDE DEF s3
<1>6. Keeps(s, QueueReap(s3, {p}))
    BY <1>5, QueueReapType, FS_Singleton DEF Keeps
<1> QED
    BY <1>3, <1>6 DEF RecordCompletion, bad, s1, s2, s3

(* live_thread_count does not go below zero in exit. *)
LEMMA ThreadExitedType ==
    ASSUME NEW s \in KernelState, NEW t \in Threads
    PROVE  Keeps(s, ThreadExited(s, t))
<1>1. /\ Put(s.st, t, "ZOMBIE") \in [Threads -> ThreadStates]
      /\ Put(s.waitPid, t, None) \in [Threads -> Procs \cup {None, AnyChild}]
      /\ Put(s.waitTid, t, None) \in [Threads -> Threads \cup {None}]
      /\ Put(s.bad, t, FALSE) \in [Threads -> BOOLEAN]
    BY DEF Put, KernelState, ThreadStates
<1>2. Put(s.live, ProcOf[t], IF s.live[ProcOf[t]] # 0 THEN s.live[ProcOf[t]] - 1 ELSE 0)
        \in [Procs -> Nat]
    BY ProcAssumption DEF Put, KernelState
<1> QED
    BY <1>1, <1>2 DEF ThreadExited, Keeps, KernelState

(* kernel_scheduler_exit, for the last thread and for another. *)
LEMMA ExitThreadType ==
    ASSUME NEW s \in KernelState, NEW c \in CPUs, NEW t \in Threads
    PROVE  Keeps(s, ExitThread(s, c, t))
<1> DEFINE s0 == ThreadExited(s, t)
           s1 == NotifyJoiner(s0, c, t)
<1>1. Keeps(s, s0)
    BY ThreadExitedType
<1> HIDE DEF s0
<1>2. Keeps(s, s1)
    BY <1>1, NotifyJoinerType DEF Keeps
<1> HIDE DEF s1
<1>3. Keeps(s, RecordCompletion(s1, c, ProcOf[t]))
    BY <1>2, RecordCompletionType DEF Keeps
<1> QED
    BY <1>2, <1>3 DEF ExitThread, s0, s1

(* kernel_scheduler_fault up to its rendezvous. *)
LEMMA FaultProcessType ==
    ASSUME NEW s \in KernelState, NEW c \in CPUs, NEW p
    PROVE  Keeps(s, FaultProcess(s, c, p))
<1> DEFINE S == {t \in ThreadsOf(p) : s.st[t] # "DEAD"}
           d == RescheduleOthers(DetachWait(s, S), c)
<1> HIDE DEF S
<1>1. Keeps(s, d)
    BY DetachWaitType, RescheduleOthersType DEF Keeps
<1>2. d.live = s.live /\ d.faulted = s.faulted /\ d.stop = s.stop /\ d.owner = s.owner
    BY DEF RescheduleOthers, DetachWait, KernelState
<1>3. /\ PutAll(s.st, S, "ZOMBIE") \in [Threads -> ThreadStates]
      /\ PutAll(s.joinW, S, None) \in [Threads -> Threads \cup {None}]
      /\ PutAll(s.waitTid, S, None) \in [Threads -> Threads \cup {None}]
      /\ PutAll(s.waitPid, S, None) \in [Threads -> Procs \cup {None, AnyChild}]
      /\ PutAll(s.bad, S, FALSE) \in [Threads -> BOOLEAN]
    BY DEF PutAll, KernelState, ThreadStates
<1>4. Unlink(s.runq, S) \in [Threads -> Nat]
    BY UnlinkType, ThreadAssumption DEF KernelState
<1>5. /\ Put(s.live, p, 0) \in [Procs -> Nat]
      /\ Put(s.faulted, p, TRUE) \in [Procs -> BOOLEAN]
      /\ Put(s.stop, p, TRUE) \in [Procs -> BOOLEAN]
      /\ Put(s.owner, p, None) \in [Procs -> Threads \cup {None}]
    BY DEF Put, KernelState
<1> HIDE DEF d
<1> QED
    BY <1>1, <1>2, <1>3, <1>4, <1>5, ZenonT(120) DEF FaultProcess, S, d, Keeps, KernelState

(* scheduler_request_process_stop. *)
LEMMA RequestProcessStopType ==
    ASSUME NEW s \in KernelState, NEW cs, NEW c \in CPUs, NEW owner \in Threads \cup {None}
    PROVE  Keeps(s, RequestProcessStop(s, cs, c, owner))
<1> DEFINE p == ProcOf[owner]
           S == {t \in ThreadsOf(p) \ {owner} : s.st[t] # "DEAD"}
           d == RescheduleOthers(DetachWait(s, S), c)
<1> HIDE DEF S, p
<1>1. Keeps(s, d)
    BY DetachWaitType, RescheduleOthersType DEF Keeps
<1>2. d.stop = s.stop /\ d.owner = s.owner
    BY DEF RescheduleOthers, DetachWait, KernelState
<1>3. [t \in Threads |-> IF t \in S /\ ~ThreadActive(cs, t) THEN "ZOMBIE" ELSE s.st[t]]
        \in [Threads -> ThreadStates]
    BY DEF KernelState, ThreadStates
<1>4. /\ Unlink(s.runq, S) \in [Threads -> Nat]
      /\ Unlink(s.treap, S) \in [Threads -> Nat]
    BY UnlinkType, ThreadAssumption DEF KernelState
<1>5. /\ Put(s.stop, p, TRUE) \in [Procs -> BOOLEAN]
      /\ Put(s.owner, p, owner) \in [Procs -> Threads \cup {None}]
    BY DEF Put, KernelState
<1> HIDE DEF d
<1> QED
    BY <1>1, <1>2, <1>3, <1>4, <1>5 DEF RequestProcessStop, S, p, d, Keeps, KernelState

(* scheduler_exec_discard_other_threads. *)
LEMMA DiscardOtherThreadsType ==
    ASSUME NEW s \in KernelState, NEW p, NEW current
    PROVE  Keeps(s, DiscardOtherThreads(s, p, current))
<1> DEFINE S == {t \in ThreadsOf(p) \ {current} : s.st[t] # "DEAD"}
           d == DetachWait(s, S)
           joinW == [u \in Threads |->
                       IF u \in S \/ (s.joinW[u] \in S /\ s.waitTid[s.joinW[u]] = u)
                       THEN None ELSE s.joinW[u]]
<1> HIDE DEF S
<1>1. Keeps(s, d) /\ d.live = s.live
    BY DetachWaitType DEF Keeps, DetachWait, KernelState
<1>2. /\ PutAll(s.st, S, "DEAD") \in [Threads -> ThreadStates]
      /\ joinW \in [Threads -> Threads \cup {None}]
      /\ Put(s.live, p, 1) \in [Procs -> Nat]
    BY DEF Put, PutAll, KernelState, ThreadStates
<1>3. /\ Unlink(s.runq, S) \in [Threads -> Nat]
      /\ Unlink(s.treap, S) \in [Threads -> Nat]
    BY UnlinkType, ThreadAssumption DEF KernelState
<1> HIDE DEF d, joinW
<1> QED
    BY <1>1, <1>2, <1>3 DEF DiscardOtherThreads, S, d, joinW, Keeps, KernelState

(* The process fields that exec sets. *)
LEMMA ResetProcessType ==
    ASSUME NEW s \in KernelState, NEW p
    PROVE  Keeps(s, ResetProcess(s, p))
<1>1. /\ Put(s.pst, p, "ACTIVE") \in [Procs -> ProcStates]
      /\ Put(s.stop, p, FALSE) \in [Procs -> BOOLEAN]
      /\ Put(s.owner, p, None) \in [Procs -> Threads \cup {None}]
      /\ Put(s.faulted, p, FALSE) \in [Procs -> BOOLEAN]
    BY DEF Put, KernelState, ProcStates
<1> QED
    BY <1>1 DEF ResetProcess, Keeps, KernelState

(* The thread fields that exec sets; the pin is not among them. *)
LEMMA ResetThreadType ==
    ASSUME NEW s \in KernelState, NEW t
    PROVE  Keeps(s, ResetThread(s, t))
<1>1. /\ Put(s.st, t, "RUNNING") \in [Threads -> ThreadStates]
      /\ Put(s.joinW, t, None) \in [Threads -> Threads \cup {None}]
      /\ Put(s.waitTid, t, None) \in [Threads -> Threads \cup {None}]
      /\ Put(s.waitPid, t, None) \in [Threads -> Procs \cup {None, AnyChild}]
    BY DEF Put, KernelState, ThreadStates
<1>2. /\ Put(s.bad, t, FALSE) \in [Threads -> BOOLEAN]
      /\ Put(s.call, t, "none") \in [Threads -> Calls]
      /\ Put(s.op, t, "none") \in [Threads -> FsOps]
    BY DEF Put, KernelState, Calls, FsOps
<1> QED
    BY <1>1, <1>2 DEF ResetThread, Keeps, KernelState

(* kernel_scheduler_exec after its rendezvous. *)
LEMMA ReplaceImageType ==
    ASSUME NEW s \in KernelState, NEW c \in CPUs, NEW owner
    PROVE  Keeps(s, ReplaceImage(s, c, owner))
BY DiscardOtherThreadsType, ResetProcessType, ResetThreadType, RescheduleOthersType
   DEF ReplaceImage, Keeps

(* A wait that is undone because nothing is left to run. *)
LEMMA UndoType ==
    ASSUME NEW s \in KernelState, NEW t
    PROVE  Keeps(s, Undo(s, t))
<1> DEFINE d == DetachWait(s, {t})
<1>1. Keeps(s, d)
    BY DetachWaitType
<1>2. d.st = s.st /\ d.waitPid = s.waitPid /\ d.waitTid = s.waitTid /\ d.bad = s.bad
    BY DEF DetachWait, KernelState
<1>3. /\ Put(s.st, t, "RUNNING") \in [Threads -> ThreadStates]
      /\ Put(s.waitPid, t, None) \in [Threads -> Procs \cup {None, AnyChild}]
      /\ Put(s.waitTid, t, None) \in [Threads -> Threads \cup {None}]
      /\ Put(s.bad, t, FALSE) \in [Threads -> BOOLEAN]
    BY DEF Put, KernelState, ThreadStates
<1>4. [u \in Threads |-> IF s.waitTid[t] = u /\ s.call[t] = "none" THEN None ELSE s.joinW[u]]
        \in [Threads -> Threads \cup {None}]
    BY DEF KernelState
<1> HIDE DEF d
<1> QED
    BY <1>1, <1>2, <1>3, <1>4 DEF Undo, d, Keeps, KernelState

-----------------------------------------------------------------------------
(* The inductive invariant.  Types alone do not keep stacks apart; what    *)
(* does is that whatever thread a CPU refers to is pinned to that CPU.     *)

Pinned(s, cs) ==
    \A c \in CPUs : \A t \in {cs[c].cur, cs[c].kst, cs[c].stk} \ {None} : s.aff[t] = c

Good(s, cs) == s \in KernelState /\ cs \in [CPUs -> CpuState] /\ Pinned(s, cs)

IInv == Good(k, cpu)

(* Helpers that keep types and pins keep the invariant. *)
LEMMA GoodKeeps ==
    ASSUME NEW s, NEW cs, NEW r, Good(s, cs), Keeps(s, r)
    PROVE  Good(r, cs)
BY DEF Good, Keeps, Pinned

(* A CPU that only moves its references around stays good. *)
LEMMA GoodCpu ==
    ASSUME NEW s, NEW cs, NEW c \in CPUs, NEW r \in CpuState, Good(s, cs),
           \A t \in {r.cur, r.kst, r.stk} \ {None} :
              t \in {cs[c].cur, cs[c].kst, cs[c].stk} \/ s.aff[t] = c
    PROVE  Good(s, [cs EXCEPT ![c] = r])
<1>1. [cs EXCEPT ![c] = r] \in [CPUs -> CpuState]
    BY DEF Good
<1>2. Pinned(s, [cs EXCEPT ![c] = r])
    BY DEF Good, Pinned
<1> QED
    BY <1>1, <1>2 DEF Good

(* scheduler_dequeue pins a thread that no other CPU refers to. *)
LEMMA DequeueGood ==
    ASSUME NEW s, NEW cs, NEW c \in CPUs, Good(s, cs), NEW t \in Eligible(s, c)
    PROVE  /\ t \in Threads
           /\ Good(Dequeue(s, c, t), cs)
           /\ Dequeue(s, c, t).aff[t] = c
<1>1. t \in Threads /\ s.aff[t] \in {None, c}
    BY DEF Eligible, Linked, Good, KernelState
<1>2. /\ RotateOut(s.runq, t) \in [Threads -> Nat]
      /\ Put(s.aff, t, c) \in [Threads -> CPUs \cup {None}]
      /\ Put(s.st, t, "RUNNING") \in [Threads -> ThreadStates]
    BY RotateOutType, ThreadAssumption DEF Put, Good, KernelState, ThreadStates
<1>3. Dequeue(s, c, t) \in KernelState /\ Dequeue(s, c, t).aff = Put(s.aff, t, c)
    BY <1>2 DEF Dequeue, Good, KernelState
<1>4. ASSUME NEW d \in CPUs, NEW u \in {cs[d].cur, cs[d].kst, cs[d].stk} \ {None}
      PROVE  Put(s.aff, t, c)[u] = d
  <2>1. s.aff[u] = d /\ u \in Threads
      BY DEF Good, Pinned, CpuState
  <2>2. d # None
      BY DEF CPUs, None
  <2> QED
      BY <1>1, <2>1, <2>2 DEF Put, Good, KernelState
<1>5. Put(s.aff, t, c)[t] = c
    BY <1>1 DEF Put, Good, KernelState
<1> QED
    BY <1>1, <1>3, <1>4, <1>5 DEF Good, Pinned

(* scheduler_load makes a thread pinned to this CPU its current one. *)
LEMMA LoadGood ==
    ASSUME NEW s, NEW cs, NEW c \in CPUs, NEW t \in Threads,
           Good(s, cs), s.aff[t] = c, Load(s, cs, c, t)
    PROVE  IInv'
<1> DEFINE r == [cs[c] EXCEPT !.cur = t, !.woken = FALSE,
                              !.pc = IF s.kres[t] THEN "resume" ELSE "user"]
<1>1. Put(s.kres, t, FALSE) \in [Threads -> BOOLEAN]
    BY DEF Put, Good, KernelState
<1>2. Keeps(s, k')
    BY <1>1 DEF Load, Keeps, Good, KernelState
<1>3. r \in CpuState
    BY ZenonT(120) DEF Good, CpuState, Pcs
<1>4. /\ r.cur = t /\ r.kst = cs[c].kst /\ r.stk = cs[c].stk
    BY DEF Good, CpuState
<1>5. cpu' = [cs EXCEPT ![c] = r]
    BY DEF Load
<1> HIDE DEF r
<1>6. Good(s, [cs EXCEPT ![c] = r])
    BY <1>3, <1>4, GoodCpu
<1> QED
    BY <1>2, <1>5, <1>6, GoodKeeps DEF IInv

(* scheduler_dequeue followed by scheduler_load. *)
LEMMA DispatchGood ==
    ASSUME NEW s, NEW cs, NEW c \in CPUs, Good(s, cs),
           NEW t, IsFirst(s.runq, Eligible(s, c), t), Load(Dequeue(s, c, t), cs, c, t)
    PROVE  IInv'
<1>1. t \in Eligible(s, c)
    BY DEF IsFirst
<1> QED
    BY <1>1, DequeueGood, LoadGood

(* A CPU that goes idle keeps the stack that it is on. *)
LEMMA IdleGood ==
    ASSUME NEW s, NEW cs, NEW c \in CPUs, NEW pc \in IdlePcs,
           Good(s, cs), Idle(s, cs, c, pc)
    PROVE  IInv'
<1> DEFINE r == [cs[c] EXCEPT !.cur = None, !.pc = pc, !.woken = FALSE]
<1>1. r \in CpuState
    BY DEF Good, CpuState, Pcs
<1>2. r.cur = None /\ r.kst = cs[c].kst /\ r.stk = cs[c].stk
    BY DEF Good, CpuState
<1>3. k' = s /\ cpu' = [cs EXCEPT ![c] = r]
    BY DEF Idle
<1> HIDE DEF r
<1> QED
    BY <1>1, <1>2, <1>3, GoodCpu DEF IInv

(* scheduler_finish leaves no CPU with a reference. *)
LEMMA FinishGood ==
    ASSUME NEW s, NEW cs, Good(s, cs), Finish(s, cs)
    PROVE  IInv'
<1>1. Keeps(s, ReapDeferred(s, cs))
    BY ReapDeferredType DEF Good
<1>2. k' \in KernelState
    BY <1>1 DEF Finish, Keeps, KernelState
<1>3. cpu' \in [CPUs -> CpuState]
    BY DEF Finish, CpuState, Pcs
<1>4. Pinned(k', cpu')
    BY DEF Finish, Pinned
<1> QED
    BY <1>2, <1>3, <1>4 DEF IInv, Good

(* scheduler_dequeue_or_idle for a blocking system call. *)
LEMMA SwitchOrIdleGood ==
    ASSUME NEW s, NEW cs, NEW c \in CPUs, Good(s, cs), SwitchOrIdle(s, cs, c)
    PROVE  IInv'
BY DispatchGood, IdleGood DEF SwitchOrIdle, IdlePcs

(* The end of exit and fault on either kind of CPU. *)
LEMMA LeaveThreadGood ==
    ASSUME NEW s, NEW cs, NEW c \in CPUs, Good(s, cs), LeaveThread(s, cs, c)
    PROVE  IInv'
<1> DEFINE r == [cs[c] EXCEPT !.cur = None, !.pc = "retire"]
<1>1. CASE k' = s /\ cpu' = [cs EXCEPT ![c].cur = None, ![c].pc = "retire"]
  <2>1. r \in CpuState
      BY DEF Good, CpuState, Pcs
  <2>2. r.cur = None /\ r.kst = cs[c].kst /\ r.stk = cs[c].stk
      BY DEF Good, CpuState
  <2>3. cpu' = [cs EXCEPT ![c] = r]
      BY <1>1
  <2> HIDE DEF r
  <2>4. Good(s, [cs EXCEPT ![c] = r])
      BY <2>1, <2>2, GoodCpu
  <2> QED
      BY <1>1, <2>3, <2>4 DEF IInv
<1>2. CASE \E t \in Threads : /\ IsFirst(s.runq, Eligible(s, c), t)
                             /\ Load(Dequeue(s, c, t), cs, c, t)
    BY <1>2, DispatchGood
<1>3. CASE Finish(s, cs)
    BY <1>3, FinishGood
<1>4. CASE Idle(s, cs, c, "xidle")
    BY <1>4, IdleGood DEF IdlePcs
<1> QED
    BY <1>1, <1>2, <1>3, <1>4 DEF LeaveThread

(* scheduler_reschedule requeues a thread that stays pinned. *)
LEMMA RescheduleGood ==
    ASSUME NEW s, NEW cs, NEW c \in CPUs, Good(s, cs), Reschedule(s, cs, c)
    PROVE  IInv'
<1> DEFINE previous == cs[c].cur
           s1 == [s EXCEPT !.st = Put(@, previous, "RUNNABLE"),
                           !.runq = PushBack(s.runq, previous)]
<1>1. PushBack(s.runq, previous) \in [Threads -> Nat]
    BY PushAllType, FS_Singleton, ThreadAssumption DEF PushBack, Good, KernelState
<1>2. Put(s.st, previous, "RUNNABLE") \in [Threads -> ThreadStates]
    BY DEF Put, Good, KernelState, ThreadStates
<1>3. Keeps(s, s1)
    BY <1>1, <1>2 DEF Keeps, Good, KernelState
<1> HIDE DEF s1
<1>4. Good(s1, cs)
    BY <1>3, GoodKeeps
<1>5. PICK t \in Threads : /\ IsFirst(s1.runq, Eligible(s1, c), t)
                           /\ Load(Dequeue(s1, c, t), cs, c, t)
    BY DEF Reschedule, s1
<1> QED
    BY <1>4, <1>5, DispatchGood

(* kernel_scheduler_stop_current. *)
LEMMA StopCurrentGood ==
    ASSUME NEW s, NEW cs, NEW c \in CPUs, Good(s, cs), StopCurrent(s, cs, c)
    PROVE  IInv'
<1> DEFINE t == cs[c].cur
           d == DetachWait(s, {t})
           r == [cs[c] EXCEPT !.pc = "retire"]
<1>1. Keeps(s, d)
    BY DetachWaitType DEF Good
<1>2. Put(d.st, t, "ZOMBIE") \in [Threads -> ThreadStates]
    BY <1>1 DEF Put, Keeps, KernelState, ThreadStates
<1>3. k' = [d EXCEPT !.st = Put(d.st, t, "ZOMBIE")] /\ cpu' = [cs EXCEPT ![c] = r]
    BY DEF StopCurrent
<1> HIDE DEF d
<1>4. Keeps(s, k')
    <2>1. d \in KernelState /\ d.aff = s.aff
        BY <1>1 DEF Keeps
    <2>2. ASSUME NEW f \in [Threads -> ThreadStates]
          PROVE  [d EXCEPT !.st = f] \in KernelState /\ [d EXCEPT !.st = f].aff = d.aff
        BY <2>1, ZenonT(120) DEF KernelState
    <2> QED
        BY <1>2, <1>3, <2>1, <2>2 DEF Keeps
<1>5. r \in CpuState
    BY DEF Good, CpuState, Pcs
<1>6. r.cur = cs[c].cur /\ r.kst = cs[c].kst /\ r.stk = cs[c].stk
    BY DEF Good, CpuState
<1> HIDE DEF r
<1>7. Good(s, cpu')
    BY <1>3, <1>5, <1>6, GoodCpu
<1> QED
    BY <1>4, <1>7, GoodKeeps DEF IInv

(* A CPU that goes back to user mode. *)
LEMMA ReturnGood ==
    ASSUME NEW s, NEW cs, NEW c \in CPUs, Good(s, cs),
           k' = s, cpu' = [cs EXCEPT ![c].pc = "user"]
    PROVE  IInv'
<1> DEFINE r == [cs[c] EXCEPT !.pc = "user"]
<1>1. r \in CpuState
    BY DEF Good, CpuState, Pcs
<1>2. r.cur = cs[c].cur /\ r.kst = cs[c].kst /\ r.stk = cs[c].stk
    BY DEF Good, CpuState
<1>3. cpu' = [cs EXCEPT ![c] = r]
    OBVIOUS
<1> HIDE DEF r
<1>4. Good(s, [cs EXCEPT ![c] = r])
    BY <1>1, <1>2, GoodCpu
<1> QED
    BY <1>3, <1>4 DEF IInv

(* kernel_scheduler_exit. *)
LEMMA ExitGood ==
    ASSUME NEW s, NEW cs, NEW c \in CPUs, Good(s, cs), Exit(s, cs, c)
    PROVE  IInv'
<1>1. CASE InService(s, cs, c)
  <2>1. cs[c].cur \in Threads
      BY <1>1 DEF InService, Good, CpuState
  <2>2. Keeps(s, ReapDeferred(s, cs))
      BY ReapDeferredType DEF Good
  <2>3. Keeps(s, ExitThread(ReapDeferred(s, cs), c, cs[c].cur))
      BY <2>1, <2>2, ExitThreadType DEF Keeps
  <2> QED
      BY <1>1, <2>3, GoodKeeps, LeaveThreadGood DEF Exit
<1>2. CASE ~InService(s, cs, c)
    BY <1>2, ReturnGood DEF Exit
<1> QED
    BY <1>1, <1>2

(* A thread is dispatched while another one, t, leaves a continuation. *)
LEMMA ResumableGood ==
    ASSUME NEW s, NEW cs, NEW c \in CPUs, NEW t, Good(s, cs),
           NEW u, IsFirst(s.runq, Eligible(s, c), u),
           Load([Dequeue(s, c, u) EXCEPT !.kres = Put(@, t, TRUE)], cs, c, u)
    PROVE  IInv'
<1> DEFINE d == Dequeue(s, c, u)
           d1 == [d EXCEPT !.kres = Put(@, t, TRUE)]
<1>1. u \in Eligible(s, c)
    BY DEF IsFirst
<1>2. u \in Threads /\ Good(d, cs) /\ d.aff[u] = c
    BY <1>1, DequeueGood
<1> HIDE DEF d
<1>3. Put(d.kres, t, TRUE) \in [Threads -> BOOLEAN]
    BY <1>2 DEF Put, Good, KernelState
<1>4. Keeps(d, d1)
    BY <1>2, <1>3 DEF Keeps, Good, KernelState
<1>5. Load(d1, cs, c, u)
    BY DEF d
<1> HIDE DEF d1
<1>6. Good(d1, cs) /\ d1.aff[u] = c
    BY <1>2, <1>4, GoodKeeps DEF Keeps
<1> QED
    BY <1>2, <1>5, <1>6, LoadGood

(* kernel_scheduler_block_kernel up to the switch. *)
LEMMA BlockKernelGood ==
    ASSUME NEW s, NEW cs, NEW c \in CPUs, NEW q \in {"gate", "block"},
           NEW ticks \in Nat, NEW call \in Calls,
           Good(s, cs), BlockKernel(s, cs, c, q, ticks, call)
    PROVE  IInv'
<1> DEFINE t == cs[c].cur
           s1 == [s EXCEPT !.st = Put(@, t, "BLOCKED"),
                           !.on = Put(@, t, q),
                           !.wq = PushBack(s.wq, t),
                           !.timer = Put(@, t, ticks),
                           !.call = Put(@, t, call)]
<1> HIDE DEF t
<1>1. /\ Put(s.st, t, "BLOCKED") \in [Threads -> ThreadStates]
      /\ Put(s.on, t, q) \in [Threads -> {"none", "sleep", "gate", "block"}]
      /\ Put(s.timer, t, ticks) \in [Threads -> Nat]
      /\ Put(s.call, t, call) \in [Threads -> Calls]
    BY DEF Put, Good, KernelState, ThreadStates
<1>2. PushBack(s.wq, t) \in [Threads -> Nat]
    BY PushAllType, FS_Singleton, ThreadAssumption DEF PushBack, Good, KernelState
<1>3. Keeps(s, s1)
    BY <1>1, <1>2 DEF Keeps, Good, KernelState
<1> HIDE DEF s1
<1>4. Good(s1, cs)
    BY <1>3, GoodKeeps
<1>5. CASE Idle(s1, cs, c, "kidle")
    BY <1>4, <1>5, IdleGood DEF IdlePcs
<1>6. ASSUME NEW u, IsFirst(s1.runq, Eligible(s1, c), u),
             Load([Dequeue(s1, c, u) EXCEPT !.kres = Put(@, t, TRUE)], cs, c, u)
      PROVE  IInv'
    BY <1>4, <1>6, ResumableGood
<1> QED
    BY <1>5, <1>6 DEF BlockKernel, s1, t

(* The end of kernel_syscall_dispatch. *)
LEMMA SyscallReturnGood ==
    ASSUME NEW s, NEW cs, NEW c \in CPUs, Good(s, cs), SyscallReturn(s, cs, c)
    PROVE  IInv'
<1> DEFINE t == cs[c].cur
           s1 == [s EXCEPT !.call = Put(@, t, "none"),
                           !.op = Put(@, t, "none"),
                           !.res = Put(@, t, 0)]
           r == [cs[c] EXCEPT !.woken = FALSE]
           cs1 == [cs EXCEPT ![c] = r]
<1>1. /\ Put(s.call, t, "none") \in [Threads -> Calls]
      /\ Put(s.op, t, "none") \in [Threads -> FsOps]
      /\ Put(s.res, t, 0) \in [Threads -> {0, 1}]
    BY DEF Put, Good, KernelState, Calls, FsOps
<1>2. Keeps(s, s1)
    BY <1>1 DEF Keeps, Good, KernelState
<1>3. r \in CpuState
    BY DEF Good, CpuState
<1>4. r.cur = cs[c].cur /\ r.kst = cs[c].kst /\ r.stk = cs[c].stk
    BY DEF Good, CpuState
<1>5. Exit(s1, cs1, c) \/ (k' = s1 /\ cpu' = [cs1 EXCEPT ![c].pc = "user"])
    BY DEF SyscallReturn
<1> HIDE DEF s1, r
<1>6. Good(s1, cs1)
    BY <1>2, <1>3, <1>4, GoodCpu, GoodKeeps
<1> HIDE DEF cs1
<1> QED
    BY <1>5, <1>6, ExitGood, ReturnGood

(* syscall_gate_unlock and the return. *)
LEMMA FileDoneGood ==
    ASSUME NEW s, NEW cs, NEW c \in CPUs, Good(s, cs), FileDone(s, cs, c)
    PROVE  IInv'
<1> DEFINE s1 == [s EXCEPT !.gate = None]
           s2 == WakeOne(s1, c, "gate", Zero)
<1>1. Keeps(s, s1)
    BY DEF Keeps, Good, KernelState
<1> HIDE DEF s1
<1>2. Keeps(s, s2)
    BY <1>1, WakeOneType, ZeroOneType DEF Keeps
<1>3. SyscallReturn(s2, cs, c)
    BY DEF FileDone, s1
<1> HIDE DEF s2
<1> QED
    BY <1>2, <1>3, GoodKeeps, SyscallReturnGood

(* block_command. *)
LEMMA BlockCommandGood ==
    ASSUME NEW s, NEW cs, NEW c \in CPUs, Good(s, cs), BlockCommand(s, cs, c)
    PROVE  IInv'
<1> DEFINE s1 == [s EXCEPT !.pending = TRUE]
<1>1. Keeps(s, s1)
    BY DEF Keeps, Good, KernelState
<1>2. BlockKernel(s1, cs, c, "block", BlockTicks, "io")
    BY DEF BlockCommand
<1> HIDE DEF s1
<1>3. Good(s1, cs)
    BY <1>1, GoodKeeps
<1> QED
    BY <1>2, <1>3, BlockKernelGood, WorkloadAssumption DEF Calls

(* The start of the rendezvous of exec. *)
LEMMA ExecStopGood ==
    ASSUME NEW s, NEW cs, NEW c \in CPUs, Good(s, cs), ExecStop(s, cs, c)
    PROVE  IInv'
<1> DEFINE r == [cs[c] EXCEPT !.pc = "sexec", !.woken = FALSE]
<1>1. Keeps(s, k')
    BY RequestProcessStopType DEF ExecStop, Good, CpuState
<1>2. r \in CpuState
    BY DEF Good, CpuState, Pcs
<1>3. r.cur = cs[c].cur /\ r.kst = cs[c].kst /\ r.stk = cs[c].stk
    BY DEF Good, CpuState
<1>4. cpu' = [cs EXCEPT ![c] = r]
    BY DEF ExecStop
<1> HIDE DEF r
<1>5. Good(s, [cs EXCEPT ![c] = r])
    BY <1>2, <1>3, GoodCpu
<1> QED
    BY <1>1, <1>4, <1>5, GoodKeeps DEF IInv

(* A stretch of a file system call between two waits. *)
LEMMA FileStepGood ==
    ASSUME NEW s, NEW cs, NEW c \in CPUs, Good(s, cs), FileStep(s, cs, c)
    PROVE  IInv'
<1> DEFINE t == cs[c].cur
           d == ReapDeferred(s, cs)
           s1 == [d EXCEPT !.op = Put(@, t, "load")]
<1>1. Keeps(s, d)
    BY ReapDeferredType DEF Good
<1>2. Put(d.op, t, "load") \in [Threads -> FsOps]
    BY <1>1 DEF Put, Keeps, KernelState, FsOps
<1>3. \/ FileDone(s, cs, c) \/ BlockCommand(s, cs, c) \/ ExecStop(s, cs, c)
      \/ FileDone(s1, cs, c) \/ BlockCommand(s1, cs, c) \/ ExecStop(s1, cs, c)
    BY DEF FileStep
<1> HIDE DEF d
<1>4. Keeps(s, s1)
    BY <1>1, <1>2 DEF Keeps, KernelState
<1> HIDE DEF s1
<1>5. Good(s1, cs)
    BY <1>4, GoodKeeps
<1> QED
    BY <1>3, <1>5, FileDoneGood, BlockCommandGood, ExecStopGood

(* syscall_gate_lock. *)
LEMMA GateLockGood ==
    ASSUME NEW s, NEW cs, NEW c \in CPUs, Good(s, cs), GateLock(s, cs, c)
    PROVE  IInv'
<1> DEFINE s1 == [s EXCEPT !.gate = cs[c].cur]
<1>1. Keeps(s, s1)
    BY DEF Keeps, Good, KernelState, CpuState
<1>2. BlockKernel(s, cs, c, "gate", 0, "gate") \/ FileStep(s1, cs, c)
    BY DEF GateLock
<1> HIDE DEF s1
<1>3. Good(s1, cs)
    BY <1>1, GoodKeeps
<1> QED
    BY <1>2, <1>3, BlockKernelGood, FileStepGood DEF Calls

(* What follows block_kernel in its caller. *)
LEMMA ContinueGood ==
    ASSUME NEW s, NEW cs, NEW c \in CPUs, NEW failed, Good(s, cs), Continue(s, cs, c, failed)
    PROVE  IInv'
<1> DEFINE s1 == [s EXCEPT !.res = Put(@, cs[c].cur, 0)]
<1>1. Put(s.res, cs[c].cur, 0) \in [Threads -> {0, 1}]
    BY DEF Put, Good, KernelState
<1>2. Keeps(s, s1)
    BY <1>1 DEF Keeps, Good, KernelState
<1>3. \/ SyscallReturn(s1, cs, c) \/ GateLock(s1, cs, c)
      \/ FileDone(s1, cs, c) \/ FileStep(s1, cs, c)
    BY DEF Continue
<1> HIDE DEF s1
<1>4. Good(s1, cs)
    BY <1>2, GoodKeeps
<1> QED
    BY <1>3, <1>4, SyscallReturnGood, GateLockGood, FileDoneGood, FileStepGood

-----------------------------------------------------------------------------
(* The steps of a CPU. *)

(* A trap puts the CPU on the stack of its current thread. *)
LEMMA TrapEnterGood ==
    ASSUME IInv, NEW c \in CPUs
    PROVE  Good(k, TrapEnter(c))
<1> DEFINE r == [cpu[c] EXCEPT !.kst = cpu[c].cur,
                               !.stk = IF cpu[c].pc = "user" THEN cpu[c].cur ELSE @]
<1>1. r \in CpuState
    BY DEF IInv, Good, CpuState
<1>2. r.cur = cpu[c].cur /\ r.kst = cpu[c].cur /\ r.stk \in {cpu[c].cur, cpu[c].stk}
    BY DEF IInv, Good, CpuState
<1>3. TrapEnter(c) = [cpu EXCEPT ![c] = r]
    BY DEF TrapEnter
<1> HIDE DEF r
<1>4. Good(k, [cpu EXCEPT ![c] = r])
    BY <1>1, <1>2, GoodCpu DEF IInv
<1> QED
    BY <1>3, <1>4

(* kernel_smp_switch_reacquire. *)
LEMMA ReacquireGood ==
    ASSUME IInv, NEW c \in CPUs
    PROVE  Good(k, Reacquire(c))
<1> DEFINE r == [cpu[c] EXCEPT !.kst = cpu[c].cur]
<1>1. r \in CpuState
    BY DEF IInv, Good, CpuState
<1>2. r.cur = cpu[c].cur /\ r.kst = cpu[c].cur /\ r.stk = cpu[c].stk
    BY DEF IInv, Good, CpuState
<1>3. Reacquire(c) = [cpu EXCEPT ![c] = r]
    BY DEF Reacquire
<1> HIDE DEF r
<1>4. Good(k, [cpu EXCEPT ![c] = r])
    BY <1>1, <1>2, GoodCpu DEF IInv
<1> QED
    BY <1>3, <1>4

(* Reaping keeps the invariant. *)
LEMMA ReapGood ==
    ASSUME NEW s, NEW cs, Good(s, cs)
    PROVE  Good(ReapDeferred(s, cs), cs)
BY ReapDeferredType, GoodKeeps DEF Good

(* An interrupt that ends the idle wait. *)
LEMMA IdleReturnGood ==
    ASSUME NEW s, NEW cs, NEW c \in CPUs, Good(s, cs), IdleReturn(s, cs, c)
    PROVE  IInv'
<1> DEFINE r == IF cs[c].pc = "loop" THEN [cs[c] EXCEPT !.pc = "start"]
                ELSE [cs[c] EXCEPT !.woken = TRUE]
<1>1. r \in CpuState
    BY DEF Good, CpuState, Pcs
<1>2. r.cur = cs[c].cur /\ r.kst = cs[c].kst /\ r.stk = cs[c].stk
    BY DEF Good, CpuState
<1>3. k' = s /\ cpu' = [cs EXCEPT ![c] = r]
    BY DEF IdleReturn
<1> HIDE DEF r
<1>4. Good(s, [cs EXCEPT ![c] = r])
    BY <1>1, <1>2, GoodCpu
<1> QED
    BY <1>3, <1>4 DEF IInv

(* An interrupt that preempts. *)
LEMMA PreemptGood ==
    ASSUME NEW s, NEW cs, NEW c \in CPUs, Good(s, cs), Preempt(s, cs, c)
    PROVE  IInv'
<1>1. \/ IdleReturn(s, cs, c) \/ Reschedule(ReapDeferred(s, cs), cs, c)
      \/ k' = s /\ cpu' = cs
    BY DEF Preempt
<1> QED
    BY <1>1, IdleReturnGood, ReapGood, RescheduleGood DEF IInv

(* Every interrupt keeps the invariant. *)
LEMMA InterruptGood ==
    ASSUME IInv, NEW c \in CPUs, Interrupt(c)
    PROVE  IInv'
<1> DEFINE cs == TrapEnter(c)
<1>1. Good(k, cs)
    BY TrapEnterGood
<1> HIDE DEF cs
<1>2. CASE Ipi(c)
  <2> DEFINE s == [k EXCEPT !.ipi = @ \ {c}]
  <2>1. Keeps(k, s)
      BY DEF Keeps, IInv, Good, KernelState
  <2>2. StopCurrent(s, cs, c) \/ Preempt(s, cs, c)
      BY <1>2 DEF Ipi, cs
  <2> HIDE DEF s
  <2> QED
      BY <1>1, <2>1, <2>2, GoodKeeps, StopCurrentGood, PreemptGood
<1>3. CASE Timer(c)
  <2>1. Good(Tick(k, c), cs)
      BY <1>1, TickType, GoodKeeps DEF Good
  <2>2. StopCurrent(k, cs, c) \/ Preempt(Tick(k, c), cs, c)
      BY <1>3 DEF Timer, cs
  <2> QED
      BY <1>1, <2>1, <2>2, StopCurrentGood, PreemptGood
<1>4. CASE BlockInterrupt(c)
  <2> DEFINE s0 == [k EXCEPT !.pending = FALSE]
             s == WakeOne(s0, c, "block", Zero)
  <2>1. Keeps(k, s0)
      BY DEF Keeps, IInv, Good, KernelState
  <2>2. \/ StopCurrent(s, cs, c) \/ (k' = s /\ cpu' = cs) \/ IdleReturn(s, cs, c)
      BY <1>4 DEF BlockInterrupt, cs
  <2> HIDE DEF s0
  <2>3. Keeps(k, s)
      BY <2>1, WakeOneType, ZeroOneType DEF Keeps
  <2> HIDE DEF s
  <2>4. Good(s, cs)
      BY <1>1, <2>3, GoodKeeps
  <2> QED
      BY <2>2, <2>4, StopCurrentGood, IdleReturnGood DEF IInv
<1> QED
    BY <1>2, <1>3, <1>4 DEF Interrupt

(* Every step that takes the lock again keeps the invariant. *)
LEMMA KernelStepGood ==
    ASSUME IInv, NEW c \in CPUs, KernelStep(c)
    PROVE  IInv'
<1> DEFINE cs == Reacquire(c)
           t == cpu[c].cur
           s == ReapDeferred(k, cs)
<1>1. Good(k, cs) /\ Good(s, cs)
    BY ReacquireGood, ReapGood
<1>2. cs[c].cur = t /\ cs[c].kst = t /\ cs[c].stk = cpu[c].stk
    BY DEF Reacquire, IInv, Good, CpuState
<1> HIDE DEF cs, s
<1>3. CASE IdleResume(c)
  <2> DEFINE o == cpu[c].stk
             own == [cs EXCEPT ![c] = [cs[c] EXCEPT !.cur = o]]
             d == Dequeue(s, c, o)
  <2>1. Good(s, own)
    <3>1. [cs[c] EXCEPT !.cur = o] \in CpuState
        BY <1>1, <1>2 DEF IInv, Good, CpuState
    <3>2. /\ [cs[c] EXCEPT !.cur = o].cur = cs[c].stk
          /\ [cs[c] EXCEPT !.cur = o].kst = cs[c].kst
          /\ [cs[c] EXCEPT !.cur = o].stk = cs[c].stk
        BY <1>1, <1>2 DEF Good, CpuState
    <3> QED
        BY <1>1, <3>1, <3>2, GoodCpu
  <2>2. Good(Undo(s, o), own)
      BY <2>1, UndoType, GoodKeeps DEF Good
  <2>3. \/ LeaveThread(s, cs, c)
        \/ SyscallReturn(Undo(s, o), own, c)
        \/ SwitchOrIdle(s, cs, c)
        \/ \E u \in Threads :
              /\ IsFirst(s.runq, Eligible(s, c), u)
              /\ \/ u = o /\ Continue(d, own, c, s.res[o] # 0)
                 \/ Load([Dequeue(s, c, u) EXCEPT !.kres = Put(@, o, TRUE)], cs, c, u)
        \/ Continue(Undo(s, o), own, c, TRUE)
        \/ Idle(s, cs, c, "kidle")
      BY <1>3 DEF IdleResume, cs, s
  <2> HIDE DEF own
  <2>4. ASSUME IsFirst(s.runq, Eligible(s, c), o), Continue(d, own, c, s.res[o] # 0)
        PROVE  IInv'
    <3>1. o \in Eligible(s, c)
        BY <2>4 DEF IsFirst
    <3>2. Good(d, own)
        BY <2>1, <3>1, DequeueGood
    <3> QED
        BY <2>4, <3>2, ContinueGood
  <2> HIDE DEF d
  <2>5. ASSUME NEW u, IsFirst(s.runq, Eligible(s, c), u),
               Load([Dequeue(s, c, u) EXCEPT !.kres = Put(@, o, TRUE)], cs, c, u)
        PROVE  IInv'
      BY <1>1, <2>5, ResumableGood
  <2>6. ASSUME Idle(s, cs, c, "kidle") PROVE IInv'
      BY <1>1, <2>6, IdleGood DEF IdlePcs
  <2>7. ASSUME LeaveThread(s, cs, c) \/ SwitchOrIdle(s, cs, c) PROVE IInv'
      BY <1>1, <2>7, LeaveThreadGood, SwitchOrIdleGood
  <2>8. ASSUME \/ SyscallReturn(Undo(s, o), own, c)
               \/ Continue(Undo(s, o), own, c, TRUE)
        PROVE  IInv'
      BY <2>2, <2>8, SyscallReturnGood, ContinueGood
  <2> QED
      BY <2>3, <2>4, <2>5, <2>6, <2>7, <2>8
<1>4. CASE Resume(c)
  <2> DEFINE r == [cs[c] EXCEPT !.stk = t]
             cs1 == [cs EXCEPT ![c] = r]
  <2>1. r \in CpuState
      BY <1>1 DEF IInv, Good, CpuState
  <2>2. r.cur = cs[c].cur /\ r.kst = cs[c].kst /\ r.stk = cs[c].cur
      BY <1>1, <1>2 DEF Good, CpuState
  <2>3. Continue(k, cs1, c, k.res[t] # 0)
      BY <1>4 DEF Resume, cs
  <2> HIDE DEF r
  <2>4. Good(k, cs1)
      BY <1>1, <2>1, <2>2, GoodCpu
  <2> HIDE DEF cs1
  <2> QED
      BY <2>3, <2>4, ContinueGood
<1>5. CASE ExecRendezvous(c)
  <2> DEFINE s0 == ReplaceImage(k, c, t)
             s1 == [s0 EXCEPT !.gate = None]
             s2 == WakeOne(s1, c, "gate", Zero)
  <2>1. Keeps(k, s0)
      BY ReplaceImageType DEF IInv, Good
  <2>2. k' = s2 /\ cpu' = [cs EXCEPT ![c].pc = "user"]
      BY <1>5 DEF ExecRendezvous, cs
  <2> HIDE DEF s0
  <2>3. Keeps(k, s1)
      BY <2>1 DEF Keeps, KernelState
  <2> HIDE DEF s1
  <2>4. Keeps(k, s2)
      BY <2>3, WakeOneType, ZeroOneType DEF Keeps
  <2> HIDE DEF s2
  <2>5. Good(s2, cs)
      BY <1>1, <2>4, GoodKeeps
  <2> QED
      BY <2>2, <2>5, ReturnGood
<1>6. CASE FaultRendezvous(c)
  <2> DEFINE s1 == RecordCompletion(k, c, ProcOf[t])
  <2>1. Keeps(k, s1)
      BY RecordCompletionType DEF IInv, Good
  <2>2. LeaveThread(s1, cs, c)
      BY <1>6 DEF FaultRendezvous, cs
  <2> HIDE DEF s1
  <2> QED
      BY <1>1, <2>1, <2>2, GoodKeeps, LeaveThreadGood
<1>7. CASE RetireFinalize(c)
  <2> DEFINE r == [pc |-> "start", cur |-> None, kst |-> None, stk |-> None, woken |-> FALSE]
  <2>1. Keeps(k, k')
    <3>1. (IF c = Boot THEN k.ipi ELSE k.ipi \cup {Boot}) \in SUBSET CPUs
        BY CpuAssumption DEF IInv, Good, KernelState, CPUs, Boot
    <3> QED
        BY <1>7, <3>1 DEF RetireFinalize, Keeps, IInv, Good, KernelState
  <2>2. r \in CpuState
      BY DEF CpuState, Pcs
  <2>3. cpu' = [cpu EXCEPT ![c] = r]
      BY <1>7 DEF RetireFinalize
  <2>4. r.cur = None /\ r.kst = None /\ r.stk = None
      OBVIOUS
  <2> HIDE DEF r
  <2>5. Good(k, [cpu EXCEPT ![c] = r])
      BY <2>2, <2>4, GoodCpu DEF IInv
  <2> QED
      BY <2>1, <2>3, <2>5, GoodKeeps DEF IInv
<1>8. CASE SecondaryStart(c)
  <2> DEFINE r == [cs[c] EXCEPT !.pc = "loop"]
  <2>1. \/ \E u \in Threads : /\ IsFirst(s.runq, Eligible(s, c), u)
                              /\ Load(Dequeue(s, c, u), cs, c, u)
        \/ Finish(s, cs)
        \/ k' = s /\ cpu' = [cs EXCEPT ![c] = r]
      BY <1>8 DEF SecondaryStart, cs, s
  <2>2. r \in CpuState
      BY <1>1 DEF Good, CpuState, Pcs
  <2>3. r.cur = cs[c].cur /\ r.kst = cs[c].kst /\ r.stk = cs[c].stk
      BY <1>1 DEF Good, CpuState
  <2> HIDE DEF r
  <2>4. Good(s, [cs EXCEPT ![c] = r])
      BY <1>1, <2>2, <2>3, GoodCpu
  <2> QED
      BY <1>1, <2>1, <2>4, DispatchGood, FinishGood DEF IInv
<1> QED
    BY <1>3, <1>4, <1>5, <1>6, <1>7, <1>8 DEF KernelStep

(* Every system call, fault and stop keeps the invariant. *)
LEMMA UserStepGood ==
    ASSUME IInv, NEW c \in CPUs, UserStep(c)
    PROVE  IInv'
<1> DEFINE cs == TrapEnter(c)
           t == cpu[c].cur
           s == ReapDeferred(k, cs)
<1>1. Good(k, cs) /\ Good(s, cs)
    BY TrapEnterGood, ReapGood
<1>2. t \in Threads \cup {None} /\ cs[c].cur = t
    BY DEF TrapEnter, IInv, Good, CpuState
<1> HIDE DEF cs, s
<1>3. CASE SysYield(c)
    BY <1>1, <1>3, RescheduleGood DEF SysYield, cs, s
<1>4. CASE SysSleep(c)
  <2>1. PICK n \in SleepTicks :
          SwitchOrIdle([s EXCEPT !.st = Put(@, t, "BLOCKED"),
                                 !.on = Put(@, t, "sleep"),
                                 !.wq = PushBack(s.wq, t),
                                 !.timer = Put(@, t, n)], cs, c)
      BY <1>4 DEF SysSleep, cs, s
  <2> DEFINE s1 == [s EXCEPT !.st = Put(@, t, "BLOCKED"),
                             !.on = Put(@, t, "sleep"),
                             !.wq = PushBack(s.wq, t),
                             !.timer = Put(@, t, n)]
  <2>2. n \in Nat
      BY WorkloadAssumption
  <2>3. /\ Put(s.st, t, "BLOCKED") \in [Threads -> ThreadStates]
        /\ Put(s.on, t, "sleep") \in [Threads -> {"none", "sleep", "gate", "block"}]
        /\ Put(s.timer, t, n) \in [Threads -> Nat]
      BY <1>1, <2>2 DEF Put, Good, KernelState, ThreadStates
  <2>4. PushBack(s.wq, t) \in [Threads -> Nat]
      BY <1>1, PushAllType, FS_Singleton, ThreadAssumption DEF PushBack, Good, KernelState
  <2>5. Keeps(s, s1)
      BY <1>1, <2>3, <2>4 DEF Keeps, Good, KernelState
  <2> HIDE DEF s1
  <2>6. SwitchOrIdle(s1, cs, c)
      BY <2>1 DEF s1
  <2> QED
      BY <1>1, <2>5, <2>6, GoodKeeps, SwitchOrIdleGood
<1>5. CASE SysWait(c)
  <2> DEFINE s1(pid, bad) == [s EXCEPT !.st = Put(@, t, "BLOCKED"),
                                       !.waitPid = Put(@, t, pid),
                                       !.bad = Put(@, t, bad)]
             s2(z) == WakeStaleWaiters(CollectChild(s, z), c, ProcOf[t], z)
  <2>1. ASSUME NEW pid \in Procs \cup {AnyChild}, NEW bad \in BOOLEAN
        PROVE  Keeps(s, s1(pid, bad))
    <3>1. /\ Put(s.st, t, "BLOCKED") \in [Threads -> ThreadStates]
          /\ Put(s.waitPid, t, pid) \in [Threads -> Procs \cup {None, AnyChild}]
          /\ Put(s.bad, t, bad) \in [Threads -> BOOLEAN]
        BY <1>1, <2>1 DEF Put, Good, KernelState, ThreadStates
    <3> QED
        BY <1>1, <3>1 DEF Keeps, Good, KernelState
  <2>2. ASSUME NEW z PROVE Keeps(s, s2(z))
      BY <1>1, CollectChildType, WakeStaleWaitersType, SMTT(60) DEF Keeps, Good
  <2>3. \E pid \in Procs \cup {AnyChild}, bad \in BOOLEAN :
          \/ k' = s /\ cpu' = cs
          \/ cpu' = cs /\ \E z : k' = s2(z)
          \/ SwitchOrIdle(s1(pid, bad), cs, c)
      BY <1>5, WorkloadAssumption DEF SysWait, cs, s
  <2> HIDE DEF s1, s2
  <2>4. PICK pid \in Procs \cup {AnyChild}, bad \in BOOLEAN :
          \/ k' = s /\ cpu' = cs
          \/ cpu' = cs /\ \E z : k' = s2(z)
          \/ SwitchOrIdle(s1(pid, bad), cs, c)
      BY <2>3
  <2>5. Good(s1(pid, bad), cs)
      BY <1>1, <2>1, GoodKeeps
  <2>6. ASSUME NEW z PROVE Good(s2(z), cs)
      BY <1>1, <2>2, GoodKeeps
  <2> QED
      BY <1>1, <2>4, <2>5, <2>6, SwitchOrIdleGood DEF IInv
<1>6. CASE SysJoin(c)
  <2> DEFINE s1(u, bad) == [s EXCEPT !.st = Put(@, t, "BLOCKED"),
                                     !.waitTid = Put(@, t, u),
                                     !.bad = Put(@, t, bad),
                                     !.joinW = Put(@, u, t)]
  <2>1. ASSUME NEW u \in Threads, NEW bad \in BOOLEAN
        PROVE  Keeps(s, s1(u, bad))
    <3>1. /\ Put(s.st, t, "BLOCKED") \in [Threads -> ThreadStates]
          /\ Put(s.waitTid, t, u) \in [Threads -> Threads \cup {None}]
          /\ Put(s.bad, t, bad) \in [Threads -> BOOLEAN]
          /\ Put(s.joinW, u, t) \in [Threads -> Threads \cup {None}]
        BY <1>1, <1>2, <2>1 DEF Put, Good, KernelState, ThreadStates
    <3> QED
        BY <1>1, <3>1 DEF Keeps, Good, KernelState
  <2>2. ASSUME NEW u PROVE Keeps(s, QueueThreadReap(s, u))
      BY <1>1, QueueThreadReapType DEF Good
  <2>3. PICK u \in Threads, bad \in BOOLEAN :
          \/ k' = s /\ cpu' = cs
          \/ k' = QueueThreadReap(s, u) /\ cpu' = cs
          \/ SwitchOrIdle(s1(u, bad), cs, c)
      BY <1>6, WorkloadAssumption DEF SysJoin, cs, s
  <2> HIDE DEF s1
  <2>4. Good(s1(u, bad), cs) /\ Good(QueueThreadReap(s, u), cs)
      BY <1>1, <2>1, <2>2, GoodKeeps
  <2> QED
      BY <1>1, <2>3, <2>4, SwitchOrIdleGood DEF IInv
<1>7. CASE SysExit(c)
    BY <1>1, <1>7, ExitGood DEF SysExit, cs
<1>8. ASSUME NEW op \in {"file", "probe"},
             GateLock([k EXCEPT !.op = Put(@, t, op)], cs, c)
      PROVE  IInv'
  <2> DEFINE s1 == [k EXCEPT !.op = Put(@, t, op)]
  <2>1. Put(k.op, t, op) \in [Threads -> FsOps]
      BY <1>1 DEF Put, Good, KernelState, FsOps
  <2>2. Keeps(k, s1)
      BY <1>1, <2>1 DEF Keeps, Good, KernelState
  <2>3. GateLock(s1, cs, c)
      BY <1>8
  <2> HIDE DEF s1
  <2> QED
      BY <1>1, <2>2, <2>3, GoodKeeps, GateLockGood
<1>9. CASE SysFile(c) \/ SysExec(c)
    BY <1>8, <1>9 DEF SysFile, SysExec, cs
<1>10. CASE Fault(c)
  <2> DEFINE r == [cs[c] EXCEPT !.pc = "sfault"]
  <2>1. Keeps(k, k')
    <3>1. Keeps(s, FaultProcess(s, c, ProcOf[t]))
        BY <1>1, FaultProcessType DEF Good
    <3>2. Keeps(k, s)
        BY <1>1, ReapDeferredType DEF Good, s
    <3> QED
        BY <1>10, <3>1, <3>2 DEF Fault, Keeps, cs, s
  <2>2. cpu' = [cs EXCEPT ![c] = r]
      BY <1>10 DEF Fault, cs
  <2>3. r \in CpuState
      BY <1>1 DEF Good, CpuState, Pcs
  <2>4. r.cur = cs[c].cur /\ r.kst = cs[c].kst /\ r.stk = cs[c].stk
      BY <1>1 DEF Good, CpuState
  <2> HIDE DEF r
  <2>5. Good(k, [cs EXCEPT ![c] = r])
      BY <1>1, <2>3, <2>4, GoodCpu
  <2> QED
      BY <2>1, <2>2, <2>5, GoodKeeps DEF IInv
<1>11. CASE StopTrap(c)
    BY <1>1, <1>11, StopCurrentGood DEF StopTrap, cs
<1> QED
    BY <1>3, <1>4, <1>5, <1>6, <1>7, <1>9, <1>10, <1>11 DEF UserStep

-----------------------------------------------------------------------------
(* The invariant holds when the scheduler starts. *)
LEMMA InitGood == Init => IInv
<1> SUFFICES ASSUME Init PROVE IInv
    OBVIOUS
<1>1. FirstThread \in Threads
    BY ProcAssumption DEF ThreadsOf
<1>2. PushAll(EmptyList(Threads), Threads \ {FirstThread}, ByTid) \in [Threads -> Nat]
  <2>1. IsFiniteSet(Threads \ {FirstThread})
      BY FS_Subset, ThreadAssumption
  <2>2. EmptyList(Threads) \in [Threads -> Nat]
      BY EmptyListType
  <2> QED
      BY <2>1, <2>2, PushAllType, ThreadAssumption
<1>3. /\ EmptyList(Threads) \in [Threads -> Nat]
      /\ EmptyList(Procs) \in [Procs -> Nat]
      /\ Zero \in [Threads -> Nat] /\ Zero \in [Threads -> {0, 1}]
    BY EmptyListType DEF Zero
<1>4. [p \in Procs |-> Cardinality(ThreadsOf(p))] \in [Procs -> Nat]
  <2>1. ASSUME NEW p PROVE Cardinality(ThreadsOf(p)) \in Nat
      BY ThreadsOfFinite, FS_CardinalityType
  <2> QED
      BY <2>1
<1>5. Boot \in CPUs
    BY CpuAssumption DEF Boot, CPUs
<1>6. k \in KernelState
    BY <1>1, <1>2, <1>3, <1>4, <1>5, ProcAssumption
       DEF Init, KernelState, ThreadStates, ProcStates, Calls, FsOps
<1>7. cpu \in [CPUs -> CpuState]
    BY <1>1 DEF Init, CpuState, Pcs
<1>8. ASSUME NEW c \in CPUs, NEW t \in {cpu[c].cur, cpu[c].kst, cpu[c].stk} \ {None}
      PROVE  k.aff[t] = c
  <2>1. c = Boot /\ t = FirstThread
      BY DEF Init
  <2>2. k.aff = [u \in Threads |-> IF u = FirstThread THEN Boot ELSE None]
      BY DEF Init
  <2> QED
      BY <1>1, <2>1, <2>2
<1> QED
    BY <1>6, <1>7, <1>8 DEF IInv, Good, Pinned

(* The invariant is inductive. *)
LEMMA NextGood == IInv /\ [Next]_vars => IInv'
<1> SUFFICES ASSUME IInv, [Next]_vars PROVE IInv'
    OBVIOUS
<1>1. CASE UNCHANGED vars
    BY <1>1 DEF IInv, vars
<1>2. ASSUME NEW c \in CPUs, Interrupt(c) \/ KernelStep(c) \/ UserStep(c)
      PROVE  IInv'
    BY <1>2, InterruptGood, KernelStepGood, UserStepGood
<1>3. CASE Halted \/ Undefined
    BY <1>1, <1>3 DEF Halted, Undefined
<1> QED
    BY <1>1, <1>2, <1>3 DEF Next

(* The inductive invariant holds: a thread that a CPU refers to as current *)
(* thread, as owner of the kernel stack or by its stack pointer is pinned  *)
(* to that CPU.  scheduler_dequeue is the only code that sets an affinity, *)
(* and it sets that of a thread that has none or has this CPU's.           *)
THEOREM Invariance == Spec => []IInv
BY InitGood, NextGood, PTL DEF Spec

(* Every handler keeps the kernel's and the CPUs' records well formed:     *)
(* queue positions and counters never go negative (live_thread_count, the  *)
(* ticks to a deadline), and links point at threads and processes.         *)
THEOREM TypeCorrect == Spec => []TypeOK
<1>1. IInv => TypeOK
    BY DEF IInv, Good, TypeOK
<1> QED
    BY <1>1, Invariance, PTL

(* No kernel stack is used by two CPUs at once, for any number of CPUs,    *)
(* threads and processes, any parentage and any mix of system calls, the   *)
(* windows after trap_leave and inside a continuation switch included.     *)
THEOREM StackExclusive == Spec => []KernelStackExclusive
<1>1. IInv => KernelStackExclusive
  <2> SUFFICES ASSUME IInv, NEW c \in CPUs, NEW d \in CPUs, NEW t,
                      t \in StacksOf(c), t \in StacksOf(d)
               PROVE  c = d
      BY DEF KernelStackExclusive
  <2>1. t \in {cpu[c].cur, cpu[c].stk} \ {None} /\ t \in {cpu[d].cur, cpu[d].stk} \ {None}
      BY DEF StacksOf
  <2> QED
      BY <2>1 DEF IInv, Good, Pinned
<1> QED
    BY <1>1, Invariance, PTL

=============================================================================
