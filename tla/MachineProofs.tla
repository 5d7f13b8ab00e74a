---------------------------- MODULE MachineProofs ---------------------------
(***************************************************************************)
(* Theorems about Machine, for any number of processors in either          *)
(* topology.                                                               *)
(*                                                                         *)
(* The invariant MachineInv relates the count of active processors that    *)
(* the host threads keep to the states of the processors: it counts every  *)
(* live processor, and every halted one whose host thread has not          *)
(* subtracted it yet. With it, a count that reaches zero means that nobody *)
(* lives. MachineGuest shows that instructions keep the rest of the        *)
(* invariant; here are the steps of the host threads, the start and the    *)
(* warm reset.                                                             *)
(***************************************************************************)
EXTENDS MachineGuest

(* Every processor is a thread of exactly one host thread's core.          *)
LEMMA ThreadsOf ==
    ASSUME tpc \in {1, Last + 1}
    PROVE  /\ \A k \in Cores : \A c \in CoreThreads(k) : c \in CPUs /\ c \div tpc = k
           /\ \A c \in CPUs : c \div tpc \in Cores /\ c \in CoreThreads(c \div tpc)
  BY Selects, Zenon DEF CoreThreads

(* The sets that the host's count of active processors is about are        *)
(* finite.                                                                 *)
LEMMA SetsFinite ==
    ASSUME tpc \in {1, Last + 1}, NEW h, NEW w
    PROVE  /\ LiveSet(h) \in SUBSET CPUs /\ IsFiniteSet(LiveSet(h)) /\ Cardinality(LiveSet(h)) \in Nat
           /\ Finishing(w) \in SUBSET Cores /\ IsFiniteSet(Finishing(w)) /\ Cardinality(Finishing(w)) \in Nat
  <1>1. LiveSet(h) \in SUBSET CPUs /\ Finishing(w) \in SUBSET Cores
    BY Zenon DEF LiveSet, Finishing
  <1>2. IsFiniteSet(LiveSet(h)) /\ IsFiniteSet(Finishing(w))
    BY <1>1, Topology, CoresFinite, FS_Subset, Zenon
  <1> QED
    BY <1>1, <1>2, FS_CardinalityType, Zenon

(* The count stays right while no processor becomes or stops being live    *)
(* and no host thread begins or ends finishing one.                        *)
LEMMA CountsKept ==
    ASSUME Counted, tpc' = tpc, vm'.active = vm.active,
           \A c \in CPUs : hw'[c].state \in Live <=> hw[c].state \in Live,
           \A k \in Cores : wk'[k].at \in {"flags", "unstop", "count"} <=>
                             wk[k].at \in {"flags", "unstop", "count"}
    PROVE  Counted'
  <1>1. LiveSet(hw') = LiveSet(hw) /\ Finishing(wk') = Finishing(wk) /\ Cores' = Cores
    BY Zenon DEF LiveSet, Finishing, Cores
  <1>2. LiveSet(hw)' = LiveSet(hw') /\ Finishing(wk)' = Finishing(wk')
    BY <1>1, Zenon DEF LiveSet, Finishing
  <1> QED
    BY <1>1, <1>2, Zenon DEF Counted

(* When a processor halts, its host thread takes its place in the count    *)
(* until it has subtracted it.                                             *)
LEMMA CountsHalt ==
    ASSUME Counted, tpc \in {1, Last + 1}, tpc' = tpc, vm' = vm, NEW k \in Cores, NEW c \in CPUs,
           hw[c].state \in Live, hw'[c].state \notin Live, \A e \in CPUs \ {c} : hw'[e] = hw[e],
           wk[k].at \notin {"flags", "unstop", "count"}, wk'[k].at \in {"flags", "unstop", "count"},
           \A j \in Cores \ {k} : wk'[j] = wk[j]
    PROVE  Counted'
  <1>1. LiveSet(hw') = LiveSet(hw) \ {c} /\ c \in LiveSet(hw) /\ Cores' = Cores
    BY Zenon DEF LiveSet, Cores
  <1>2. Finishing(wk') = Finishing(wk) \cup {k} /\ k \notin Finishing(wk)
    BY Zenon DEF Finishing
  <1>3. LiveSet(hw)' = LiveSet(hw') /\ Finishing(wk)' = Finishing(wk')
    BY <1>1, Zenon DEF LiveSet, Finishing
  <1>4. IsFiniteSet(LiveSet(hw)) /\ IsFiniteSet(Finishing(wk))
        /\ Cardinality(LiveSet(hw)) \in Nat /\ Cardinality(Finishing(wk)) \in Nat
    BY SetsFinite, Zenon
  <1>5. Cardinality(LiveSet(hw')) = Cardinality(LiveSet(hw)) - 1
    BY <1>1, <1>4, FS_RemoveElement, ZenonT(30)
  <1>6. Cardinality(Finishing(wk')) = Cardinality(Finishing(wk)) + 1
    BY <1>2, <1>4, FS_AddElement, ZenonT(30)
  <1> QED
    BY <1>3, <1>4, <1>5, <1>6 DEF Counted

(* START adds one live processor and one to the count. *)
LEMMA CountsStart ==
    ASSUME Counted, tpc \in {1, Last + 1}, tpc' = tpc, vm \in VmState, NEW d \in CPUs, Starts(d),
           \A k \in Cores : wk'[k].at \in {"flags", "unstop", "count"} <=>
                             wk[k].at \in {"flags", "unstop", "count"}
    PROVE  Counted'
  <1>1. LiveSet(hw') = LiveSet(hw) \cup {d} /\ d \notin LiveSet(hw) /\ Cores' = Cores
    BY Zenon DEF LiveSet, Cores, Starts, Live
  <1>2. Finishing(wk') = Finishing(wk)
    BY Zenon DEF Finishing
  <1>3. LiveSet(hw)' = LiveSet(hw') /\ Finishing(wk)' = Finishing(wk')
    BY <1>1, Zenon DEF LiveSet, Finishing
  <1>4. IsFiniteSet(LiveSet(hw)) /\ Cardinality(LiveSet(hw)) \in Nat /\ Cardinality(Finishing(wk)) \in Nat
    BY SetsFinite, Zenon
  <1>5. Cardinality(LiveSet(hw')) = Cardinality(LiveSet(hw)) + 1
    BY <1>1, <1>4, FS_AddElement, Zenon
  <1>6. vm'.active = vm.active + 1
    BY Zenon DEF Starts, VmState
  <1> QED
    BY <1>2, <1>3, <1>4, <1>5, <1>6 DEF Counted

(* The subtraction ends the finishing of one processor; when the count was *)
(* one, no processor is left alive, so stopping the machine there stops    *)
(* nobody.                                                                 *)
LEMMA CountsEnd ==
    ASSUME Counted, tpc \in {1, Last + 1}, tpc' = tpc, hw' = hw, NEW k \in Cores, vm'.active = vm.active - 1,
           wk[k].at \in {"flags", "unstop", "count"}, wk'[k].at \notin {"flags", "unstop", "count"},
           \A j \in Cores \ {k} : wk'[j] = wk[j]
    PROVE  Counted' /\ (vm.active = 1 => \A c \in CPUs : hw[c].state \notin Live)
  <1>1. LiveSet(hw') = LiveSet(hw) /\ Cores' = Cores
    BY Zenon DEF Cores
  <1>2. Finishing(wk') = Finishing(wk) \ {k} /\ k \in Finishing(wk)
    BY Zenon DEF Finishing
  <1>3. LiveSet(hw)' = LiveSet(hw') /\ Finishing(wk)' = Finishing(wk')
    BY <1>1, Zenon DEF LiveSet, Finishing
  <1>4. IsFiniteSet(LiveSet(hw)) /\ IsFiniteSet(Finishing(wk)) /\ IsFiniteSet(Finishing(wk'))
        /\ Cardinality(LiveSet(hw)) \in Nat /\ Cardinality(Finishing(wk)) \in Nat /\ Cardinality(Finishing(wk')) \in Nat
    BY SetsFinite, Zenon
  <1>5. Cardinality(Finishing(wk')) = Cardinality(Finishing(wk)) - 1
    BY <1>2, <1>4, FS_RemoveElement, Zenon
  <1>6. Counted'
    BY <1>1, <1>3, <1>4, <1>5 DEF Counted
  <1>7. vm.active = 1 => Cardinality(LiveSet(hw)) = 0
    BY <1>4, <1>5 DEF Counted
  <1>8. vm.active = 1 => LiveSet(hw) = {}
    BY <1>4, <1>7, FS_EmptySet, Zenon
  <1> QED
    BY <1>6, <1>8, Zenon DEF LiveSet

(* A step of one host thread on one thread of its core leaves what is said *)
(* of the other host threads and processors alone.                         *)
LEMMA LocalStep ==
    ASSUME MachineInv, NEW k \in Cores, NEW c \in CoreThreads(k), UNCHANGED <<tpc, plan>>,
           \A j \in Cores \ {k} : wk'[j] = wk[j], \A e \in CPUs \ {c} : hw'[e] = hw[e],
           wk[k].at \in {"check", "post"} => c = wk[k].thread, WorkerExact(k)', WaitExact(c)'
    PROVE  (\A j \in Cores : WorkerExact(j))' /\ (\A e \in CPUs : WaitExact(e))'
  <1>0. /\ Cores' = Cores /\ (\A j : CoreThreads(j)' = CoreThreads(j)) /\ tpc \in {1, Last + 1}
        /\ c \in CPUs /\ c \div tpc = k
    BY ThreadsOf DEF Cores, CoreThreads, MachineInv, GuestInv, GuestTypes
  <1>1. ASSUME NEW j \in Cores PROVE WorkerExact(j)'
    <2>1. CASE j = k
      BY <2>1, Zenon
    <2>2. CASE j # k
      <3>1. WorkerExact(j) /\ wk'[j] = wk[j]
        BY <2>2, Zenon DEF MachineInv, CountExact
      <3>2. wk[j].thread \in CPUs /\ wk[j].thread # c
        BY <1>0, <2>2, <3>1, ThreadsOf, Zenon DEF WorkerExact
      <3>3. hw'[wk[j].thread] = hw[wk[j].thread]
        BY <3>2, Zenon
      <3> QED
        BY <1>0, <3>1, <3>3, Zenon DEF WorkerExact
    <2> QED
      BY <2>1, <2>2, Zenon
  <1>2. ASSUME NEW e \in CPUs PROVE WaitExact(e)'
    <2>1. CASE e = c
      BY <2>1, Zenon
    <2>2. CASE e # c
      <3>1. WaitExact(e) /\ hw'[e] = hw[e] /\ e \div tpc \in Cores
        BY <1>0, <2>2, ThreadsOf, Zenon DEF MachineInv, CountExact
      <3>2. hw[e].state = "RUNNABLE" /\ hw[e].waiting => e \div tpc # k
        BY <1>0, <2>2, <3>1, Zenon DEF WaitExact
      <3> QED
        BY <1>0, <3>1, <3>2, Zenon DEF WaitExact
    <2> QED
      BY <2>1, <2>2, Zenon
  <1> QED
    BY <1>0, <1>1, <1>2, Zenon

(* A step of the host that changes the state of one processor, and not to  *)
(* a more lively one, keeps what is said of the kernel.                    *)
LEMMA HardwareStep ==
    ASSUME GuestInv, NEW c \in CPUs, UNCHANGED <<tpc, plan, dev, guest, kcpu, lock, running>>,
           hw' \in [CPUs -> HwState], vm' \in VmState, ctl' \in [CPUs -> SUBSET IpiLines],
           \A e \in CPUs \ {c} : hw'[e] = hw[e], Idle(hw'[c], guest[c], kcpu[c]),
           hw'[c].state \in Live => hw[c].state \in Live,
           hw'[c].state = "OFFLINE" <=> hw[c].state = "OFFLINE",
           plan.program = "kernel" =>
               /\ hw'[c].state \in Live /\ hw[c].stop => hw'[c].stop
               /\ hw[c].state # "HALTED" /\ ~hw[c].stop /\ ~hw[c].halted =>
                     hw'[c].state # "HALTED" /\ ~hw'[c].stop /\ ~hw'[c].halted
    PROVE  GuestInv'
  <1>1. GuestTypes'
    BY Zenon DEF GuestInv, GuestTypes, DevState
  <1>2. ProcExact'
    <2> SUFFICES ASSUME NEW e \in CPUs PROVE Exact(e)'
      BY Zenon DEF ProcExact
    <2>1. Exact(e)
      BY Zenon DEF GuestInv, ProcExact
    <2> QED
      BY <2>1, Zenon DEF Exact
  <1>3. BootExact(guest[0])'
    <2> DEFINE z == guest[0]
    <2>1. /\ BootExact(z) /\ guest'[0] = z
          /\ plan.program = "kernel" /\ (z.at = "start" \/ Undoing(z)) => z.i \in CPUs
      <3>1. BootExact(z) /\ (z.at = "start" \/ Undoing(z) => Starting(z))
        BY Zenon DEF GuestInv, Starting, Undoing, Calling
      <3>2. plan.program = "kernel" /\ Starting(z) => z.i \in 1 .. Last
        BY <3>1, Zenon DEF BootExact
      <3>3. \A i \in 1 .. Last : i \in CPUs
        BY Topology
      <3> QED
        BY <3>1, <3>2, <3>3, Zenon
    <2>2. /\ \A e \in CPUs : hw[e].state = "OFFLINE" => hw'[e].state = "OFFLINE"
          /\ plan.program = "kernel" => \A e \in CPUs : (hw[e].state \in Live => hw[e].stop) =>
                                                        (hw'[e].state \in Live => hw'[e].stop)
      BY Zenon
    <2> HIDE DEF z
    <2> QED
      BY <2>1, <2>2, ZenonT(30) DEF BootExact
  <1>4. StackWhileLive'
    BY Zenon DEF GuestInv, StackWhileLive
  <1>5. KernelExact(guest[0])'
    <2>1. KernelExact(guest[0]) /\ 0 \in CPUs
      BY Topology, Zenon DEF GuestInv
    <2>2. /\ \A e \in CPUs : hw'[e].state = "OFFLINE" <=> hw[e].state = "OFFLINE"
          /\ plan.program = "kernel" =>
                \A e \in CPUs : hw[e].state # "HALTED" /\ ~hw[e].stop /\ ~hw[e].halted =>
                                 hw'[e].state # "HALTED" /\ ~hw'[e].stop /\ ~hw'[e].halted
      BY Zenon
    <2> QED
      BY <2>1, <2>2, ZenonT(30) DEF KernelExact
  <1> QED
    BY <1>1, <1>2, <1>3, <1>4, <1>5, Zenon DEF GuestInv

(* What an interrupt does to processor c. *)
Interrupted(c) ==
    /\ hw[c].ie /\ hw[c].state \in Live
    /\ guest' \in [CPUs -> GuestState] /\ hw' \in [CPUs -> HwState] /\ ctl' \in [CPUs -> SUBSET IpiLines]
    /\ \A e \in CPUs \ {c} : guest'[e] = guest[e] /\ hw'[e] = hw[e]
    /\ guest'[c].at = "handler" /\ guest'[c].saved = guest[c].at /\ guest'[c].next = guest[c].next
    /\ guest'[c].fail = guest[c].fail
    /\ hw'[c].state \in Live /\ hw'[c].state # "WAITING" /\ ~hw'[c].ie /\ ~hw'[c].waiting
    /\ hw'[c].stop = hw[c].stop /\ hw'[c].halted = hw[c].halted

(* Taking an interrupt keeps what is said of the kernel: the label it      *)
(* interrupts is one at which interrupts are enabled.                      *)
LEMMA InterruptStep ==
    ASSUME GuestInv, NEW c \in CPUs, Interrupted(c), UNCHANGED <<tpc, plan, vm, dev, kcpu, lock, running>>
    PROVE  GuestInv'
  <1> DEFINE g == guest[c]
             h == guest'[c]
  <1>0. /\ Exact(c) /\ GuestTypes /\ ProcExact /\ StackWhileLive /\ BootExact(guest[0]) /\ KernelExact(guest[0])
        /\ plan.program \in {"kernel", "restart"}
    BY Zenon DEF GuestInv, ProcExact, GuestTypes
  <1>1. GuestTypes'
    BY <1>0 DEF GuestTypes, DevState, Interrupted
  <1>2. Labels(plan.program, c, g) /\ Idle(hw[c], g, kcpu[c])
    BY <1>0, Zenon DEF Exact
  <1>3. g.at \in {"user", "wait", "di"} /\ h.at = "handler" /\ h.saved = g.at /\ h.next = g.next /\ h.fail = g.fail
    BY <1>2, Zenon DEF Idle, Interrupted
  <1> HIDE DEF g, h
  <1>4. Labels(plan.program, c, h)
    BY <1>0, <1>2, <1>3, ZenonT(30) DEF Labels, KernelLabels, RestartLabels, InKernel, Calling
  <1>5. Idle(hw'[c], h, kcpu[c])
    BY <1>3, Zenon DEF Idle, Interrupted
  <1>6. Locked(plan.program, c, h, lock)
    BY <1>3, Zenon DEF Locked, Calling
  <1>7. ProcExact'
    <2> SUFFICES ASSUME NEW e \in CPUs PROVE Exact(e)'
      BY Zenon DEF ProcExact
    <2>1. CASE e = c
      BY <1>4, <1>5, <1>6, <2>1, Zenon DEF Exact, h
    <2>2. CASE e # c
      <3>1. Exact(e) /\ guest'[e] = guest[e] /\ hw'[e] = hw[e]
        BY <1>0, <2>2, Zenon DEF ProcExact, Interrupted
      <3> QED
        BY <3>1, Zenon DEF Exact
    <2> QED
      BY <2>1, <2>2, Zenon
  <1>8. BootExact(guest[0])'
    <2>1. CASE c = 0
      <3>1. /\ guest'[0].at \notin {"start", "booted", "answered", "undo", "valid", "stop", "kick", "stopped"} \cup Calling
            /\ guest'[0].fail = guest[0].fail
            /\ \A e \in CPUs \ {0} : guest'[e] = guest[e]
        BY <1>3, <2>1, Zenon DEF h, g, Calling, Interrupted
      <3> QED
        BY <3>1, QuietBoot, Zenon
    <2>2. CASE c # 0
      <3> DEFINE z == guest[0]
      <3>1. /\ BootExact(z) /\ guest'[0] = z
            /\ plan.program = "kernel" /\ (z.at = "start" \/ Undoing(z)) => z.i \in CPUs
        <4>1. BootExact(z) /\ guest'[0] = z /\ (z.at = "start" \/ Undoing(z) => Starting(z))
          BY <1>0, <2>2, Topology, Zenon DEF Starting, Undoing, Calling, Interrupted
        <4>2. plan.program = "kernel" /\ Starting(z) => z.i \in 1 .. Last
          BY <4>1, Zenon DEF BootExact
        <4>3. \A i \in 1 .. Last : i \in CPUs
          BY Topology
        <4> QED
          BY <4>1, <4>2, <4>3, Zenon
      <3>2. \A e \in CPUs : /\ hw[e].state = "OFFLINE" => hw'[e].state = "OFFLINE"
                            /\ (hw[e].state \in Live => hw[e].stop) => (hw'[e].state \in Live => hw'[e].stop)
        BY Zenon DEF Interrupted, Live
      <3>3. \A e \in CPUs \ {0} : guest'[e].at \in {"enter", "task"} \cup Calling =>
                                   guest[e].at \in {"enter", "task"} \cup Calling
        BY <1>3, Zenon DEF Interrupted, Calling, h
      <3> HIDE DEF z
      <3> QED
        BY <3>1, <3>2, <3>3, ZenonT(30) DEF BootExact
    <2> QED
      BY <2>1, <2>2, Zenon
  <1>9. StackWhileLive'
    BY <1>0, Zenon DEF StackWhileLive, Interrupted
  <1>10. KernelExact(guest[0])'
    <2>1. \A e \in CPUs : /\ hw'[e].state = "OFFLINE" <=> hw[e].state = "OFFLINE"
                          /\ hw[e].state # "HALTED" => hw'[e].state # "HALTED"
                          /\ hw'[e].stop = hw[e].stop /\ hw'[e].halted = hw[e].halted
      BY Zenon DEF Interrupted, Live
    <2>2. /\ Quiet(guest'[0]) => Quiet(guest[0])
          /\ guest'[0].at = "result" => guest[0].at = "result"
      <3>1. CASE c = 0
        BY <1>3, <3>1, Zenon DEF g, h, Quiet, Calling
      <3>2. CASE c # 0
        BY <3>2, Topology, Zenon DEF Interrupted
      <3> QED
        BY <3>1, <3>2, Zenon
    <2>3. 0 \in CPUs
      BY Topology, Zenon
    <2> QED
      BY <1>0, <2>1, <2>2, <2>3, ZenonT(30) DEF KernelExact
  <1> QED
    BY <1>1, <1>7, <1>8, <1>9, <1>10, Zenon DEF GuestInv

(* cpu_check_interrupt wakes the processor, disables interrupts and enters *)
(* the handler.                                                            *)
LEMMA TakesInterrupt ==
    ASSUME GuestTypes, NEW c \in CPUs, NEW s \in {"RUNNABLE"}, hw[c].state \in Live, hw[c].ie,
           hw' = [hw EXCEPT ![c] = [[hw[c] EXCEPT !.ie = FALSE, !.waiting = FALSE] EXCEPT !.state = s]],
           guest' = [guest EXCEPT ![c] = [guest[c] EXCEPT !.saved = guest[c].at, !.at = "handler"]],
           ctl' = [ctl EXCEPT ![c] = {}]
    PROVE  Interrupted(c)
  <1> DEFINE x == [hw[c] EXCEPT !.ie = FALSE, !.waiting = FALSE]
             y == [x EXCEPT !.state = s]
             a == guest[c].at
             n == [guest[c] EXCEPT !.saved = a, !.at = "handler"]
  <1>0. /\ hw \in [CPUs -> HwState] /\ guest \in [CPUs -> GuestState] /\ ctl \in [CPUs -> SUBSET IpiLines]
        /\ hw[c] \in HwState /\ guest[c] \in GuestState /\ a \in Places /\ "handler" \in Places
    BY Zenon DEF GuestTypes, GuestState, Places, InKernel
  <1>1. x \in HwState /\ ~x.ie /\ ~x.waiting /\ x.stop = hw[c].stop /\ x.halted = hw[c].halted
    BY <1>0, Zenon DEF HwState
  <1>2. hw' = [hw EXCEPT ![c] = y] /\ guest' = [guest EXCEPT ![c] = n]
    BY Zenon
  <1> HIDE DEF x
  <1>3. y \in HwState /\ ~y.ie /\ ~y.waiting /\ y.state = "RUNNABLE"
        /\ y.stop = hw[c].stop /\ y.halted = hw[c].halted
    BY <1>1, Zenon DEF HwState
  <1> HIDE DEF a
  <1>4. n \in GuestState /\ n.at = "handler" /\ n.saved = a /\ n.next = guest[c].next
        /\ n.fail = guest[c].fail
    BY <1>0, Zenon DEF GuestState
  <1> HIDE DEF y, n
  <1>5. hw' \in [CPUs -> HwState] /\ hw'[c] = y /\ (\A e \in CPUs \ {c} : hw'[e] = hw[e])
    BY ONLY <1>0, <1>2, <1>3, c \in CPUs, Zenon
  <1>6. guest' \in [CPUs -> GuestState] /\ guest'[c] = n /\ (\A e \in CPUs \ {c} : guest'[e] = guest[e])
    BY ONLY <1>0, <1>2, <1>4, c \in CPUs, Zenon
  <1>7. ctl' \in [CPUs -> SUBSET IpiLines]
    BY <1>0, Zenon
  <1> QED
    BY <1>3, <1>4, <1>5, <1>6, <1>7, Zenon DEF Interrupted, Live, a

(* The steps of core_worker. *)
Spots == {"top", "exit", "service", "select", "step", "check", "post", "flags", "unstop", "count"}

(* A host thread goes on to the next step of core_worker; and what the     *)
(* invariant says of it.                                                   *)
LEMMA WorkerGoes ==
    ASSUME MachineInv, tpc' = tpc, NEW k \in Cores, NEW l \in Spots, At(k, l)
    PROVE  /\ WorkerTypes' /\ wk'[k].at = l /\ wk'[k].thread = wk[k].thread /\ (\A j \in Cores \ {k} : wk'[j] = wk[j])
           /\ WorkerExact(k) /\ tpc \in {1, Last + 1} /\ (\A j : CoreThreads(j)' = CoreThreads(j)) /\ Cores' = Cores
           /\ wk[k].thread \in CPUs /\ wk[k].thread \in CoreThreads(k) /\ wk[k].thread \div tpc = k
           /\ Counted /\ StopsOnlyWhenIdle /\ (\A c \in CPUs : WaitExact(c)) /\ GuestInv /\ GuestTypes
  <1>1. wk \in [Cores -> WorkerState] /\ WorkerExact(k) /\ GuestInv /\ GuestTypes /\ CountExact
    BY Zenon DEF MachineInv, WorkerTypes, CountExact, GuestInv
  <1>2. Cores' = Cores /\ (\A j : CoreThreads(j)' = CoreThreads(j))
    BY Zenon DEF Cores, CoreThreads
  <1>3. /\ wk' \in [Cores -> WorkerState] /\ wk'[k].at = l /\ wk'[k].thread = wk[k].thread
        /\ (\A j \in Cores \ {k} : wk'[j] = wk[j])
    BY <1>1, Zenon DEF At, WorkerState, Spots
  <1>4. WorkerTypes'
    BY <1>2, <1>3, Zenon DEF WorkerTypes, WorkerState
  <1>5. tpc \in {1, Last + 1} /\ wk[k].thread \in CoreThreads(k)
    BY <1>1, Zenon DEF GuestTypes, WorkerExact
  <1> QED
    BY <1>1, <1>2, <1>3, <1>4, <1>5, ThreadsOf DEF CountExact

(* core_worker looks at the stop flags and exits or goes on. *)
LEMMA WorkerTopKeeps ==
    ASSUME MachineInv, UNCHANGED <<tpc, plan>>, NEW k \in Cores, WorkerTop(k)
    PROVE  MachineInv'
  <1> DEFINE l == IF vm.stop THEN "exit" ELSE "service"
             t == wk[k].thread
  <1>0. At(k, l) /\ wk[k].at = "top" /\ l \in Spots /\ l \in {"exit", "service"}
        /\ UNCHANGED <<hw, vm, ctl, dev, guest, kcpu, lock, running>>
    BY Zenon DEF WorkerTop, Spots, HardwareUnchanged, GuestUnchanged
  <1> HIDE DEF l
  <1>1. /\ WorkerTypes' /\ wk'[k].at = l /\ wk'[k].thread = t /\ (\A j \in Cores \ {k} : wk'[j] = wk[j])
        /\ WorkerExact(k) /\ tpc \in {1, Last + 1} /\ (\A j : CoreThreads(j)' = CoreThreads(j)) /\ Cores' = Cores
        /\ t \in CPUs /\ t \in CoreThreads(k) /\ t \div tpc = k
        /\ Counted /\ StopsOnlyWhenIdle /\ (\A c \in CPUs : WaitExact(c)) /\ GuestInv /\ GuestTypes
    BY <1>0, WorkerGoes, Zenon
  <1>2. GuestInv'
    BY <1>0, <1>1, GuestStays, Zenon DEF GuestTypes
  <1>3. Counted'
    BY <1>0, <1>1, CountsKept, ZenonT(30)
  <1>4. WorkerExact(k)' /\ WaitExact(t)'
    BY <1>0, <1>1 DEF WorkerExact, WaitExact
  <1>5. (\A j \in Cores : WorkerExact(j))' /\ (\A e \in CPUs : WaitExact(e))'
    BY <1>0, <1>1, <1>4, LocalStep, Zenon
  <1>6. StopsOnlyWhenIdle'
    BY <1>0, <1>1, Zenon DEF StopsOnlyWhenIdle
  <1> QED
    BY <1>1, <1>2, <1>3, <1>5, <1>6 DEF MachineInv, CountExact

(* finish_hardware_thread looks at the processor that has halted.          *)
LEMMA FinishFlagsKeeps ==
    ASSUME MachineInv, UNCHANGED <<tpc, plan>>, NEW k \in Cores, FinishFlags(k)
    PROVE  MachineInv'
  <1> DEFINE t == wk[k].thread
             n == [hw[t] EXCEPT !.waiting = FALSE, !.halted = TRUE]
  <1>0. /\ At(k, "unstop") /\ wk[k].at = "flags" /\ hw' = [hw EXCEPT ![t] = n]
        /\ UNCHANGED <<vm, ctl, dev, guest, kcpu, lock, running>>
    BY Zenon DEF FinishFlags, GuestUnchanged
  <1>1. /\ WorkerTypes' /\ wk'[k].at = "unstop" /\ wk'[k].thread = t /\ (\A j \in Cores \ {k} : wk'[j] = wk[j])
        /\ WorkerExact(k) /\ tpc \in {1, Last + 1} /\ (\A j : CoreThreads(j)' = CoreThreads(j)) /\ Cores' = Cores
        /\ t \in CPUs /\ t \in CoreThreads(k) /\ t \div tpc = k
        /\ Counted /\ StopsOnlyWhenIdle /\ (\A c \in CPUs : WaitExact(c)) /\ GuestInv /\ GuestTypes
    BY <1>0, WorkerGoes, Zenon DEF Spots
  <1>2. hw \in [CPUs -> HwState] /\ hw[t] \in HwState /\ hw[t].state # "WAITING"
        /\ (plan.program = "kernel" => hw[t].state = "HALTED")
    BY <1>0, <1>1, Zenon DEF GuestTypes, WorkerExact
  <1>3. n \in HwState /\ n.state = hw[t].state /\ n.ie = hw[t].ie /\ ~n.waiting
    BY <1>2, Zenon DEF HwState
  <1> HIDE DEF n
  <1>4. hw' \in [CPUs -> HwState] /\ hw'[t] = n /\ (\A e \in CPUs \ {t} : hw'[e] = hw[e])
    BY <1>0, <1>1, <1>2, <1>3
  <1>5. Idle(hw'[t], guest[t], kcpu[t])
    <2>1. Idle(hw[t], guest[t], kcpu[t])
      BY <1>1, Zenon DEF GuestInv, ProcExact, Exact
    <2> QED
      BY <1>2, <1>3, <1>4, <2>1, Zenon DEF Idle
  <1>6. GuestInv'
    BY <1>0, <1>1, <1>2, <1>3, <1>4, <1>5, HardwareStep, ZenonT(30) DEF GuestTypes, Live
  <1>7. Counted'
    BY <1>0, <1>1, <1>3, <1>4, CountsKept
  <1>8. WorkerExact(k)' /\ WaitExact(t)'
    BY <1>0, <1>1, <1>2, <1>3, <1>4, ZenonT(30) DEF WorkerExact, WaitExact
  <1>9. (\A j \in Cores : WorkerExact(j))' /\ (\A e \in CPUs : WaitExact(e))'
    BY <1>0, <1>1, <1>4, <1>8, LocalStep
  <1>10. StopsOnlyWhenIdle'
    BY <1>0, <1>1, <1>3, <1>4 DEF StopsOnlyWhenIdle
  <1> QED
    BY <1>1, <1>6, <1>7, <1>9, <1>10 DEF MachineInv, CountExact

(* finish_hardware_thread clears the stop flag of the processor.           *)
LEMMA FinishStopKeeps ==
    ASSUME MachineInv, UNCHANGED <<tpc, plan>>, NEW k \in Cores, FinishStop(k)
    PROVE  MachineInv'
  <1> DEFINE t == wk[k].thread
  <1>0. /\ At(k, "count") /\ wk[k].at = "unstop" /\ hw' = [hw EXCEPT ![t].stop = FALSE]
        /\ UNCHANGED <<vm, ctl, dev, guest, kcpu, lock, running>>
    BY Zenon DEF FinishStop, GuestUnchanged
  <1>1. /\ WorkerTypes' /\ wk'[k].at = "count" /\ wk'[k].thread = t /\ (\A j \in Cores \ {k} : wk'[j] = wk[j])
        /\ WorkerExact(k) /\ tpc \in {1, Last + 1} /\ (\A j : CoreThreads(j)' = CoreThreads(j)) /\ Cores' = Cores
        /\ t \in CPUs /\ t \in CoreThreads(k) /\ t \div tpc = k
        /\ Counted /\ StopsOnlyWhenIdle /\ (\A c \in CPUs : WaitExact(c)) /\ GuestInv /\ GuestTypes
    BY <1>0, WorkerGoes, Zenon DEF Spots
  <1>2. hw \in [CPUs -> HwState] /\ hw[t] \in HwState /\ hw[t].state # "WAITING"
        /\ (plan.program = "kernel" => hw[t].state = "HALTED")
    BY <1>0, <1>1, Zenon DEF GuestTypes, WorkerExact
  <1>3. /\ hw' \in [CPUs -> HwState] /\ (\A e \in CPUs \ {t} : hw'[e] = hw[e])
        /\ hw'[t].state = hw[t].state /\ hw'[t].ie = hw[t].ie /\ hw'[t].waiting = hw[t].waiting
    BY <1>0, <1>1, <1>2, Zenon DEF HwState
  <1>4. Idle(hw'[t], guest[t], kcpu[t])
    <2>1. Idle(hw[t], guest[t], kcpu[t])
      BY <1>1, Zenon DEF GuestInv, ProcExact, Exact
    <2> QED
      BY <1>3, <2>1, Zenon DEF Idle
  <1>5. GuestInv'
    BY <1>0, <1>1, <1>2, <1>3, <1>4, HardwareStep, ZenonT(30) DEF GuestTypes, Live
  <1>6. Counted'
    BY <1>0, <1>1, <1>3, CountsKept
  <1>7. WorkerExact(k)' /\ WaitExact(t)'
    <2>1. WaitExact(t)
      BY <1>1, Zenon
    <2> QED
      BY <1>0, <1>1, <1>2, <1>3, <2>1 DEF WorkerExact, WaitExact
  <1>8. (\A j \in Cores : WorkerExact(j))' /\ (\A e \in CPUs : WaitExact(e))'
    BY <1>0, <1>1, <1>3, <1>7, LocalStep
  <1>9. StopsOnlyWhenIdle'
    BY <1>0, <1>1, <1>3 DEF StopsOnlyWhenIdle
  <1> QED
    BY <1>1, <1>5, <1>6, <1>8, <1>9 DEF MachineInv, CountExact

(* finish_hardware_thread subtracts the processor and, when it was the     *)
(* last, stops the machine.                                                *)
LEMMA FinishCountKeeps ==
    ASSUME MachineInv, UNCHANGED <<tpc, plan>>, NEW k \in Cores, FinishCount(k)
    PROVE  MachineInv'
  <1> DEFINE t == wk[k].thread
             a == vm.active - 1
             s == vm.stop \/ vm.active = 1
  <1>0. /\ At(k, "top") /\ wk[k].at = "count" /\ vm' = [vm EXCEPT !.active = a, !.stop = s]
        /\ UNCHANGED <<hw, ctl, dev, guest, kcpu, lock, running>>
    BY Zenon DEF FinishCount, GuestUnchanged
  <1>1. /\ WorkerTypes' /\ wk'[k].at = "top" /\ wk'[k].thread = t /\ (\A j \in Cores \ {k} : wk'[j] = wk[j])
        /\ WorkerExact(k) /\ tpc \in {1, Last + 1} /\ (\A j : CoreThreads(j)' = CoreThreads(j)) /\ Cores' = Cores
        /\ t \in CPUs /\ t \in CoreThreads(k) /\ t \div tpc = k
        /\ Counted /\ StopsOnlyWhenIdle /\ (\A c \in CPUs : WaitExact(c)) /\ GuestInv /\ GuestTypes
    BY <1>0, WorkerGoes, Zenon DEF Spots
  <1>2. vm \in VmState /\ a \in Int /\ s \in BOOLEAN
    BY <1>1 DEF GuestTypes, VmState
  <1> HIDE DEF a, s
  <1>3. vm' \in VmState /\ vm'.active = a /\ vm'.stop = s /\ vm'.action = vm.action
    BY <1>0, <1>2, Zenon DEF VmState
  <1>4. GuestInv'
    BY <1>0, <1>1, <1>3, GuestStays, Zenon
  <1>5. Counted' /\ (vm.active = 1 => \A c \in CPUs : hw[c].state \notin Live)
    BY <1>0, <1>1, <1>3, CountsEnd DEF a
  <1>6. WorkerExact(k)' /\ WaitExact(t)'
    <2>1. WaitExact(t)
      BY <1>1, Zenon
    <2> QED
      BY <1>0, <1>1, <2>1, Zenon DEF WorkerExact, WaitExact
  <1>7. (\A j \in Cores : WorkerExact(j))' /\ (\A e \in CPUs : WaitExact(e))'
    BY <1>0, <1>1, <1>6, LocalStep
  <1>8. StopsOnlyWhenIdle'
    BY <1>0, <1>1, <1>3, <1>5, Zenon DEF StopsOnlyWhenIdle, s
  <1> QED
    BY <1>1, <1>4, <1>5, <1>7, <1>8 DEF MachineInv, CountExact

(* After an instruction core_worker finishes the processor if it halted or *)
(* is to stop, or suspends it if it waits.                                 *)
LEMMA WorkerPostKeeps ==
    ASSUME MachineInv, UNCHANGED <<tpc, plan>>, NEW k \in Cores, WorkerPost(k)
    PROVE  MachineInv'
  <1> DEFINE t == wk[k].thread
             l == IF hw[t].halted \/ hw[t].stop THEN "flags" ELSE "top"
             s == IF hw[t].halted \/ hw[t].stop THEN "HALTED" ELSE IF hw[t].waiting THEN "WAITING" ELSE hw[t].state
  <1>0. /\ At(k, l) /\ wk[k].at = "post" /\ l \in Spots
        /\ UNCHANGED <<vm, ctl, dev, guest, kcpu, lock, running>>
    BY Zenon DEF WorkerPost, GuestUnchanged, Spots
  <1>a. \/ l = "flags" /\ s = "HALTED" /\ hw' = [hw EXCEPT ![t].state = s, ![t].stop = FALSE]
        \/ l = "top" /\ ~hw[t].halted /\ ~hw[t].stop /\ s = (IF hw[t].waiting THEN "WAITING" ELSE hw[t].state) /\ hw' = [hw EXCEPT ![t].state = s]
    BY Zenon DEF WorkerPost
  <1> HIDE DEF l, s
  <1>1. /\ WorkerTypes' /\ wk'[k].at = l /\ wk'[k].thread = t /\ (\A j \in Cores \ {k} : wk'[j] = wk[j])
        /\ WorkerExact(k) /\ tpc \in {1, Last + 1} /\ (\A j : CoreThreads(j)' = CoreThreads(j)) /\ Cores' = Cores
        /\ t \in CPUs /\ t \in CoreThreads(k) /\ t \div tpc = k
        /\ Counted /\ StopsOnlyWhenIdle /\ (\A c \in CPUs : WaitExact(c)) /\ GuestInv /\ GuestTypes
    BY <1>0, WorkerGoes, Zenon
  <1>2. hw \in [CPUs -> HwState] /\ hw[t] \in HwState /\ hw[t].state = "RUNNABLE"
    BY <1>0, <1>1, Zenon DEF GuestTypes, WorkerExact
  <1>b. s \in {"OFFLINE", "RUNNABLE", "WAITING", "HALTED"}
    BY <1>a, <1>2, Zenon
  <1>3. /\ hw' \in [CPUs -> HwState] /\ (\A e \in CPUs \ {t} : hw'[e] = hw[e])
        /\ hw'[t].state = s /\ hw'[t].ie = hw[t].ie /\ hw'[t].waiting = hw[t].waiting
        /\ hw'[t].halted = hw[t].halted /\ (l = "top" => hw'[t].stop = hw[t].stop)
    <2> HIDE DEF t
    <2>1. CASE hw' = [hw EXCEPT ![t].state = s]
      BY <1>1, <1>2, <1>b, <2>1 DEF HwState
    <2>2. CASE l # "top" /\ hw' = [hw EXCEPT ![t].state = s, ![t].stop = FALSE]
      <3> DEFINE n == [hw[t] EXCEPT !.state = s, !.stop = FALSE]
      <3>1. hw' = [hw EXCEPT ![t] = n]
        BY <2>2, Zenon
      <3>2. n \in HwState /\ n.state = s /\ n.ie = hw[t].ie /\ n.waiting = hw[t].waiting /\ n.halted = hw[t].halted
        BY <1>2, <1>b, ZenonT(30) DEF HwState
      <3> HIDE DEF n
      <3> QED
        BY ONLY <1>1, <1>2, <2>2, <3>1, <3>2
    <2> QED
      BY <1>a, <2>1, <2>2, Zenon
  <1>4. Idle(hw'[t], guest[t], kcpu[t])
    <2>1. Idle(hw[t], guest[t], kcpu[t])
      BY <1>1, Zenon DEF GuestInv, ProcExact, Exact
    <2> QED
      BY <1>a, <1>2, <1>3, <2>1 DEF Idle, Live
  <1>5. GuestInv'
    <2>1. /\ hw'[t].state \in Live => hw[t].state \in Live
          /\ hw'[t].state = "OFFLINE" <=> hw[t].state = "OFFLINE"
          /\ hw'[t].state \in Live /\ hw[t].stop => hw'[t].stop
          /\ hw[t].state # "HALTED" /\ ~hw[t].stop /\ ~hw[t].halted =>
                hw'[t].state # "HALTED" /\ ~hw'[t].stop /\ ~hw'[t].halted
      <3>1. CASE l = "top"
        BY <1>a, <1>2, <1>3, <3>1, Zenon DEF Live
      <3>2. CASE l = "flags"
        BY <1>a, <1>2, <1>3, <3>2, Zenon DEF Live, l
      <3> QED
        BY <1>a, <3>1, <3>2, Zenon
    <2> QED
      BY <1>0, <1>1, <1>3, <1>4, <2>1, HardwareStep, ZenonT(30) DEF GuestTypes
  <1>6. Counted'
    <2>1. CASE l = "flags"
      BY <1>a, <1>0, <1>1, <1>2, <1>3, <2>1, CountsHalt DEF Live
    <2>2. CASE l = "top"
      BY <1>a, <1>0, <1>1, <1>2, <1>3, <2>2, CountsKept, ZenonT(30) DEF Live
    <2> QED
      BY <1>a, <2>1, <2>2, ZenonT(30)
  <1>7. WorkerExact(k)' /\ WaitExact(t)'
    BY <1>a, <1>0, <1>1, <1>2, <1>3 DEF WorkerExact, WaitExact
  <1>8. (\A j \in Cores : WorkerExact(j))' /\ (\A e \in CPUs : WaitExact(e))'
    BY <1>0, <1>1, <1>3, <1>7, LocalStep, ZenonT(30)
  <1>9. StopsOnlyWhenIdle'
    BY <1>0, <1>1, <1>2, <1>3 DEF StopsOnlyWhenIdle, Live
  <1> QED
    BY <1>1, <1>5, <1>6, <1>8, <1>9 DEF MachineInv, CountExact

(* After an instruction core_worker looks whether an interrupt is to be    *)
(* taken.                                                                  *)
LEMMA WorkerCheckKeeps ==
    ASSUME MachineInv, UNCHANGED <<tpc, plan>>, NEW k \in Cores, WorkerCheck(k)
    PROVE  MachineInv'
  <1> DEFINE t == wk[k].thread
             r == cpu_check_interrupt(t, hw[t], guest[t], ctl[t])
  <1>0. At(k, "post") /\ wk[k].at = "check" /\ UNCHANGED <<vm, dev, kcpu, lock, running>>
    BY Zenon DEF WorkerCheck
  <1>a. /\ hw' = [hw EXCEPT ![t] = r.hw] /\ guest' = [guest EXCEPT ![t] = r.guest]
        /\ ctl' = IF r.hw = hw[t] THEN ctl ELSE [ctl EXCEPT ![t] = {}]
    BY Zenon DEF WorkerCheck
  <1>1. /\ WorkerTypes' /\ wk'[k].at = "post" /\ wk'[k].thread = t /\ (\A j \in Cores \ {k} : wk'[j] = wk[j])
        /\ WorkerExact(k) /\ tpc \in {1, Last + 1} /\ (\A j : CoreThreads(j)' = CoreThreads(j)) /\ Cores' = Cores
        /\ t \in CPUs /\ t \in CoreThreads(k) /\ t \div tpc = k
        /\ Counted /\ StopsOnlyWhenIdle /\ (\A c \in CPUs : WaitExact(c)) /\ GuestInv /\ GuestTypes
    BY <1>0, WorkerGoes, Zenon DEF Spots
  <1>2. hw \in [CPUs -> HwState] /\ guest \in [CPUs -> GuestState] /\ hw[t].state = "RUNNABLE" /\ hw[t] \in HwState
    BY <1>0, <1>1, Zenon DEF GuestTypes, WorkerExact
  <1>3. GuestInv' /\ hw'[t].state = "RUNNABLE" /\ (\A e \in CPUs \ {t} : hw'[e] = hw[e])
    <2>1. CASE hw[t].ie /\ ~hw[t].halted /\ ctl[t] # {}
      <3> DEFINE x == [hw[t] EXCEPT !.ie = FALSE, !.waiting = FALSE]
                 y == [guest[t] EXCEPT !.saved = guest[t].at, !.at = "handler"]
      <3>0. r.hw = x /\ r.guest = y
        <4>1. r = [hw |-> x, guest |-> y]
          BY <2>1, Zenon DEF cpu_check_interrupt
        <4> HIDE DEF r, x, y
        <4> QED
          BY <4>1, Zenon
      <3>1. /\ hw' = [hw EXCEPT ![t] = x] /\ (x # hw[t] => ctl' = [ctl EXCEPT ![t] = {}])
            /\ guest' = [guest EXCEPT ![t] = y]
        <4> HIDE DEF r, x, y
        <4> QED
          BY <1>a, <3>0, Zenon
      <3>2. x \in HwState /\ ~x.ie /\ x.state = "RUNNABLE"
        BY <1>2, Zenon DEF HwState
      <3>3. x # hw[t]
        BY <2>1, <3>2, Zenon
      <3>4. x = [x EXCEPT !.state = "RUNNABLE"]
        BY <3>2, Zenon DEF HwState
      <3>5. Interrupted(t)
        BY <1>1, <1>2, <2>1, <3>1, <3>3, <3>4, TakesInterrupt, ZenonT(30) DEF Live
      <3>6. GuestInv'
        BY <1>0, <1>1, <3>5, InterruptStep, Zenon
      <3> QED
        BY <3>5, <3>6, Zenon DEF Interrupted, Live, HwState
    <2>2. CASE ~(hw[t].ie /\ ~hw[t].halted /\ ctl[t] # {})
      <3>1. /\ hw' = [hw EXCEPT ![t] = hw[t]] /\ guest' = [guest EXCEPT ![t] = guest[t]] /\ ctl' = ctl
        <4>1. r.hw = hw[t] /\ r.guest = guest[t]
          <5>1. r = [hw |-> hw[t], guest |-> guest[t]]
            BY <2>2, Zenon DEF cpu_check_interrupt
          <5> HIDE DEF r
          <5> QED
            BY <5>1, Zenon
        <4> HIDE DEF r
        <4> QED
          BY <1>a, <4>1, Zenon
      <3>2. hw' = hw /\ guest' = guest
        BY <1>2, <3>1, Zenon
      <3>3. GuestInv'
        BY <1>0, <1>1, <3>1, <3>2, GuestStays DEF GuestTypes
      <3> QED
        BY <1>2, <3>2, <3>3, Zenon
    <2> QED
      BY <2>1, <2>2, Zenon
  <1>4. Counted'
    BY <1>0, <1>1, <1>2, <1>3, CountsKept
  <1>5. WorkerExact(k)' /\ WaitExact(t)'
    BY <1>0, <1>1, <1>2, <1>3 DEF WorkerExact, WaitExact
  <1>6. (\A j \in Cores : WorkerExact(j))' /\ (\A e \in CPUs : WaitExact(e))'
    BY <1>0, <1>1, <1>3, <1>5, LocalStep
  <1>7. StopsOnlyWhenIdle'
    BY <1>0, <1>1, <1>2, <1>3 DEF StopsOnlyWhenIdle
  <1> QED
    BY <1>1, <1>3, <1>4, <1>6, <1>7, ZenonT(30) DEF MachineInv, CountExact

(* core_worker lets the selected processor execute one instruction.        *)
LEMMA WorkerStepKeeps ==
    ASSUME MachineInv, UNCHANGED <<tpc, plan>>, NEW k \in Cores, WorkerStep(k)
    PROVE  MachineInv'
  <1> DEFINE t == wk[k].thread
  <1>0. At(k, "check") /\ wk[k].at = "step"
    BY Zenon DEF WorkerStep
  <1>1. /\ WorkerTypes' /\ wk'[k].at = "check" /\ wk'[k].thread = t /\ (\A j \in Cores \ {k} : wk'[j] = wk[j])
        /\ WorkerExact(k) /\ tpc \in {1, Last + 1} /\ (\A j : CoreThreads(j)' = CoreThreads(j)) /\ Cores' = Cores
        /\ t \in CPUs /\ t \in CoreThreads(k) /\ t \div tpc = k
        /\ Counted /\ StopsOnlyWhenIdle /\ (\A c \in CPUs : WaitExact(c)) /\ GuestInv /\ GuestTypes
    BY <1>0, WorkerGoes, Zenon DEF Spots
  <1>2. hw[t].state = "RUNNABLE" /\ ~hw[t].waiting
    BY <1>0, <1>1, Zenon DEF WorkerExact, WaitExact
  <1>3. Executes(t)
    BY <1>1, <1>2, Zenon DEF Executes
  <1>4. GuestInv' /\ HwEffect(t)
    <2>1. CASE hw[t].halted
      <3>1. HardwareUnchanged /\ UNCHANGED <<dev, guest, kcpu, lock, running>>
        BY <2>1, Zenon DEF WorkerStep, GuestUnchanged
      <3> QED
        BY <1>1, <1>3, <3>1, Polls, ZenonT(30)
    <2>2. CASE ~hw[t].halted
      <3>1. Instruction(t)
        BY <2>2, Zenon DEF WorkerStep
      <3> QED
        BY <1>1, <1>3, <3>1, InstructionKeeps
    <2> QED
      BY <2>1, <2>2, Zenon
  <1> HIDE DEF t
  <1>5. \A e \in CPUs : /\ hw[e].state = "RUNNABLE" => hw'[e].state = "RUNNABLE"
                        /\ hw'[e].state = "WAITING" => hw[e].state = "WAITING"
                        /\ plan.program = "kernel" /\ hw[e].state = "HALTED" => hw'[e].state = "HALTED"
                        /\ hw'[e].state = "RUNNABLE" => hw[e].state = "RUNNABLE" \/ ~hw'[e].waiting
                        /\ e # t /\ hw'[e].waiting => hw[e].waiting
    <2>1. CASE VmQuiet /\ \A e \in CPUs : hw'[e].state # hw[e].state =>
                                           {hw[e].state, hw'[e].state} \cap Live = {} /\ plan.program # "kernel"
      BY <1>4, <2>1, Zenon DEF HwEffect, Live
    <2>2. CASE \E d \in CPUs : Starts(d)
      BY <1>4, <2>2, Zenon DEF HwEffect, Starts
    <2> QED
      BY <1>4, <2>1, <2>2, Zenon DEF HwEffect
  <1>6. Counted' /\ StopsOnlyWhenIdle'
    <2>0. \A j \in Cores : wk'[j].at \in {"flags", "unstop", "count"} <=> wk[j].at \in {"flags", "unstop", "count"}
      BY <1>0, <1>1, Zenon
    <2>1. CASE VmQuiet /\ \A e \in CPUs : hw'[e].state # hw[e].state =>
                                           {hw[e].state, hw'[e].state} \cap Live = {} /\ plan.program # "kernel"
      <3>1. vm'.active = vm.active /\ \A e \in CPUs : hw'[e].state \in Live <=> hw[e].state \in Live
        BY <2>1, Zenon DEF VmQuiet
      <3>2. Counted'
        BY <1>1, <2>0, <3>1, CountsKept
      <3>3. StopsOnlyWhenIdle'
        BY <1>1, <2>1, <3>1, Zenon DEF StopsOnlyWhenIdle, VmQuiet
      <3> QED
        BY <3>2, <3>3, Zenon
    <2>2. ASSUME NEW d \in CPUs, Starts(d) PROVE Counted' /\ StopsOnlyWhenIdle'
      <3>1. vm \in VmState
        BY <1>1, Zenon DEF GuestTypes
      <3>2. Counted'
        BY <1>1, <2>0, <2>2, <3>1, CountsStart, ZenonT(30)
      <3>3. ~vm'.stop
        BY <2>2, <3>1, Zenon DEF Starts, VmState
      <3> QED
        BY <3>2, <3>3, Zenon DEF StopsOnlyWhenIdle
    <2> QED
      BY <1>4, <2>1, <2>2, Zenon DEF HwEffect
  <1>7. ASSUME NEW j \in Cores PROVE WorkerExact(j)'
    <2>1. WorkerExact(j) /\ wk'[j].thread = wk[j].thread /\ wk[j].thread \in CPUs
      BY <1>1, ThreadsOf, Zenon DEF MachineInv, CountExact, WorkerExact, t
    <2>2. CASE j = k
      BY <1>1, <1>2, <1>5, <2>1, <2>2, ZenonT(30) DEF WorkerExact, t
    <2>3. CASE j # k
      BY <1>1, <1>5, <2>1, <2>3 DEF WorkerExact
    <2> QED
      BY <2>2, <2>3, Zenon
  <1>8. ASSUME NEW e \in CPUs PROVE WaitExact(e)'
    <2>1. CASE e = t
      BY <1>1, <2>1, Zenon DEF WaitExact
    <2>2. CASE e # t
      <3>1. WaitExact(e) /\ e \div tpc \in Cores
        BY <1>1, ThreadsOf, Zenon
      <3> QED
        BY <1>0, <1>1, <1>5, <2>2, <3>1, ZenonT(30) DEF WaitExact
    <2> QED
      BY <2>1, <2>2, Zenon
  <1> QED
    BY <1>1, <1>4, <1>6, <1>7, <1>8 DEF MachineInv, CountExact

(* select_hardware_thread picks the next runnable thread of the core.      *)
LEMMA SelectKeeps ==
    ASSUME MachineInv, UNCHANGED <<tpc, plan>>, NEW k \in Cores, select_hardware_thread(k)
    PROVE  MachineInv'
  <1>0. /\ wk[k].at = "select" /\ UNCHANGED <<vm, ctl, dev, guest, kcpu, lock, running>>
        /\ GuestInv /\ GuestTypes /\ WorkerTypes /\ Counted /\ StopsOnlyWhenIdle /\ tpc \in {1, Last + 1}
        /\ Cores' = Cores /\ (\A j : CoreThreads(j)' = CoreThreads(j)) /\ (\A c \in CPUs : WaitExact(c))
    BY DEF select_hardware_thread, GuestUnchanged, MachineInv, CountExact, GuestInv, GuestTypes,
       Cores, CoreThreads
  <1>a. CASE At(k, "top") /\ UNCHANGED hw
    <2> DEFINE t == wk[k].thread
    <2>1. /\ WorkerTypes' /\ wk'[k].at = "top" /\ wk'[k].thread = t /\ (\A j \in Cores \ {k} : wk'[j] = wk[j])
          /\ WorkerExact(k) /\ t \in CPUs /\ t \in CoreThreads(k) /\ t \div tpc = k
      BY <1>a, WorkerGoes, Zenon DEF Spots
    <2>2. GuestInv'
      BY <1>0, <1>a, GuestStays, Zenon DEF GuestTypes
    <2>3. Counted'
      BY <1>0, <1>a, <2>1, CountsKept, ZenonT(30)
    <2>4. WorkerExact(k)' /\ WaitExact(t)'
      BY <1>0, <1>a, <2>1 DEF WorkerExact, WaitExact
    <2>5. (\A j \in Cores : WorkerExact(j))' /\ (\A e \in CPUs : WaitExact(e))'
      BY <1>0, <1>a, <2>1, <2>4, LocalStep, ZenonT(30)
    <2>6. StopsOnlyWhenIdle'
      BY <1>0, <1>a, Zenon DEF StopsOnlyWhenIdle
    <2> QED
      BY <2>1, <2>2, <2>3, <2>5, <2>6, ZenonT(30) DEF MachineInv, CountExact
  <1>b. ASSUME NEW c \in Runnables(k),
               hw' = [hw EXCEPT ![c].stop = FALSE, ![c].state = IF hw[c].stop THEN "HALTED" ELSE @],
               wk' = [wk EXCEPT ![k] = [at |-> IF hw[c].stop THEN "flags" ELSE "step",
                                        thread |-> c, next |-> ((c % tpc) + 1) % tpc]]
        PROVE  MachineInv'
    <2> DEFINE s == IF hw[c].stop THEN "HALTED" ELSE hw[c].state
               l == IF hw[c].stop THEN "flags" ELSE "step"
               n == [hw[c] EXCEPT !.stop = FALSE, !.state = s]
               x == ((c % tpc) + 1) % tpc
               w == [at |-> l, thread |-> c, next |-> x]
    <2>1. c \in CoreThreads(k) /\ c \in CPUs /\ c \div tpc = k /\ hw[c].state = "RUNNABLE"
      BY <1>0, ThreadsOf, Zenon DEF Runnables
    <2>2. hw \in [CPUs -> HwState] /\ hw[c] \in HwState /\ s \in {"OFFLINE", "RUNNABLE", "WAITING", "HALTED"}
      BY <1>0, <2>1, Zenon DEF GuestTypes
    <2>3. hw' = [hw EXCEPT ![c] = n] /\ wk' = [wk EXCEPT ![k] = w]
      BY <1>b, Zenon
    <2>4. x \in Int
      <3>1. c \in Nat /\ tpc \in Nat \ {0}
        BY <1>0, <2>1, Topology
      <3> QED
        BY <3>1
    <2>5. (l = "flags" /\ s = "HALTED" /\ hw[c].stop) \/ (l = "step" /\ s = "RUNNABLE" /\ ~hw[c].stop)
      BY <2>1, Zenon
    <2> HIDE DEF s, l, x
    <2>6. n \in HwState /\ n.state = s /\ n.ie = hw[c].ie /\ n.waiting = hw[c].waiting
          /\ n.halted = hw[c].halted /\ ~n.stop
      BY <2>2, Zenon DEF HwState
    <2>7. w \in WorkerState /\ w.at = l /\ w.thread = c
      BY <2>1, <2>4, <2>5, Zenon DEF WorkerState
    <2> HIDE DEF n, w
    <2>8. /\ hw' \in [CPUs -> HwState] /\ (\A e \in CPUs \ {c} : hw'[e] = hw[e])
          /\ hw'[c].state = s /\ hw'[c].ie = hw[c].ie /\ hw'[c].waiting = hw[c].waiting
          /\ hw'[c].halted = hw[c].halted /\ ~hw'[c].stop
      BY ONLY <2>1, <2>2, <2>3, <2>6, Zenon
    <2>9. WorkerTypes' /\ (\A j \in Cores \ {k} : wk'[j] = wk[j]) /\ wk'[k].at = l /\ wk'[k].thread = c
      <3>1. wk \in [Cores -> WorkerState] /\ WorkerState' = WorkerState
        BY <1>0, Zenon DEF WorkerTypes, WorkerState
      <3>2. /\ wk' \in [Cores -> WorkerState] /\ (\A j \in Cores \ {k} : wk'[j] = wk[j])
            /\ wk'[k].at = l /\ wk'[k].thread = c
        BY ONLY <2>3, <2>7, <3>1, k \in Cores, ZenonT(30)
      <3> QED
        BY <1>0, <3>1, <3>2, Zenon DEF WorkerTypes
    <2>10. Idle(hw'[c], guest[c], kcpu[c])
      <3>1. Idle(hw[c], guest[c], kcpu[c])
        BY <1>0, <2>1, Zenon DEF GuestInv, ProcExact, Exact
      <3> QED
        BY <2>1, <2>5, <2>8, <3>1, ZenonT(30) DEF Idle, Live
    <2>11. GuestInv'
      <3>1. /\ hw'[c].state \in Live => hw[c].state \in Live
            /\ hw'[c].state = "OFFLINE" <=> hw[c].state = "OFFLINE"
            /\ hw'[c].state \in Live /\ hw[c].stop => hw'[c].stop
            /\ hw[c].state # "HALTED" /\ ~hw[c].stop /\ ~hw[c].halted =>
                  hw'[c].state # "HALTED" /\ ~hw'[c].stop /\ ~hw'[c].halted
        BY <2>1, <2>5, <2>8, Zenon DEF Live
      <3> QED
        BY <1>0, <2>1, <2>8, <2>10, <3>1, HardwareStep, ZenonT(30) DEF GuestTypes
    <2>12. Counted'
      <3>1. CASE l = "flags"
        BY <1>0, <2>1, <2>5, <2>8, <2>9, <3>1, CountsHalt DEF Live
      <3>2. CASE l = "step"
        BY <1>0, <2>1, <2>5, <2>8, <2>9, <3>2, CountsKept
      <3> QED
        BY <2>5, <3>1, <3>2, ZenonT(30)
    <2>13. WorkerExact(k)' /\ WaitExact(c)'
      <3>1. WaitExact(c)
        BY <1>0, <2>1, Zenon
      <3> QED
        BY <1>0, <2>1, <2>5, <2>8, <2>9, <3>1 DEF WorkerExact, WaitExact
    <2>14. (\A j \in Cores : WorkerExact(j))' /\ (\A e \in CPUs : WaitExact(e))'
      BY <1>0, <2>1, <2>8, <2>9, <2>13, LocalStep, ZenonT(30)
    <2>15. StopsOnlyWhenIdle'
      BY <1>0, <2>1, <2>8, ZenonT(30) DEF StopsOnlyWhenIdle, Live
    <2> QED
      BY <2>9, <2>11, <2>12, <2>14, <2>15 DEF MachineInv, CountExact
  <1> QED
    BY <1>a, <1>b, Zenon DEF select_hardware_thread

(* A waiting processor that is to stop, or that has halted, is finished by *)
(* the host thread of its core.                                            *)
LEMMA FinishKeeps ==
    ASSUME MachineInv, UNCHANGED <<tpc, plan>>, NEW k \in Cores, wk[k].at = "service",
           NEW c \in Waiters(k), hw[c].stop, Finish(k, c)
    PROVE  MachineInv'
  <1> DEFINE n == [hw[c] EXCEPT !.state = "HALTED", !.stop = FALSE]
             w == [wk[k] EXCEPT !.at = "flags", !.thread = c]
  <1>0. /\ UNCHANGED <<vm, ctl, dev, guest, kcpu, lock, running>>
        /\ GuestInv /\ GuestTypes /\ WorkerTypes /\ Counted /\ StopsOnlyWhenIdle /\ tpc \in {1, Last + 1}
        /\ Cores' = Cores /\ (\A j : CoreThreads(j)' = CoreThreads(j))
    BY Zenon DEF Finish, GuestUnchanged, MachineInv, CountExact, GuestInv, GuestTypes, Cores,
       CoreThreads
  <1>1. c \in CoreThreads(k) /\ c \in CPUs /\ c \div tpc = k /\ hw[c].state = "WAITING"
    BY <1>0, ThreadsOf, Zenon DEF Waiters
  <1>2. hw \in [CPUs -> HwState] /\ hw[c] \in HwState /\ wk \in [Cores -> WorkerState] /\ wk[k] \in WorkerState
    BY <1>0, <1>1, Zenon DEF GuestTypes, WorkerTypes
  <1>3. hw' = [hw EXCEPT ![c] = n] /\ wk' = [wk EXCEPT ![k] = w]
    BY Zenon DEF Finish
  <1>4. n \in HwState /\ n.state = "HALTED"
    BY <1>2, Zenon DEF HwState
  <1>5. w \in WorkerState /\ w.at = "flags" /\ w.thread = c
    BY <1>1, <1>2, Zenon DEF WorkerState
  <1> HIDE DEF n, w
  <1>6. hw' \in [CPUs -> HwState] /\ (\A e \in CPUs \ {c} : hw'[e] = hw[e]) /\ hw'[c].state = "HALTED"
    BY ONLY <1>1, <1>2, <1>3, <1>4, Zenon
  <1>7. WorkerTypes' /\ (\A j \in Cores \ {k} : wk'[j] = wk[j]) /\ wk'[k].at = "flags" /\ wk'[k].thread = c
    <2>1. WorkerState' = WorkerState
      BY Zenon DEF WorkerState
    <2>2. /\ wk' \in [Cores -> WorkerState] /\ (\A j \in Cores \ {k} : wk'[j] = wk[j])
          /\ wk'[k].at = "flags" /\ wk'[k].thread = c
      BY ONLY <1>2, <1>3, <1>5, k \in Cores, Zenon
    <2> QED
      BY <1>0, <2>1, <2>2, Zenon DEF WorkerTypes
  <1>8. Idle(hw'[c], guest[c], kcpu[c])
    BY <1>6, ZenonT(30) DEF Idle, Live
  <1>9. GuestInv'
    BY <1>0, <1>1, <1>6, <1>8, HardwareStep, ZenonT(30) DEF GuestTypes, Live
  <1>10. Counted'
    BY <1>0, <1>1, <1>6, <1>7, CountsHalt DEF Live
  <1>11. WorkerExact(k)' /\ WaitExact(c)'
    BY <1>0, <1>1, <1>6, <1>7, ZenonT(30) DEF WorkerExact, WaitExact
  <1>12. (\A j \in Cores : WorkerExact(j))' /\ (\A e \in CPUs : WaitExact(e))'
    BY <1>0, <1>1, <1>6, <1>7, <1>11, LocalStep
  <1>13. StopsOnlyWhenIdle'
    BY <1>0, <1>6, Zenon DEF StopsOnlyWhenIdle, Live
  <1> QED
    BY <1>7, <1>9, <1>10, <1>12, <1>13 DEF MachineInv, CountExact

(* service_waiting_hardware_threads finishes or wakes a waiting processor. *)
LEMMA ServiceKeeps ==
    ASSUME MachineInv, UNCHANGED <<tpc, plan>>, NEW k \in Cores, service_waiting_hardware_threads(k)
    PROVE  MachineInv'
  <1>0. wk[k].at = "service"
    BY Zenon DEF service_waiting_hardware_threads
  <1>1. ASSUME NEW c \in Waiters(k), hw[c].stop, Finish(k, c) PROVE MachineInv'
    BY <1>0, <1>1, FinishKeeps, Zenon
  <1>g. ASSUME At(k, "select")
        PROVE  /\ WorkerTypes' /\ wk'[k].at = "select" /\ wk'[k].thread = wk[k].thread
               /\ (\A j \in Cores \ {k} : wk'[j] = wk[j])
               /\ WorkerExact(k) /\ tpc \in {1, Last + 1} /\ (\A j : CoreThreads(j)' = CoreThreads(j)) /\ Cores' = Cores
               /\ wk[k].thread \in CPUs /\ wk[k].thread \in CoreThreads(k) /\ wk[k].thread \div tpc = k
               /\ Counted /\ StopsOnlyWhenIdle /\ (\A c \in CPUs : WaitExact(c)) /\ GuestInv /\ GuestTypes
    BY <1>g, WorkerGoes, Zenon DEF Spots
  <1>2. ASSUME NEW c \in Waiters(k), NEW r \in {cpu_check_interrupt(c, hw[c], guest[c], ctl[c])},
               r.hw # hw[c], hw' = [hw EXCEPT ![c] = [r.hw EXCEPT !.state = "RUNNABLE"]],
               guest' = [guest EXCEPT ![c] = r.guest], ctl' = [ctl EXCEPT ![c] = {}],
               At(k, "select"), UNCHANGED <<vm, dev, kcpu, lock, running>>
        PROVE  MachineInv'
    <2> DEFINE x == [hw[c] EXCEPT !.ie = FALSE, !.waiting = FALSE]
               y == [guest[c] EXCEPT !.saved = guest[c].at, !.at = "handler"]
    <2>1. c \in CoreThreads(k) /\ c \in CPUs /\ c \div tpc = k /\ hw[c].state = "WAITING"
      BY <1>2, <1>g, ThreadsOf, Zenon DEF Waiters
    <2>2. hw[c].ie /\ r = [hw |-> x, guest |-> y]
      <3>1. CASE ~(hw[c].ie /\ ~hw[c].halted /\ ctl[c] # {})
        <4>1. r = [hw |-> hw[c], guest |-> guest[c]]
          BY <3>1, Zenon DEF cpu_check_interrupt
        <4> QED
          BY <1>2, <4>1, Zenon
      <3>2. CASE hw[c].ie /\ ~hw[c].halted /\ ctl[c] # {}
        BY <3>2, Zenon DEF cpu_check_interrupt
      <3> QED
        BY <3>1, <3>2, Zenon
    <2>3. r.hw = x /\ r.guest = y
      <3> HIDE DEF x, y
      <3> QED
        BY <2>2, Zenon
    <2>4. hw' = [hw EXCEPT ![c] = [x EXCEPT !.state = "RUNNABLE"]] /\ guest' = [guest EXCEPT ![c] = y]
      <3> HIDE DEF x, y
      <3> QED
        BY <1>2, <2>3, Zenon
    <2>5. Interrupted(c)
      BY <1>2, <1>g, <2>1, <2>2, <2>4, TakesInterrupt, ZenonT(30) DEF Live
    <2>6. GuestInv'
      BY <1>2, <1>g, <2>1, <2>5, InterruptStep
    <2> HIDE DEF x, y
    <2>7. (\A e \in CPUs \ {c} : hw'[e] = hw[e]) /\ hw'[c].state \in Live /\ ~hw'[c].waiting
      BY <2>5, Zenon DEF Interrupted
    <2>8. Counted'
      <3>1. \A e \in CPUs : hw'[e].state \in Live <=> hw[e].state \in Live
        BY <2>1, <2>7, ZenonT(30) DEF Live
      <3> QED
        BY <1>0, <1>2, <1>g, <3>1, CountsKept
    <2>9. WorkerExact(k)' /\ WaitExact(c)'
      BY <1>0, <1>2, <1>g, <2>7 DEF WorkerExact, WaitExact
    <2>10. (\A j \in Cores : WorkerExact(j))' /\ (\A e \in CPUs : WaitExact(e))'
      BY <1>0, <1>2, <1>g, <2>1, <2>7, <2>9, LocalStep
    <2>11. StopsOnlyWhenIdle'
      BY <1>2, <1>g, <2>1, <2>7 DEF StopsOnlyWhenIdle, Live
    <2> QED
      BY <1>2, <1>g, <2>6, <2>8, <2>10, <2>11 DEF MachineInv, CountExact
  <1>3. ASSUME At(k, "select"), HardwareUnchanged, GuestUnchanged PROVE MachineInv'
    <2>0. UNCHANGED <<hw, vm, ctl, dev, guest, kcpu, lock, running>>
      BY <1>3, Zenon DEF HardwareUnchanged, GuestUnchanged
    <2>1. GuestInv'
      BY <1>3, <1>g, <2>0, GuestStays, Zenon DEF GuestTypes
    <2>2. Counted'
      BY <1>0, <1>3, <1>g, <2>0, CountsKept, ZenonT(30)
    <2>3. WorkerExact(k)' /\ WaitExact(wk[k].thread)'
      BY <1>0, <1>3, <1>g, <2>0 DEF WorkerExact, WaitExact
    <2>4. (\A j \in Cores : WorkerExact(j))' /\ (\A e \in CPUs : WaitExact(e))'
      BY <1>0, <1>3, <1>g, <2>0, <2>3, LocalStep, ZenonT(30)
    <2>5. StopsOnlyWhenIdle'
      BY <1>3, <1>g, <2>0, Zenon DEF StopsOnlyWhenIdle
    <2> QED
      BY <1>3, <1>g, <2>1, <2>2, <2>4, <2>5, ZenonT(30) DEF MachineInv, CountExact
  <1> QED
    BY <1>1, <1>2, <1>3, Zenon DEF service_waiting_hardware_threads

(* Every step of core_worker keeps the invariant. *)
LEMMA CoreWorkerKeeps ==
    ASSUME MachineInv, NEW k \in Cores, CoreWorker(k)
    PROVE  MachineInv'
  <1>1. UNCHANGED <<tpc, plan>>
    BY Zenon DEF CoreWorker
  <1> QED
    BY <1>1, WorkerTopKeeps, ServiceKeeps, SelectKeeps, WorkerStepKeeps, WorkerCheckKeeps,
       WorkerPostKeeps,
       FinishFlagsKeeps, FinishStopKeeps, FinishCountKeeps DEF CoreWorker

(* The machine as vm_run starts it, and as a warm reset puts it back.      *)
Boots ==
    /\ tpc \in {1, Last + 1} /\ hw = BootHardware
    /\ vm \in VmState /\ ~vm.stop /\ vm.active = 1
    /\ wk = NewWorkers /\ dev = NoTarget
    /\ plan \in [program : {"kernel", "restart"}, end : {"HALT", "SHUTDOWN", "WARM_RESET"}]
    /\ guest = BootGuest(plan.program) /\ kcpu = BootKernel /\ lock = NoLine /\ running = FALSE
    /\ ctl = [c \in CPUs |-> {}]

(* A machine as vm_run starts it satisfies the invariant. *)
LEMMA BootsExactly ==
    Boots => MachineInv
  <1> SUFFICES ASSUME Boots PROVE MachineInv
    BY Zenon
  <1>0. /\ Last \in Nat \ {0} /\ CPUs = 0 .. Last /\ 0 \in CPUs /\ NoLine \notin CPUs
        /\ tpc \in {1, Last + 1} /\ plan.program \in {"kernel", "restart"}
    BY Topology, Zenon DEF Boots
  <1>1. NewThread \in HwState /\ NewThread.state = "OFFLINE" /\ ~NewThread.waiting /\ ~NewThread.ie
        /\ ~NewThread.stop /\ ~NewThread.halted
    BY Zenon DEF NewThread, HwState
  <1> DEFINE n == [NewThread EXCEPT !.state = "RUNNABLE"]
  <1>2. n \in HwState /\ n.state = "RUNNABLE" /\ ~n.waiting /\ ~n.ie /\ ~n.stop /\ ~n.halted
    BY <1>1, Zenon DEF HwState
  <1>3. hw = [c \in CPUs |-> IF c = 0 THEN n ELSE NewThread]
    BY Zenon DEF Boots, BootHardware
  <1> HIDE DEF n
  <1>4. /\ hw \in [CPUs -> HwState] /\ hw[0].state = "RUNNABLE" /\ (\A c \in CPUs \ {0} : hw[c].state = "OFFLINE")
        /\ (\A c \in CPUs : ~hw[c].waiting /\ ~hw[c].ie /\ ~hw[c].stop /\ ~hw[c].halted)
    BY <1>0, <1>1, <1>2, <1>3
  <1> DEFINE w == IF plan.program = "kernel" THEN "start" ELSE "first"
             g == [Off EXCEPT !.at = w, !.i = 1]
  <1>5. /\ "off" \in Places /\ "IPI" \in Commands /\ 0 \in 0 .. Last + 1 /\ 1 \in 0 .. Last + 1 /\ w \in Places
    BY <1>0 DEF Places, Commands
  <1>6. Off \in GuestState /\ Off.at = "off" /\ Off.next = "off" /\ Off.saved = "off"
        /\ Off.fail = "none" /\ ~Off.bad
    BY <1>0, <1>5, Zenon DEF Off, GuestState
  <1>7. g \in GuestState /\ g.at = w /\ g.next = "off" /\ g.saved = "off" /\ g.i = 1
        /\ g.fail = "none" /\ ~g.bad
    <2> HIDE DEF w
    <2> QED
      BY <1>5, <1>6, Zenon DEF GuestState
  <1>8. guest = [c \in CPUs |-> IF c = 0 THEN g ELSE Off]
    BY Zenon DEF Boots, BootGuest
  <1> HIDE DEF g
  <1>9. guest \in [CPUs -> GuestState] /\ guest[0] = g /\ (\A c \in CPUs \ {0} : guest[c] = Off)
    BY <1>0, <1>6, <1>7, <1>8
  <1>10. kcpu \in [CPUs -> LocalState] /\ kcpu[0].stack = "allocated"
         /\ \A c \in CPUs \ {0} : kcpu[c].state = "OFFLINE"
    <2>1. \A c \in CPUs : [state |-> IF c = 0 THEN "ONLINE" ELSE "OFFLINE", ipis |-> 0,
                            stack |-> IF c = 0 THEN "allocated" ELSE "none"] \in LocalState
      BY DEF LocalState
    <2> QED
      BY <1>0, <2>1, Zenon DEF Boots, BootKernel
  <1>11. dev \in DevState
    <2>1. 0 \div tpc = 0 /\ 0 % tpc = 0
      BY <1>0, Selects, Zenon
    <2> QED
      BY <1>0, <2>1, Zenon DEF Boots, NoTarget, DevState
  <1>12. GuestTypes
    BY <1>4, <1>9, <1>10, <1>11, Zenon DEF GuestTypes, Boots
  <1>13. ASSUME NEW c \in CPUs PROVE Exact(c)
    <2>1. Idle(hw[c], guest[c], kcpu[c])
      <3>1. guest[c].at \in {"off", "start", "first"}
        BY <1>6, <1>7, <1>9, Zenon
      <3> QED
        BY <1>4, <3>1, Zenon DEF Idle, Live
    <2>2. Labels(plan.program, c, guest[c]) /\ Locked(plan.program, c, guest[c], lock)
      <3>1. CASE c = 0
        <4>1. Labels(plan.program, 0, g)
          BY <1>0, <1>7, Zenon DEF Labels, KernelLabels, RestartLabels, Calling, InKernel
        <4>2. Locked(plan.program, 0, g, lock)
          BY <1>7, Zenon DEF Locked, Calling
        <4> QED
          BY <1>9, <3>1, <4>1, <4>2
      <3>2. CASE c # 0
        <4>1. Labels(plan.program, c, Off)
          BY <1>0, <1>6, <3>2, Zenon DEF Labels, KernelLabels, RestartLabels, Calling, InKernel
        <4>2. Locked(plan.program, c, Off, lock)
          BY <1>6, Zenon DEF Locked, Calling
        <4> QED
          BY <1>9, <3>2, <4>1, <4>2
      <3> QED
        BY <3>1, <3>2, Zenon
    <2> QED
      BY <2>1, <2>2, Zenon DEF Exact
  <1>14. BootExact(guest[0])
    <2>1. guest[0] = g /\ (plan.program = "kernel" => g.at = "start") /\ g.i = 1 /\ ~running
      BY <1>7, <1>9, Zenon DEF Boots
    <2>2. \A c \in CPUs \ {0} : guest[c].at \notin {"enter", "task"} \cup Calling
      BY <1>6, <1>9, Zenon DEF Calling
    <2>3. \A c \in CPUs : c > g.i => hw[c].state = "OFFLINE"
      BY <1>0, <1>4, <2>1
    <2>4. hw[g.i].state = "OFFLINE" /\ g.i \in 1 .. Last
      BY <1>0, <1>4, <2>1
    <2>5. g.fail = "none" /\ ~g.bad /\ g.i >= 1
      BY <1>7
    <2> QED
      BY <2>1, <2>2, <2>3, <2>4, <2>5, Zenon DEF BootExact, Calling, Kicking, Undoing
  <1>15. StackWhileLive
    BY <1>4, <1>10, Zenon DEF StackWhileLive, Live
  <1>19. KernelExact(guest[0])
    BY <1>0, <1>4, <1>7, <1>9, <1>10, Zenon DEF KernelExact, Boots
  <1>16. /\ WorkerTypes /\ (\A k \in Cores : wk[k].at = "top" /\ wk[k].thread \in CoreThreads(k))
    <2>1. \A k \in Cores : k * tpc \in CoreThreads(k) /\ k * tpc \in CPUs
      BY <1>0, CoresFinite, ThreadsOf, Zenon
    <2> QED
      BY <2>1 DEF Boots, NewWorkers, WorkerTypes, WorkerState
  <1>17. Counted
    <2>1. LiveSet(hw) = {0} /\ Finishing(wk) = {}
      BY <1>0, <1>4, <1>16, Zenon DEF LiveSet, Finishing, Live
    <2>2. Cardinality({0}) = 1 /\ Cardinality({}) = 0
      BY FS_Singleton, FS_EmptySet, Zenon
    <2> QED
      BY <2>1, <2>2 DEF Counted, Boots
  <1>18. CountExact
    BY <1>4, <1>16, <1>17, ZenonT(30) DEF CountExact, WorkerExact, WaitExact, StopsOnlyWhenIdle, Boots
  <1> QED
    BY <1>12, <1>13, <1>14, <1>15, <1>16, <1>18, <1>19 DEF MachineInv, GuestInv, ProcExact

(* So does a machine that prepare_warm_reset has put back. *)
LEMMA BootsAgain ==
    Boots' => MachineInv'
  BY BootsExactly, PTL

(* vm_run, when all host threads have joined, ends or restarts the         *)
(* machine.                                                                *)
LEMMA RunKeeps ==
    ASSUME MachineInv, vm_run
    PROVE  MachineInv'
  <1>0. GuestInv /\ GuestTypes /\ WorkerTypes /\ CountExact /\ vm \in VmState
    BY Zenon DEF MachineInv, GuestInv, GuestTypes
  <1>1. CASE prepare_warm_reset
    <2> DEFINE r == vm.resets + 1
    <2>1. vm' = [vm EXCEPT !.stop = FALSE, !.action = "NONE", !.active = 1, !.resets = r] /\ r \in Nat
      BY <1>0, <1>1 DEF prepare_warm_reset, VmState
    <2> HIDE DEF r
    <2>2. vm' \in VmState /\ ~vm'.stop /\ vm'.active = 1
      <3>1. 1 \in Int
        OBVIOUS
      <3> QED
        BY <1>0, <2>1, <3>1, Zenon DEF VmState
    <2>3. PICK e \in {"HALT", "SHUTDOWN", "WARM_RESET"} : plan' = [plan EXCEPT !.end = e]
      BY <1>1, Zenon DEF prepare_warm_reset
    <2>4. /\ plan' \in [program : {"kernel", "restart"}, end : {"HALT", "SHUTDOWN", "WARM_RESET"}]
          /\ plan'.program = plan.program
      BY <1>0, <2>3, Zenon DEF GuestTypes
    <2>5. tpc' = tpc /\ tpc \in {1, Last + 1}
      BY <1>0, <1>1, Zenon DEF prepare_warm_reset, GuestTypes
    <2>6. NewWorkers' = NewWorkers
      BY <2>5, Zenon DEF NewWorkers, Cores
    <2>7. Boots'
      BY <1>1, <2>2, <2>4, <2>5, <2>6 DEF Boots, prepare_warm_reset
    <2> QED
      BY <2>7, BootsAgain, Zenon
  <1>2. CASE vm' = [vm EXCEPT !.phase = "ended"] /\ UNCHANGED <<tpc, hw, wk, dev, guest, kcpu, lock, running, plan, ctl>>
    <2>1. vm' \in VmState /\ vm'.active = vm.active /\ vm'.stop = vm.stop /\ vm'.action = vm.action
      BY <1>0, <1>2, Zenon DEF VmState
    <2>2. GuestInv'
      BY <1>0, <1>2, <2>1, GuestStays, Zenon
    <2>3. /\ Cores' = Cores /\ (\A k : CoreThreads(k)' = CoreThreads(k))
          /\ LiveSet(hw)' = LiveSet(hw) /\ Finishing(wk)' = Finishing(wk)
      BY <1>2, Zenon DEF Cores, CoreThreads, LiveSet, Finishing
    <2>4. WorkerTypes'
      BY <1>0, <1>2, <2>3, ZenonT(30) DEF WorkerTypes, WorkerState
    <2>5. CountExact'
      BY <1>0, <1>2, <2>1, <2>3 DEF CountExact, Counted, StopsOnlyWhenIdle, WorkerExact, WaitExact
    <2> QED
      BY <2>2, <2>4, <2>5, Zenon DEF MachineInv
  <1> QED
    BY <1>1, <1>2, Zenon DEF vm_run

(* Every step of the machine keeps the invariant. *)
LEMMA MachineStep ==
    MachineInv /\ [MachineNext]_mvars => MachineInv'
  <1> SUFFICES ASSUME MachineInv, [MachineNext]_mvars PROVE MachineInv'
    BY Zenon
  <1>1. CASE \E k \in Cores : CoreWorker(k)
    BY <1>1, CoreWorkerKeeps, Zenon
  <1>2. CASE vm_run
    BY <1>2, RunKeeps, Zenon
  <1>3. CASE UNCHANGED mvars
    <2>0. GuestInv /\ GuestTypes /\ WorkerTypes /\ CountExact /\ vm \in VmState
      BY Zenon DEF MachineInv, GuestInv, GuestTypes
    <2>1. UNCHANGED <<tpc, plan, dev, guest, kcpu, lock, running, hw, ctl, vm, wk>>
      BY <1>3, Zenon DEF mvars
    <2>2. GuestInv'
      BY <2>0, <2>1, GuestStays, Zenon
    <2>3. /\ Cores' = Cores /\ (\A k : CoreThreads(k)' = CoreThreads(k))
          /\ LiveSet(hw)' = LiveSet(hw) /\ Finishing(wk)' = Finishing(wk)
      BY <2>1, Zenon DEF Cores, CoreThreads, LiveSet, Finishing
    <2>4. WorkerTypes'
      BY <2>0, <2>1, <2>3, Zenon DEF WorkerTypes, WorkerState
    <2>5. CountExact'
      BY <2>0, <2>1, <2>3, Zenon DEF CountExact, Counted, StopsOnlyWhenIdle, WorkerExact, WaitExact
    <2> QED
      BY <2>2, <2>4, <2>5, Zenon DEF MachineInv
  <1> QED
    BY <1>1, <1>2, <1>3, Zenon DEF MachineNext

(* The machine starts in the invariant. *)
LEMMA MachineStarts ==
    MachineInit /\ ctl = [c \in CPUs |-> {}] => MachineInv
  <1> SUFFICES ASSUME MachineInit, ctl = [c \in CPUs |-> {}] PROVE MachineInv
    BY Zenon
  <1>1. vm \in VmState /\ ~vm.stop /\ vm.active = 1
    BY DEF MachineInit, VmState
  <1>2. PICK p \in {"kernel", "restart"}, e \in {"HALT", "SHUTDOWN", "WARM_RESET"} : plan = [program |-> p, end |-> e]
    BY Zenon DEF MachineInit
  <1>3. Boots
    BY <1>1, <1>2, Zenon DEF Boots, MachineInit
  <1> QED
    BY <1>3, BootsExactly, Zenon

(* The inductive invariant of the machine, for any number of processors,   *)
(* arranged as threads of one core or as cores of one thread: the host's   *)
(* count of active processors is exact, and what the place of each         *)
(* processor in the kernel says of its state, its lock, its interrupts and *)
(* the progress of the boot is true.                                       *)
THEOREM MachineInvariant == MachineSpec => []MachineInv
  BY MachineStarts, MachineStep, PTL DEF MachineSpec

(* The last host thread to finish a processor stops the machine only when  *)
(* no processor is left alive: a START that races with the end of the last *)
(* processor is counted before the end is decided (vm.c,                   *)
(* finish_hardware_thread, and START in core_control.c).                   *)
THEOREM StopsIdle == MachineSpec => []StopsOnlyWhenIdle
  <1>1. MachineInv => StopsOnlyWhenIdle
    BY Zenon DEF MachineInv, CountExact
  <1> QED
    BY <1>1, MachineInvariant, PTL

(* A secondary that sleeps in WAIT has published WAITING before it looked  *)
(* for work, so that whoever makes work ready later sees it and interrupts *)
(* it (kernel_smp_idle_enter and kernel_smp_ipi_interrupt).                *)
THEOREM NoLostWakeup == MachineSpec => []SleepsAfterLooking
  <1>1. MachineInv => SleepsAfterLooking
    <2> SUFFICES ASSUME MachineInv, NEW c \in CPUs, hw[c].state = "WAITING", kcpu[c].stack # "lost"
                 PROVE  kcpu[c].state = "WAITING"
      BY Zenon DEF SleepsAfterLooking
    <2>1. Idle(hw[c], guest[c], kcpu[c])
      BY Zenon DEF MachineInv, GuestInv, ProcExact, Exact
    <2> QED
      BY <2>1, Zenon DEF Idle, Live
  <1> QED
    BY <1>1, MachineInvariant, PTL

(* A processor that lives has a kernel stack, on every path of the boot    *)
(* and of the shutdown, commands refused and polls run out included:       *)
(* smp_start_secondary allocates it before START, and the shutdown frees   *)
(* it only when the processor is reported halted. There is one exception:  *)
(* smp_start_secondary, when the start fails, frees the stack whatever     *)
(* smp_wait_for_halted returns. If the processor lives then, its stop has  *)
(* been requested, and stays so until it halts.                            *)
THEOREM StackAllocated == MachineSpec => []StackWhileLive
  <1>1. MachineInv => StackWhileLive
    BY Zenon DEF MachineInv, GuestInv
  <1> QED
    BY <1>1, MachineInvariant, PTL

=============================================================================
