--------------------------- MODULE KernelVfsCalls ---------------------------
(***************************************************************************)
(* Lemmas about the calls of KernelVfs, for KernelVfsProofs.               *)
(*                                                                         *)
(* A call is one step from a wakeup to the next sleep, and runs through    *)
(* several functions of vfs.c and syscall.c.  Each function has a lemma    *)
(* over any state s, so that the lemmas follow the calls.  Between steps   *)
(* the state is Good; inside a step it is Entering before the gate and     *)
(* Holding after it.  A thread that spins stops the machine: such a state  *)
(* is only Sound, and no step leaves it.                                   *)
(*                                                                         *)
(* This module has the state, the counts, the gate and the calls up to     *)
(* their first sleep.                                                      *)
(***************************************************************************)
EXTENDS KernelVfs, FiniteSetTheorems, SequenceTheorems, TLAPS

(* The types of the parts of a state. *)
Tags == {TagOf[t] : t \in Threads} \cup {0}
FileState == [ref : Nat, path : Paths \cup {None}, size : 0 .. MaxSize,
              offset : 0 .. MaxSize, mode : Modes \cup {{}}, lock : BOOLEAN]
ThreadState == [pc : {"user", "gate", "woken", "refused", "io", "spin"},
                call : {"none", "read", "write", "seek", "fsync", "open", "close"},
                file : Files \cup {None}, path : Paths \cup {None},
                mode : Modes \cup {{}}, n : 0 .. MaxChunks + MaxSize]
Tabled == [Tables -> [Fds -> Files \cup {None}]]
Volume == {d \in [Paths -> Seq(Tags)] : \A p \in Paths : Len(d[p]) <= MaxSize}

VfsState == [data : Volume, file : [Files -> FileState], fds : Tabled, gate : BOOLEAN,
             waiters : Seq(Threads), th : [Threads -> ThreadState]]

(* The descriptors and the calls that point to a file. *)
Slots(fds, f) == {x \in Tables \X Fds : fds[x[1]][x[2]] = f}
Calls(th, f) == {t \in Threads : th[t].file = f}

(* A file counts who points to it, and is freed when nobody does. *)
CountsExact(s) ==
    \A f \in Files :
        /\ s.file[f].ref = Cardinality(Slots(s.fds, f)) + Cardinality(Calls(s.th, f))
        /\ IF s.file[f].ref = 0 THEN s.file[f] = Freed ELSE s.file[f].path \in Paths

(* An open file without one of its references. *)
Dropped(F) == IF F.ref = 1 THEN Freed ELSE [F EXCEPT !.ref = F.ref - 1]

(* An open file with one more. *)
Shared(F) == [F EXCEPT !.ref = F.ref + 1]

(* A call that the kernel has accepted. *)
Request(c) ==
    /\ c \in ThreadState
    /\ \/ c.call \in {"read", "write", "fsync"} /\ c.file \in Files
       \/ c.call = "seek" /\ c.file \in Files /\ c.n <= MaxSize
       \/ c.call = "open" /\ c.file = None /\ c.path \in Paths

(* A call between two steps, or none. *)
AtRest(c) ==
    \/ c = User
    \/ Request(c) /\ c.pc \in {"gate", "woken", "refused"}
    \/ Request(c) /\ c.pc = "io" /\ c.call # "seek" /\ (c.call \in {"read", "write"} => c.n > 0)

(* Thread t is in queue q; a queue without repetition. *)
Among(q, t) == \E i \in 1 .. Len(q) : q[i] = t
Distinct(q) == \A i, j \in 1 .. Len(q) : q[i] = q[j] => i = j

(* Every thread that sleeps in the gate is queued, once. *)
QueueExact(s) ==
    /\ Distinct(s.waiters)
    /\ \A t \in Threads : s.th[t].pc = "gate" <=> Among(s.waiters, t)

(* The gate belongs to the thread in I/O, and so does the lock of a file.  *)
GateExact(s) ==
    /\ \A t, u \in Threads : s.th[t].pc = "io" /\ s.th[u].pc = "io" => t = u
    /\ s.gate <=> \E t \in Threads : s.th[t].pc = "io"
    /\ \A f \in Files : s.file[f].lock <=>
          \E t \in Threads : s.th[t].pc = "io" /\ s.th[t].file = f /\ s.th[t].call # "fsync"

(* A state in which no thread spins. *)
Good(s) ==
    /\ s \in VfsState /\ CountsExact(s) /\ QueueExact(s) /\ GateExact(s)
    /\ \A t \in Threads : AtRest(s.th[t])
    /\ ~s.gate /\ s.waiters # <<>> => \E t \in Threads : s.th[t].pc = "woken"

(* Thread t is about to take the gate. *)
Entering(s, t) ==
    /\ s \in VfsState /\ CountsExact(s) /\ QueueExact(s) /\ GateExact(s)
    /\ \A u \in Threads \ {t} : AtRest(s.th[u])
    /\ Request(s.th[t]) /\ s.th[t].pc \in {"user", "woken"}

(* Thread t runs with the gate, and no file is locked. *)
Holding(s, t) ==
    /\ s \in VfsState /\ CountsExact(s) /\ QueueExact(s) /\ s.gate
    /\ \A u \in Threads \ {t} : AtRest(s.th[u]) /\ s.th[u].pc # "io"
    /\ Request(s.th[t]) /\ s.th[t].pc \in {"user", "woken", "io"}
    /\ \A f \in Files : ~s.file[f].lock

(* Thread t starts its I/O in state s: r has its file locked. *)
LocksItsFile(r, s, t) ==
    \A g \in Files : /\ r.file[g].ref = s.file[g].ref /\ r.file[g].path = s.file[g].path
                     /\ s.file[g].ref = 0 => r.file[g] = s.file[g]
                     /\ r.file[g].lock <=> g = s.th[t].file /\ s.th[t].call # "fsync"

(* From state s to state r, thread t takes a reference to file f. *)
TakesReference(r, s, t, f) ==
    /\ s.th[t].file = None /\ r.th[t].file = f
    /\ \A u \in Threads \ {t} : r.th[u].file = s.th[u].file
    /\ \A g \in Files : r.file[g] = IF g = f THEN Shared(s.file[f]) ELSE s.file[g]

(* From state s to state r, file f changes and is left unlocked. *)
Unlocks(r, s, f) ==
    \A g \in Files : /\ r.file[g].ref = s.file[g].ref /\ r.file[g].path = s.file[g].path
                     /\ g # f => r.file[g] = s.file[g]
                     /\ g = f => ~r.file[g].lock

(* The counts of state s, against the slots of state r: a thread that      *)
(* spins in close (c) may not have dropped its reference.                  *)
RefsOwed(r, s, c) ==
    \A f \in Files :
        LET n == Cardinality(Slots(r.fds, f)) + Cardinality(Calls(s.th, f))
        IN  s.file[f].ref = n \/ (c.call = "close" /\ s.file[f].ref = n + 1)

(* What RefsExact and GateSound say, of any state. *)
Sound(s) ==
    /\ s \in VfsState
    /\ \A f \in Files :
          LET closing == {t \in Threads : s.th[t].call = "close"}
              n == Cardinality(Slots(s.fds, f)) + Cardinality(Calls(s.th, f))
          IN  /\ s.file[f].ref >= n /\ s.file[f].ref <= n + Cardinality(closing)
              /\ s.file[f].ref = 0 <=> s.file[f] = Freed
    /\ QueueExact(s) /\ GateExact(s)
    /\ ~s.gate /\ s.waiters # <<>> => \E t \in Threads : s.th[t].pc = "woken"

(* The inductive invariant.  Nobody moves once a thread spins. *)
VfsInv == Sound(v) /\ (Spinning(v) \/ Good(v))

--------------------------------------------------------------------------------

(* There are finitely many descriptor tables and descriptors. *)
LEMMA TablesFinite == IsFiniteSet(Tables) /\ IsFiniteSet(Tables \X Fds)
  <1> DEFINE F == [t \in Threads |-> TableOf[t]]
  <1>1. F \in Surjection(Threads, Tables)
    BY DEF Surjection, Tables
  <1>2. IsFiniteSet(Tables)
    BY <1>1, FS_Surjection, VfsAssumption
  <1> QED
    BY <1>2, FS_Product, VfsAssumption

(* Finitely many descriptors and calls point to a file, so that they can   *)
(* be counted.                                                             *)
LEMMA PointersFinite ==
    ASSUME NEW fds, NEW th, NEW f
    PROVE  /\ IsFiniteSet(Slots(fds, f)) /\ Cardinality(Slots(fds, f)) \in Nat
           /\ IsFiniteSet(Calls(th, f)) /\ Cardinality(Calls(th, f)) \in Nat
  <1>1. Slots(fds, f) \in SUBSET (Tables \X Fds) /\ Calls(th, f) \in SUBSET Threads
    BY DEF Slots, Calls
  <1>2. IsFiniteSet(Slots(fds, f)) /\ IsFiniteSet(Calls(th, f))
    BY <1>1, FS_Subset, TablesFinite, VfsAssumption
  <1> QED
    BY <1>2, FS_CardinalityType

(* One call less that points to a file is one less in the count.           *)
LEMMA CallGoes ==
    ASSUME NEW a, NEW b, NEW f, NEW t, Calls(a, f) = Calls(b, f) \cup {t}, t \notin Calls(b, f)
    PROVE  Cardinality(Calls(a, f)) = Cardinality(Calls(b, f)) + 1
  BY FS_AddElement, PointersFinite

(* One descriptor less that points to a file is one less in the count.     *)
LEMMA SlotGoes ==
    ASSUME NEW a, NEW b, NEW f, NEW x, Slots(a, f) = Slots(b, f) \cup {x}, x \notin Slots(b, f)
    PROVE  Cardinality(Slots(a, f)) = Cardinality(Slots(b, f)) + 1
  BY FS_AddElement, PointersFinite

(* The calls that point to a file depend on the file fields of the threads *)
(* alone.                                                                  *)
LEMMA SameCalls ==
    ASSUME NEW a, NEW b, NEW f, \A u \in Threads : a[u].file = f <=> b[u].file = f
    PROVE  Calls(a, f) = Calls(b, f)
  BY DEF Calls

(* A waiter that is woken for another reason leaves the queue, and the     *)
(* others stay in it once (kernel_list_remove in scheduler_detach_wait).   *)
LEMMA QueueWithout ==
    ASSUME NEW q \in Seq(Threads), NEW i \in 1 .. Len(q), Distinct(q)
    PROVE  /\ Without(q, i) \in Seq(Threads) /\ Distinct(Without(q, i))
           /\ \A t : Among(Without(q, i), t) <=> Among(q, t) /\ t # q[i]
  <1> DEFINE w == Without(q, i)
  <1>1. /\ w \in Seq(Threads) /\ Len(w) = Len(q) - 1 /\ Len(q) \in Nat \ {0}
        /\ \A j \in 1 .. Len(q) - 1 : w[j] = IF j < i THEN q[j] ELSE q[j + 1]
    <2>1. Len(q) \in Nat \ {0} /\ \A j \in 1 .. Len(q) : q[j] \in Threads
      OBVIOUS
    <2>2. w \in [1 .. Len(q) - 1 -> Threads]
      BY <2>1 DEF Without
    <2> QED
      BY <2>1, <2>2 DEF Without
  <1> HIDE DEF w
  <1>2. Distinct(w)
    BY <1>1 DEF Distinct
  <1>3. ASSUME NEW t, Among(w, t) PROVE Among(q, t) /\ t # q[i]
    <2>1. PICK j \in 1 .. Len(w) : w[j] = t
      BY <1>3 DEF Among
    <2>2. PICK k \in 1 .. Len(q) : q[k] = t /\ k # i
      BY <1>1, <2>1
    <2> QED
      BY <2>2 DEF Among, Distinct
  <1>4. ASSUME NEW t, Among(q, t), t # q[i] PROVE Among(w, t)
    <2>1. PICK k \in 1 .. Len(q) : q[k] = t
      BY <1>4 DEF Among
    <2>2. k # i
      BY <2>1, <1>4
    <2>3. CASE k < i
      BY <2>1, <2>3, <1>1 DEF Among
    <2>4. CASE k > i
      <3>1. k - 1 \in 1 .. Len(w) /\ w[k - 1] = t
        BY <2>1, <2>4, <1>1
      <3> QED
        BY <3>1 DEF Among
    <2> QED
      BY <2>2, <2>3, <2>4
  <1> QED
    BY <1>1, <1>2, <1>3, <1>4 DEF w

(* wake_one takes the first waiter off the queue, and the others stay in   *)
(* it once.                                                                *)
LEMMA QueueTail ==
    ASSUME NEW q \in Seq(Threads), q # <<>>, Distinct(q)
    PROVE  /\ Tail(q) \in Seq(Threads) /\ Distinct(Tail(q))
           /\ Head(q) \in Threads /\ Among(q, Head(q))
           /\ \A t : Among(Tail(q), t) <=> Among(q, t) /\ t # Head(q)
  <1>1. /\ Tail(q) \in Seq(Threads) /\ Head(q) \in Threads /\ Len(Tail(q)) = Len(q) - 1
        /\ \A i \in 1 .. Len(Tail(q)) : Tail(q)[i] = q[i+1]
        /\ Len(q) \in Nat \ {0} /\ Head(q) = q[1]
    BY HeadTailProperties, EmptySeq
  <1>2. Distinct(Tail(q))
    BY <1>1 DEF Distinct
  <1>3. Among(q, Head(q))
    BY <1>1 DEF Among
  <1>4. ASSUME NEW t, Among(Tail(q), t) PROVE Among(q, t) /\ t # Head(q)
    BY <1>1, <1>4 DEF Among, Distinct
  <1>5. ASSUME NEW t, Among(q, t), t # Head(q) PROVE Among(Tail(q), t)
    <2>1. PICK i \in 1 .. Len(q) : q[i] = t
      BY <1>5 DEF Among
    <2>2. i - 1 \in 1 .. Len(Tail(q)) /\ Tail(q)[i - 1] = t
      BY <2>1, <1>1, <1>5
    <2> QED
      BY <2>2 DEF Among
  <1> QED
    BY <1>1, <1>2, <1>3, <1>4, <1>5

(* A thread that starts to wait is in the queue once, with those before    *)
(* it.                                                                     *)
LEMMA QueueAppend ==
    ASSUME NEW q \in Seq(Threads), NEW t \in Threads, Distinct(q), ~Among(q, t)
    PROVE  /\ Append(q, t) \in Seq(Threads) /\ Distinct(Append(q, t)) /\ Append(q, t) # <<>>
           /\ \A u : Among(Append(q, t), u) <=> Among(q, u) \/ u = t
  <1>1. /\ Append(q, t) \in Seq(Threads) /\ Len(Append(q, t)) = Len(q) + 1 /\ Len(q) \in Nat
        /\ \A i \in 1 .. Len(q) : Append(q, t)[i] = q[i]
        /\ Append(q, t)[Len(q) + 1] = t
    OBVIOUS
  <1>2. Distinct(Append(q, t))
    BY <1>1 DEF Distinct, Among
  <1>3. ASSUME NEW u PROVE Among(Append(q, t), u) <=> Among(q, u) \/ u = t
    BY <1>1 DEF Among
  <1> QED
    BY <1>1, <1>2, <1>3

--------------------------------------------------------------------------------

(* kernel_vfs_file_release: a reference less, and a freed block when it    *)
(* was the last.                                                           *)
LEMMA Released ==
    ASSUME NEW F \in FileState, F.ref > 0
    PROVE  /\ Dropped(F) \in FileState /\ Dropped(F).ref = F.ref - 1
           /\ Dropped(F).ref = 0 => Dropped(F) = Freed
           /\ Dropped(F).ref # 0 => Dropped(F).path = F.path
           /\ ~F.lock => ~Dropped(F).lock
  <1>1. CASE F.ref = 1
    BY <1>1, VfsAssumption DEF Dropped, FileState, Freed
  <1>2. CASE F.ref # 1
    <2>1. Dropped(F) = [F EXCEPT !.ref = F.ref - 1]
      BY <1>2 DEF Dropped
    <2>2. F.ref - 1 \in Nat /\ F.ref - 1 # 0
      BY <1>2 DEF FileState
    <2> QED
      BY <2>1, <2>2 DEF FileState
  <1> QED
    BY <1>1, <1>2

(* kernel_fd_acquire: a reference more, and nothing else of the file       *)
(* changes.                                                                *)
LEMMA Acquired ==
    ASSUME NEW F \in FileState
    PROVE  /\ Shared(F) \in FileState /\ Shared(F).ref = F.ref + 1 /\ Shared(F).ref # 0
           /\ Shared(F).path = F.path /\ Shared(F).lock = F.lock
  <1>1. F.ref \in Nat
    BY DEF FileState
  <1>2. F.ref + 1 \in Nat /\ F.ref + 1 # 0
    BY <1>1
  <1> QED
    BY <1>2 DEF Shared, FileState

(* A state is made of its six parts. *)
LEMMA StateType ==
    ASSUME NEW data \in Volume, NEW file \in [Files -> FileState], NEW fds \in Tabled, NEW gate \in BOOLEAN,
           NEW waiters \in Seq(Threads), NEW th \in [Threads -> ThreadState]
    PROVE  [data |-> data, file |-> file, fds |-> fds, gate |-> gate, waiters |-> waiters,
            th |-> th] \in VfsState
  BY DEF VfsState

(* What a volume holds of a path. *)
LEMMA FileData ==
    ASSUME NEW d \in Volume, NEW p \in Paths
    PROVE  d[p] \in Seq(Tags) /\ Len(d[p]) \in Nat /\ Len(d[p]) \in 0 .. MaxSize
  BY VfsAssumption DEF Volume

(* The queue stays exact while the threads and the waiters stay. *)
LEMMA QueueStays ==
    ASSUME NEW s, QueueExact(s), NEW r, r.th = s.th, r.waiters = s.waiters
    PROVE  QueueExact(r)
  BY DEF QueueExact

(* A thread that moves in its call stays in the same call on the same      *)
(* file.                                                                   *)
LEMMA Moves ==
    ASSUME NEW c \in ThreadState, NEW p \in {"user", "gate", "woken", "refused", "io", "spin"}
    PROVE  /\ [c EXCEPT !.pc = p] \in ThreadState
           /\ [c EXCEPT !.pc = p].pc = p
           /\ [c EXCEPT !.pc = p].call = c.call /\ [c EXCEPT !.pc = p].file = c.file
           /\ [c EXCEPT !.pc = p].path = c.path /\ [c EXCEPT !.pc = p].mode = c.mode
           /\ [c EXCEPT !.pc = p].n = c.n
  BY DEF ThreadState

(* A call that holds a file keeps its count above zero. *)
LEMMA CallCounts ==
    ASSUME NEW s, NEW t \in Threads, CountsExact(s), s.th[t].file \in Files
    PROVE  s.file[s.th[t].file].ref > 0
  <1> DEFINE f == s.th[t].file
  <1>1. t \in Calls(s.th, f)
    BY DEF Calls
  <1>2. Cardinality(Calls(s.th, f)) # 0
    BY <1>1, FS_EmptySet, PointersFinite
  <1> QED
    BY <1>2, PointersFinite DEF CountsExact

(* The end of a call: with the gate released, the first waiter woken and   *)
(* the reference dropped, the state is good again.                         *)
LEMMA LeaveKeeps ==
    ASSUME NEW s, NEW t \in Threads, Holding(s, t)
    PROVE  Good(Leave(s, t))
  <1> DEFINE w == s.waiters
             f == s.th[t].file
             r == Leave(s, t)
             th1 == IF w = <<>> THEN s.th ELSE [s.th EXCEPT ![Head(w)].pc = "woken"]
             rel == Dropped(s.file[f])
  <1>1. s \in VfsState /\ s.th \in [Threads -> ThreadState] /\ w \in Seq(Threads) /\ f \in Files \cup {None}
    BY DEF Holding, VfsState, ThreadState
  <1>2. w # <<>> => /\ Tail(w) \in Seq(Threads) /\ Distinct(Tail(w)) /\ Head(w) \in Threads
                    /\ Head(w) # t /\ s.th[Head(w)].pc = "gate"
                    /\ \A u : Among(Tail(w), u) <=> Among(w, u) /\ u # Head(w)
    BY <1>1, QueueTail DEF Holding, QueueExact
  <1>3. r = [data |-> s.data, file |-> IF f = None THEN s.file ELSE [s.file EXCEPT ![f] = rel],
             fds |-> s.fds, gate |-> FALSE, waiters |-> IF w = <<>> THEN <<>> ELSE Tail(w),
             th |-> [th1 EXCEPT ![t] = User]]
    <2>1. s = [data |-> s.data, file |-> s.file, fds |-> s.fds, gate |-> s.gate, waiters |-> w, th |-> s.th]
      BY <1>1 DEF VfsState
    <2>2. GateUnlock(s) = [data |-> s.data, file |-> s.file, fds |-> s.fds, gate |-> FALSE,
                           waiters |-> IF w = <<>> THEN <<>> ELSE Tail(w), th |-> th1]
      BY <2>1, Zenon DEF GateUnlock
    <2>3. th1[t] = s.th[t]
      BY <1>1, <1>2
    <2>4. GateUnlock(s).th[t].file = f /\ GateUnlock(s).file = s.file
      BY <2>2, <2>3
    <2> HIDE DEF th1
    <2> DEFINE u == GateUnlock(s)
    <2>3a. u.file = s.file /\ u.th = th1
      BY <2>2
    <2>2b. u = [data |-> s.data, file |-> s.file, fds |-> s.fds, gate |-> FALSE,
                           waiters |-> IF w = <<>> THEN <<>> ELSE Tail(w), th |-> th1]
      BY <2>2
    <2> HIDE DEF u
    <2>5a. FileRelease(u, f) = [u EXCEPT !.file = [s.file EXCEPT ![f] = rel]]
      BY <2>3a DEF FileRelease, Dropped
    <2> HIDE DEF rel
    <2>5. FileRelease(u, f) = [data |-> s.data, file |-> [s.file EXCEPT ![f] = rel], fds |-> s.fds,
                               gate |-> FALSE,
                               waiters |-> IF w = <<>> THEN <<>> ELSE Tail(w), th |-> th1]
      BY <2>5a, <2>2b, Zenon
    <2>6. r = [(IF f = None THEN u ELSE FileRelease(u, f)) EXCEPT !.th[t] = User]
      BY <2>4 DEF Leave, Return, u
    <2>7. CASE f = None
      <3>1. r = [u EXCEPT !.th = [th1 EXCEPT ![t] = User]]
        BY <2>6, <2>7, <2>3a
      <3> HIDE DEF r
      <3> QED
        BY <3>1, <2>2b, <2>7, Zenon
    <2>8. CASE f # None
      <3> DEFINE q == FileRelease(u, f)
      <3>0. q.th = th1
        BY <2>5
      <3>3. q = [data |-> s.data, file |-> [s.file EXCEPT ![f] = rel], fds |-> s.fds, gate |-> FALSE,
                               waiters |-> IF w = <<>> THEN <<>> ELSE Tail(w), th |-> th1]
        BY <2>5
      <3>1. r = [q EXCEPT !.th[t] = User]
        BY <2>6, <2>8
      <3> HIDE DEF r, q
      <3>2. r = [q EXCEPT !.th = [th1 EXCEPT ![t] = User]]
        BY <3>1, <3>0
      <3> QED
        BY <3>2, <3>3, <2>8, Zenon
    <2> QED
      BY <2>7, <2>8
  <1>4. th1 \in [Threads -> ThreadState]
    <2>1. w # <<>> => [s.th[Head(w)] EXCEPT !.pc = "woken"] \in ThreadState
      BY <1>1, <1>2, Moves, Zenon
    <2> QED
      BY <1>1, <1>2, <2>1
  <1>4a. \A u \in Threads :
           th1[u] = IF w # <<>> /\ u = Head(w) THEN [s.th[u] EXCEPT !.pc = "woken"] ELSE s.th[u]
    BY <1>1, <1>2
  <1>4d. ASSUME NEW u \in Threads
         PROVE  /\ th1[u].file = s.th[u].file /\ th1[u].call = s.th[u].call
                /\ th1[u].path = s.th[u].path /\ th1[u].n = s.th[u].n
                /\ th1[u].pc = IF w # <<>> /\ u = Head(w) THEN "woken" ELSE s.th[u].pc
    <2>1. s.th[u] \in ThreadState
      BY <1>1
    <2> HIDE DEF th1
    <2> QED
      BY <2>1, <1>4a, Zenon DEF ThreadState
  <1> HIDE DEF th1
  <1>4b. User \in ThreadState
    BY VfsAssumption DEF User, ThreadState
  <1>4c. /\ r.th \in [Threads -> ThreadState] /\ r.th[t] = User
         /\ \A u \in Threads \ {t} : r.th[u] = th1[u]
    BY <1>3, <1>4, <1>4b
  <1>5. /\ f \in Files => r.file[f] = rel
        /\ \A g \in Files \ {f} : r.file[g] = s.file[g]
    BY <1>1, <1>3, VfsAssumption DEF VfsState
  <1>6. /\ r.data = s.data /\ r.fds = s.fds /\ r.gate = FALSE
        /\ r.waiters = IF w = <<>> THEN <<>> ELSE Tail(w)
    BY <1>3
  <1>6a. f # None => s.file[f].ref > 0
    BY <1>1, CallCounts DEF Holding
  <1>8. r \in VfsState
    <2>2. \A g \in Files : s.file[g] \in FileState
      BY <1>1 DEF VfsState
    <2>3. f # None => rel \in FileState
      <3> SUFFICES ASSUME f \in Files PROVE rel \in FileState
        BY <1>1
      <3>1. s.file[f] \in FileState /\ s.file[f].ref > 0
        BY <1>6a, <2>2, VfsAssumption
      <3> QED
        BY <3>1, Released
    <2> HIDE DEF rel
    <2>4. (IF f = None THEN s.file ELSE [s.file EXCEPT ![f] = rel]) \in [Files -> FileState]
      BY <1>1, <2>3 DEF VfsState
    <2>5. (IF w = <<>> THEN <<>> ELSE Tail(w)) \in Seq(Threads)
      BY <1>1, <1>2
    <2>6. r.th \in [Threads -> ThreadState] /\ s.data \in Volume /\ s.fds \in Tabled
      BY <1>1, <1>4c DEF VfsState
    <2>7. r = [data |-> s.data, file |-> r.file, fds |-> s.fds, gate |-> FALSE, waiters |-> r.waiters,
               th |-> r.th]
      BY <1>3
    <2>8. r.file \in [Files -> FileState] /\ r.waiters \in Seq(Threads)
      BY <1>3, <2>4, <2>5
    <2> HIDE DEF r
    <2> QED
      BY <2>6, <2>7, <2>8, StateType, Zenon
  <1> HIDE DEF r
  <1>7. CountsExact(r)
    <2> SUFFICES ASSUME NEW g \in Files
                 PROVE  /\ r.file[g].ref = Cardinality(Slots(r.fds, g)) + Cardinality(Calls(r.th, g))
                        /\ IF r.file[g].ref = 0 THEN r.file[g] = Freed ELSE r.file[g].path \in Paths
      BY DEF CountsExact
    <2>1. \A u \in Threads \ {t} : r.th[u].file = s.th[u].file
      BY <1>4c, <1>4d
    <2>2. r.th[t].file = None
      BY <1>4c DEF User
    <2>3. /\ s.file[g].ref = Cardinality(Slots(r.fds, g)) + Cardinality(Calls(s.th, g))
          /\ IF s.file[g].ref = 0 THEN s.file[g] = Freed ELSE s.file[g].path \in Paths
      BY <1>6 DEF Holding, CountsExact
    <2>4. CASE g # f
      <3>1. Calls(r.th, g) = Calls(s.th, g)
        BY <2>1, <2>2, <2>4, SameCalls, VfsAssumption
      <3> QED
        BY <3>1, <2>3, <2>4, <1>5
    <2>5. CASE g = f
      <3>1. Cardinality(Calls(s.th, g)) = Cardinality(Calls(r.th, g)) + 1
        <4>1. s.th[t].file = g /\ r.th[t].file # g
          BY <2>2, <2>5, VfsAssumption
        <4>2. \A u \in Threads \ {t} : s.th[u].file = g <=> r.th[u].file = g
          BY <2>1
        <4>3. Calls(s.th, g) = Calls(r.th, g) \cup {t} /\ t \notin Calls(r.th, g)
          BY <4>1, <4>2 DEF Calls
        <4> QED
          BY <4>3, CallGoes
      <3>2. r.file[g] = rel /\ s.file[g] \in FileState
        BY <1>1, <1>5, <2>5 DEF VfsState
      <3>3. /\ r.file[g].ref = s.file[g].ref - 1 /\ (r.file[g].ref # 0 => r.file[g].path = s.file[g].path)
            /\ r.file[g].ref = 0 => r.file[g] = Freed
        BY <3>2, <2>5, <1>6a, Released, VfsAssumption, Zenon
      <3> HIDE DEF rel
      <3> QED
        BY <3>1, <3>2, <3>3, <2>3, PointersFinite DEF FileState
    <2> QED
      BY <2>4, <2>5
  <1>9. QueueExact(r)
    <2>1. Distinct(r.waiters)
      BY <1>2, <1>6 DEF Holding, QueueExact
    <2>2. ASSUME NEW u \in Threads \ {t} PROVE r.th[u].pc = "gate" <=> Among(r.waiters, u)
      <3>1. s.th[u].pc = "gate" <=> Among(w, u)
        BY DEF Holding, QueueExact
      <3>2. r.th[u].pc = IF w # <<>> /\ u = Head(w) THEN "woken" ELSE s.th[u].pc
        BY <1>4c, <1>4d
      <3> QED
        BY <3>1, <3>2, <1>2, <1>6
    <2>3. r.th[t].pc # "gate" /\ ~Among(r.waiters, t)
      BY <1>2, <1>4c, <1>6 DEF Holding, QueueExact, User
    <2> QED
      BY <2>1, <2>2, <2>3 DEF QueueExact
  <1>10. \A u \in Threads : AtRest(r.th[u]) /\ r.th[u].pc # "io"
    <2>1. ASSUME NEW u \in Threads \ {t}, w # <<>>, u = Head(w) PROVE AtRest(r.th[u]) /\ r.th[u].pc # "io"
      <3>1. Request(s.th[u]) /\ s.th[u] \in ThreadState
        BY <1>1, <1>2, <2>1 DEF Holding, AtRest, User
      <3>2. r.th[u] = [s.th[u] EXCEPT !.pc = "woken"]
        BY <1>4a, <1>4c, <2>1
      <3>3. Request(r.th[u]) /\ r.th[u].pc = "woken"
        <4>1. r.th[u] \in ThreadState
          BY <1>4c
        <4>2. r.th[u].file = s.th[u].file /\ r.th[u].call = s.th[u].call /\ r.th[u].path = s.th[u].path
              /\ r.th[u].n = s.th[u].n /\ r.th[u].pc = "woken"
          BY <1>4c, <1>4d, <2>1
        <4> QED
          BY <3>1, <4>1, <4>2 DEF Request
      <3> QED
        BY <3>3 DEF AtRest
    <2>2. ASSUME NEW u \in Threads \ {t}, ~(w # <<>> /\ u = Head(w))
          PROVE  AtRest(r.th[u]) /\ r.th[u].pc # "io"
      BY <1>4a, <1>4c, <2>2, Zenon DEF Holding
    <2>3. AtRest(r.th[t]) /\ r.th[t].pc # "io"
      BY <1>4c DEF AtRest, User
    <2> QED
      BY <2>1, <2>2, <2>3
  <1>11. GateExact(r)
    <2>1. \A g \in Files : ~r.file[g].lock
      <3> SUFFICES ASSUME NEW g \in Files PROVE ~r.file[g].lock
        OBVIOUS
      <3>1. ~s.file[g].lock /\ s.file[g] \in FileState
        BY <1>1 DEF Holding, VfsState
      <3>2. r.file[g] = IF g = f THEN rel ELSE s.file[g]
        BY <1>5
      <3> QED
        BY <3>1, <3>2, <1>6a, Released, VfsAssumption
    <2> QED
      BY <2>1, <1>6, <1>10 DEF GateExact
  <1>12. r.waiters # <<>> => \E u \in Threads : r.th[u].pc = "woken"
    BY <1>2, <1>4c, <1>4d, <1>6
  <1> QED
    BY <1>7, <1>8, <1>9, <1>10, <1>11, <1>12 DEF Good, r

(* A thread that has the gate and goes to sleep in block I/O leaves a good *)
(* state.                                                                  *)
LEMMA IoBegins ==
    ASSUME NEW s, NEW t \in Threads, Holding(s, t), NEW r \in VfsState,
           r.fds = s.fds, r.gate, r.waiters = s.waiters, r.th = [s.th EXCEPT ![t].pc = "io"],
           LocksItsFile(r, s, t),
           s.th[t].call # "seek", s.th[t].call \in {"read", "write"} => s.th[t].n > 0
    PROVE  Good(r)
  <1>1. s.th \in [Threads -> ThreadState]
    BY DEF Holding, VfsState
  <1>2. \A u \in Threads \ {t} : r.th[u] = s.th[u]
    BY <1>1
  <1>3. r.th[t] = [s.th[t] EXCEPT !.pc = "io"]
    BY <1>1
  <1>4. /\ r.th[t] \in ThreadState /\ r.th[t].pc = "io" /\ r.th[t].file = s.th[t].file
        /\ r.th[t].call = s.th[t].call
        /\ r.th[t].path = s.th[t].path /\ r.th[t].n = s.th[t].n
    <2>1. s.th[t] \in ThreadState
      BY <1>1
    <2> QED
      BY <2>1, <1>3 DEF ThreadState
  <1>5. AtRest(r.th[t])
    BY <1>4 DEF Holding, Request, AtRest
  <1>6. \A u \in Threads : AtRest(r.th[u])
    BY <1>2, <1>5 DEF Holding
  <1>7. CountsExact(r)
    <2> SUFFICES ASSUME NEW g \in Files
                 PROVE  /\ r.file[g].ref = Cardinality(Slots(r.fds, g)) + Cardinality(Calls(r.th, g))
                        /\ IF r.file[g].ref = 0 THEN r.file[g] = Freed ELSE r.file[g].path \in Paths
      BY DEF CountsExact
    <2>1. Calls(r.th, g) = Calls(s.th, g)
      BY <1>2, <1>4 DEF Calls
    <2>2. /\ s.file[g].ref = Cardinality(Slots(r.fds, g)) + Cardinality(Calls(s.th, g))
          /\ IF s.file[g].ref = 0 THEN s.file[g] = Freed ELSE s.file[g].path \in Paths
      BY DEF Holding, CountsExact
    <2> QED
      BY <2>1, <2>2 DEF LocksItsFile
  <1>8. QueueExact(r)
    BY <1>2, <1>4 DEF Holding, QueueExact
  <1>9. GateExact(r)
    <2>1. \A u \in Threads : r.th[u].pc = "io" <=> u = t
      BY <1>2, <1>4 DEF Holding
    <2> QED
      BY <2>1, <1>4 DEF GateExact, LocksItsFile
  <1> QED
    BY <1>6, <1>7, <1>8, <1>9 DEF Good

(* kernel_vfs_file_read and kernel_vfs_file_write up to their I/O lead to  *)
(* a good state.                                                           *)
LEMMA BeginTransferKeeps ==
    ASSUME NEW s, NEW t \in Threads, Holding(s, t), s.th[t].call \in {"read", "write"}
    PROVE  Good(BeginTransfer(s, t))
  <1> DEFINE f == s.th[t].file
             m == s.file[f].mode
             r == BeginTransfer(s, t)
             o == IF s.th[t].call = "write" /\ "append" \in m THEN s.file[f].size ELSE s.file[f].offset
             F == [s.file[f] EXCEPT !.lock = TRUE, !.offset = o]
  <1>1. CASE s.th[t].n = 0 \/ s.th[t].call \notin m
    BY <1>1, LeaveKeeps DEF BeginTransfer
  <1>2. CASE ~(s.th[t].n = 0 \/ s.th[t].call \notin m)
    <2>1. /\ s \in VfsState /\ s.th \in [Threads -> ThreadState] /\ s.file \in [Files -> FileState]
          /\ f \in Files /\ s.file[f] \in FileState /\ s.th[t] \in ThreadState
      BY DEF Holding, VfsState, Request
    <2>2. r = [s EXCEPT !.file[f].lock = TRUE, !.file[f].offset = o, !.th[t].pc = "io"]
      BY <1>2, <2>1 DEF BeginTransfer, FileState
    <2>3. s = [data |-> s.data, file |-> s.file, fds |-> s.fds, gate |-> s.gate, waiters |-> s.waiters,
               th |-> s.th]
      BY <2>1 DEF VfsState
    <2> HIDE DEF o, r
    <2>4. r = [data |-> s.data, file |-> [s.file EXCEPT ![f] = F], fds |-> s.fds, gate |-> s.gate,
               waiters |-> s.waiters, th |-> [s.th EXCEPT ![t].pc = "io"]]
      BY <2>1, <2>2, <2>3, Zenon
    <2>5. o \in 0 .. MaxSize
      BY <2>1, Zenon DEF o, FileState
    <2>6. /\ F \in FileState /\ F.ref = s.file[f].ref /\ F.path = s.file[f].path /\ F.lock = TRUE
      BY <2>1, <2>5, Zenon DEF FileState
    <2>7. s.file[f].ref > 0
      BY <2>1, CallCounts DEF Holding
    <2> HIDE DEF F
    <2>8. [s.file EXCEPT ![f] = F] \in [Files -> FileState]
      BY <2>1, <2>6
    <2>9. [s.th EXCEPT ![t].pc = "io"] \in [Threads -> ThreadState]
      BY <2>1, Moves, Zenon
    <2>10. s.data \in Volume /\ s.fds \in Tabled /\ s.gate \in BOOLEAN /\ s.waiters \in Seq(Threads)
      BY <2>1 DEF VfsState
    <2>11. r \in VfsState
      BY <2>4, <2>8, <2>9, <2>10, StateType, Zenon
    <2>12. \A g \in Files : r.file[g] = IF g = f THEN F ELSE s.file[g]
      BY <2>1, <2>4
    <2>13. r.fds = s.fds /\ r.gate /\ r.waiters = s.waiters /\ r.th = [s.th EXCEPT ![t].pc = "io"]
      BY <2>4 DEF Holding
    <2>14. LocksItsFile(r, s, t)
      BY <2>6, <2>7, <2>12 DEF Holding, LocksItsFile
    <2>15. s.th[t].n > 0
      BY <1>2, <2>1 DEF ThreadState
    <2> QED
      BY <2>11, <2>13, <2>14, <2>15, IoBegins DEF r
  <1> QED
    BY <1>1, <1>2

(* Whatever the call is, a thread that has the gate leads to a good state. *)
LEMMA ServeKeeps ==
    ASSUME NEW s, NEW t \in Threads, Holding(s, t)
    PROVE  Good(Serve(s, t))
  <1> DEFINE f == s.th[t].file
             n == s.th[t].n
             c == s.th[t].call
  <1>1. /\ s \in VfsState /\ s.th \in [Threads -> ThreadState] /\ s.file \in [Files -> FileState]
        /\ s.th[t] \in ThreadState /\ c \in {"read", "write", "fsync", "seek", "open"}
        /\ s.data \in Volume /\ s.fds \in Tabled /\ s.gate = TRUE /\ s.waiters \in Seq(Threads)
    BY DEF Holding, VfsState, Request
  <1>2. s = [data |-> s.data, file |-> s.file, fds |-> s.fds, gate |-> s.gate, waiters |-> s.waiters,
             th |-> s.th]
    BY <1>1 DEF VfsState
  <1>3. CASE c = "seek"
    <2> DEFINE r == [s EXCEPT !.file[f].offset = n]
               F == [s.file[f] EXCEPT !.offset = n]
    <2>1. f \in Files /\ n \in 0 .. MaxSize /\ s.file[f] \in FileState
      BY <1>1, <1>3 DEF Holding, Request, ThreadState
    <2>2. /\ F \in FileState /\ F.ref = s.file[f].ref /\ F.path = s.file[f].path /\ F.lock = s.file[f].lock
      BY <2>1, Zenon DEF FileState
    <2>3. s.file[f].ref > 0
      BY <2>1, CallCounts DEF Holding
    <2>4. r = [data |-> s.data, file |-> [s.file EXCEPT ![f] = F], fds |-> s.fds, gate |-> s.gate,
               waiters |-> s.waiters, th |-> s.th]
      BY <1>2
    <2>5. Serve(s, t) = Leave(r, t)
      BY <1>3 DEF Serve
    <2> HIDE DEF r, F
    <2>6. [s.file EXCEPT ![f] = F] \in [Files -> FileState]
      BY <1>1, <2>2, Zenon
    <2>7. r \in VfsState
      BY <1>1, <2>4, <2>6, StateType, Zenon
    <2>8. \A g \in Files : r.file[g] = IF g = f THEN F ELSE s.file[g]
      BY <1>1, <2>4
    <2>9. r.fds = s.fds /\ r.gate /\ r.waiters = s.waiters /\ r.th = s.th
      BY <1>1, <2>4
    <2>10. CountsExact(r)
      <3>1. CountsExact(s) /\ s.file[f].ref > 0
        BY <2>3 DEF Holding
      <3> QED
        BY ONLY <3>1, <2>2, <2>8, <2>9 DEF CountsExact
    <2>11. QueueExact(r)
      BY <2>9 DEF Holding, QueueExact
    <2>12. \A g \in Files : ~r.file[g].lock
      BY <2>2, <2>8 DEF Holding
    <2>13. Holding(r, t)
      BY <2>7, <2>9, <2>10, <2>11, <2>12 DEF Holding
    <2> QED
      BY <2>5, <2>13, LeaveKeeps
  <1>4. CASE c \in {"open", "fsync"}
    <2> DEFINE r == [s EXCEPT !.th[t].pc = "io"]
    <2>1. Serve(s, t) = r
      BY <1>4 DEF Serve
    <2>2. r = [data |-> s.data, file |-> s.file, fds |-> s.fds, gate |-> s.gate,
               waiters |-> s.waiters, th |-> [s.th EXCEPT ![t].pc = "io"]]
      BY <1>2
    <2> HIDE DEF r
    <2>3. [s.th EXCEPT ![t].pc = "io"] \in [Threads -> ThreadState]
      BY <1>1, Moves, Zenon
    <2>4. r \in VfsState
      BY <1>1, <2>2, <2>3, StateType, Zenon
    <2>5. /\ r.fds = s.fds /\ r.gate /\ r.waiters = s.waiters /\ r.th = [s.th EXCEPT ![t].pc = "io"]
          /\ r.file = s.file
      BY <1>1, <2>2
    <2>6. c = "fsync" \/ f = None
      BY <1>4 DEF Holding, Request
    <2>7. LocksItsFile(r, s, t)
      BY <2>5, <2>6, VfsAssumption DEF LocksItsFile, Holding
    <2>8. c # "seek" /\ ~(c \in {"read", "write"})
      BY <1>4
    <2> QED
      BY <2>1, <2>4, <2>5, <2>7, <2>8, IoBegins
  <1>5. CASE c \in {"read", "write"}
    <2>1. Serve(s, t) = BeginTransfer(s, t)
      BY <1>5 DEF Serve
    <2> QED
      BY <2>1, <1>5, BeginTransferKeeps
  <1> QED
    BY <1>1, <1>3, <1>4, <1>5

(* syscall_gate_lock, waiting or not, leads to a good state. *)
LEMMA GateLockKeeps ==
    ASSUME NEW s, NEW t \in Threads, Entering(s, t)
    PROVE  Good(GateLock(s, t))
  <1>1. /\ s \in VfsState /\ s.th \in [Threads -> ThreadState] /\ s.file \in [Files -> FileState]
        /\ s.data \in Volume /\ s.fds \in Tabled /\ s.gate \in BOOLEAN /\ s.waiters \in Seq(Threads)
        /\ s.th[t] \in ThreadState
    BY DEF Entering, VfsState
  <1>2. s = [data |-> s.data, file |-> s.file, fds |-> s.fds, gate |-> s.gate, waiters |-> s.waiters,
             th |-> s.th]
    BY <1>1 DEF VfsState
  <1>3. CASE s.gate
    <2> DEFINE q == Append(s.waiters, t)
               r == GateLock(s, t)
    <2>1. r = [data |-> s.data, file |-> s.file, fds |-> s.fds, gate |-> s.gate, waiters |-> q,
               th |-> [s.th EXCEPT ![t].pc = "gate"]]
      BY <1>2, <1>3, Zenon DEF GateLock
    <2>2. q \in Seq(Threads) /\ Distinct(q) /\ \A u : Among(q, u) <=> Among(s.waiters, u) \/ u = t
      BY <1>1, QueueAppend DEF Entering, QueueExact
    <2>3. [s.th EXCEPT ![t].pc = "gate"] \in [Threads -> ThreadState]
      BY <1>1, Moves, Zenon
    <2> HIDE DEF q, r
    <2>4. r \in VfsState
      BY <1>1, <2>1, <2>2, <2>3, StateType, Zenon
    <2>5. /\ r.fds = s.fds /\ r.gate /\ r.waiters = q /\ r.th = [s.th EXCEPT ![t].pc = "gate"]
          /\ r.file = s.file
      BY <1>3, <2>1
    <2>6. /\ \A u \in Threads \ {t} : r.th[u] = s.th[u]
          /\ r.th[t] = [s.th[t] EXCEPT !.pc = "gate"]
      BY <1>1, <2>5
    <2>7. /\ r.th[t] \in ThreadState /\ r.th[t].pc = "gate" /\ r.th[t].file = s.th[t].file
          /\ r.th[t].call = s.th[t].call /\ r.th[t].path = s.th[t].path /\ r.th[t].n = s.th[t].n
      BY <1>1, <2>6, Zenon DEF ThreadState
    <2>8. \A u \in Threads : AtRest(r.th[u])
      <3>1. Request(r.th[t])
        BY <2>7 DEF Entering, Request
      <3>2. AtRest(r.th[t])
        BY <2>7, <3>1 DEF AtRest
      <3> QED
        BY <2>6, <3>2 DEF Entering
    <2>9. \A g : Calls(r.th, g) = Calls(s.th, g)
      BY <2>6, <2>7, Zenon DEF Calls
    <2>10. CountsExact(r)
      BY <2>5, <2>9 DEF Entering, CountsExact
    <2>11. QueueExact(r)
      BY <2>2, <2>5, <2>6, <2>7 DEF Entering, QueueExact
    <2>12. GateExact(r)
      <3>1. \A u \in Threads : /\ r.th[u].pc = "io" <=> s.th[u].pc = "io"
                               /\ r.th[u].file = s.th[u].file /\ r.th[u].call = s.th[u].call
        BY <2>6, <2>7, Zenon DEF Entering
      <3> QED
        BY <3>1, <2>5, <1>3 DEF Entering, GateExact
    <2> QED
      BY <2>4, <2>5, <2>8, <2>10, <2>11, <2>12 DEF Good, r
  <1>4. CASE ~s.gate
    <2> DEFINE r == [s EXCEPT !.gate = TRUE]
    <2>1. GateLock(s, t) = Serve(r, t)
      BY <1>4 DEF GateLock
    <2>2. r \in VfsState
      BY <1>1, Zenon DEF VfsState
    <2>3. r.fds = s.fds /\ r.gate = TRUE /\ r.waiters = s.waiters /\ r.th = s.th /\ r.file = s.file
      BY <1>1 DEF VfsState
    <2> HIDE DEF r
    <2>4. r.fds = s.fds /\ r.gate /\ r.waiters = s.waiters /\ r.th = s.th /\ r.file = s.file
      BY <2>3
    <2>5. /\ \A u \in Threads : s.th[u].pc # "io"
          /\ \A f \in Files : ~s.file[f].lock
      BY <1>4 DEF Entering, GateExact
    <2>6. CountsExact(r) /\ QueueExact(r)
      BY <2>4 DEF Entering, CountsExact, QueueExact
    <2>7. Holding(r, t)
      BY <2>2, <2>4, <2>5, <2>6 DEF Entering, Holding
    <2> QED
      BY <2>1, <2>7, ServeKeeps
  <1> QED
    BY <1>3, <1>4

(* A descriptor keeps the count of its file above zero. *)
LEMMA SlotCounts ==
    ASSUME NEW s, s \in VfsState, CountsExact(s), NEW tab \in Tables, NEW d \in Fds, s.fds[tab][d] \in Files
    PROVE  s.file[s.fds[tab][d]].ref > 0
  <1> DEFINE f == s.fds[tab][d]
  <1>1. <<tab, d>> \in Slots(s.fds, f)
    BY DEF Slots
  <1>2. Cardinality(Slots(s.fds, f)) # 0
    BY <1>1, FS_EmptySet, PointersFinite
  <1> QED
    BY <1>2, PointersFinite DEF CountsExact

(* The threads in close can be counted. *)
LEMMA ClosingFinite ==
    ASSUME NEW th PROVE Cardinality({t \in Threads : th[t].call = "close"}) \in Nat
  <1>1. {t \in Threads : th[t].call = "close"} \in SUBSET Threads
    OBVIOUS
  <1> QED
    BY <1>1, FS_Subset, FS_CardinalityType, VfsAssumption

(* A good state has exact counts and a sound gate. *)
LEMMA GoodIsSound ==
    ASSUME NEW s, Good(s) PROVE Sound(s)
  <1>1. ASSUME NEW f \in Files
        PROVE  LET closing == {t \in Threads : s.th[t].call = "close"}
                   n == Cardinality(Slots(s.fds, f)) + Cardinality(Calls(s.th, f))
               IN  /\ s.file[f].ref >= n /\ s.file[f].ref <= n + Cardinality(closing)
                   /\ s.file[f].ref = 0 <=> s.file[f] = Freed
    <2>1. /\ s.file[f].ref = Cardinality(Slots(s.fds, f)) + Cardinality(Calls(s.th, f))
          /\ s.file[f].ref = 0 => s.file[f] = Freed
      BY DEF Good, CountsExact
    <2>2. s.file[f] = Freed => s.file[f].ref = 0
      BY DEF Freed
    <2> QED
      BY <2>1, <2>2, PointersFinite, ClosingFinite
  <1> QED
    BY <1>1 DEF Good, Sound

(* A thread in user mode that starts a call is ready for the gate.         *)
LEMMA EnteringFrom ==
    ASSUME NEW s, Good(s), NEW t \in Threads, s.th[t].pc = "user", NEW r \in VfsState, NEW c,
           Request(c), c.pc = "user", r.th = [s.th EXCEPT ![t] = c],
           r.waiters = s.waiters, r.gate = s.gate, CountsExact(r),
           \A g \in Files : r.file[g].lock = s.file[g].lock
    PROVE  Entering(r, t)
  <1>1. s.th \in [Threads -> ThreadState]
    BY DEF Good, VfsState
  <1>2. r.th[t] = c /\ \A u \in Threads \ {t} : r.th[u] = s.th[u]
    BY <1>1
  <1>3. QueueExact(r)
    BY <1>2 DEF Good, QueueExact
  <1>4. GateExact(r)
    <2>1. \A u \in Threads : r.th[u].pc = "io" <=> s.th[u].pc = "io"
      BY <1>2
    <2>2. \A u \in Threads : s.th[u].pc = "io" => r.th[u] = s.th[u]
      BY <1>2
    <2> QED
      BY <2>1, <2>2 DEF Good, GateExact
  <1> QED
    BY <1>2, <1>3, <1>4 DEF Good, Entering

(* syscall_open up to its first sleep keeps the invariant. *)
LEMMA OpenKeeps ==
    ASSUME VfsInv, NEW t \in Threads, NEW p \in Paths, NEW m \in Modes, SyscallOpen(t, p, m)
    PROVE  VfsInv'
  <1> DEFINE c == [v.th[t] EXCEPT !.call = "open", !.path = p, !.mode = m]
             r == [v EXCEPT !.th[t].call = "open", !.th[t].path = p, !.th[t].mode = m]
  <1>1. Good(v) /\ v.th[t].pc = "user" /\ v' = GateLock(r, t)
    BY DEF SyscallOpen, Step, VfsInv
  <1>2. v \in VfsState /\ v.th \in [Threads -> ThreadState] /\ v.th[t] = User
    BY <1>1 DEF Good, VfsState, AtRest
  <1>3. /\ c \in ThreadState /\ c.pc = "user" /\ c.file = None /\ c.call = "open" /\ c.path = p
    <2>1. v.th[t] \in ThreadState /\ v.th[t].pc = "user" /\ v.th[t].file = None
      BY <1>2 DEF User
    <2> QED
      BY <2>1, Zenon DEF ThreadState
  <1>4. Request(c)
    BY <1>3 DEF Request
  <1>5. r = [v EXCEPT !.th = [v.th EXCEPT ![t] = c]]
    BY <1>2, Zenon
  <1> HIDE DEF c, r
  <1>6. r \in VfsState
    BY <1>2, <1>3, <1>5 DEF VfsState
  <1>7. /\ r.th = [v.th EXCEPT ![t] = c] /\ r.file = v.file /\ r.fds = v.fds
        /\ r.waiters = v.waiters /\ r.gate = v.gate
    BY <1>2, <1>5 DEF VfsState
  <1>8. CountsExact(r)
    <2>1. \A g \in Files : Calls(r.th, g) = Calls(v.th, g)
      BY <1>2, <1>3, <1>7 DEF Calls, User
    <2> QED
      BY <1>1, <1>7, <2>1 DEF Good, CountsExact
  <1>9. Entering(r, t)
    BY <1>1, <1>3, <1>4, <1>6, <1>7, <1>8, EnteringFrom
  <1> QED
    BY <1>1, <1>9, GateLockKeeps, GoodIsSound DEF VfsInv

(* A woken waiter that tries the gate again keeps the invariant.           *)
LEMMA RetryKeeps ==
    ASSUME VfsInv, NEW t \in Threads, GateRetry(t)
    PROVE  VfsInv'
  <1>1. Good(v) /\ v.th[t].pc = "woken" /\ v' = GateLock(v, t)
    BY DEF GateRetry, Step, VfsInv
  <1>2. Entering(v, t)
    <2>1. AtRest(v.th[t]) /\ v.th[t] # User
      BY <1>1 DEF Good, User
    <2>2. Request(v.th[t])
      BY <2>1 DEF AtRest
    <2> QED
      BY <1>1, <2>2 DEF Good, Entering
  <1> QED
    BY <1>1, <1>2, GateLockKeeps, GoodIsSound DEF VfsInv

(* A thread that starts to spin leaves the counts exact, but for the       *)
(* reference that its close has not dropped yet.                           *)
LEMMA SpinsSoundly ==
    ASSUME NEW s, Good(s), NEW t \in Threads, s.th[t].pc \in {"user", "refused"}, NEW r \in VfsState,
           NEW c, c.pc = "spin", c.file = s.th[t].file, r.th = [s.th EXCEPT ![t] = c], r.file = s.file,
           r.waiters = s.waiters, r.gate = s.gate,
           RefsOwed(r, s, c)
    PROVE  Sound(r) /\ Spinning(r)
  <1>1. s.th \in [Threads -> ThreadState]
    BY DEF Good, VfsState
  <1>2. r.th[t] = c /\ \A u \in Threads \ {t} : r.th[u] = s.th[u]
    BY <1>1
  <1>3. QueueExact(r)
    BY <1>2 DEF Good, QueueExact
  <1>4. GateExact(r)
    <2>1. \A u \in Threads : r.th[u].pc = "io" <=> s.th[u].pc = "io"
      BY <1>2
    <2>2. \A u \in Threads : s.th[u].pc = "io" => r.th[u] = s.th[u]
      BY <1>2
    <2> QED
      BY <2>1, <2>2 DEF Good, GateExact
  <1>5. ASSUME NEW f \in Files
        PROVE  LET closing == {u \in Threads : r.th[u].call = "close"}
                   n == Cardinality(Slots(r.fds, f)) + Cardinality(Calls(r.th, f))
               IN  /\ r.file[f].ref >= n /\ r.file[f].ref <= n + Cardinality(closing)
                   /\ r.file[f].ref = 0 <=> r.file[f] = Freed
    <2> DEFINE closing == {u \in Threads : r.th[u].call = "close"}
               n == Cardinality(Slots(r.fds, f)) + Cardinality(Calls(r.th, f))
    <2>1. Calls(r.th, f) = Calls(s.th, f)
      BY <1>2 DEF Calls
    <2>2. r.file[f].ref = 0 <=> r.file[f] = Freed
      <3>1. r.file[f] = Freed => r.file[f].ref = 0
        BY DEF Freed
      <3>2. r.file[f].ref = 0 => r.file[f] = Freed
        BY DEF Good, CountsExact
      <3> QED
        BY <3>1, <3>2
    <2>3. IsFiniteSet(closing) /\ Cardinality(closing) \in Nat
      <3>1. closing \in SUBSET Threads
        OBVIOUS
      <3> QED
        BY <3>1, FS_Subset, FS_CardinalityType, VfsAssumption
    <2>4. c.call = "close" => Cardinality(closing) >= 1
      <3>1. c.call = "close" => t \in closing
        BY <1>2
      <3>2. c.call = "close" => Cardinality(closing) # 0
        BY <2>3, <3>1, FS_EmptySet
      <3> QED
        BY <2>3, <3>2
    <2>5. /\ r.file[f].ref = n \/ (c.call = "close" /\ r.file[f].ref = n + 1)
          /\ n \in Nat
      BY <2>1, PointersFinite DEF RefsOwed
    <2> HIDE DEF closing, n
    <2>6. r.file[f].ref >= n /\ r.file[f].ref <= n + Cardinality(closing)
      BY <2>3, <2>4, <2>5
    <2> QED
      BY <2>2, <2>6 DEF closing, n
  <1>6. ~r.gate /\ r.waiters # <<>> => \E u \in Threads : r.th[u].pc = "woken"
    BY <1>2 DEF Good
  <1>7. Sound(r)
    BY <1>3, <1>4, <1>5, <1>6 DEF Sound
  <1> QED
    BY <1>2, <1>7 DEF Spinning

(* A call that acquires a file is counted. *)
LEMMA CallComes ==
    ASSUME NEW s, CountsExact(s), NEW r, NEW t \in Threads, NEW f \in Files, r.fds = s.fds,
           s.file[f] \in FileState, s.file[f].ref > 0, TakesReference(r, s, t, f)
    PROVE  CountsExact(r)
  <1> SUFFICES ASSUME NEW g \in Files
               PROVE  /\ r.file[g].ref = Cardinality(Slots(r.fds, g)) + Cardinality(Calls(r.th, g))
                      /\ IF r.file[g].ref = 0 THEN r.file[g] = Freed ELSE r.file[g].path \in Paths
    BY DEF CountsExact
  <1>1. /\ s.file[g].ref = Cardinality(Slots(r.fds, g)) + Cardinality(Calls(s.th, g))
        /\ IF s.file[g].ref = 0 THEN s.file[g] = Freed ELSE s.file[g].path \in Paths
    BY DEF CountsExact
  <1>2. CASE g # f
    <2>1. Calls(r.th, g) = Calls(s.th, g)
      BY <1>2, VfsAssumption DEF Calls, TakesReference
    <2> QED
      BY <2>1, <1>1, <1>2 DEF TakesReference
  <1>3. CASE g = f
    <2>1. Calls(r.th, g) = Calls(s.th, g) \cup {t} /\ t \notin Calls(s.th, g)
      BY <1>3, VfsAssumption DEF Calls, TakesReference
    <2>2. Cardinality(Calls(r.th, g)) = Cardinality(Calls(s.th, g)) + 1
      BY ONLY <2>1, CallGoes
    <2>3. /\ r.file[g].ref = s.file[g].ref + 1 /\ r.file[g].path = s.file[g].path /\ r.file[g].ref # 0
          /\ s.file[g].ref # 0
      BY <1>3, Acquired DEF TakesReference
    <2>4. r.file[g].path \in Paths
      BY <1>1, <2>3
    <2> QED
      BY <1>1, <2>2, <2>3, <2>4, PointersFinite
  <1> QED
    BY <1>2, <1>3

(* A call on an open descriptor (read, write, seek, fsync) keeps the       *)
(* invariant up to its first sleep.                                        *)
LEMMA EnterKeeps ==
    ASSUME VfsInv, NEW t \in Threads, NEW fd \in Fds, NEW n \in 0 .. MaxChunks + MaxSize,
           NEW call \in {"read", "write", "seek", "fsync"}, call = "seek" => n <= MaxSize,
           Enter(t, call, fd, n)
    PROVE  VfsInv'
  <1> DEFINE tab == TableOf[t]
             f == v.fds[tab][fd]
             s0 == [v EXCEPT !.th[t].call = call, !.th[t].n = n]
             c0 == [v.th[t] EXCEPT !.call = call, !.n = n]
             c1 == [c0 EXCEPT !.pc = "spin"]
             c2 == [c0 EXCEPT !.file = f]
             F == Shared(v.file[f])
  <1>1. Good(v) /\ v.th[t].pc = "user" /\ f # None /\ v' = Acquire(s0, t, f)
    BY DEF Enter, Step, VfsInv
  <1>2. /\ v \in VfsState /\ v.th \in [Threads -> ThreadState] /\ v.th[t] = User
        /\ v.fds \in Tabled /\ v.file \in [Files -> FileState]
        /\ v.data \in Volume /\ v.gate \in BOOLEAN /\ v.waiters \in Seq(Threads)
    BY <1>1, Zenon DEF Good, VfsState, AtRest
  <1>3. f \in Files /\ tab \in Tables
    BY <1>1, <1>2 DEF Tabled, Tables
  <1>4. v.file[f].ref > 0 /\ v.file[f] \in FileState
    BY <1>1, <1>2, <1>3, SlotCounts, Zenon DEF Good
  <1>5. s0 = [data |-> v.data, file |-> v.file, fds |-> v.fds, gate |-> v.gate, waiters |-> v.waiters,
              th |-> [v.th EXCEPT ![t] = c0]]
    <2>1. s0 = [v EXCEPT !.th = [v.th EXCEPT ![t] = c0]]
      BY <1>2, Zenon
    <2> HIDE DEF c0, s0
    <2> QED
      BY <1>2, <2>1 DEF VfsState
  <1>6. /\ c0 \in ThreadState /\ c0.pc = "user" /\ c0.file = None /\ c0.call = call /\ c0.n = n
    <2>1. v.th[t] \in ThreadState /\ v.th[t].pc = "user" /\ v.th[t].file = None
      BY <1>2 DEF User
    <2> QED
      BY <2>1, Zenon DEF ThreadState
  <1> HIDE DEF c0
  <1>6a. c1 \in ThreadState /\ c1.pc = "spin" /\ c1.file = None
    BY <1>6 DEF ThreadState
  <1>6b. c2 \in ThreadState /\ c2.pc = "user" /\ c2.file = f /\ c2.call = call /\ c2.n = n
    BY <1>3, <1>6 DEF ThreadState
  <1> HIDE DEF s0
  <1>7. s0.file = v.file /\ s0.th = [v.th EXCEPT ![t] = c0]
    BY <1>5
  <1>8. CASE v.file[f].lock
    <2>1. v' = Spin(s0, t)
      BY <1>1, <1>7, <1>8 DEF Acquire
    <2>2. [[v.th EXCEPT ![t] = c0] EXCEPT ![t].pc = "spin"] = [v.th EXCEPT ![t] = c1]
      BY <1>2
    <2>3. v' = [s0 EXCEPT !.th = [v.th EXCEPT ![t] = c1]]
      BY <2>1, <2>2, <1>7 DEF Spin
    <2> HIDE DEF c1
    <2>4. v' = [data |-> v.data, file |-> v.file, fds |-> v.fds, gate |-> v.gate, waiters |-> v.waiters,
                th |-> [v.th EXCEPT ![t] = c1]]
      BY <2>3, <1>5
    <2>5. [v.th EXCEPT ![t] = c1] \in [Threads -> ThreadState]
      BY <1>2, <1>6a
    <2>6. v' \in VfsState
      BY <1>2, <2>4, <2>5, StateType, Zenon
    <2>7. c1.pc = "spin" /\ c1.file = v.th[t].file
      BY <1>2, <1>6a DEF User
    <2>8. /\ v'.th = [v.th EXCEPT ![t] = c1] /\ v'.file = v.file
          /\ v'.waiters = v.waiters /\ v'.gate = v.gate /\ v'.fds = v.fds
      BY <2>4
    <2>9. \A g \in Files : v.file[g].ref = Cardinality(Slots(v'.fds, g)) + Cardinality(Calls(v.th, g))
      BY <1>1, <2>8, Zenon DEF Good, CountsExact
    <2>10. RefsOwed(v', v, c1)
      BY <2>9 DEF RefsOwed
    <2>11. Sound(v') /\ Spinning(v')
      BY <1>1, <2>6, <2>7, <2>8, <2>10, SpinsSoundly, Zenon
    <2> QED
      BY <2>11 DEF VfsInv
  <1>9. CASE ~v.file[f].lock
    <2> DEFINE r == [s0 EXCEPT !.file[f].ref = @ + 1, !.th[t].file = f]
    <2>1. v' = GateLock(r, t)
      BY <1>1, <1>7, <1>9, Zenon DEF Acquire
    <2>2. [[v.th EXCEPT ![t] = c0] EXCEPT ![t].file = f] = [v.th EXCEPT ![t] = c2]
      BY <1>2
    <2>3. r = [s0 EXCEPT !.file = [v.file EXCEPT ![f] = F], !.th = [v.th EXCEPT ![t] = c2]]
      BY <2>2, <1>7, Zenon DEF Shared
    <2>4. /\ F \in FileState /\ F.ref = v.file[f].ref + 1 /\ F.ref # 0
          /\ F.path = v.file[f].path /\ F.lock = v.file[f].lock
      BY <1>4, Acquired, Zenon
    <2>5. Request(c2) /\ c2.pc = "user" /\ c2.file = f
      BY <1>3, <1>6b DEF Request
    <2> HIDE DEF c2, r
    <2>6. r = [data |-> v.data, file |-> [v.file EXCEPT ![f] = F], fds |-> v.fds, gate |-> v.gate,
               waiters |-> v.waiters, th |-> [v.th EXCEPT ![t] = c2]]
      BY <2>3, <1>5, Zenon
    <2>7. /\ [v.th EXCEPT ![t] = c2] \in [Threads -> ThreadState]
          /\ [v.file EXCEPT ![f] = F] \in [Files -> FileState]
      BY <1>2, <1>6b, <2>4, Zenon
    <2>8. r \in VfsState
      BY <1>2, <2>6, <2>7, StateType, Zenon
    <2>9. /\ r.th = [v.th EXCEPT ![t] = c2] /\ r.waiters = v.waiters /\ r.gate = v.gate /\ r.fds = v.fds
          /\ \A g \in Files : r.file[g] = IF g = f THEN F ELSE v.file[g]
      BY <1>2, <2>6, Zenon
    <2>10. \A g \in Files : r.file[g].lock = v.file[g].lock
      BY <2>4, <2>9, Zenon
    <2>11. CountsExact(r)
      <3>1. v.th[t].file = None /\ r.th[t].file = f /\ \A u \in Threads \ {t} : r.th[u].file = v.th[u].file
        <4>1. v.th[t].file = None
          BY <1>2 DEF User
        <4>2. v.th \in [Threads -> ThreadState] /\ r.th = [v.th EXCEPT ![t] = c2] /\ c2.file = f
          BY <1>2, <2>5, <2>9, Zenon
        <4> QED
          BY ONLY <4>1, <4>2, t \in Threads
      <3>2. CountsExact(v)
        BY <1>1 DEF Good
      <3>3. TakesReference(r, v, t, f)
        BY <3>1, <2>9, Zenon DEF TakesReference
      <3>4. r.fds = v.fds
        BY <2>9
      <3> QED
        BY <3>2, <3>3, <3>4, <1>3, <1>4, CallComes
    <2>12. Entering(r, t)
      <3>1. r.th = [v.th EXCEPT ![t] = c2] /\ r.waiters = v.waiters /\ r.gate = v.gate
        BY <2>9, Zenon
      <3>2. Good(v) /\ v.th[t].pc = "user" /\ Request(c2) /\ c2.pc = "user"
        BY <1>1, <2>5, Zenon
      <3> QED
        BY ONLY t \in Threads, <2>8, <2>10, <2>11, <3>1, <3>2, EnteringFrom
    <2> QED
      BY <2>1, <2>12, GateLockKeeps, GoodIsSound DEF VfsInv
  <1> QED
    BY <1>8, <1>9

=============================================================================
