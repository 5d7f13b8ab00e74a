-------------------------- MODULE KernelVfsProofs --------------------------
(***************************************************************************)
(* The counts of open files are exact, and the gate of the file system is  *)
(* sound, for any number of threads, processes, descriptors and files.     *)
(* KernelVfsCalls has the invariant and the lemmas on calls up to their    *)
(* first sleep; here are close, the calls that the gate refuses or that    *)
(* come back from I/O, the end of a process, and the theorems.             *)
(***************************************************************************)
EXTENDS KernelVfsCalls

(* syscall_close keeps the invariant, with the file's lock free or taken.  *)
LEMMA CloseKeeps ==
    ASSUME VfsInv, NEW t \in Threads, NEW fd \in Fds, SyscallClose(t, fd)
    PROVE  VfsInv'
  <1> DEFINE tab == TableOf[t]
             f == v.fds[tab][fd]
             u == [v EXCEPT !.fds[tab][fd] = None]
             D == [v.fds EXCEPT ![tab] = [v.fds[tab] EXCEPT ![fd] = None]]
  <1>1. /\ Good(v) /\ v.th[t].pc = "user" /\ f # None
        /\ v' = IF v.file[f].lock THEN Spin([u EXCEPT !.th[t].call = "close"], t) ELSE FileRelease(u, f)
    BY DEF SyscallClose, Step, VfsInv
  <1>2. /\ v \in VfsState /\ v.th \in [Threads -> ThreadState] /\ v.th[t] = User
        /\ v.fds \in Tabled /\ v.file \in [Files -> FileState]
        /\ v.data \in Volume /\ v.gate \in BOOLEAN /\ v.waiters \in Seq(Threads)
    BY <1>1 DEF Good, VfsState, AtRest
  <1>3. f \in Files /\ tab \in Tables
    BY <1>1, <1>2 DEF Tabled, Tables
  <1>4. v.file[f].ref > 0 /\ v.file[f] \in FileState
    BY <1>1, <1>2, <1>3, SlotCounts, Zenon DEF Good
  <1>5. u = [v EXCEPT !.fds = D]
    BY <1>2
  <1>6. /\ D \in Tabled /\ D[tab][fd] = None
        /\ \A x \in Tables, e \in Fds : <<x, e>> # <<tab, fd>> => D[x][e] = v.fds[x][e]
    BY <1>2, <1>3 DEF Tabled
  <1> HIDE DEF D, u
  <1>7. u = [data |-> v.data, file |-> v.file, fds |-> D, gate |-> v.gate, waiters |-> v.waiters,
             th |-> v.th]
    BY <1>2, <1>5 DEF VfsState
  <1>8. \A g \in Files : /\ g # f => Slots(D, g) = Slots(v.fds, g)
                         /\ g = f => Cardinality(Slots(v.fds, g)) = Cardinality(Slots(D, g)) + 1
    <2>1. ASSUME NEW g \in Files, g # f PROVE Slots(D, g) = Slots(v.fds, g)
      <3>1. \A x \in Tables, e \in Fds : D[x][e] = g <=> v.fds[x][e] = g
        <4> TAKE x \in Tables, e \in Fds
        <4>1. CASE x = tab /\ e = fd
          BY <4>1, <1>6, <2>1, VfsAssumption
        <4>2. CASE ~(x = tab /\ e = fd)
          BY <4>2, <1>6
        <4> QED
          BY <4>1, <4>2
      <3> QED
        BY ONLY <3>1 DEF Slots
    <2>2. Cardinality(Slots(v.fds, f)) = Cardinality(Slots(D, f)) + 1
      <3>1. \A x \in Tables, e \in Fds : v.fds[x][e] = f <=> D[x][e] = f \/ <<x, e>> = <<tab, fd>>
        <4> TAKE x \in Tables, e \in Fds
        <4>1. CASE x = tab /\ e = fd
          BY <4>1
        <4>2. CASE ~(x = tab /\ e = fd)
          BY <4>2, <1>6
        <4> QED
          BY <4>1, <4>2
      <3>2. Slots(v.fds, f) = Slots(D, f) \cup {<<tab, fd>>}
        BY <3>1, <1>3 DEF Slots
      <3>3. <<tab, fd>> \notin Slots(D, f)
        BY <1>1, <1>6 DEF Slots
      <3> QED
        BY ONLY <3>2, <3>3, SlotGoes
    <2> QED
      BY <2>1, <2>2
  <1>9. CASE v.file[f].lock
    <2> DEFINE c == [v.th[t] EXCEPT !.call = "close", !.pc = "spin"]
    <2>1. v' = [u EXCEPT !.th = [v.th EXCEPT ![t] = c]]
      <3>1. u.th = v.th
        BY <1>7
      <3> QED
        BY <1>1, <1>2, <1>9, <3>1, Zenon DEF Spin
    <2>2. c \in ThreadState /\ c.pc = "spin" /\ c.file = None /\ c.call = "close"
      <3>1. v.th[t] \in ThreadState /\ v.th[t].file = None
        BY <1>2 DEF User
      <3> QED
        BY <3>1, Zenon DEF ThreadState
    <2> HIDE DEF c
    <2>3. v' = [data |-> v.data, file |-> v.file, fds |-> D, gate |-> v.gate, waiters |-> v.waiters,
                th |-> [v.th EXCEPT ![t] = c]]
      BY <2>1, <1>7
    <2>4. [v.th EXCEPT ![t] = c] \in [Threads -> ThreadState]
      BY <1>2, <2>2
    <2>5. v' \in VfsState
      BY <1>2, <1>6, <2>3, <2>4, StateType
    <2>6. /\ v'.th = [v.th EXCEPT ![t] = c] /\ v'.file = v.file
          /\ v'.waiters = v.waiters /\ v'.gate = v.gate /\ v'.fds = D
      BY <2>3, Zenon
    <2>7. RefsOwed(v', v, c)
      <3> SUFFICES ASSUME NEW g \in Files
                   PROVE  LET n == Cardinality(Slots(D, g)) + Cardinality(Calls(v.th, g))
                          IN  v.file[g].ref = n \/ v.file[g].ref = n + 1
        BY <2>2, <2>6 DEF RefsOwed
      <3>1. v.file[g].ref = Cardinality(Slots(v.fds, g)) + Cardinality(Calls(v.th, g))
        BY <1>1 DEF Good, CountsExact
      <3> QED
        BY <3>1, <1>8, PointersFinite
    <2>8. c.file = v.th[t].file /\ v.th[t].pc \in {"user", "refused"}
      BY <1>1, <1>2, <2>2 DEF User
    <2>9. Sound(v') /\ Spinning(v')
      BY <1>1, <2>2, <2>5, <2>6, <2>7, <2>8, SpinsSoundly, Zenon
    <2> QED
      BY <2>9 DEF VfsInv
  <1>10. CASE ~v.file[f].lock
    <2> DEFINE F == Dropped(v.file[f])
    <2>1. v' = [u EXCEPT !.file = [v.file EXCEPT ![f] = F]]
      <3>1. u.file = v.file
        BY <1>7
      <3> QED
        BY <1>1, <1>10, <3>1, Zenon DEF FileRelease, Dropped
    <2>2. /\ F \in FileState /\ F.ref = v.file[f].ref - 1 /\ (F.ref = 0 => F = Freed)
          /\ F.ref # 0 => F.path = v.file[f].path
          /\ ~F.lock
      BY <1>4, <1>10, Released, Zenon
    <2> HIDE DEF F
    <2>3. v' = [data |-> v.data, file |-> [v.file EXCEPT ![f] = F], fds |-> D, gate |-> v.gate,
                waiters |-> v.waiters, th |-> v.th]
      BY <2>1, <1>7
    <2>4. [v.file EXCEPT ![f] = F] \in [Files -> FileState]
      BY <1>2, <2>2, Zenon
    <2>5. v' \in VfsState
      BY <1>2, <1>6, <2>3, <2>4, StateType
    <2>6. /\ v'.th = v.th /\ v'.waiters = v.waiters /\ v'.gate = v.gate /\ v'.fds = D
          /\ \A g \in Files : v'.file[g] = IF g = f THEN F ELSE v.file[g]
      BY <1>2, <2>3, Zenon
    <2>7. CountsExact(v')
      <3> SUFFICES ASSUME NEW g \in Files
                   PROVE  /\ v'.file[g].ref = Cardinality(Slots(v'.fds, g)) + Cardinality(Calls(v'.th, g))
                          /\ IF v'.file[g].ref = 0 THEN v'.file[g] = Freed ELSE v'.file[g].path \in Paths
        BY DEF CountsExact
      <3>1. v.file[g].ref = Cardinality(Slots(v.fds, g)) + Cardinality(Calls(v.th, g))
        BY <1>1 DEF Good, CountsExact
      <3>a. IF v.file[g].ref = 0 THEN v.file[g] = Freed ELSE v.file[g].path \in Paths
        BY <1>1 DEF Good, CountsExact
      <3>2. CASE g # f
        BY <3>1, <3>a, <3>2, <1>8, <2>6
      <3>3. CASE g = f
        <4>1. v'.file[g] = F /\ v'.th = v.th /\ v'.fds = D /\ v.file[g].ref > 0
          BY <3>3, <2>6, <1>4, Zenon
        <4>2. Cardinality(Slots(v.fds, g)) = Cardinality(Slots(D, g)) + 1
          BY <3>3, <1>8
        <4>0. F.ref = v.file[g].ref - 1
          BY <3>3, <2>2, Zenon
        <4>3. F.ref = Cardinality(Slots(D, g)) + Cardinality(Calls(v.th, g))
          <5>1. Cardinality(Slots(D, g)) \in Nat /\ Cardinality(Calls(v.th, g)) \in Nat
            BY PointersFinite
          <5> QED
            BY ONLY <3>1, <4>0, <4>2, <5>1
        <4> QED
          <5>1. v.file[g].path \in Paths
            BY ONLY <3>a, <4>1
          <5>2. F.ref = 0 => F = Freed
            BY <2>2, Zenon
          <5>3. F.ref # 0 => F.path = v.file[g].path
            BY <2>2, <3>3, Zenon
          <5>4. /\ v'.file[g].ref = Cardinality(Slots(v'.fds, g)) + Cardinality(Calls(v'.th, g))
                /\ v'.file[g] = F
            BY ONLY <4>1, <4>3
          <5> QED
            BY ONLY <5>1, <5>2, <5>3, <5>4
      <3> QED
        BY <3>2, <3>3
    <2>8. QueueExact(v')
      BY <1>1, <2>6, QueueStays, Zenon DEF Good
    <2>9. GateExact(v')
      <3>1. \A g \in Files : v'.file[g].lock <=> v.file[g].lock
        BY <2>2, <2>6, <1>10, Zenon
      <3> QED
        <4>1. GateExact(v)
          BY <1>1 DEF Good
        <4> QED
          BY ONLY <4>1, <2>6, <3>1 DEF GateExact
    <2>10. Good(v')
      BY <1>1, <2>5, <2>6, <2>7, <2>8, <2>9, Zenon DEF Good
    <2> QED
      BY <2>10, GoodIsSound DEF VfsInv
  <1> QED
    BY <1>9, <1>10, Zenon

(* A child that ends and wakes a waiter of the gate keeps the invariant:   *)
(* the waiter leaves the queue, and no other waiter is forgotten.          *)
LEMMA ChildEndsKeeps ==
    ASSUME VfsInv, NEW t \in Threads, ChildEnds(t)
    PROVE  VfsInv'
  <1>1. PICK i \in 1 .. Len(v.waiters) :
          /\ Good(v) /\ v.waiters[i] = t
          /\ v' = [v EXCEPT !.waiters = Without(v.waiters, i), !.th[t].pc = "refused"]
    BY DEF ChildEnds, Step, VfsInv
  <1> DEFINE w == Without(v.waiters, i)
             c == [v.th[t] EXCEPT !.pc = "refused"]
  <1>2. /\ v \in VfsState /\ v.th \in [Threads -> ThreadState] /\ v.file \in [Files -> FileState]
        /\ v.fds \in Tabled /\ v.data \in Volume /\ v.gate \in BOOLEAN /\ v.waiters \in Seq(Threads)
    BY <1>1 DEF Good, VfsState
  <1>3. /\ w \in Seq(Threads) /\ Distinct(w)
        /\ \A u : Among(w, u) <=> Among(v.waiters, u) /\ u # t
    BY <1>1, <1>2, QueueWithout DEF Good, QueueExact
  <1>4. v.th[t].pc = "gate" /\ v.th[t] \in ThreadState
    BY <1>1, <1>2 DEF Good, QueueExact, Among
  <1>5. /\ c \in ThreadState /\ c.pc = "refused" /\ c.call = v.th[t].call /\ c.file = v.th[t].file
        /\ c.path = v.th[t].path /\ c.n = v.th[t].n
    BY <1>4, Moves
  <1>6. v' = [v EXCEPT !.waiters = w, !.th = [v.th EXCEPT ![t] = c]]
    BY <1>1, Zenon
  <1> HIDE DEF w, c
  <1>7. v' = [data |-> v.data, file |-> v.file, fds |-> v.fds, gate |-> v.gate, waiters |-> w,
              th |-> [v.th EXCEPT ![t] = c]]
    BY <1>2, <1>6 DEF VfsState
  <1>8. [v.th EXCEPT ![t] = c] \in [Threads -> ThreadState]
    BY <1>2, <1>5
  <1>9. v' \in VfsState
    BY <1>2, <1>3, <1>7, <1>8, StateType, Zenon
  <1>10. /\ v'.file = v.file /\ v'.fds = v.fds /\ v'.gate = v.gate /\ v'.waiters = w
         /\ v'.th = [v.th EXCEPT ![t] = c]
    BY <1>7, Zenon
  <1>11. v'.th[t] = c /\ \A u \in Threads \ {t} : v'.th[u] = v.th[u]
    BY <1>2, <1>10
  <1>12. CountsExact(v')
    <2>1. \A f \in Files : Calls(v'.th, f) = Calls(v.th, f)
      BY <1>5, <1>11 DEF Calls
    <2> QED
      BY <1>1, <1>10, <2>1 DEF Good, CountsExact
  <1>13. QueueExact(v')
    BY <1>1, <1>3, <1>5, <1>10, <1>11 DEF Good, QueueExact
  <1>14. GateExact(v')
    <2>1. \A u \in Threads : v'.th[u].pc = "io" <=> v.th[u].pc = "io"
      BY <1>4, <1>5, <1>11
    <2>2. \A u \in Threads : v.th[u].pc = "io" => v'.th[u] = v.th[u]
      BY <1>4, <1>11
    <2> QED
      BY <1>1, <1>10, <2>1, <2>2 DEF Good, GateExact
  <1>15. \A u \in Threads : AtRest(v'.th[u])
    <2>1. Request(v.th[t])
      BY <1>1, <1>4 DEF Good, AtRest, User
    <2>2. Request(c)
      BY <2>1, <1>5 DEF Request
    <2> QED
      BY <1>1, <1>5, <1>11, <2>2 DEF Good, AtRest
  <1>16. ~v'.gate /\ v'.waiters # <<>> => \E u \in Threads : v'.th[u].pc = "woken"
    <2>1. w # <<>> => v.waiters # <<>>
      BY <1>1, <1>2
    <2>2. ~v.gate /\ v.waiters # <<>> => \E u \in Threads : v.th[u].pc = "woken" /\ u # t
      BY <1>1, <1>4 DEF Good
    <2> QED
      BY <1>10, <1>11, <2>1, <2>2
  <1>17. Good(v')
    BY <1>9, <1>12, <1>13, <1>14, <1>15, <1>16 DEF Good
  <1> QED
    BY <1>17, GoodIsSound DEF VfsInv

(* A call that the gate refused returns without its file and keeps the     *)
(* counts, the queue and the gate as they should be.                       *)
LEMMA ReturnKeeps ==
    ASSUME NEW s, Good(s), NEW t \in Threads, s.th[t].pc = "refused",
           s.th[t].file # None => ~s.file[s.th[t].file].lock
    PROVE  Good(Return(s, t))
  <1> DEFINE f == s.th[t].file
             r == Return(s, t)
             rel == Dropped(s.file[f])
             files == IF f = None THEN s.file ELSE [s.file EXCEPT ![f] = rel]
             ths == [s.th EXCEPT ![t] = User]
  <1>1. /\ s \in VfsState /\ s.th \in [Threads -> ThreadState] /\ f \in Files \cup {None}
        /\ s.file \in [Files -> FileState] /\ s.fds \in Tabled /\ s.data \in Volume
        /\ s.gate \in BOOLEAN /\ s.waiters \in Seq(Threads)
    BY DEF Good, VfsState, ThreadState
  <1>2. f # None => s.file[f].ref > 0 /\ s.file[f] \in FileState /\ f \in Files
    BY <1>1, CallCounts DEF Good
  <1>3. f # None => /\ rel \in FileState /\ rel.ref = s.file[f].ref - 1
                    /\ rel.ref = 0 => rel = Freed
                    /\ rel.ref # 0 => rel.path = s.file[f].path
                    /\ ~rel.lock
    BY <1>2, Released
  <1>4. r = [data |-> s.data, file |-> files, fds |-> s.fds, gate |-> s.gate, waiters |-> s.waiters,
             th |-> ths]
    <2> DEFINE q == IF f = None THEN s ELSE FileRelease(s, f)
    <2>1. r = [q EXCEPT !.th[t] = User]
      BY DEF Return
    <2>2. q = [s EXCEPT !.file = files]
      <3>1. CASE f = None
        BY <1>1, <3>1, Zenon DEF VfsState
      <3>2. CASE f # None
        BY <3>2, Zenon DEF FileRelease, Dropped
      <3> QED
        BY <3>1, <3>2
    <2> HIDE DEF q, files, r
    <2>3. q = [data |-> s.data, file |-> files, fds |-> s.fds, gate |-> s.gate, waiters |-> s.waiters,
               th |-> s.th]
      BY <1>1, <2>2 DEF VfsState
    <2>4. r = [q EXCEPT !.th = ths]
      BY <2>1, <2>3
    <2> QED
      BY <2>3, <2>4, Zenon
  <1>5. User \in ThreadState
    BY VfsAssumption DEF User, ThreadState
  <1>6. \A g \in Files : files[g] = IF g = f THEN rel ELSE s.file[g]
    BY <1>1, VfsAssumption
  <1>7. files \in [Files -> FileState] /\ ths \in [Threads -> ThreadState]
    <2> HIDE DEF rel
    <2> QED
      BY <1>1, <1>3, <1>5
  <1> HIDE DEF files, ths, r, rel
  <1>8. r \in VfsState
    BY <1>1, <1>4, <1>7, StateType, Zenon
  <1>9. /\ r.file = files /\ r.fds = s.fds /\ r.gate = s.gate /\ r.waiters = s.waiters /\ r.th = ths
    BY <1>4, Zenon
  <1>10. r.th[t] = User /\ \A u \in Threads \ {t} : r.th[u] = s.th[u]
    BY <1>1, <1>9 DEF ths
  <1>11. CountsExact(r)
    <2> SUFFICES ASSUME NEW g \in Files
                 PROVE  /\ r.file[g].ref = Cardinality(Slots(r.fds, g)) + Cardinality(Calls(r.th, g))
                        /\ IF r.file[g].ref = 0 THEN r.file[g] = Freed ELSE r.file[g].path \in Paths
      BY DEF CountsExact
    <2>1. r.th[t].file = None
      BY <1>10 DEF User
    <2>2. /\ s.file[g].ref = Cardinality(Slots(r.fds, g)) + Cardinality(Calls(s.th, g))
          /\ IF s.file[g].ref = 0 THEN s.file[g] = Freed ELSE s.file[g].path \in Paths
      BY <1>9 DEF Good, CountsExact
    <2>3. CASE g # f
      <3>1. Calls(r.th, g) = Calls(s.th, g)
        BY <1>10, <2>1, <2>3, SameCalls, VfsAssumption
      <3> QED
        BY <3>1, <2>2, <2>3, <1>6, <1>9
    <2>4. CASE g = f
      <3>1. s.th[t].file = g /\ r.th[t].file # g
        BY <2>1, <2>4, VfsAssumption
      <3>2. Calls(s.th, g) = Calls(r.th, g) \cup {t} /\ t \notin Calls(r.th, g)
        BY <3>1, <1>10 DEF Calls
      <3>3. Cardinality(Calls(s.th, g)) = Cardinality(Calls(r.th, g)) + 1
        BY <3>2, CallGoes
      <3>4. r.file[g] = rel /\ f # None
        BY <1>6, <1>9, <2>4, VfsAssumption
      <3> QED
        BY <3>3, <3>4, <2>2, <2>4, <1>3, PointersFinite DEF FileState
    <2> QED
      BY <2>3, <2>4
  <1>12. QueueExact(r)
    <2>1. s.th[t].pc # "gate" /\ r.th[t].pc # "gate"
      BY <1>10 DEF User
    <2> QED
      BY <2>1, <1>9, <1>10 DEF Good, QueueExact
  <1>13. GateExact(r)
    <2>1. s.th[t].pc # "io" /\ r.th[t].pc # "io"
      BY <1>10 DEF User
    <2>2. \A g \in Files : r.file[g].lock <=> s.file[g].lock
      BY <1>2, <1>3, <1>6, <1>9, VfsAssumption
    <2> QED
      BY <2>1, <2>2, <1>9, <1>10 DEF Good, GateExact
  <1>14. \A u \in Threads : AtRest(r.th[u])
    BY <1>10 DEF Good, AtRest
  <1>15. ~r.gate /\ r.waiters # <<>> => \E u \in Threads : r.th[u].pc = "woken"
    BY <1>9, <1>10 DEF Good
  <1> QED
    BY <1>8, <1>11, <1>12, <1>13, <1>14, <1>15 DEF Good, r

(* The call that the gate refused keeps the invariant, whether it returns  *)
(* or spins on the lock of its file.                                       *)
LEMMA GateRefusedKeeps ==
    ASSUME VfsInv, NEW t \in Threads, GateRefused(t)
    PROVE  VfsInv'
  <1> DEFINE f == v.th[t].file
             c == [v.th[t] EXCEPT !.pc = "spin"]
  <1>1. /\ Good(v) /\ v.th[t].pc = "refused"
        /\ v' = IF f # None /\ v.file[f].lock THEN Spin(v, t) ELSE Return(v, t)
    BY DEF GateRefused, Step, VfsInv
  <1>2. CASE f # None /\ v.file[f].lock
    <2>1. /\ v \in VfsState /\ v.th \in [Threads -> ThreadState] /\ v.file \in [Files -> FileState]
          /\ v.fds \in Tabled /\ v.data \in Volume /\ v.gate \in BOOLEAN /\ v.waiters \in Seq(Threads)
      BY <1>1 DEF Good, VfsState
    <2>2. c \in ThreadState /\ c.pc = "spin" /\ c.file = v.th[t].file
      BY <2>1, Moves
    <2>3. v' = [v EXCEPT !.th = [v.th EXCEPT ![t] = c]]
      BY <1>1, <1>2, Zenon DEF Spin
    <2> HIDE DEF c
    <2>4. v' = [data |-> v.data, file |-> v.file, fds |-> v.fds, gate |-> v.gate, waiters |-> v.waiters,
                th |-> [v.th EXCEPT ![t] = c]]
      BY <2>1, <2>3 DEF VfsState
    <2>5. [v.th EXCEPT ![t] = c] \in [Threads -> ThreadState]
      BY <2>1, <2>2
    <2>6. v' \in VfsState
      BY <2>1, <2>4, <2>5, StateType, Zenon
    <2>7. /\ v'.th = [v.th EXCEPT ![t] = c] /\ v'.file = v.file
          /\ v'.waiters = v.waiters /\ v'.gate = v.gate /\ v'.fds = v.fds
      BY <2>4, Zenon
    <2>8. RefsOwed(v', v, c)
      BY <1>1, <2>7 DEF RefsOwed, Good, CountsExact
    <2>9. Sound(v') /\ Spinning(v')
      BY <1>1, <2>2, <2>6, <2>7, <2>8, SpinsSoundly, Zenon
    <2> QED
      BY <2>9 DEF VfsInv
  <1>3. CASE ~(f # None /\ v.file[f].lock)
    <2>1. Good(Return(v, t))
      BY <1>1, <1>3, ReturnKeeps
    <2> QED
      BY <1>1, <1>3, <2>1, GoodIsSound DEF VfsInv
  <1> QED
    BY <1>2, <1>3

(* The thread in I/O is the only one, owns the gate, and is the only one   *)
(* to lock a file.                                                         *)
LEMMA IoAlone ==
    ASSUME NEW s, Good(s), NEW t \in Threads, s.th[t].pc = "io"
    PROVE  /\ s.gate = TRUE /\ Request(s.th[t]) /\ s.th[t].call # "seek"
           /\ \A u \in Threads \ {t} : AtRest(s.th[u]) /\ s.th[u].pc # "io"
           /\ \A f \in Files : s.file[f].lock => f = s.th[t].file /\ s.th[t].call # "fsync"
           /\ s.th[t].call \in {"read", "write"} => s.th[t].n > 0 /\ s.th[t].file \in Files
  <1>1. AtRest(s.th[t]) /\ s.th[t] # User
    BY DEF Good, User
  <1>2. GateExact(s) /\ s.gate \in BOOLEAN
    BY DEF Good, VfsState
  <1>3. \A u \in Threads \ {t} : s.th[u].pc # "io"
    BY <1>2 DEF GateExact
  <1>4. s.gate = TRUE
    BY <1>2 DEF GateExact
  <1>5. \A f \in Files : s.file[f].lock => f = s.th[t].file /\ s.th[t].call # "fsync"
    BY <1>2, <1>3 DEF GateExact
  <1>6. Request(s.th[t]) /\ s.th[t].call # "seek" /\ (s.th[t].call \in {"read", "write"} => s.th[t].n > 0)
    BY <1>1 DEF AtRest
  <1>7. s.th[t].call \in {"read", "write"} => s.th[t].file \in Files
    BY <1>6 DEF Request
  <1> QED
    BY <1>3, <1>4, <1>5, <1>6, <1>7 DEF Good

(* A thread back from the I/O of open or fsync runs with the gate and no   *)
(* lock.                                                                   *)
LEMMA IoHolds ==
    ASSUME NEW s, Good(s), NEW t \in Threads, s.th[t].pc = "io", s.th[t].call \notin {"read", "write"}
    PROVE  Holding(s, t)
  <1>1. s.th[t].call = "fsync" \/ s.th[t].file = None
    BY IoAlone, Zenon DEF Request
  <1>2. \A f \in Files : ~s.file[f].lock
    BY <1>1, IoAlone, VfsAssumption, Zenon
  <1> QED
    BY <1>2, IoAlone, Zenon DEF Good, Holding

(* A thread back from the I/O of a read or a write that unlocks its file   *)
(* runs with the gate and no lock.                                         *)
LEMMA UnlockHolds ==
    ASSUME NEW s, Good(s), NEW t \in Threads, s.th[t].pc = "io", s.th[t].call \in {"read", "write"},
           NEW r \in VfsState, NEW c \in ThreadState,
           r.fds = s.fds, r.gate = s.gate, r.waiters = s.waiters, r.th = [s.th EXCEPT ![t] = c],
           c.pc = "io", c.call = s.th[t].call, c.file = s.th[t].file, Unlocks(r, s, s.th[t].file)
    PROVE  Holding(r, t)
  <1> DEFINE f == s.th[t].file
  <1>1. s.th \in [Threads -> ThreadState] /\ f \in Files
    <2>1. f \in Files
      BY ONLY Good(s), t \in Threads, s.th[t].pc = "io", s.th[t].call \in {"read", "write"}, IoAlone, Zenon
    <2> QED
      BY <2>1 DEF Good, VfsState
  <1>2. r.th[t] = c /\ \A u \in Threads \ {t} : r.th[u] = s.th[u]
    BY <1>1
  <1>3. Request(c)
    BY <1>1 DEF Request
  <1>4. QueueExact(r)
    <2>1. QueueExact(s)
      BY DEF Good
    <2> QED
      BY <1>2, <2>1 DEF QueueExact
  <1>5. \A g \in Files : ~r.file[g].lock
    <2>1. \A g \in Files : s.file[g].lock => g = f
      BY ONLY Good(s), t \in Threads, s.th[t].pc = "io", IoAlone, Zenon
    <2>2. \A g \in Files : (g # f => r.file[g] = s.file[g]) /\ (g = f => ~r.file[g].lock)
      BY DEF Unlocks
    <2> QED
      BY ONLY <2>1, <2>2, Zenon
  <1>6. s.file[f].ref > 0
    BY <1>1, CallCounts, Zenon DEF Good
  <1>7. CountsExact(r)
    <2> SUFFICES ASSUME NEW g \in Files
                 PROVE  /\ r.file[g].ref = Cardinality(Slots(r.fds, g)) + Cardinality(Calls(r.th, g))
                        /\ IF r.file[g].ref = 0 THEN r.file[g] = Freed ELSE r.file[g].path \in Paths
      BY DEF CountsExact
    <2>1. Calls(r.th, g) = Calls(s.th, g)
      BY <1>2 DEF Calls
    <2>2. /\ s.file[g].ref = Cardinality(Slots(r.fds, g)) + Cardinality(Calls(s.th, g))
          /\ IF s.file[g].ref = 0 THEN s.file[g] = Freed ELSE s.file[g].path \in Paths
      BY DEF Good, CountsExact
    <2>3. /\ r.file[g].ref = s.file[g].ref /\ r.file[g].path = s.file[g].path
          /\ s.file[g].ref = 0 => r.file[g] = s.file[g]
      BY <1>6 DEF Unlocks
    <2> QED
      BY ONLY <2>1, <2>2, <2>3
  <1>8. r.gate /\ \A u \in Threads \ {t} : AtRest(r.th[u]) /\ r.th[u].pc # "io"
    <2>1. s.gate = TRUE /\ \A u \in Threads \ {t} : AtRest(s.th[u]) /\ s.th[u].pc # "io"
      BY ONLY Good(s), t \in Threads, s.th[t].pc = "io", IoAlone, Zenon
    <2> QED
      BY <1>2, <2>1
  <1> QED
    BY <1>2, <1>3, <1>4, <1>5, <1>7, <1>8, Zenon DEF Holding

(* A read or a write that ends early leads to a good state. *)
LEMMA EndCallKeeps ==
    ASSUME NEW s, Good(s), NEW t \in Threads, s.th[t].pc = "io", s.th[t].call \in {"read", "write"}
    PROVE  Good(EndCall(s, t))
  <1> DEFINE f == s.th[t].file
             F == [s.file[f] EXCEPT !.lock = FALSE]
             r == [s EXCEPT !.file[f].lock = FALSE]
  <1>1. /\ s \in VfsState /\ s.th \in [Threads -> ThreadState] /\ s.file \in [Files -> FileState]
        /\ f \in Files
        /\ s.file[f] \in FileState /\ s.th[t] \in ThreadState
    BY IoAlone, Zenon DEF Good, VfsState
  <1>2. /\ F \in FileState /\ F.ref = s.file[f].ref /\ F.path = s.file[f].path /\ ~F.lock
    BY <1>1, Zenon DEF FileState
  <1>3. r = [s EXCEPT !.file = [s.file EXCEPT ![f] = F]]
    BY <1>1
  <1> HIDE DEF F, r
  <1>4. [s.file EXCEPT ![f] = F] \in [Files -> FileState]
    BY <1>1, <1>2
  <1>5. /\ r \in VfsState /\ r.fds = s.fds /\ r.gate = s.gate /\ r.waiters = s.waiters /\ r.th = s.th
        /\ r.file = [s.file EXCEPT ![f] = F]
    BY <1>1, <1>3, <1>4, Zenon DEF VfsState
  <1>6. Unlocks(r, s, f)
    BY <1>1, <1>2, <1>5 DEF Unlocks
  <1>7. r.th = [s.th EXCEPT ![t] = s.th[t]]
    BY <1>1, <1>5
  <1>8. Holding(r, t)
    BY <1>1, <1>5, <1>6, <1>7, UnlockHolds
  <1> QED
    BY <1>8, LeaveKeeps DEF EndCall, r

(* A read or a write that goes on with its next chunk, or ends, leads to a *)
(* good state.                                                             *)
LEMMA NextChunkKeeps ==
    ASSUME NEW s, Good(s), NEW t \in Threads, s.th[t].pc = "io", s.th[t].call \in {"read", "write"},
           NEW x \in VfsState, NEW F \in FileState,
           F.ref = s.file[s.th[t].file].ref, F.path = s.file[s.th[t].file].path,
           x.file = [s.file EXCEPT ![s.th[t].file] = F],
           x.fds = s.fds, x.gate = s.gate, x.waiters = s.waiters, x.th = s.th
    PROVE  Good(NextChunk(x, t))
  <1> DEFINE f == s.th[t].file
             G == [F EXCEPT !.lock = FALSE]
             c == [s.th[t] EXCEPT !.n = s.th[t].n - 1]
             r == [x EXCEPT !.file[f].lock = FALSE, !.th[t].n = @ - 1]
  <1>1. /\ s \in VfsState /\ s.th \in [Threads -> ThreadState] /\ s.file \in [Files -> FileState]
        /\ f \in Files
        /\ s.file[f] \in FileState /\ s.th[t] \in ThreadState /\ s.th[t].n > 0
    <2>1. f \in Files /\ s.th[t].n > 0
      BY ONLY Good(s), t \in Threads, s.th[t].pc = "io", s.th[t].call \in {"read", "write"}, IoAlone, Zenon
    <2> QED
      BY <2>1, Zenon DEF Good, VfsState
  <1>2. NextChunk(x, t) = BeginTransfer(r, t)
    BY DEF NextChunk
  <1>3. /\ G \in FileState /\ G.ref = s.file[f].ref /\ G.path = s.file[f].path /\ ~G.lock
    BY Zenon DEF FileState
  <1>4. s.th[t].n - 1 \in 0 .. MaxChunks + MaxSize
    BY <1>1, VfsAssumption DEF ThreadState
  <1>5. /\ c \in ThreadState /\ c.pc = "io" /\ c.call = s.th[t].call /\ c.file = f
    BY <1>1, <1>4 DEF ThreadState
  <1>6. [x.file EXCEPT ![f].lock = FALSE] = [s.file EXCEPT ![f] = G]
    BY <1>1, Zenon
  <1>7. [x.th EXCEPT ![t].n = @ - 1] = [s.th EXCEPT ![t] = c]
    BY <1>1
  <1>8. r = [x EXCEPT !.file = [s.file EXCEPT ![f] = G], !.th = [s.th EXCEPT ![t] = c]]
    BY <1>6, <1>7, Zenon
  <1> HIDE DEF G, c, r
  <1>9. /\ [s.file EXCEPT ![f] = G] \in [Files -> FileState]
        /\ [s.th EXCEPT ![t] = c] \in [Threads -> ThreadState]
    BY <1>1, <1>3, <1>5, Zenon
  <1>10. /\ r \in VfsState /\ r.fds = s.fds /\ r.gate = s.gate /\ r.waiters = s.waiters
         /\ r.th = [s.th EXCEPT ![t] = c] /\ r.file = [s.file EXCEPT ![f] = G]
    BY <1>8, <1>9, Zenon DEF VfsState
  <1>11. Unlocks(r, s, f)
    BY <1>1, <1>3, <1>10, Zenon DEF Unlocks
  <1>12. Holding(r, t)
    BY <1>5, <1>10, <1>11, UnlockHolds, Zenon
  <1>13. r.th[t].call \in {"read", "write"}
    BY <1>1, <1>5, <1>10
  <1> QED
    BY <1>2, <1>12, <1>13, BeginTransferKeeps

(* kernel_fd_install finds the lowest free slot when there is one.         *)
LEMMA LowestFree ==
    ASSUME NEW S \in SUBSET Fds, S # {}
    PROVE  (CHOOSE d \in S : \A e \in S : d <= e) \in S
  <1>1. S \subseteq Nat
    BY FdsAssumption
  <1> DEFINE R == OpToRel(<, Nat)
  <1>2. \A a, b \in Nat : a < b => <<a, b>> \in R
    BY DEF OpToRel
  <1>3. IsWellFoundedOn(R, Nat)
    BY NatLessThanWellFounded, Zenon
  <1> HIDE DEF R
  <1>4. PICK x \in S : \A y \in S : ~(<<y, x>> \in R)
    BY <1>1, <1>3, WFMin, Zenon
  <1>5. \A y \in S : x <= y
    <2>1. \A y \in S : ~(y < x)
      BY <1>1, <1>2, <1>4, Zenon
    <2> QED
      BY <1>1, <2>1
  <1> QED
    BY <1>5

(* A file put in a free slot has one reference, that of the slot.          *)
LEMMA InstallHolds ==
    ASSUME NEW s, NEW t \in Threads, Holding(s, t), NEW f \in Files, s.file[f].ref = 0,
           NEW N \in FileState, N.ref = 1, N.path \in Paths, ~N.lock,
           NEW tab \in Tables, NEW fd \in Fds, s.fds[tab][fd] = None, NEW r, NEW D,
           D = [s.fds EXCEPT ![tab] = [s.fds[tab] EXCEPT ![fd] = f]],
           r = [s EXCEPT !.file = [s.file EXCEPT ![f] = N], !.fds = D]
    PROVE  Holding(r, t)
  <1>1. s \in VfsState /\ s.file \in [Files -> FileState] /\ s.fds \in Tabled
    BY DEF Holding, VfsState
  <1>2. /\ D \in Tabled /\ D[tab][fd] = f
        /\ \A x \in Tables, e \in Fds : <<x, e>> # <<tab, fd>> => D[x][e] = s.fds[x][e]
    BY <1>1 DEF Tabled
  <1>3. [s.file EXCEPT ![f] = N] \in [Files -> FileState]
    BY <1>1
  <1>5. /\ r \in VfsState /\ r.th = s.th /\ r.gate = s.gate /\ r.waiters = s.waiters /\ r.fds = D
        /\ r.file = [s.file EXCEPT ![f] = N]
    BY <1>1, <1>2, <1>3, Zenon DEF VfsState
  <1>6. \A g \in Files : r.file[g] = IF g = f THEN N ELSE s.file[g]
    BY <1>1, <1>5
  <1>7. CountsExact(r)
    <2> SUFFICES ASSUME NEW g \in Files
                 PROVE  /\ r.file[g].ref = Cardinality(Slots(r.fds, g)) + Cardinality(Calls(r.th, g))
                        /\ IF r.file[g].ref = 0 THEN r.file[g] = Freed ELSE r.file[g].path \in Paths
      BY DEF CountsExact
    <2>1. /\ s.file[g].ref = Cardinality(Slots(s.fds, g)) + Cardinality(Calls(r.th, g))
          /\ IF s.file[g].ref = 0 THEN s.file[g] = Freed ELSE s.file[g].path \in Paths
      BY <1>5 DEF Holding, CountsExact
    <2>2. CASE g # f
      <3>1. \A x \in Tables, e \in Fds : D[x][e] = g <=> s.fds[x][e] = g
        <4> TAKE x \in Tables, e \in Fds
        <4>1. CASE x = tab /\ e = fd
          BY <4>1, <1>2, <2>2, VfsAssumption
        <4>2. CASE ~(x = tab /\ e = fd)
          BY <4>2, <1>2
        <4> QED
          BY <4>1, <4>2
      <3>2. Slots(D, g) = Slots(s.fds, g)
        BY ONLY <3>1 DEF Slots
      <3> QED
        BY <3>2, <2>1, <2>2, <1>5, <1>6
    <2>3. CASE g = f
      <3>1. \A x \in Tables, e \in Fds : D[x][e] = f <=> s.fds[x][e] = f \/ <<x, e>> = <<tab, fd>>
        <4> TAKE x \in Tables, e \in Fds
        <4>1. CASE x = tab /\ e = fd
          BY <4>1, <1>2
        <4>2. CASE ~(x = tab /\ e = fd)
          BY <4>2, <1>2
        <4> QED
          BY <4>1, <4>2
      <3>2. Slots(D, f) = Slots(s.fds, f) \cup {<<tab, fd>>}
        BY <3>1 DEF Slots
      <3>3. <<tab, fd>> \notin Slots(s.fds, f)
        BY VfsAssumption DEF Slots
      <3>4. Cardinality(Slots(D, f)) = Cardinality(Slots(s.fds, f)) + 1
        BY ONLY <3>2, <3>3, SlotGoes
      <3>5. Cardinality(Slots(s.fds, f)) = 0 /\ Cardinality(Calls(r.th, f)) = 0
        BY <2>1, <2>3, PointersFinite
      <3> QED
        BY <3>4, <3>5, <2>3, <1>5, <1>6
    <2> QED
      BY <2>2, <2>3
  <1>8. QueueExact(r)
    BY <1>5 DEF Holding, QueueExact
  <1>9. \A g \in Files : ~r.file[g].lock
    BY <1>6 DEF Holding
  <1> QED
    BY <1>5, <1>7, <1>8, <1>9 DEF Holding

(* syscall_open after its I/O leads to a good state, with a free slot or   *)
(* without one.                                                            *)
LEMMA FinishOpenKeeps ==
    ASSUME NEW s, Good(s), NEW t \in Threads, s.th[t].pc = "io", s.th[t].call = "open",
           NEW f \in Files, s.file[f].ref = 0
    PROVE  Good(FinishOpen(s, t, f))
  <1> DEFINE p == s.th[t].path
             tab == TableOf[t]
             N == [Freed EXCEPT !.ref = 1, !.path = p, !.size = Len(s.data[p]), !.mode = s.th[t].mode]
             new == [s EXCEPT !.file[f] = N]
             free == {d \in Fds : s.fds[tab][d] = None}
             fd == CHOOSE d \in free : \A e \in free : d <= e
             r == FileRelease(Install(new, tab, f), f)
  <1>1. Holding(s, t)
    BY IoHolds
  <1>2. /\ s \in VfsState /\ s.file \in [Files -> FileState] /\ s.fds \in Tabled /\ s.data \in Volume
        /\ s.th[t] \in ThreadState /\ tab \in Tables
    BY <1>1 DEF Holding, VfsState, Tables
  <1>3. p \in Paths
    BY <1>1 DEF Holding, Request
  <1>4. Len(s.data[p]) \in 0 .. MaxSize
    BY <1>2, <1>3 DEF Volume
  <1>5. Freed \in FileState /\ ~Freed.lock
    BY VfsAssumption DEF Freed, FileState
  <1>6. N \in FileState /\ N.ref = 1 /\ N.path \in Paths /\ ~N.lock
    BY <1>2, <1>3, <1>4, <1>5, Zenon DEF FileState, ThreadState
  <1>7. FinishOpen(s, t, f) = Leave(r, t)
    BY DEF FinishOpen
  <1> HIDE DEF N
  <1>8. /\ new = [s EXCEPT !.file = [s.file EXCEPT ![f] = N]]
        /\ new.fds = s.fds /\ new.file = [s.file EXCEPT ![f] = N] /\ new.file[f] = N
    BY <1>2 DEF VfsState
  <1> HIDE DEF new
  <1>9. CASE free = {}
    <2>1. Install(new, tab, f) = new
      BY <1>8, <1>9 DEF Install
    <2>2. r = [new EXCEPT !.file = [new.file EXCEPT ![f] = Freed]]
      <3>1. new.file[f].ref = 1
        BY <1>6, <1>8
      <3> QED
        BY ONLY <2>1, <3>1 DEF FileRelease
    <2>3. s.file[f] = Freed
      BY <1>1 DEF Holding, CountsExact
    <2>4. [new.file EXCEPT ![f] = Freed] = s.file
      BY <1>2, <1>8, <2>3
    <2> HIDE DEF r
    <2>5. r = [s EXCEPT !.file = s.file]
      BY <1>2, <1>8, <2>2, <2>4, Zenon DEF VfsState
    <2>6. r = s
      BY <1>2, <2>5 DEF VfsState
    <2> QED
      BY <1>1, <1>7, <2>6, LeaveKeeps DEF r
  <1>10. CASE free # {}
    <2> DEFINE D == [s.fds EXCEPT ![tab] = [s.fds[tab] EXCEPT ![fd] = f]]
               i == Install(new, tab, f)
               N2 == [N EXCEPT !.ref = 2]
    <2>1. fd \in Fds /\ s.fds[tab][fd] = None
      BY <1>10, LowestFree, Zenon
    <2>2. i = [new EXCEPT !.fds[tab][fd] = f, !.file[f].ref = @ + 1]
      BY <1>8, <1>10 DEF Install
    <2> HIDE DEF fd
    <2>3. i = [new EXCEPT !.fds = D, !.file = [s.file EXCEPT ![f] = N2]]
      <3>1. [new.fds EXCEPT ![tab][fd] = f] = D
        BY <1>2, <1>8
      <3>2. [new.file EXCEPT ![f].ref = @ + 1] = [s.file EXCEPT ![f] = N2]
        BY <1>2, <1>6, <1>8
      <3> HIDE DEF D, N2, i
      <3> QED
        BY <2>2, <3>1, <3>2, Zenon
    <2>4. N2.ref = 2 /\ [N2 EXCEPT !.ref = 1] = N
      BY <1>6, Zenon DEF FileState
    <2> HIDE DEF D, i, N2
    <2>5. i.file = [s.file EXCEPT ![f] = N2] /\ i.file[f] = N2
      BY <1>2, <1>8, <2>3 DEF VfsState
    <2>6. r = [i EXCEPT !.file = [s.file EXCEPT ![f] = N]]
      BY <1>2, <2>4, <2>5 DEF FileRelease, i
    <2>7. r = [s EXCEPT !.file = [s.file EXCEPT ![f] = N], !.fds = D]
      BY <1>2, <1>8, <2>3, <2>6, Zenon DEF VfsState
    <2>8. D = [s.fds EXCEPT ![tab] = [s.fds[tab] EXCEPT ![fd] = f]]
      BY DEF D
    <2> HIDE DEF r
    <2>9. Holding(r, t)
      BY <1>1, <1>2, <1>6, <2>1, <2>7, <2>8, InstallHolds, Zenon
    <2> QED
      BY <1>7, <2>9, LeaveKeeps DEF r
  <1> QED
    BY <1>9, <1>10

(* kernel_vfs_file_read after its I/O leads to a good state. *)
LEMMA FinishReadKeeps ==
    ASSUME NEW s, Good(s), NEW t \in Threads, s.th[t].pc = "io", s.th[t].call = "read"
    PROVE  Good(FinishRead(s, t))
  <1> DEFINE f == s.th[t].file
             d == s.data[s.file[f].path]
             F == [s.file[f] EXCEPT !.offset = s.file[f].offset + 1]
             x == [s EXCEPT !.file[f].offset = @ + 1]
  <1>1. f \in Files
    BY IoAlone, Zenon
  <1>2. /\ s \in VfsState /\ s.file \in [Files -> FileState] /\ s.file[f] \in FileState /\ s.data \in Volume
    BY <1>1 DEF Good, VfsState
  <1>3. s.file[f].path \in Paths
    BY <1>1, CallCounts DEF Good, CountsExact
  <1>4. CASE s.file[f].offset >= Len(d)
    BY <1>4, EndCallKeeps, Zenon DEF FinishRead
  <1>5. CASE ~(s.file[f].offset >= Len(d))
    <2>1. FinishRead(s, t) = NextChunk(x, t)
      BY <1>5 DEF FinishRead
    <2>2. Len(d) \in 0 .. MaxSize
      BY <1>2, <1>3, FileData, Zenon
    <2>3. s.file[f].offset + 1 \in 0 .. MaxSize
      <3>1. s.file[f].offset \in 0 .. MaxSize /\ MaxSize \in Nat
        BY <1>2, VfsAssumption, Zenon DEF FileState
      <3> DEFINE o == s.file[f].offset
                 l == Len(d)
      <3>2. o \in 0 .. MaxSize /\ l \in 0 .. MaxSize /\ ~(o >= l) /\ MaxSize \in Nat
        BY <1>5, <2>2, <3>1, Zenon
      <3> HIDE DEF o, l
      <3>3. o + 1 \in 0 .. MaxSize
        BY <3>2
      <3> QED
        BY <3>3 DEF o
    <2>4. F \in FileState /\ F.ref = s.file[f].ref /\ F.path = s.file[f].path
      BY <1>2, <2>3, Zenon DEF FileState
    <2>5. x = [s EXCEPT !.file = [s.file EXCEPT ![f] = F]]
      BY <1>2
    <2> HIDE DEF F, x
    <2>6. [s.file EXCEPT ![f] = F] \in [Files -> FileState]
      BY <1>1, <1>2, <2>4
    <2>7. /\ x \in VfsState /\ x.file = [s.file EXCEPT ![f] = F] /\ x.fds = s.fds /\ x.gate = s.gate
          /\ x.waiters = s.waiters /\ x.th = s.th
      BY <1>2, <2>5, <2>6 DEF VfsState
    <2>8. Good(NextChunk(x, t))
      BY <2>4, <2>7, NextChunkKeeps, Zenon
    <2> QED
      BY <2>1, <2>8
  <1> QED
    BY <1>4, <1>5, Zenon

(* kernel_vfs_file_write after its I/O leads to a good state. *)
LEMMA FinishWriteKeeps ==
    ASSUME NEW s, Good(s), NEW t \in Threads, s.th[t].pc = "io", s.th[t].call = "write",
           s.file[s.th[t].file].offset < MaxSize
    PROVE  Good(FinishWrite(s, t))
  <1> DEFINE f == s.th[t].file
             p == s.file[f].path
             old == s.data[p]
             end == s.file[f].offset + 1
             size == IF s.file[f].size > end THEN s.file[f].size ELSE end
             new == [i \in 1 .. size |->
                       IF i = end THEN TagOf[t] ELSE IF i <= Len(old) THEN old[i] ELSE 0]
             F == [s.file[f] EXCEPT !.offset = end, !.size = size]
             x == [s EXCEPT !.data[p] = new, !.file[f].offset = end, !.file[f].size = size]
  <1>1. f \in Files
    BY IoAlone, Zenon
  <1>2. /\ s \in VfsState /\ s.file \in [Files -> FileState] /\ s.file[f] \in FileState /\ s.data \in Volume
    BY <1>1 DEF Good, VfsState
  <1>3. p \in Paths
    BY <1>1, CallCounts DEF Good, CountsExact
  <1>4. CASE size < Len(old)
    BY <1>4, EndCallKeeps, Zenon DEF FinishWrite
  <1>5. CASE ~(size < Len(old))
    <2>1. FinishWrite(s, t) = NextChunk(x, t)
      BY <1>5, Zenon DEF FinishWrite
    <2>2. end \in 0 .. MaxSize /\ size \in 0 .. MaxSize
      <3>1. /\ s.file[f].offset \in 0 .. MaxSize /\ s.file[f].size \in 0 .. MaxSize
            /\ MaxSize \in Nat /\ s.file[f].offset < MaxSize
        <4>1. s.file[f].offset < MaxSize
          BY Zenon
        <4> QED
          BY ONLY <1>2, <4>1, VfsAssumption DEF FileState
      <3> HIDE DEF f
      <3>2. end \in 0 .. MaxSize
        BY ONLY <3>1
      <3> HIDE DEF end
      <3> QED
        BY ONLY <3>1, <3>2
    <2> HIDE DEF end, size
    <2>3. old \in Seq(Tags) /\ Len(old) \in Nat
      BY <1>2, <1>3, FileData, Zenon
    <2>4. new \in [1 .. size -> Tags]
      <3>1. \A i \in 1 .. Len(old) : old[i] \in Tags
        BY <2>3, ElementOfSeq, Zenon
      <3>2. TagOf[t] \in Tags /\ 0 \in Tags
        BY DEF Tags
      <3> HIDE DEF old
      <3>3. ASSUME NEW i \in 1 .. size
            PROVE  (IF i = end THEN TagOf[t] ELSE IF i <= Len(old) THEN old[i] ELSE 0) \in Tags
        <4>1. i \in Nat \ {0}
          BY <2>2
        <4>2. i <= Len(old) => i \in 1 .. Len(old)
          BY <2>3, <4>1
        <4> QED
          BY <3>1, <3>2, <4>2
      <3> QED
        BY <3>3
    <2> HIDE DEF new
    <2>5. new \in Seq(Tags) /\ Len(new) = size
      BY <2>2, <2>4
    <2>6. [s.data EXCEPT ![p] = new] \in Volume
      <3> DEFINE V == [s.data EXCEPT ![p] = new]
      <3>1. s.data \in [Paths -> Seq(Tags)] /\ \A q \in Paths : Len(s.data[q]) <= MaxSize
        BY <1>2 DEF Volume
      <3>2. V \in [Paths -> Seq(Tags)]
        BY <1>3, <2>5, <3>1, Zenon
      <3>3. \A q \in Paths : V[q] = IF q = p THEN new ELSE s.data[q]
        BY <1>3, <3>1
      <3>4. size <= MaxSize
        BY <2>2, VfsAssumption
      <3> HIDE DEF V
      <3>5. \A q \in Paths : Len(V[q]) <= MaxSize
        BY <2>5, <3>1, <3>3, <3>4
      <3>6. V \in Volume
        BY <3>2, <3>5 DEF Volume
      <3> QED
        BY <3>6 DEF V
    <2>7. F \in FileState /\ F.ref = s.file[f].ref /\ F.path = s.file[f].path
      BY <1>2, <2>2, Zenon DEF FileState
    <2>8. x = [s EXCEPT !.data = [s.data EXCEPT ![p] = new], !.file = [s.file EXCEPT ![f] = F]]
      BY <1>1, <1>2, Zenon
    <2> HIDE DEF F, x, old
    <2>9. [s.file EXCEPT ![f] = F] \in [Files -> FileState]
      BY <1>1, <1>2, <2>7, Zenon
    <2>10. /\ x \in VfsState /\ x.file = [s.file EXCEPT ![f] = F] /\ x.fds = s.fds /\ x.gate = s.gate
           /\ x.waiters = s.waiters /\ x.th = s.th
      BY <1>2, <2>6, <2>8, <2>9, Zenon DEF VfsState
    <2>11. Good(NextChunk(x, t))
      BY <2>7, <2>10, NextChunkKeeps
    <2> QED
      BY <2>1, <2>11
  <1> QED
    BY <1>4, <1>5, Zenon

(* A call that comes back from its I/O keeps the invariant. *)
LEMMA IoDoneKeeps ==
    ASSUME VfsInv, NEW t \in Threads, IoDone(t)
    PROVE  VfsInv'
  <1>1. Good(v) /\ v.th[t].pc = "io"
    BY DEF IoDone, Step, VfsInv
  <1> SUFFICES Good(v')
    BY GoodIsSound DEF VfsInv
  <1>2. CASE v.th[t].call = "read" /\ v' = FinishRead(v, t)
    BY <1>1, <1>2, FinishReadKeeps
  <1>3. CASE v.th[t].call = "write" /\ v.file[v.th[t].file].offset < MaxSize /\ v' = FinishWrite(v, t)
    BY <1>1, <1>3, FinishWriteKeeps
  <1>4. CASE v.th[t].call = "fsync" /\ v' = Leave(v, t)
    BY <1>1, <1>4, IoHolds, LeaveKeeps
  <1>5. CASE v.th[t].call = "open" /\ \E f \in Files : v.file[f].ref = 0 /\ v' = FinishOpen(v, t, f)
    BY <1>1, <1>5, FinishOpenKeeps
  <1> QED
    BY <1>2, <1>3, <1>4, <1>5, Zenon DEF IoDone, Step

(* A call whose I/O fails keeps the invariant. *)
LEMMA IoFailsKeeps ==
    ASSUME VfsInv, NEW t \in Threads, IoFails(t)
    PROVE  VfsInv'
  <1>1. /\ Good(v) /\ v.th[t].pc = "io"
        /\ v' = IF v.th[t].call \in {"read", "write"} THEN EndCall(v, t) ELSE Leave(v, t)
    BY DEF IoFails, Step, VfsInv
  <1>2. Good(v')
    BY <1>1, EndCallKeeps, IoHolds, LeaveKeeps
  <1> QED
    BY <1>2, GoodIsSound DEF VfsInv

(* kernel_fd_table_destroy drops one reference for each open slot and      *)
(* keeps the invariant.                                                    *)
LEMMA ProcessEndsKeeps ==
    ASSUME VfsInv, NEW tab \in Tables, ProcessEnds(tab)
    PROVE  VfsInv'
  <1> DEFINE S(f) == {d \in Fds : v.fds[tab][d] = f}
             k(f) == v.file[f].ref - Cardinality(S(f))
             D == [v.fds EXCEPT ![tab] = [d \in Fds |-> None]]
             G == [f \in Files |-> IF S(f) # {} /\ k(f) = 0 THEN Freed ELSE [v.file[f] EXCEPT !.ref = k(f)]]
  <1>1. Good(v) /\ v' = [v EXCEPT !.fds = D, !.file = G]
    BY DEF ProcessEnds, Step, VfsInv
  <1>2. v \in VfsState /\ v.file \in [Files -> FileState] /\ v.fds \in Tabled
    BY <1>1 DEF Good, VfsState
  <1>3. D \in Tabled /\ D[tab] = [d \in Fds |-> None] /\ \A x \in Tables \ {tab} : D[x] = v.fds[x]
    BY <1>2 DEF Tabled
  <1> HIDE DEF D
  <1>4. ASSUME NEW f \in Files
        PROVE  /\ Cardinality(Slots(v.fds, f)) = Cardinality(Slots(D, f)) + Cardinality(S(f))
               /\ IsFiniteSet(S(f)) /\ Cardinality(S(f)) \in Nat
    <2>1. S(f) \in SUBSET Fds
      OBVIOUS
    <2>2. IsFiniteSet(S(f)) /\ Cardinality(S(f)) \in Nat
      BY <2>1, FS_Subset, FS_CardinalityType, VfsAssumption
    <2>3. IsFiniteSet({tab}) /\ Cardinality({tab}) = 1
      BY FS_Singleton
    <2> DEFINE P == {tab} \X S(f)
    <2>4. IsFiniteSet(P) /\ Cardinality(P) = Cardinality({tab}) * Cardinality(S(f))
      BY <2>2, <2>3, FS_Product
    <2>5. Cardinality(P) = Cardinality(S(f))
      BY <2>2, <2>3, <2>4
    <2>6. \A x \in Tables, e \in Fds : v.fds[x][e] = f <=> D[x][e] = f \/ (x = tab /\ e \in S(f))
      <3> TAKE x \in Tables, e \in Fds
      <3>1. CASE x = tab
        BY <3>1, <1>3, VfsAssumption
      <3>2. CASE x # tab
        BY <3>2, <1>3
      <3> QED
        BY <3>1, <3>2
    <2>7. Slots(v.fds, f) = Slots(D, f) \cup P
      BY <2>6 DEF Slots
    <2>8. Slots(D, f) \cap P = {}
      BY <1>3, VfsAssumption DEF Slots
    <2> HIDE DEF P
    <2>9. Cardinality(Slots(D, f) \cup P) =
            Cardinality(Slots(D, f)) + Cardinality(P) - Cardinality(Slots(D, f) \cap P)
      BY <2>4, FS_Union, PointersFinite
    <2>10. Cardinality(Slots(D, f) \cap P) = 0
      BY <2>8, FS_EmptySet
    <2> QED
      BY <2>2, <2>5, <2>7, <2>9, <2>10, PointersFinite
  <1> HIDE DEF S
  <1>5. ASSUME NEW f \in Files
        PROVE  /\ G[f] \in FileState /\ G[f].ref = Cardinality(Slots(D, f)) + Cardinality(Calls(v.th, f))
               /\ IF G[f].ref = 0 THEN G[f] = Freed ELSE G[f].path \in Paths
               /\ G[f].lock <=> v.file[f].lock
    <2>1. /\ v.file[f].ref = Cardinality(Slots(v.fds, f)) + Cardinality(Calls(v.th, f))
          /\ IF v.file[f].ref = 0 THEN v.file[f] = Freed ELSE v.file[f].path \in Paths
          /\ v.file[f] \in FileState
      BY <1>1, <1>2 DEF Good, CountsExact
    <2>2. k(f) = Cardinality(Slots(D, f)) + Cardinality(Calls(v.th, f)) /\ k(f) \in Nat
      BY <1>4, <2>1, PointersFinite
    <2>3. G[f] = IF S(f) # {} /\ k(f) = 0 THEN Freed ELSE [v.file[f] EXCEPT !.ref = k(f)]
      OBVIOUS
    <2>4. Freed \in FileState /\ Freed.ref = 0 /\ ~Freed.lock
      BY VfsAssumption DEF Freed, FileState
    <2>5. k(f) = 0 => ~v.file[f].lock
      <3>1. k(f) = 0 => Calls(v.th, f) = {}
        BY <2>2, FS_EmptySet, PointersFinite
      <3>2. v.file[f].lock => Calls(v.th, f) # {}
        BY <1>1 DEF Good, GateExact, Calls
      <3> QED
        BY <3>1, <3>2
    <2>6. S(f) = {} => k(f) = v.file[f].ref
      BY <2>1, FS_EmptySet DEF FileState
    <2>7. S(f) = {} /\ k(f) = 0 => v.file[f] = Freed
      BY <2>1, <2>6
    <2> DEFINE K == k(f)
    <2> HIDE DEF k, G
    <2>8. CASE S(f) # {} /\ k(f) = 0
      <3>1. G[f] = Freed
        BY <2>3, <2>8
      <3> QED
        BY <3>1, <2>2, <2>4, <2>5, <2>8
    <2>9. CASE ~(S(f) # {} /\ k(f) = 0)
      <3>1. G[f] = [v.file[f] EXCEPT !.ref = k(f)]
        BY <2>3, <2>9
      <3>2. /\ G[f] \in FileState /\ G[f].ref = k(f) /\ G[f].path = v.file[f].path
            /\ G[f].lock = v.file[f].lock
        BY <2>1, <2>2, <3>1 DEF FileState
      <3>3. k(f) = 0 => G[f] = v.file[f]
        BY <2>1, <2>6, <2>9, <3>1 DEF FileState
      <3>4. k(f) # 0 => v.file[f].ref # 0
        BY <2>1, <2>2, <1>4, PointersFinite
      <3> QED
        BY <2>1, <2>2, <2>7, <2>9, <3>2, <3>3, <3>4, Zenon
    <2> QED
      BY <2>8, <2>9
  <1>6. G \in [Files -> FileState]
    BY <1>5
  <1> HIDE DEF G
  <1>7. /\ v' \in VfsState /\ v'.th = v.th /\ v'.waiters = v.waiters /\ v'.gate = v.gate /\ v'.fds = D
        /\ v'.file = G
    BY <1>1, <1>2, <1>3, <1>6, Zenon DEF VfsState
  <1>8. CountsExact(v')
    BY <1>5, <1>7 DEF CountsExact
  <1>9. QueueExact(v')
    BY <1>1, <1>7 DEF Good, QueueExact
  <1>10. GateExact(v')
    <2>1. GateExact(v)
      BY <1>1 DEF Good
    <2>2. \A f \in Files : v'.file[f].lock <=> v.file[f].lock
      BY <1>5, <1>7
    <2> QED
      BY ONLY <2>1, <2>2, <1>7 DEF GateExact
  <1>11. Good(v')
    BY <1>1, <1>7, <1>8, <1>9, <1>10 DEF Good
  <1> QED
    BY <1>11, GoodIsSound DEF VfsInv

(* The invariant says what RefsExact and GateSound say. *)
LEMMA SoundMeans ==
    ASSUME Sound(v) PROVE RefsExact /\ GateSound
  <1>1. RefsExact
    BY Zenon DEF Sound, RefsExact, Slots, Calls
  <1>2. TypeOK
    <2>1. v \in VfsState
      BY DEF Sound
    <2>2. DOMAIN v = {"data", "file", "fds", "gate", "waiters", "th"}
      BY <2>1 DEF VfsState
    <2>3. \A p \in Paths : v.data[p] \in Seq(Tags) /\ Len(v.data[p]) <= MaxSize
      BY <2>1 DEF VfsState, Volume
    <2>4. /\ v.gate \in BOOLEAN /\ v.file \in [Files -> FileState]
          /\ v.fds \in Tabled /\ v.waiters \in Seq(Threads)
          /\ v.th \in [Threads -> ThreadState]
      BY <2>1 DEF VfsState
    <2> QED
      BY <2>2, <2>3, <2>4, Zenon DEF TypeOK, Tags, FileState, Tabled, ThreadState
  <1>3. GateSerialises
    <2> DEFINE io == {t \in Threads : v.th[t].pc = "io"}
    <2>1. GateExact(v) /\ v.gate \in BOOLEAN
      BY DEF Sound, VfsState
    <2>2. ASSUME v.gate PROVE Cardinality(io) = 1
      <3>1. PICK t \in Threads : v.th[t].pc = "io"
        BY <2>1, <2>2 DEF GateExact
      <3>2. io = {t}
        BY <2>1, <3>1 DEF GateExact
      <3> QED
        BY <3>2, FS_Singleton, Zenon
    <2>3. ASSUME ~v.gate PROVE Cardinality(io) = 0
      <3>1. io = {}
        BY <2>1, <2>3 DEF GateExact
      <3> QED
        BY <3>1, FS_EmptySet, Zenon
    <2>4. Cardinality(io) = IF v.gate THEN 1 ELSE 0
      BY <2>1, <2>2, <2>3
    <2>5. \A f \in Files :
             v.file[f].lock <=> \E t \in io : v.th[t].file = f /\ v.th[t].call # "fsync"
      BY <2>1 DEF GateExact
    <2> QED
      BY <2>4, <2>5 DEF GateSerialises
  <1>4. GateNotStranded
    <2>1. v.waiters \in Seq(Threads) /\ QueueExact(v)
      BY DEF Sound, VfsState
    <2>2. \A i \in 1 .. Len(v.waiters) : v.waiters[i] \in Threads
      BY <2>1, ElementOfSeq
    <2>3. {v.waiters[i] : i \in 1 .. Len(v.waiters)} = {t \in Threads : v.th[t].pc = "gate"}
      BY <2>1, <2>2 DEF QueueExact, Among
    <2> QED
      BY <2>3 DEF GateNotStranded, Sound
  <1> QED
    BY <1>1, <1>2, <1>3, <1>4 DEF GateSound

(* Nothing is open at first. *)
LEMMA VfsInitially == Init => VfsInv
  <1> SUFFICES ASSUME Init PROVE Good(v)
    BY GoodIsSound DEF VfsInv
  <1> USE DEF Init
  <1>1. /\ User \in ThreadState /\ Freed \in FileState
        /\ User.pc = "user" /\ User.file = None /\ Freed.ref = 0 /\ ~Freed.lock
    BY VfsAssumption DEF User, ThreadState, Freed, FileState
  <1>2. /\ v.th = [t \in Threads |-> User] /\ v.file = [f \in Files |-> Freed] /\ v.waiters = <<>>
        /\ v.gate = FALSE
        /\ v.fds = [tab \in Tables |-> [d \in Fds |-> None]]
    OBVIOUS
  <1>3. <<0>> \in Seq(Tags) /\ Len(<<0>>) <= MaxSize
    BY VfsAssumption DEF Tags
  <1>4. [p \in Paths |-> <<0>>] \in Volume
    BY <1>3, Zenon DEF Volume
  <1>5. v \in VfsState
    <2>1. /\ [f \in Files |-> Freed] \in [Files -> FileState]
          /\ [t \in Threads |-> User] \in [Threads -> ThreadState]
          /\ [tab \in Tables |-> [d \in Fds |-> None]] \in Tabled /\ <<>> \in Seq(Threads)
      BY <1>1 DEF Tabled
    <2> QED
      BY <1>4, <2>1, StateType, Zenon
  <1>6. CountsExact(v)
    <2>1. ASSUME NEW f \in Files PROVE Slots(v.fds, f) = {} /\ Calls(v.th, f) = {}
      BY <1>1, <1>2, VfsAssumption DEF Slots, Calls
    <2>2. ASSUME NEW f \in Files
          PROVE  /\ v.file[f].ref = Cardinality(Slots(v.fds, f)) + Cardinality(Calls(v.th, f))
                 /\ v.file[f].ref = 0 /\ v.file[f] = Freed
      <3>1. v.file[f] = Freed
        BY <1>2
      <3>2. Cardinality(Slots(v.fds, f)) = 0 /\ Cardinality(Calls(v.th, f)) = 0
        BY <2>1, FS_EmptySet, Zenon
      <3> QED
        BY <1>1, <3>1, <3>2
    <2> QED
      BY <2>2 DEF CountsExact
  <1>7. QueueExact(v)
    BY <1>1, <1>2 DEF QueueExact, Distinct, Among
  <1>8. GateExact(v) /\ \A t \in Threads : AtRest(v.th[t])
    BY <1>1, <1>2 DEF GateExact, AtRest
  <1> QED
    BY <1>2, <1>5, <1>6, <1>7, <1>8 DEF Good

(* Every step keeps the invariant. *)
LEMMA VfsStep == VfsInv /\ [Next]_v => VfsInv'
  <1> SUFFICES ASSUME VfsInv, [Next]_v PROVE VfsInv'
    OBVIOUS
  <1>1. ASSUME NEW t \in Threads, NEW fd \in Fds, SyscallRead(t, fd) PROVE VfsInv'
    <2>1. PICK n \in 1 .. MaxChunks : Enter(t, "read", fd, n)
      BY <1>1 DEF SyscallRead
    <2>2. n \in 0 .. MaxChunks + MaxSize
      BY VfsAssumption
    <2> QED
      BY <2>1, <2>2, EnterKeeps
  <1>2. ASSUME NEW t \in Threads, NEW fd \in Fds, SyscallWrite(t, fd) PROVE VfsInv'
    <2>1. PICK n \in 0 .. MaxChunks : Enter(t, "write", fd, n)
      BY <1>2 DEF SyscallWrite
    <2>2. n \in 0 .. MaxChunks + MaxSize
      BY VfsAssumption
    <2> QED
      BY <2>1, <2>2, EnterKeeps
  <1>3. ASSUME NEW t \in Threads, NEW fd \in Fds, SyscallSeek(t, fd) PROVE VfsInv'
    <2>1. PICK n \in 0 .. MaxSize : Enter(t, "seek", fd, n)
      BY <1>3 DEF SyscallSeek
    <2>2. n \in 0 .. MaxChunks + MaxSize /\ n <= MaxSize
      BY VfsAssumption
    <2> QED
      BY <2>1, <2>2, EnterKeeps
  <1>4. ASSUME NEW t \in Threads, NEW fd \in Fds, SyscallFsync(t, fd) PROVE VfsInv'
    <2>1. 0 \in 0 .. MaxChunks + MaxSize
      BY VfsAssumption
    <2> QED
      BY <1>4, <2>1, EnterKeeps DEF SyscallFsync
  <1>5. ASSUME NEW t \in Threads, NEW fd \in Fds, SyscallClose(t, fd) PROVE VfsInv'
    BY <1>5, CloseKeeps
  <1>6. ASSUME NEW t \in Threads, NEW p \in Paths, NEW m \in Modes, SyscallOpen(t, p, m) PROVE VfsInv'
    BY <1>6, OpenKeeps
  <1>7. ASSUME NEW t \in Threads, GateRetry(t) PROVE VfsInv'
    BY <1>7, RetryKeeps
  <1>7a. ASSUME NEW t \in Threads, ChildEnds(t) PROVE VfsInv'
    BY <1>7a, ChildEndsKeeps
  <1>7b. ASSUME NEW t \in Threads, GateRefused(t) PROVE VfsInv'
    BY <1>7b, GateRefusedKeeps
  <1>8. ASSUME NEW t \in Threads, IoDone(t) PROVE VfsInv'
    BY <1>8, IoDoneKeeps
  <1>9. ASSUME NEW t \in Threads, IoFails(t) PROVE VfsInv'
    BY <1>9, IoFailsKeeps
  <1>10. ASSUME NEW tab \in Tables, ProcessEnds(tab) PROVE VfsInv'
    BY <1>10, ProcessEndsKeeps
  <1>11. ASSUME UNCHANGED v PROVE VfsInv'
    <2>1. /\ Sound(v)' = Sound(v)
          /\ Spinning(v)' = Spinning(v)
          /\ Good(v)' = Good(v)
      BY <1>11, Zenon
    <2> QED
      BY <2>1, Zenon DEF VfsInv
  <1>12. ASSUME NEW t \in Threads, Spins(t) PROVE VfsInv'
    BY <1>11, <1>12 DEF Spins
  <1> QED
    BY <1>1, <1>2, <1>3, <1>4, <1>5, <1>6, <1>7, <1>7a, <1>7b, <1>8, <1>9, <1>10, <1>11, <1>12 DEF Next

(* The inductive invariant holds for any number of threads, processes,     *)
(* descriptors, files and chunks: between two steps the counts are exact,  *)
(* and the gate, the locks and the queue of the gate belong to the threads *)
(* that hold them or wait for them.                                        *)
THEOREM FilesInvariant == Spec => []VfsInv
  <1> QED
    BY VfsInitially, VfsStep, PTL DEF Spec

(* The reference count of an open file is always the number of descriptors *)
(* and of calls that point to it, and the file is freed when it is zero    *)
(* (kernel_fd_acquire, kernel_fd_close, kernel_vfs_file_release).          *)
THEOREM ReferencesExact == Spec => []RefsExact
  <1>1. VfsInv => RefsExact
    BY SoundMeans DEF VfsInv
  <1> QED
    BY <1>1, FilesInvariant, PTL

(* The gate admits one call to the file system, a locked file is locked by *)
(* the call in I/O, and no waiter is left behind a free gate               *)
(* (syscall_gate_lock, syscall_gate_unlock).                               *)
THEOREM GateIsSound == Spec => []GateSound
  <1>1. VfsInv => GateSound
    BY SoundMeans DEF VfsInv
  <1> QED
    BY <1>1, FilesInvariant, PTL
=============================================================================
