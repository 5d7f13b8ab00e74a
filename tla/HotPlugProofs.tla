--------------------------- MODULE HotPlugProofs ---------------------------
(***************************************************************************)
(* A device is destroyed only when nobody is inside it, for any number of  *)
(* host threads, processors, slots, entries of the table and modules.      *)
(*                                                                         *)
(* The table says which device an entry belongs to, and the entry's lock   *)
(* keeps it there while a visitor is inside.  What remains to show is that *)
(* the host thread that destroys a device has taken all of its entries off *)
(* the bus, which it does range by range, by base and size: so entries     *)
(* must differ in their base, and every entry of a device must be one of   *)
(* the ranges that its slot, or the host thread in charge of it, lists.    *)
(*                                                                         *)
(* The same invariant, with the books on lines, living devices, the count  *)
(* of slots and the reads of the kernel, shows that whenever the manager's *)
(* lock is free nothing is leaked and nothing is given out twice.          *)
(***************************************************************************)
EXTENDS HotPlug, SequenceTheorems, FiniteSetTheorems, TLAPS

Bar == [base : Int, size : Nat \ {0}]
Entry == [present : BOOLEAN, base : Int, size : Int, dev : Nat, bar : Nat, lock : Visitors \cup {Nobody}]
Slot == [present : BOOLEAN, external : BOOLEAN, bars : Seq(Bar), irqs : SUBSET Lines, dev : Nat]
HostState == [at : {"idle", "map", "undo", "unmap"}, slot : Nat, bars : Seq(Bar), irqs : SUBSET Lines,
              dev : Nat, mapped : Nat, unmapped : Nat]
VisitState == [at : {"idle", "look", "lock", "call"}, kind : {"none", "access", "tick"}, address : Addresses \cup {0},
               entry : Nat, dev : Nat]

PlugTypes ==
    /\ slots \in [1..SlotCount -> Slot]
    /\ table \in [1..BusCapacity -> Entry]
    /\ host \in [HostThreads -> HostState]
    /\ visit \in [Visitors -> VisitState]
    /\ devices \in Nat
    /\ \A v \in Visitors : visit[v].at # "idle" => visit[v].entry \in 1..BusCapacity

(* Only the holder of the manager's lock is at work. *)
OneHost == \A h \in HostThreads : host[h].at # "idle" => holder = h

(* A visitor that is inside a device holds the entry it came by. *)
InsideHoldsEntry ==
    \A v \in Visitors : visit[v].at = "call" =>
        /\ table[visit[v].entry].lock = v /\ table[visit[v].entry].present
        /\ table[visit[v].entry].dev = visit[v].dev

(* Entries are told apart by their base, and belong to devices that live.  *)
EntriesApart ==
    /\ \A i, j \in 1..BusCapacity :
          table[i].present /\ table[j].present /\ table[i].base = table[j].base => i = j
    /\ \A i \in 1..BusCapacity : table[i].present => table[i].size > 0 /\ table[i].dev \in alive \cup {Hub}

(* In table t, the entries of device d are the ranges first..last of bars, *)
(* which differ in their base.                                             *)
OnBus(t, d, bars, first, last) ==
    /\ \A i \in 1..BusCapacity : t[i].present /\ t[i].dev = d => \E k \in first..last : t[i].base = bars[k].base
    /\ \A k \in first..last : \E i \in 1..BusCapacity :
          t[i].present /\ t[i].dev = d /\ t[i].base = bars[k].base /\ t[i].size = bars[k].size
    /\ \A j, k \in first..last : bars[j].base = bars[k].base => j = k

(* So it is for the device that a host thread brings up or takes down, ... *)
HostExact ==
    \A h \in HostThreads : host[h].at # "idle" =>
        /\ host[h].dev \in alive
        /\ host[h].unmapped <= host[h].mapped /\ host[h].mapped <= Len(host[h].bars)
        /\ host[h].slot \in 1..SlotCount
        /\ host[h].at = "map" => host[h].unmapped = 0 /\ ~slots[host[h].slot].present
        /\ host[h].at = "unmap" => slots[host[h].slot].external /\ slots[host[h].slot].dev = host[h].dev
        /\ host[h].at # "unmap" =>
             \A s \in 1..SlotCount : slots[s].external => slots[s].dev # host[h].dev
        /\ OnBus(table, host[h].dev, host[h].bars, host[h].unmapped + 1, host[h].mapped)

(* ... and for the device of every other slot. *)
Undisturbed(s) == \A h \in HostThreads : host[h].at = "unmap" => host[h].slot # s
SlotsExact ==
    /\ \A s \in 1..SlotCount : slots[s].external =>
          /\ slots[s].present /\ slots[s].dev \in alive
          /\ Undisturbed(s) => OnBus(table, slots[s].dev, slots[s].bars, 1, Len(slots[s].bars))
    /\ \A s, t \in 1..SlotCount : slots[s].external /\ slots[t].external /\ slots[s].dev = slots[t].dev => s = t

DevicesCounted == alive \subseteq 1..devices

PlugInv ==
    PlugTypes /\ OneHost /\ InsideHoldsEntry /\ EntriesApart /\ HostExact /\ SlotsExact /\ DevicesCounted

-----------------------------------------------------------------------------
(* The records that stand for nothing are well formed. *)
LEMMA EmptyTypes ==
    /\ EmptySlot \in Slot /\ FixedSlot \in Slot /\ EmptyEntry \in Entry
    /\ IdleHost \in HostState /\ IdleVisit \in VisitState
<1>1. <<>> \in Seq(Bar) /\ <<[base |-> -1, size |-> 1]>> \in Seq(Bar)
  BY DEF Bar
<1>2. EmptySlot \in Slot /\ FixedSlot \in Slot
  BY <1>1 DEF EmptySlot, FixedSlot, Slot
<1>3. EmptyEntry \in Entry /\ IdleHost \in HostState /\ IdleVisit \in VisitState
  BY <1>1 DEF EmptyEntry, Entry, IdleHost, HostState, IdleVisit, VisitState, Nobody
<1> QED
  BY <1>2, <1>3

(* PlugInit gives a table with the hub only, and nobody at work. *)
LEMMA InitPlug == PlugInit => PlugInv
<1> SUFFICES ASSUME PlugInit PROVE PlugInv
  OBVIOUS
<1> USE HotPlugAssumption
<1>1. PlugTypes
  <2>1. Mapping([base |-> 0, size |-> 1], Hub, 0) \in Entry
    BY DEF Entry, Mapping, Hub, Nobody
  <2>2. devices \in Nat
    BY DEF PlugInit
  <2>3. slots \in [1..SlotCount -> Slot] /\ table \in [1..BusCapacity -> Entry]
    BY EmptyTypes, <2>1 DEF PlugInit
  <2>4. host \in [HostThreads -> HostState] /\ visit \in [Visitors -> VisitState]
    BY EmptyTypes DEF PlugInit
  <2> QED
    BY <2>2, <2>3, <2>4 DEF PlugInit, PlugTypes, IdleVisit
<1>2. OneHost /\ InsideHoldsEntry /\ HostExact /\ DevicesCounted
  BY DEF PlugInit, OneHost, InsideHoldsEntry, HostExact, DevicesCounted, IdleHost, IdleVisit
<1>3. EntriesApart
  BY DEF PlugInit, EntriesApart, EmptyEntry, Mapping, Hub
<1>4. SlotsExact
  BY DEF PlugInit, SlotsExact, EmptySlot, FixedSlot
<1> QED
  BY <1>1, <1>2, <1>3, <1>4 DEF PlugInv

(* A step that leaves every entry's device and range, the slots and the    *)
(* host threads alone, as the steps of a visitor do, keeps what is said of *)
(* them.                                                                   *)
LEMMA SameRanges ==
    ASSUME PlugInv, UNCHANGED <<holder, slots, host, alive, devices>>,
           \A i \in 1..BusCapacity : /\ table'[i].present = table[i].present /\ table'[i].dev = table[i].dev
                                     /\ table'[i].base = table[i].base /\ table'[i].size = table[i].size
    PROVE  OneHost' /\ EntriesApart' /\ HostExact' /\ SlotsExact' /\ DevicesCounted'
<1>1. ASSUME NEW d, NEW bars, NEW first, NEW last, OnBus(table, d, bars, first, last)
      PROVE  OnBus(table', d, bars, first, last)
  <2>1. \A i \in 1..BusCapacity : table'[i].present /\ table'[i].dev = d =>
           \E k \in first..last : table'[i].base = bars[k].base
    BY <1>1 DEF OnBus
  <2>2. \A k \in first..last : \E i \in 1..BusCapacity :
           table'[i].present /\ table'[i].dev = d /\ table'[i].base = bars[k].base /\ table'[i].size = bars[k].size
    BY <1>1 DEF OnBus
  <2> QED
    BY <1>1, <2>1, <2>2 DEF OnBus
<1>2. OneHost' /\ DevicesCounted'
  BY DEF PlugInv, OneHost, DevicesCounted
<1>3. EntriesApart'
  BY DEF PlugInv, EntriesApart
<1>4. HostExact'
  BY <1>1 DEF PlugInv, HostExact
<1>5. SlotsExact'
  BY <1>1 DEF PlugInv, SlotsExact, Undisturbed
<1> QED
  BY <1>2, <1>3, <1>4, <1>5


(* What a visitor makes of itself. *)
VisitTypes ==
    visit \in [Visitors -> VisitState] /\ \A v \in Visitors : visit[v].at # "idle" => visit[v].entry \in 1..BusCapacity

(* Visiting moves one visitor and keeps it well formed. *)
LEMMA VisitingMoves ==
    ASSUME VisitTypes, NEW v \in Visitors, NEW at \in {"look", "lock", "call"}, NEW entry \in 1..BusCapacity,
           NEW dev \in Nat, Visiting(v, at, entry, dev)
    PROVE  /\ VisitTypes' /\ visit'[v].at = at /\ visit'[v].entry = entry /\ visit'[v].dev = dev
           /\ \A w \in Visitors \ {v} : visit'[w] = visit[w]
<1> DEFINE new == [at |-> at, kind |-> visit[v].kind, address |-> visit[v].address, entry |-> entry,
                   dev |-> dev]
<1>1. visit[v] \in VisitState
  BY DEF VisitTypes
<1>2. entry \in Nat
  BY HotPlugAssumption
<1>3. new \in VisitState
  BY <1>1, <1>2 DEF VisitState
<1>4. visit' = [visit EXCEPT ![v] = new]
  BY DEF Visiting
<1>5. new.at = at /\ new.entry = entry /\ new.dev = dev
  OBVIOUS
<1> HIDE DEF new
<1> QED
  BY <1>3, <1>4, <1>5 DEF VisitTypes

(* A visit that ends leaves its visitor well formed. *)
LEMMA IdleMoves ==
    ASSUME VisitTypes, NEW v \in Visitors, visit' = [visit EXCEPT ![v] = IdleVisit]
    PROVE  VisitTypes' /\ visit'[v].at = "idle" /\ \A w \in Visitors \ {v} : visit'[w] = visit[w]
<1>1. IdleVisit.at = "idle"
  BY DEF IdleVisit
<1> QED
  BY <1>1, EmptyTypes DEF VisitTypes

(* NextEntry goes on to the next entry or ends, and enters no device. *)
LEMMA NextEntryMoves ==
    ASSUME VisitTypes, NEW v \in Visitors, visit[v].at # "idle", NextEntry(v)
    PROVE  VisitTypes' /\ visit'[v].at # "call" /\ \A w \in Visitors \ {v} : visit'[w] = visit[w]
<1>1. CASE visit[v].entry = BusCapacity
  BY <1>1, IdleMoves DEF NextEntry
<1>2. CASE visit[v].entry # BusCapacity
  <2>1. visit[v].entry + 1 \in 1..BusCapacity
    BY <1>2, HotPlugAssumption DEF VisitTypes
  <2>2. Visiting(v, "look", visit[v].entry + 1, 0)
    BY <1>2 DEF NextEntry
  <2> QED
    BY <2>1, <2>2, VisitingMoves
<1> QED
  BY <1>1, <1>2

(* A lock is taken or left; the rest of the entry stays. *)
LEMMA LockMoves ==
    ASSUME table \in [1..BusCapacity -> Entry], NEW e \in 1..BusCapacity, NEW l \in Visitors \cup {Nobody},
           table' = [table EXCEPT ![e].lock = l]
    PROVE  /\ table' \in [1..BusCapacity -> Entry] /\ table'[e].lock = l
           /\ \A i \in 1..BusCapacity \ {e} : table'[i] = table[i]
           /\ \A i \in 1..BusCapacity : /\ table'[i].present = table[i].present /\ table'[i].dev = table[i].dev
                                        /\ table'[i].base = table[i].base /\ table'[i].size = table[i].size
<1>1. table[e] \in Entry
  OBVIOUS
<1>2. [table[e] EXCEPT !.lock = l] \in Entry /\ [table[e] EXCEPT !.lock = l].lock = l
  BY <1>1 DEF Entry
<1>3. /\ [table[e] EXCEPT !.lock = l].present = table[e].present /\ [table[e] EXCEPT !.lock = l].dev = table[e].dev
      /\ [table[e] EXCEPT !.lock = l].base = table[e].base /\ [table[e] EXCEPT !.lock = l].size = table[e].size
  BY <1>1 DEF Entry
<1>4. table' = [table EXCEPT ![e] = [table[e] EXCEPT !.lock = l]]
  OBVIOUS
<1>5. table'[e] = [table[e] EXCEPT !.lock = l] /\ \A i \in 1..BusCapacity \ {e} : table'[i] = table[i]
  BY <1>4
<1>6. table' \in [1..BusCapacity -> Entry]
  BY <1>2, <1>4
<1> QED
  BY <1>2, <1>3, <1>5, <1>6

(* A visitor: it changes only locks and itself, and gets inside a device   *)
(* only by an entry that it finds present under the entry's lock.          *)
LEMMA VisitorStep ==
    ASSUME PlugInv, NEW v \in Visitors,
           \/ VisitStep(v) \/ VisitBegins(v, "tick", 0)
           \/ \E a \in Addresses : VisitBegins(v, "access", a)
    PROVE  PlugInv'
<1>0. PlugTypes /\ InsideHoldsEntry /\ VisitTypes /\ v # Nobody /\ table \in [1..BusCapacity -> Entry]
  BY HotPlugAssumption DEF PlugInv, Nobody, PlugTypes, VisitTypes
<1>a. ASSUME VisitTypes', UNCHANGED <<slots, host, devices>>,
             table' \in [1..BusCapacity -> Entry] PROVE PlugTypes'
  BY <1>0, <1>a DEF PlugTypes, VisitTypes
<1>1. ASSUME NEW a \in Addresses \cup {0}, NEW kind \in {"access", "tick"}, VisitBegins(v, kind,
             a) PROVE PlugInv'
  <2> DEFINE new == [at |-> "look", kind |-> kind, address |-> a, entry |-> 1, dev |-> 0]
  <2>1. new \in VisitState /\ new.at = "look" /\ new.entry \in 1..BusCapacity
    BY HotPlugAssumption DEF VisitState
  <2>2. visit' = [visit EXCEPT ![v] = new]
    BY <1>1 DEF VisitBegins
  <2> HIDE DEF new
  <2>3. VisitTypes' /\ visit'[v].at = "look" /\ \A w \in Visitors \ {v} : visit'[w] = visit[w]
    BY <1>0, <2>1, <2>2 DEF VisitTypes
  <2>4. PlugTypes' /\ InsideHoldsEntry'
    BY <1>0, <1>1, <1>a, <2>3 DEF VisitBegins, InsideHoldsEntry
  <2> QED
    BY <1>1, <2>4, SameRanges DEF VisitBegins, PlugInv
<1>3. CASE LooksAtEntry(v)
  <2>1. visit[v].at # "idle" /\ visit[v].entry \in 1..BusCapacity
    BY <1>0, <1>3 DEF LooksAtEntry, VisitTypes
  <2>2. VisitTypes' /\ visit'[v].at # "call" /\ \A w \in Visitors \ {v} : visit'[w] = visit[w]
    BY <1>0, <1>3, <2>1, VisitingMoves, NextEntryMoves DEF LooksAtEntry
  <2>3. PlugTypes' /\ InsideHoldsEntry'
    BY <1>0, <1>3, <1>a, <2>2 DEF LooksAtEntry, InsideHoldsEntry
  <2> QED
    BY <1>3, <2>3, SameRanges DEF LooksAtEntry, PlugInv
<1>4. CASE lock_mapping_for_address(v)
  <2> DEFINE e == visit[v].entry
  <2>1. visit[v].at # "idle" /\ e \in 1..BusCapacity /\ table[e].dev \in Nat /\ table[e].lock = Nobody
    BY <1>0, <1>4 DEF lock_mapping_for_address, VisitTypes, Entry
  <2>2. CASE Wanted(v, table[e])
    <3>1. table' = [table EXCEPT ![e].lock = v] /\ Visiting(v, "call", e, table[e].dev) /\ table[e].present
      BY <1>4, <2>2 DEF lock_mapping_for_address, Wanted
    <3>2. /\ VisitTypes' /\ visit'[v].at = "call" /\ visit'[v].entry = e /\ visit'[v].dev = table[e].dev
          /\ \A w \in Visitors \ {v} : visit'[w] = visit[w]
      BY <1>0, <2>1, <3>1, VisitingMoves, SMTT(30)
    <3>3. /\ table' \in [1..BusCapacity -> Entry] /\ table'[e].lock = v
          /\ \A i \in 1..BusCapacity \ {e} : table'[i] = table[i]
          /\ \A i \in 1..BusCapacity : /\ table'[i].present = table[i].present /\ table'[i].dev = table[i].dev
                                       /\ table'[i].base = table[i].base /\ table'[i].size = table[i].size
      BY <1>0, <2>1, <3>1, LockMoves
    <3>4. PlugTypes'
      BY <1>4, <1>a, <3>2, <3>3 DEF lock_mapping_for_address
    <3>5. InsideHoldsEntry'
      <4> SUFFICES ASSUME NEW w \in Visitors, visit'[w].at = "call"
                   PROVE  /\ table'[visit'[w].entry].lock = w /\ table'[visit'[w].entry].present
                          /\ table'[visit'[w].entry].dev = visit'[w].dev
        BY DEF InsideHoldsEntry
      <4>1. CASE w = v
        BY <2>1, <3>1, <3>2, <3>3, <4>1
      <4>2. CASE w # v
        <5>1. visit'[w] = visit[w] /\ visit[w].entry \in 1..BusCapacity /\ table[visit[w].entry].lock = w
          BY <1>0, <3>2, <4>2 DEF InsideHoldsEntry, VisitTypes
        <5>2. visit[w].entry # e /\ w # Nobody
          BY <2>1, <5>1, HotPlugAssumption DEF Nobody
        <5> QED
          BY <1>0, <3>3, <5>1, <5>2 DEF InsideHoldsEntry
      <4> QED
        BY <4>1, <4>2
    <3> QED
      BY <1>4, <3>3, <3>4, <3>5, SameRanges DEF lock_mapping_for_address, PlugInv
  <2>3. CASE ~Wanted(v, table[e])
    <3>1. UNCHANGED table /\ NextEntry(v)
      BY <1>4, <2>3 DEF lock_mapping_for_address
    <3>2. VisitTypes' /\ visit'[v].at # "call" /\ \A w \in Visitors \ {v} : visit'[w] = visit[w]
      BY <1>0, <2>1, <3>1, NextEntryMoves
    <3>3. PlugTypes' /\ InsideHoldsEntry'
      BY <1>0, <1>4, <1>a, <3>1, <3>2 DEF lock_mapping_for_address, InsideHoldsEntry
    <3> QED
      BY <1>4, <3>1, <3>3, SameRanges DEF lock_mapping_for_address, PlugInv
  <2> QED
    BY <2>2, <2>3
<1>5. CASE DeviceReturns(v)
  <2> DEFINE e == visit[v].entry
  <2>1. visit[v].at # "idle" /\ e \in 1..BusCapacity /\ table' = [table EXCEPT ![e].lock = Nobody] /\ table[e].lock = v
    BY <1>0, <1>5 DEF DeviceReturns, VisitTypes, InsideHoldsEntry
  <2>2. VisitTypes' /\ visit'[v].at # "call" /\ \A w \in Visitors \ {v} : visit'[w] = visit[w]
    BY <1>0, <1>5, <2>1, IdleMoves, NextEntryMoves, SMTT(30) DEF DeviceReturns
  <2>3. /\ table' \in [1..BusCapacity -> Entry]
        /\ \A i \in 1..BusCapacity \ {e} : table'[i] = table[i]
        /\ \A i \in 1..BusCapacity : /\ table'[i].present = table[i].present /\ table'[i].dev = table[i].dev
                                     /\ table'[i].base = table[i].base /\ table'[i].size = table[i].size
    BY <1>0, <2>1, LockMoves
  <2>4. PlugTypes'
    BY <1>5, <1>a, <2>2, <2>3 DEF DeviceReturns
  <2>5. InsideHoldsEntry'
    BY <1>0, <2>1, <2>2, <2>3 DEF InsideHoldsEntry, VisitTypes
  <2> QED
    BY <1>5, <2>3, <2>4, <2>5, SameRanges DEF DeviceReturns, PlugInv
<1> QED
  BY <1>1, <1>3, <1>4, <1>5 DEF VisitStep

(* With the manager's lock free no host thread is at work. *)
LEMMA FreeMeansIdle ==
    ASSUME PlugInv, holder = Nobody
    PROVE  \A h \in HostThreads : host[h].at = "idle"
BY HotPlugAssumption DEF PlugInv, OneHost, Nobody

(* A placed range is a range, as the descriptor's sizes are not zero. *)
LEMMA PlacedBars ==
    ASSUME NEW m \in DeviceModules, NEW bars \in allocate_bars(m)
    PROVE  bars \in Seq(Bar)
<1> DEFINE Wish == [size : Nat \ {0}, align : Nat \ {0}]
<1>1. m.bars \in Seq(Wish)
  BY ModuleAssumption, Zenon
<1>2. PICK bases \in [1..Len(m.bars) -> 1..WindowEnd] : bars = BarsAt(m, bases)
  BY DEF allocate_bars
<1>3. Len(m.bars) \in Nat /\ m.bars \in [1..Len(m.bars) -> Wish]
  BY <1>1, LenProperties, Zenon
<1>4. \A k \in 1..Len(m.bars) : [base |-> bases[k], size |-> m.bars[k].size] \in Bar
  BY <1>2, <1>3, HotPlugAssumption DEF Bar
<1>5. bars \in [1..Len(m.bars) -> Bar]
  BY <1>2, <1>4 DEF BarsAt
<1> QED
  BY <1>3, <1>5, SeqDef

(* AttachBegins: the new device has no entry yet, and no slot. *)
LEMMA AttachStep ==
    ASSUME PlugInv, NEW h \in HostThreads, NEW m \in DeviceModules, NEW created \in BOOLEAN,
           AttachBegins(h, m, created)
    PROVE  PlugInv'
<1>0. PlugTypes /\ InsideHoldsEntry
  BY DEF PlugInv
<1>1. PICK irqs \in {allocate_irq(manager.irq_used, m.irqs)} :
         \/ UNCHANGED <<holder, alive, host, devices>>
         \/ /\ devices' = devices + 1 /\ holder' = h /\ alive' = alive \cup {devices + 1}
            /\ \E bars \in allocate_bars(m), s \in FirstOf(free_slot_index) :
                 host' = [host EXCEPT ![h] = [at |-> "map", slot |-> s, bars |-> bars, irqs |-> irqs,
                                              dev |-> devices + 1, mapped |-> 0, unmapped |-> 0]]
  BY DEF AttachBegins
<1>2. UNCHANGED <<slots, table, visit>> /\ \A g \in HostThreads : host[g].at = "idle"
  BY FreeMeansIdle DEF AttachBegins
<1>3. CASE UNCHANGED <<holder, alive, host, devices>>
  <2>1. PlugTypes' /\ InsideHoldsEntry'
    BY <1>0, <1>2, <1>3 DEF PlugTypes, InsideHoldsEntry
  <2> QED
    BY <1>2, <1>3, <2>1, SameRanges DEF PlugInv
<1>4. ASSUME NEW bars \in allocate_bars(m), NEW s \in FirstOf(free_slot_index),
             devices' = devices + 1, holder' = h, alive' = alive \cup {devices + 1},
             host' = [host EXCEPT ![h] = [at |-> "map", slot |-> s, bars |-> bars, irqs |-> irqs,
                                          dev |-> devices + 1, mapped |-> 0, unmapped |-> 0]]
      PROVE  PlugInv'
  <2>1. devices \in Nat
    BY <1>0 DEF PlugTypes
  <2>2. s \in 1..SlotCount /\ ~slots[s].present
    BY <1>4 DEF FirstOf, free_slot_index
  <2>3. bars \in Seq(Bar) /\ irqs \in SUBSET Lines
    BY PlacedBars DEF allocate_irq
  <2>4. PlugTypes'
    BY <1>0, <1>2, <1>4, <2>1, <2>2, <2>3 DEF PlugTypes, HostState
  <2>5. OneHost' /\ InsideHoldsEntry'
    BY <1>0, <1>2, <1>4 DEF OneHost, InsideHoldsEntry, PlugTypes
  <2>6. DevicesCounted' /\ devices + 1 \notin alive \cup {Hub}
    BY <1>4, <2>1 DEF PlugInv, DevicesCounted, Hub
  <2>7. EntriesApart'
    BY <1>2, <1>4 DEF PlugInv, EntriesApart
  <2>8. \A i \in 1..BusCapacity : ~(table'[i].present /\ table'[i].dev = devices + 1)
    BY <1>2, <2>6 DEF PlugInv, EntriesApart
  <2>9. HostExact'
    <3>1. /\ host'[h].at = "map" /\ host'[h].slot = s /\ host'[h].bars = bars /\ host'[h].dev = devices + 1
          /\ host'[h].mapped = 0 /\ host'[h].unmapped = 0 /\ \A g \in HostThreads \ {h} : host'[g].at = "idle"
      BY <1>0, <1>2, <1>4 DEF PlugTypes
    <3>2. \A t \in 1..SlotCount : slots'[t].external => slots'[t].dev # devices + 1
      BY <1>2, <2>6 DEF PlugInv, SlotsExact
    <3>3. OnBus(table', devices + 1, bars, 1, 0)
      BY <2>8 DEF OnBus
    <3> QED
      BY <1>2, <1>4, <2>2, <2>3, <3>1, <3>2, <3>3 DEF HostExact
  <2>10. SlotsExact'
    <3>1. \A t \in 1..SlotCount : Undisturbed(t) /\ Undisturbed(t)'
      BY <1>0, <1>2, <1>4 DEF Undisturbed, PlugTypes
    <3> QED
      BY <1>2, <1>4, <3>1 DEF PlugInv, SlotsExact
  <2> QED
    BY <2>4, <2>5, <2>6, <2>7, <2>9, <2>10 DEF PlugInv
<1> QED
  BY <1>1, <1>3, <1>4

(* Who is at work holds the lock alone, with a record that is well formed. *)
LEMMA AtWork ==
    ASSUME PlugInv, NEW h \in HostThreads, host[h].at # "idle"
    PROVE  /\ host[h] \in HostState /\ host[h].dev \in alive /\ host[h].dev # Hub /\ holder = h
           /\ \A g \in HostThreads \ {h} : host[g].at = "idle"
<1>1. host[h] \in HostState /\ host[h].dev \in alive /\ holder = h
  BY DEF PlugInv, PlugTypes, HostExact, OneHost
<1>2. host[h].dev # Hub
  BY <1>1 DEF PlugInv, DevicesCounted, PlugTypes, Hub
<1>3. \A g \in HostThreads \ {h} : host[g].at = "idle"
  BY <1>1 DEF PlugInv, OneHost
<1> QED
  BY <1>1, <1>2, <1>3

(* An entry that belongs to another device, before and after, is of no     *)
(* concern.                                                                *)
LEMMA OtherEntry ==
    ASSUME NEW t, NEW u, NEW d, NEW bars, NEW first, NEW last, NEW e \in 1..BusCapacity,
           \A i \in 1..BusCapacity \ {e} : u[i] = t[i],
           ~(t[e].present /\ t[e].dev = d), ~(u[e].present /\ u[e].dev = d), OnBus(t, d, bars, first, last)
    PROVE  OnBus(u, d, bars, first, last)
<1>1. \A i \in 1..BusCapacity : u[i].present /\ u[i].dev = d => \E k \in first..last : u[i].base = bars[k].base
  BY DEF OnBus
<1>2. \A k \in first..last : \E i \in 1..BusCapacity :
         u[i].present /\ u[i].dev = d /\ u[i].base = bars[k].base /\ u[i].size = bars[k].size
  BY DEF OnBus
<1> QED
  BY <1>1, <1>2 DEF OnBus

(* An entry whose lock is free has nobody inside. *)
LEMMA NobodyInside ==
    ASSUME PlugInv, NEW e \in 1..BusCapacity, table[e].lock = Nobody, UNCHANGED visit,
           \A i \in 1..BusCapacity \ {e} : table'[i] = table[i]
    PROVE  InsideHoldsEntry'
<1> SUFFICES ASSUME NEW v \in Visitors, visit[v].at = "call"
             PROVE  /\ table'[visit[v].entry].lock = v /\ table'[visit[v].entry].present
                    /\ table'[visit[v].entry].dev = visit[v].dev
  BY DEF InsideHoldsEntry
<1>1. visit[v].entry \in 1..BusCapacity /\ table[visit[v].entry].lock = v /\ v # Nobody
  BY HotPlugAssumption DEF PlugInv, PlugTypes, InsideHoldsEntry, Nobody
<1> QED
  BY <1>1 DEF PlugInv, InsideHoldsEntry

(* bus_map_device: a range that overlaps none has a base of its own. *)
LEMMA MapStep ==
    ASSUME PlugInv, NEW h \in HostThreads, bus_map_device(h)
    PROVE  PlugInv'
<1> DEFINE d == host[h].dev
           n == host[h].mapped
           bars == host[h].bars
           bar == bars[n + 1]
<1>0. /\ host[h].at = "map" /\ n < Len(bars) /\ UNCHANGED <<holder, slots, visit, alive, devices>>
      /\ host \in [HostThreads -> HostState] /\ table \in [1..BusCapacity -> Entry]
  BY DEF bus_map_device, PlugInv, PlugTypes
<1>1. /\ host[h] \in HostState /\ d \in alive /\ d # Hub /\ holder = h
      /\ \A g \in HostThreads \ {h} : host[g].at = "idle"
  BY <1>0, AtWork
<1>2. n \in Nat /\ bars \in Seq(Bar) /\ d \in Nat /\ bar \in Bar
  <2>1. n \in Nat /\ bars \in Seq(Bar) /\ d \in Nat
    BY <1>1 DEF HostState
  <2>2. n + 1 \in 1..Len(bars)
    BY <1>0, <2>1, LenProperties
  <2> QED
    BY <2>1, <2>2, ElementOfSeq
<1>3. /\ host[h].unmapped = 0 /\ host[h].slot \in 1..SlotCount /\ ~slots[host[h].slot].present
      /\ \A s \in 1..SlotCount : slots[s].external => slots[s].dev # d
      /\ OnBus(table, d, bars, 1, n)
  BY <1>0 DEF PlugInv, HostExact
<1>4. ASSUME NEW at \in {"map", "undo"}, NEW m \in Nat,
             host' \in [HostThreads -> HostState],
             host'[h].at = at, host'[h].mapped = m, m <= Len(bars),
             host'[h].slot = host[h].slot, host'[h].bars = bars, host'[h].dev = d, host'[h].unmapped = 0,
             \A g \in HostThreads \ {h} : host'[g] = host[g],
             OnBus(table', d, bars, 1, m)
      PROVE  OneHost' /\ HostExact' /\ \A s \in 1..SlotCount : Undisturbed(s) /\ Undisturbed(s)'
  <2>1. OneHost' /\ \A s \in 1..SlotCount : Undisturbed(s) /\ Undisturbed(s)'
    BY <1>0, <1>1, <1>4 DEF OneHost, Undisturbed
  <2>2. HostExact'
    BY <1>0, <1>1, <1>3, <1>4 DEF HostExact
  <2> QED
    BY <2>1, <2>2
<1>5. CASE Refused(bar) /\ host' = [host EXCEPT ![h].at = "undo"] /\ UNCHANGED table
  <2>1. [host[h] EXCEPT !.at = "undo"] \in HostState
    BY <1>1 DEF HostState
  <2>2. host' \in [HostThreads -> HostState]
    BY <1>0, <1>5, <2>1
  <2>3. /\ host'[h].at = "undo" /\ host'[h].mapped = n /\ host'[h].slot = host[h].slot /\ host'[h].bars = bars
        /\ host'[h].dev = d /\ host'[h].unmapped = 0 /\ \A g \in HostThreads \ {h} : host'[g] = host[g]
    BY <1>0, <1>1, <1>3, <1>5 DEF HostState
  <2>4. OnBus(table', d, bars, 1, n) /\ n <= Len(bars)
    BY <1>0, <1>2, <1>3, <1>5, LenProperties
  <2>5. OneHost' /\ HostExact' /\ \A s \in 1..SlotCount : Undisturbed(s) /\ Undisturbed(s)'
    BY <1>2, <1>4, <2>2, <2>3, <2>4
  <2>6. PlugTypes' /\ InsideHoldsEntry' /\ EntriesApart' /\ DevicesCounted'
    BY <1>0, <1>5, <2>2 DEF PlugInv, PlugTypes, InsideHoldsEntry, EntriesApart, DevicesCounted
  <2>7. SlotsExact'
    BY <1>0, <1>5, <2>5 DEF PlugInv, SlotsExact
  <2> QED
    BY <2>5, <2>6, <2>7 DEF PlugInv
<1>6. ASSUME ~Refused(bar), NEW e \in FirstOf(FreeEntries), table[e].lock = Nobody,
             table' = [table EXCEPT ![e] = Mapping(bar, d, n)], host' = [host EXCEPT ![h].mapped = @ + 1]
      PROVE  PlugInv'
  <2>1. [host[h] EXCEPT !.mapped = n + 1] \in HostState
    BY <1>1, <1>2 DEF HostState
  <2>2. host' \in [HostThreads -> HostState]
    BY <1>0, <1>6, <2>1
  <2>3. /\ host'[h].at = "map" /\ host'[h].mapped = n + 1 /\ host'[h].slot = host[h].slot /\ host'[h].bars = bars
        /\ host'[h].dev = d /\ host'[h].unmapped = 0 /\ \A g \in HostThreads \ {h} : host'[g] = host[g]
    BY <1>0, <1>1, <1>3, <1>6 DEF HostState
  <2>4. e \in 1..BusCapacity /\ ~table[e].present
    BY <1>6 DEF FirstOf, FreeEntries
  <2>5. /\ Mapping(bar, d, n) \in Entry /\ Mapping(bar, d, n).present /\ Mapping(bar, d, n).base = bar.base
        /\ Mapping(bar, d, n).size = bar.size /\ Mapping(bar, d, n).dev = d
    BY <1>2 DEF Mapping, Entry, Bar, Nobody
  <2>6. /\ table' \in [1..BusCapacity -> Entry] /\ table'[e] = Mapping(bar, d, n)
        /\ \A i \in 1..BusCapacity \ {e} : table'[i] = table[i]
    BY <1>0, <1>6, <2>4, <2>5
  <2>7. \A i \in 1..BusCapacity : table[i].present => table[i].base # bar.base
    <3> SUFFICES ASSUME NEW i \in 1..BusCapacity, table[i].present, table[i].base = bar.base PROVE FALSE
      OBVIOUS
    <3>1. table[i].base \in Int /\ table[i].size \in Int /\ table[i].size > 0
      BY <1>0 DEF PlugInv, EntriesApart, Entry
    <3>2. bar.base \in Int /\ bar.size \in Nat \ {0}
      BY <1>2 DEF Bar
    <3>3. ranges_overlap(table[i], bar)
      BY <3>1, <3>2 DEF ranges_overlap
    <3> QED
      BY <1>6, <3>3 DEF Refused
  <2>8. PlugTypes'
    BY <1>0, <2>2, <2>6 DEF PlugInv, PlugTypes
  <2>9. InsideHoldsEntry'
    BY <1>0, <1>6, <2>4, <2>6, NobodyInside
  <2>10. EntriesApart'
    <3>1. bar.size > 0
      BY <1>2 DEF Bar
    <3>2. \A i \in 1..BusCapacity : table'[i].present => table'[i].size > 0 /\ table'[i].dev \in alive \cup {Hub}
      <4> SUFFICES ASSUME NEW i \in 1..BusCapacity, table'[i].present
                   PROVE  table'[i].size > 0 /\ table'[i].dev \in alive \cup {Hub}
        OBVIOUS
      <4>1. CASE i = e
        BY <1>1, <2>5, <2>6, <3>1, <4>1
      <4>2. CASE i # e
        <5>1. table'[i] = table[i]
          BY <2>6, <4>2
        <5> QED
          BY <5>1 DEF PlugInv, EntriesApart
      <4> QED
        BY <4>1, <4>2
    <3>3. \A i, j \in 1..BusCapacity :
             table'[i].present /\ table'[j].present /\ table'[i].base = table'[j].base => i = j
      <4> SUFFICES ASSUME NEW i \in 1..BusCapacity, NEW j \in 1..BusCapacity, table'[i].present,
                          table'[j].present,
                          table'[i].base = table'[j].base, i # j
                   PROVE  FALSE
        OBVIOUS
      <4>1. CASE i = e
        BY <2>5, <2>6, <2>7, <4>1
      <4>2. CASE j = e
        BY <2>5, <2>6, <2>7, <4>2
      <4>3. CASE i # e /\ j # e
        BY <2>6, <4>3 DEF PlugInv, EntriesApart
      <4> QED
        BY <4>1, <4>2, <4>3
    <3> QED
      BY <1>0, <3>2, <3>3 DEF EntriesApart
  <2>11. OnBus(table', d, bars, 1, n + 1)
    <3>0. \A k \in 1..(n + 1) : k = n + 1 \/ k \in 1..n
      BY <1>2
    <3>1. \A i \in 1..BusCapacity : table'[i].present /\ table'[i].dev = d =>
             \E k \in 1..(n + 1) : table'[i].base = bars[k].base
      <4> SUFFICES ASSUME NEW i \in 1..BusCapacity, table'[i].present /\ table'[i].dev = d
                   PROVE  \E k \in 1..(n + 1) : table'[i].base = bars[k].base
        OBVIOUS
      <4>1. CASE i = e
        <5>1. n + 1 \in 1..(n + 1) /\ table'[i].base = bars[n + 1].base
          <6>1. n + 1 \in 1..(n + 1)
            BY <1>2
          <6>2. table'[i].base = bar.base
            BY <2>5, <2>6, <4>1
          <6> QED
            BY <6>1, <6>2
        <5> QED
          BY <5>1
      <4>2. CASE i # e
        <5>1. PICK k \in 1..n : table[i].base = bars[k].base
          BY <1>3, <2>6, <4>2 DEF OnBus
        <5> QED
          BY <1>2, <2>6, <4>2, <5>1
      <4> QED
        BY <4>1, <4>2
    <3>2. ASSUME NEW k \in 1..(n + 1)
          PROVE  \E i \in 1..BusCapacity : /\ table'[i].present /\ table'[i].dev = d
                                           /\ table'[i].base = bars[k].base /\ table'[i].size = bars[k].size
      <4>1. CASE k = n + 1
        BY <2>4, <2>5, <2>6, <4>1
      <4>2. CASE k \in 1..n
        BY <1>3, <2>4, <2>6, <4>2 DEF OnBus
      <4> QED
        BY <3>0, <4>1, <4>2
    <3>3. ASSUME NEW k \in 1..n PROVE bars[k].base # bar.base
      BY <1>3, <2>7 DEF OnBus
    <3>4. \A j, k \in 1..(n + 1) : bars[j].base = bars[k].base => j = k
      BY <1>3, <3>0, <3>3 DEF OnBus
    <3> QED
      BY <3>1, <3>2, <3>4 DEF OnBus
  <2>12. n + 1 \in Nat /\ n + 1 <= Len(bars)
    BY <1>0, <1>2, LenProperties
  <2>13. OneHost' /\ HostExact' /\ \A s \in 1..SlotCount : Undisturbed(s) /\ Undisturbed(s)'
    BY <1>4, <2>2, <2>3, <2>11, <2>12
  <2>14. SlotsExact'
    <3>1. ASSUME NEW s \in 1..SlotCount, slots[s].external
          PROVE  OnBus(table', slots[s].dev, slots[s].bars, 1, Len(slots[s].bars))
      <4>1. OnBus(table, slots[s].dev, slots[s].bars, 1, Len(slots[s].bars)) /\ slots[s].dev # d
        <5>1. Undisturbed(s) /\ slots[s].dev # d
          BY <1>3, <2>13, <3>1
        <5> QED
          BY <3>1, <5>1 DEF PlugInv, SlotsExact
      <4>2. ~(table[e].present /\ table[e].dev = slots[s].dev) /\ ~(table'[e].present /\ table'[e].dev = slots[s].dev)
        BY <2>4, <2>5, <2>6, <4>1
      <4> QED
        BY <2>4, <2>6, <4>1, <4>2, OtherEntry
    <3> QED
      BY <1>0, <3>1 DEF PlugInv, SlotsExact
  <2>15. DevicesCounted'
    BY <1>0 DEF PlugInv, DevicesCounted
  <2> QED
    BY <2>8, <2>9, <2>10, <2>13, <2>14, <2>15 DEF PlugInv
<1>7. \/ Refused(bar) /\ host' = [host EXCEPT ![h].at = "undo"] /\ UNCHANGED table
      \/ /\ ~Refused(bar) /\ host' = [host EXCEPT ![h].mapped = @ + 1]
         /\ \E e \in FirstOf(FreeEntries) : table[e].lock = Nobody /\ table' = [table EXCEPT ![e] = Mapping(bar, d, n)]
  BY DEF bus_map_device
<1> QED
  BY <1>5, <1>6, <1>7

(* publish_slot: what was true of the host thread's device now is of the   *)
(* slot's.                                                                 *)
LEMMA PublishStep ==
    ASSUME PlugInv, NEW h \in HostThreads, publish_slot(h)
    PROVE  PlugInv'
<1> DEFINE new == [present |-> TRUE, external |-> TRUE, bars |-> host[h].bars, irqs |-> host[h].irqs,
                   dev |-> host[h].dev]
           s == host[h].slot
<1>0. /\ host[h].at = "map" /\ host[h].mapped = Len(host[h].bars) /\ UNCHANGED <<table, visit, alive, devices>>
      /\ slots' = [slots EXCEPT ![s] = new] /\ host' = [host EXCEPT ![h] = IdleHost]
      /\ host \in [HostThreads -> HostState] /\ slots \in [1..SlotCount -> Slot]
  BY DEF publish_slot, PlugInv, PlugTypes
<1>1. host[h] \in HostState /\ host[h].dev \in alive /\ \A g \in HostThreads \ {h} : host[g].at = "idle"
  BY <1>0, AtWork
<1>2. /\ host[h].unmapped = 0 /\ s \in 1..SlotCount /\ ~slots[s].present
      /\ \A t \in 1..SlotCount : slots[t].external => slots[t].dev # host[h].dev
      /\ OnBus(table, host[h].dev, host[h].bars, 1, Len(host[h].bars))
  BY <1>0 DEF PlugInv, HostExact
<1>3. new \in Slot /\ new.present /\ new.external /\ new.bars = host[h].bars /\ new.dev = host[h].dev
  BY <1>1 DEF HostState, Slot
<1> HIDE DEF new
<1>4. slots' \in [1..SlotCount -> Slot] /\ slots'[s] = new /\ \A t \in 1..SlotCount \ {s} : slots'[t] = slots[t]
  BY <1>0, <1>2, <1>3
<1>5. host' \in [HostThreads -> HostState] /\ \A g \in HostThreads : host'[g].at = "idle"
  BY <1>0, <1>1, EmptyTypes DEF IdleHost
<1>6. PlugTypes' /\ InsideHoldsEntry' /\ EntriesApart' /\ DevicesCounted'
  BY <1>0, <1>4, <1>5 DEF PlugInv, PlugTypes, InsideHoldsEntry, EntriesApart, DevicesCounted
<1>7. OneHost' /\ HostExact'
  BY <1>5 DEF OneHost, HostExact
<1>8. SlotsExact'
  <2>1. \A t \in 1..SlotCount : Undisturbed(t)
    BY <1>0, <1>1 DEF Undisturbed
  <2>2. ASSUME NEW t \in 1..SlotCount, slots'[t].external
        PROVE  /\ slots'[t].present /\ slots'[t].dev \in alive'
               /\ OnBus(table', slots'[t].dev, slots'[t].bars, 1, Len(slots'[t].bars))
    <3>1. CASE t = s
      BY <1>0, <1>1, <1>2, <1>3, <1>4, <3>1
    <3>2. CASE t # s
      BY <1>0, <1>4, <2>1, <2>2, <3>2, SMTT(30) DEF PlugInv, SlotsExact
    <3> QED
      BY <3>1, <3>2
  <2>3. \A t, u \in 1..SlotCount : slots'[t].external /\ slots'[u].external /\ slots'[t].dev = slots'[u].dev => t = u
    BY <1>2, <1>3, <1>4 DEF PlugInv, SlotsExact
  <2> QED
    BY <2>2, <2>3 DEF SlotsExact
<1> QED
  BY <1>6, <1>7, <1>8 DEF PlugInv

(* bus_unmap_device: the entry that has the range's base and size is the   *)
(* device's, and the others of the device are the ranges that are left.    *)
LEMMA UnmapStep ==
    ASSUME PlugInv, NEW h \in HostThreads, bus_unmap_device(h)
    PROVE  PlugInv'
<1> DEFINE d == host[h].dev
           n == host[h].unmapped
           last == host[h].mapped
           bars == host[h].bars
           e == EntryOf(NextBar(h))
<1>0. /\ host[h].at \in {"undo", "unmap"} /\ n < last /\ UNCHANGED <<holder, slots, visit, alive, devices>>
      /\ table[e].lock = Nobody /\ table' = [table EXCEPT ![e] = EmptyEntry]
      /\ host' = [host EXCEPT ![h].unmapped = @ + 1]
      /\ host \in [HostThreads -> HostState] /\ table \in [1..BusCapacity -> Entry]
  BY DEF bus_unmap_device, PlugInv, PlugTypes
<1>1. /\ host[h] \in HostState /\ d \in alive /\ holder = h
      /\ \A g \in HostThreads \ {h} : host[g].at = "idle"
  BY <1>0, AtWork
<1>2. n \in Nat /\ last \in Nat /\ n + 1 \in (n + 1)..last
  BY <1>0, <1>1 DEF HostState
<1>3. /\ last <= Len(bars) /\ host[h].slot \in 1..SlotCount
      /\ host[h].at = "unmap" => slots[host[h].slot].external /\ slots[host[h].slot].dev = d
      /\ host[h].at # "unmap" => \A s \in 1..SlotCount : slots[s].external => slots[s].dev # d
      /\ OnBus(table, d, bars, n + 1, last)
  BY <1>0 DEF PlugInv, HostExact
<1>4. e \in 1..BusCapacity /\ table[e].present /\ table[e].base = bars[n + 1].base /\ table[e].dev = d
  <2>1. PICK i \in 1..BusCapacity : /\ table[i].present /\ table[i].dev = d /\ table[i].base = bars[n + 1].base
                                    /\ table[i].size = bars[n + 1].size
    BY <1>2, <1>3 DEF OnBus
  <2>2. e \in 1..BusCapacity /\ table[e].present /\ table[e].base = bars[n + 1].base
    BY <2>1 DEF EntryOf, NextBar
  <2>3. e = i
    BY <2>1, <2>2 DEF PlugInv, EntriesApart
  <2> QED
    BY <2>1, <2>2, <2>3
<1> HIDE DEF e
<1>5. /\ table' \in [1..BusCapacity -> Entry] /\ table'[e] = EmptyEntry /\ ~table'[e].present
      /\ \A i \in 1..BusCapacity \ {e} : table'[i] = table[i]
  BY <1>0, <1>4, EmptyTypes DEF EmptyEntry
<1>6. [host[h] EXCEPT !.unmapped = n + 1] \in HostState
  BY <1>1, <1>2 DEF HostState
<1>7. host' \in [HostThreads -> HostState]
  BY <1>0, <1>6
<1>8. /\ host'[h].at = host[h].at /\ host'[h].mapped = last /\ host'[h].slot = host[h].slot /\ host'[h].bars = bars
      /\ host'[h].dev = d /\ host'[h].unmapped = n + 1 /\ \A g \in HostThreads \ {h} : host'[g] = host[g]
  BY <1>0, <1>1 DEF HostState
<1>9. PlugTypes'
  BY <1>0, <1>5, <1>7 DEF PlugInv, PlugTypes
<1>10. InsideHoldsEntry'
  BY <1>0, <1>4, <1>5, NobodyInside
<1>11. EntriesApart' /\ DevicesCounted'
  BY <1>0, <1>5 DEF PlugInv, EntriesApart, DevicesCounted
<1>12. OnBus(table', d, bars, (n + 1) + 1, last)
  <2>0. \A k \in (n + 1)..last : k = n + 1 \/ k \in ((n + 1) + 1)..last
    BY <1>2
  <2>00. \A k \in ((n + 1) + 1)..last : k \in (n + 1)..last /\ k # n + 1
    BY <1>2
  <2>1. ASSUME NEW i \in 1..BusCapacity, table'[i].present, table'[i].dev = d
        PROVE  \E k \in ((n + 1) + 1)..last : table'[i].base = bars[k].base
    <3>1. i # e /\ table'[i] = table[i]
      BY <1>5, <2>1
    <3>2. PICK k \in (n + 1)..last : table[i].base = bars[k].base
      BY <1>3, <2>1, <3>1 DEF OnBus
    <3>3. k # n + 1
      BY <1>4, <2>1, <3>1, <3>2 DEF PlugInv, EntriesApart
    <3> QED
      BY <2>0, <3>1, <3>2, <3>3
  <2>2. ASSUME NEW k \in ((n + 1) + 1)..last
        PROVE  \E i \in 1..BusCapacity : /\ table'[i].present /\ table'[i].dev = d
                                         /\ table'[i].base = bars[k].base /\ table'[i].size = bars[k].size
    <3>1. PICK i \in 1..BusCapacity : /\ table[i].present /\ table[i].dev = d
                                      /\ table[i].base = bars[k].base /\ table[i].size = bars[k].size
      BY <1>3, <2>00 DEF OnBus
    <3>2. bars[k].base # bars[n + 1].base
      BY <1>2, <1>3, <2>00 DEF OnBus
    <3>3. i # e
      BY <1>4, <3>1, <3>2
    <3> QED
      BY <1>5, <3>1, <3>3
  <2>3. \A j, k \in ((n + 1) + 1)..last : bars[j].base = bars[k].base => j = k
    BY <1>3, <2>00 DEF OnBus
  <2> QED
    BY <2>1, <2>2, <2>3 DEF OnBus
<1>13. OneHost' /\ \A s \in 1..SlotCount : Undisturbed(s)' => Undisturbed(s)
  BY <1>0, <1>1, <1>8 DEF OneHost, Undisturbed
<1>14. HostExact'
  <2>1. n + 1 <= last
    BY <1>0, <1>2
  <2> QED
    BY <1>0, <1>1, <1>3, <1>8, <1>12, <2>1 DEF HostExact
<1>15. SlotsExact'
  <2>1. ASSUME NEW s \in 1..SlotCount, slots[s].external, Undisturbed(s)'
        PROVE  OnBus(table', slots[s].dev, slots[s].bars, 1, Len(slots[s].bars))
    <3>1. OnBus(table, slots[s].dev, slots[s].bars, 1, Len(slots[s].bars))
      BY <1>13, <2>1 DEF PlugInv, SlotsExact
    <3>2. slots[s].dev # d
      BY <1>3, <1>13, <2>1 DEF Undisturbed, PlugInv, SlotsExact
    <3>3. ~(table[e].present /\ table[e].dev = slots[s].dev) /\ ~(table'[e].present /\ table'[e].dev = slots[s].dev)
      BY <1>4, <1>5, <3>2
    <3> QED
      BY <1>4, <1>5, <3>1, <3>3, OtherEntry
  <2> QED
    BY <1>0, <2>1 DEF PlugInv, SlotsExact
<1> QED
  BY <1>9, <1>10, <1>11, <1>13, <1>14, <1>15 DEF PlugInv

(* AttachUndone and DetachEnds: every range of the device is off the bus,  *)
(* so that the device that dies has no entry left.                         *)
LEMMA DestroyStep ==
    ASSUME PlugInv, NEW h \in HostThreads, AttachUndone(h) \/ DetachEnds(h)
    PROVE  PlugInv'
<1> DEFINE d == host[h].dev
           s == host[h].slot
<1>0. /\ host[h].at \in {"undo", "unmap"} /\ host[h].unmapped = host[h].mapped
      /\ alive' = alive \ {d} /\ host' = [host EXCEPT ![h] = IdleHost] /\ UNCHANGED <<table, visit, devices>>
      /\ \/ host[h].at = "undo" /\ UNCHANGED slots
         \/ host[h].at = "unmap" /\ slots' = [slots EXCEPT ![s] = EmptySlot]
      /\ host \in [HostThreads -> HostState] /\ slots \in [1..SlotCount -> Slot]
  BY DEF AttachUndone, DetachEnds, PlugInv, PlugTypes
<1>1. /\ host[h] \in HostState /\ d # Hub /\ \A g \in HostThreads \ {h} : host[g].at = "idle"
      /\ host[h].mapped \in Nat
  BY <1>0, AtWork DEF HostState
<1>2. /\ s \in 1..SlotCount
      /\ host[h].at = "unmap" => slots[s].external /\ slots[s].dev = d
      /\ host[h].at # "unmap" => \A t \in 1..SlotCount : slots[t].external => slots[t].dev # d
      /\ OnBus(table, d, host[h].bars, host[h].mapped + 1, host[h].mapped)
  BY <1>0 DEF PlugInv, HostExact
<1>3. \A i \in 1..BusCapacity : table[i].present => table[i].dev # d
  <2>1. (host[h].mapped + 1)..host[h].mapped = {}
    BY <1>1
  <2> QED
    BY <1>2, <2>1 DEF OnBus
<1>4. host' \in [HostThreads -> HostState] /\ \A g \in HostThreads : host'[g].at = "idle"
  BY <1>0, <1>1, EmptyTypes DEF IdleHost
<1>5. /\ slots' \in [1..SlotCount -> Slot]
      /\ \A t \in 1..SlotCount : slots'[t].external =>
            /\ slots'[t] = slots[t] /\ slots[t].external /\ slots[t].dev # d
            /\ Undisturbed(t)
  <2>1. CASE host[h].at = "undo" /\ UNCHANGED slots
    BY <1>0, <1>1, <1>2, <2>1 DEF Undisturbed
  <2>2. CASE host[h].at = "unmap" /\ slots' = [slots EXCEPT ![s] = EmptySlot]
    <3>1. slots' \in [1..SlotCount -> Slot] /\ ~slots'[s].external /\ \A t \in 1..SlotCount \ {s} : slots'[t] = slots[t]
      BY <1>0, <1>2, <2>2, EmptyTypes DEF EmptySlot
    <3>2. \A t \in 1..SlotCount \ {s} : Undisturbed(t) /\ (slots[t].external => slots[t].dev # d)
      BY <1>1, <1>2, <2>2 DEF Undisturbed, PlugInv, SlotsExact
    <3> QED
      BY <3>1, <3>2, SMTT(30)
  <2> QED
    BY <1>0, <2>1, <2>2
<1>6. PlugTypes' /\ InsideHoldsEntry'
  BY <1>0, <1>4, <1>5, Zenon DEF PlugInv, PlugTypes, InsideHoldsEntry
<1>7. OneHost' /\ HostExact'
  BY <1>4 DEF OneHost, HostExact
<1>8. EntriesApart' /\ DevicesCounted'
  BY <1>0, <1>3, Zenon DEF PlugInv, EntriesApart, DevicesCounted
<1>9. SlotsExact'
  <2>1. ASSUME NEW t \in 1..SlotCount, slots'[t].external
        PROVE  /\ slots'[t].present /\ slots'[t].dev \in alive'
               /\ OnBus(table', slots'[t].dev, slots'[t].bars, 1, Len(slots'[t].bars))
    BY <1>0, <1>5, <2>1 DEF PlugInv, SlotsExact
  <2>2. \A t, u \in 1..SlotCount : slots'[t].external /\ slots'[u].external /\ slots'[t].dev = slots'[u].dev => t = u
    BY <1>5 DEF PlugInv, SlotsExact
  <2> QED
    BY <2>1, <2>2 DEF SlotsExact
<1> QED
  BY <1>6, <1>7, <1>8, <1>9 DEF PlugInv

(* DetachBegins: the host thread takes the device over from its slot. *)
LEMMA DetachStep ==
    ASSUME PlugInv, NEW h \in HostThreads, NEW s \in 1..SlotCount, DetachBegins(h, s)
    PROVE  PlugInv'
<1> DEFINE new == [at |-> "unmap", slot |-> s, bars |-> slots[s].bars, irqs |-> slots[s].irqs,
                   dev |-> slots[s].dev, mapped |-> Len(slots[s].bars), unmapped |-> 0]
<1>0. /\ slots[s].external /\ holder' = h /\ host' = [host EXCEPT ![h] = new]
      /\ UNCHANGED <<slots, table, visit, alive, devices>>
      /\ host \in [HostThreads -> HostState] /\ slots[s] \in Slot
      /\ \A g \in HostThreads : host[g].at = "idle"
  BY FreeMeansIdle DEF DetachBegins, PlugInv, PlugTypes
<1>1. slots[s].bars \in Seq(Bar) /\ Len(slots[s].bars) \in Nat
  BY <1>0, LenProperties DEF Slot
<1>2. new \in HostState
  BY <1>0, <1>1, HotPlugAssumption DEF Slot, HostState
<1>3. /\ new.at = "unmap" /\ new.slot = s /\ new.bars = slots[s].bars /\ new.dev = slots[s].dev
      /\ new.mapped = Len(slots[s].bars) /\ new.unmapped = 0
  OBVIOUS
<1> HIDE DEF new
<1>4. host' \in [HostThreads -> HostState] /\ host'[h] = new /\ \A g \in HostThreads \ {h} : host'[g] = host[g]
  BY <1>0, <1>2
<1>5. PlugTypes' /\ InsideHoldsEntry' /\ EntriesApart' /\ DevicesCounted'
  BY <1>0, <1>4 DEF PlugInv, PlugTypes, InsideHoldsEntry, EntriesApart, DevicesCounted
<1>6. OneHost' /\ \A t \in 1..SlotCount : Undisturbed(t)
  BY <1>0, <1>4 DEF OneHost, Undisturbed
<1>7. /\ slots[s].dev \in alive /\ OnBus(table, slots[s].dev, slots[s].bars, 1, Len(slots[s].bars))
  BY <1>0, <1>6, SMTT(30) DEF PlugInv, SlotsExact
<1>8. HostExact'
  <2>1. \A g \in HostThreads : host'[g].at # "idle" => g = h
    BY <1>0, <1>4
  <2>2. /\ host'[h].dev \in alive' /\ host'[h].slot \in 1..SlotCount /\ host'[h].at = "unmap"
        /\ slots'[host'[h].slot].external /\ slots'[host'[h].slot].dev = host'[h].dev
    BY <1>0, <1>3, <1>4, <1>7
  <2>3. host'[h].unmapped <= host'[h].mapped /\ host'[h].mapped <= Len(host'[h].bars) /\ host'[h].unmapped + 1 = 1
    BY <1>1, <1>3, <1>4
  <2>4. OnBus(table', host'[h].dev, host'[h].bars, host'[h].unmapped + 1, host'[h].mapped)
    BY <1>0, <1>3, <1>4, <1>7, <2>3
  <2> QED
    BY <2>1, <2>2, <2>3, <2>4 DEF HostExact
<1>9. SlotsExact'
  BY <1>0, <1>6 DEF PlugInv, SlotsExact
<1> QED
  BY <1>5, <1>6, <1>8, <1>9 DEF PlugInv

(* The kernel's reading of a slot changes nothing here. *)
LEMMA QuietStep ==
    ASSUME PlugInv, UNCHANGED <<holder, slots, table, host, visit, alive, devices>>
    PROVE  PlugInv'
<1>1. PlugTypes' /\ InsideHoldsEntry'
  BY DEF PlugInv, PlugTypes, InsideHoldsEntry
<1> QED
  BY <1>1, SameRanges DEF PlugInv

(* The inductive invariant, for any number of host threads, processors,    *)
(* slots, entries and modules: entries, slots and the host thread at work  *)
(* agree about who is on the bus (bus_map_device, publish_slot,            *)
(* bus_unmap_device, detach_module_locked).                                *)
THEOREM PlugInvariant == PlugSpec => []PlugInv
<1>1. PlugInit => PlugInv
  BY InitPlug
<1>2. PlugInv /\ [PlugNext]_plugVars => PlugInv'
  <2> SUFFICES ASSUME PlugInv, [PlugNext]_plugVars PROVE PlugInv'
    OBVIOUS
  <2>1. ASSUME NEW h \in HostThreads, NEW m \in DeviceModules, NEW created \in BOOLEAN,
               AttachBegins(h, m, created)
        PROVE  PlugInv'
    BY <2>1, AttachStep
  <2>2. ASSUME NEW h \in HostThreads, NEW s \in 1..SlotCount, DetachBegins(h, s) PROVE PlugInv'
    BY <2>2, DetachStep
  <2>3. ASSUME NEW h \in HostThreads, HostStep(h) PROVE PlugInv'
    BY <2>3, MapStep, PublishStep, UnmapStep, DestroyStep DEF HostStep
  <2>4. ASSUME NEW v \in Visitors,
               \/ VisitStep(v) \/ VisitBegins(v, "tick", 0)
               \/ \E a \in Addresses : VisitBegins(v, "access", a)
        PROVE  PlugInv'
    BY <2>4, VisitorStep
  <2>5. ASSUME NEW s \in 1..SlotCount, ProbeBegins(s) PROVE PlugInv'
    BY <2>5, QuietStep DEF ProbeBegins
  <2>6. CASE hub_read \/ ProbeEnds
    BY <2>6, QuietStep DEF hub_read, ProbeEnds
  <2>7. CASE UNCHANGED plugVars
    BY <2>7, QuietStep DEF plugVars
  <2> QED
    BY <2>1, <2>2, <2>3, <2>4, <2>5, <2>6, <2>7 DEF PlugNext
<1> QED
  BY <1>1, <1>2, PTL DEF PlugSpec

(* device_manager.c and bus.c: however host threads attach and detach      *)
(* modules while processors and ticks walk the table, no device is         *)
(* destroyed while a callback of it runs, and none is entered later.       *)
THEOREM LiveCallbacks == PlugSpec => []CallbacksMeetLiveDevices
<1>1. PlugInv => CallbacksMeetLiveDevices
  BY DEF PlugInv, PlugTypes, InsideHoldsEntry, EntriesApart, CallbacksMeetLiveDevices
<1> QED
  BY <1>1, PlugInvariant, PTL

-----------------------------------------------------------------------------
(* The books.  A slot's ranges, lines and device are handed from the slot  *)
(* to the host thread that takes it down, and from the one that brings it  *)
(* up to the slot; what is in use belongs to exactly one of them.          *)

(* The slots with a device, and the host thread that is bringing one up. *)
External == {i \in 1..SlotCount : slots[i].external}
Attaching == {h \in HostThreads : host[h].at \in {"map", "undo"}}

SlotValues == {slot_value(x, Fields[n]) : x \in Slot, n \in 1..Len(Fields)}
ManagerState == [irq_used : SUBSET Lines, present_count : Int, generation : Nat,
                 event_status : SUBSET {"ADDED", "REMOVED"}]
ProbeState == [at : {"idle", "read", "done"}, slot : Nat, generation : Nat, seen : Seq(SlotValues)]

BookTypes ==
    /\ manager \in ManagerState /\ probe \in ProbeState
    /\ probe.at # "idle" => probe.slot \in 1..SlotCount
    /\ probe.at = "read" => Len(probe.seen) < Len(Fields)

(* bus_map_device refuses a range that overlaps one on the bus. *)
RangesApart ==
    \A i, j \in 1..BusCapacity :
        table[i].present /\ table[j].present /\ i # j => ~ranges_overlap(table[i], table[j])

(* A line is in use by one slot or by the attach under way, never by two. *)
LinesExact ==
    /\ \A l \in Lines : l \in manager.irq_used <=>
          \/ \E s \in External : l \in slots[s].irqs
          \/ \E h \in Attaching : l \in host[h].irqs
    /\ \A s, t \in External : s # t => \A l \in slots[s].irqs : l \notin slots[t].irqs
    /\ \A h \in Attaching, s \in External : \A l \in host[h].irqs : l \notin slots[s].irqs
    /\ \A h \in HostThreads : host[h].at = "unmap" => host[h].irqs = slots[host[h].slot].irqs

(* A created device is in a slot or with the attach under way. *)
LivingExact ==
    \A d \in alive :
        (\E s \in External : slots[s].dev = d) \/ (\E h \in Attaching : host[h].dev = d)

CountedExact == manager.present_count = Cardinality({i \in 1..SlotCount : slots[i].present})

(* What discovery has read so far is what the slot holds, unless the       *)
(* generation has moved on.                                                *)
ProbeExact ==
    probe.at # "idle" =>
        /\ probe.generation <= manager.generation
        /\ probe.generation = manager.generation =>
             \A i \in 1..Len(probe.seen) : probe.seen[i] = slot_value(slots[probe.slot], Fields[i])

Books == BookTypes /\ RangesApart /\ LinesExact /\ LivingExact /\ CountedExact /\ ProbeExact

(* The fields that discover_devices reads of a slot are five. *)
LEMMA FiveFields == Len(Fields) = 5
  BY DEF Fields

(* device_manager_init: one fixed slot is counted and nothing is in use. *)
LEMMA BooksInit == PlugInit => Books
<1> SUFFICES ASSUME PlugInit PROVE Books
  OBVIOUS
<1> USE HotPlugAssumption
<1>1. BookTypes
  <2>1. /\ manager = [irq_used |-> {}, present_count |-> 1, generation |-> 1,
                       event_status |-> {"ADDED"}]
        /\ probe = NoProbe
    BY DEF PlugInit
  <2>2. manager \in ManagerState
    BY <2>1 DEF ManagerState
  <2>3. <<>> \in Seq(SlotValues) /\ NoProbe.at = "idle"
    BY DEF NoProbe
  <2>4. probe \in ProbeState
    BY <2>1, <2>3 DEF ProbeState, NoProbe
  <2> QED
    BY <2>1, <2>2, <2>3, <2>4 DEF BookTypes
<1>2. RangesApart
  BY DEF PlugInit, RangesApart, EmptyEntry, Mapping
<1>3. External = {} /\ Attaching = {}
  BY DEF PlugInit, External, Attaching, EmptySlot, FixedSlot, IdleHost
<1>4. LinesExact /\ LivingExact
  <2>1. manager.irq_used = {} /\ alive = {} /\ \A h \in HostThreads : host[h].at # "unmap"
    BY DEF PlugInit, IdleHost
  <2> QED
    BY <1>3, <2>1 DEF LinesExact, LivingExact
<1>5. CountedExact
  <2>1. {i \in 1..SlotCount : slots[i].present} = {1}
    BY DEF PlugInit, EmptySlot, FixedSlot
  <2>2. manager.present_count = 1
    BY DEF PlugInit
  <2> QED
    BY <2>1, <2>2, FS_Singleton DEF CountedExact
<1>6. ProbeExact
  BY DEF PlugInit, NoProbe, ProbeExact
<1> QED
  BY <1>1, <1>2, <1>3, <1>4, <1>5, <1>6 DEF Books

(* The manager's word of events is not part of the books. *)
LEMMA QuietBooks ==
    ASSUME Books, BookTypes', UNCHANGED <<slots, probe>>,
           manager'.generation = manager.generation, manager'.present_count = manager.present_count
    PROVE  CountedExact' /\ ProbeExact'
  BY DEF Books, CountedExact, ProbeExact

(* A step that moves no line and no device between slots and host threads. *)
LEMMA SameOwners ==
    ASSUME Books, UNCHANGED <<slots, alive>>, manager'.irq_used = manager.irq_used,
           \A h \in HostThreads : /\ host'[h].irqs = host[h].irqs /\ host'[h].dev = host[h].dev /\ host'[h].slot = host[h].slot
                                  /\ host'[h].at \in {"map", "undo"} <=> host[h].at \in {"map", "undo"}
                                  /\ host'[h].at = "unmap" => host[h].at = "unmap"
    PROVE  LinesExact' /\ LivingExact'
<1>1. External' = External /\ Attaching' = Attaching
  BY DEF External, Attaching
<1>2. \A h \in Attaching : h \in HostThreads
  BY DEF Attaching
<1>3. LinesExact'
  BY <1>1, <1>2 DEF Books, LinesExact
<1>4. LivingExact'
  BY <1>1, <1>2 DEF Books, LivingExact
<1> QED
  BY <1>3, <1>4

(* A table whose entries stay where they are has no new overlap. *)
LEMMA SameApart ==
    ASSUME RangesApart,
           \A i \in 1..BusCapacity : table'[i].present =>
               table[i].present /\ table'[i].base = table[i].base /\ table'[i].size = table[i].size
    PROVE  RangesApart'
  BY DEF RangesApart, ranges_overlap

(* A visitor changes locks, and through the hub the word of events.        *)
LEMMA VisitorBooks ==
    ASSUME PlugInv, Books, NEW v \in Visitors,
           \/ VisitStep(v) \/ VisitBegins(v, "tick", 0)
           \/ \E a \in Addresses : VisitBegins(v, "access", a)
    PROVE  Books'
<1>1. UNCHANGED <<slots, alive, host, probe>>
  BY DEF VisitStep, VisitBegins, LooksAtEntry, lock_mapping_for_address, DeviceReturns
<1>2. \/ UNCHANGED manager
      \/ \E e \in {"ADDED", "REMOVED"} : manager' = [manager EXCEPT !.event_status = @ \ {e}]
  BY DEF VisitStep, VisitBegins, LooksAtEntry, lock_mapping_for_address, DeviceReturns, HubAccess
<1>3. /\ manager' \in ManagerState /\ manager'.irq_used = manager.irq_used
      /\ manager'.generation = manager.generation /\ manager'.present_count = manager.present_count
  <2>1. manager \in ManagerState
    BY DEF Books, BookTypes
  <2>2. CASE UNCHANGED manager
    BY <2>1, <2>2
  <2>3. ASSUME NEW e \in {"ADDED", "REMOVED"}, manager' = [manager EXCEPT !.event_status = @ \ {e}]
        PROVE  <1>3!:
    BY <2>1, <2>3 DEF ManagerState
  <2> QED
    BY <1>2, <2>2, <2>3
<1>4. BookTypes'
  BY <1>1, <1>3 DEF Books, BookTypes
<1>5. UNCHANGED table \/ \E l \in Visitors \cup {Nobody} : table' = [table EXCEPT ![visit[v].entry].lock = l] /\ visit[v].at # "idle"
  BY DEF VisitStep, VisitBegins, LooksAtEntry, lock_mapping_for_address, DeviceReturns
<1>6. \A i \in 1..BusCapacity : table'[i].present =>
         table[i].present /\ table'[i].base = table[i].base /\ table'[i].size = table[i].size
  <2>1. CASE UNCHANGED table
    BY <2>1
  <2>2. ASSUME NEW l \in Visitors \cup {Nobody}, table' = [table EXCEPT ![visit[v].entry].lock = l],
               visit[v].at # "idle"
        PROVE  <1>6!:
    <3>1. visit[v].entry \in 1..BusCapacity /\ table \in [1..BusCapacity -> Entry]
      BY <2>2 DEF PlugInv, PlugTypes
    <3> QED
      BY <2>2, <3>1, LockMoves
  <2> QED
    BY <1>5, <2>1, <2>2
<1> QED
  BY <1>1, <1>3, <1>4, <1>6, QuietBooks, SameOwners, SameApart DEF Books

(* discover_devices reads a field of a slot as it is now. *)
LEMMA ProbeBooks ==
    ASSUME PlugInv, Books, hub_read \/ ProbeEnds \/ \E s \in 1..SlotCount : ProbeBegins(s)
    PROVE  Books'
<1>0. UNCHANGED <<slots, alive, host, table, manager>> /\ probe \in ProbeState /\ manager \in ManagerState
  BY DEF hub_read, ProbeEnds, ProbeBegins, Books, BookTypes
<1>1. ASSUME probe' \in ProbeState, probe'.at # "idle" => probe'.slot \in 1..SlotCount,
             probe'.at = "read" => Len(probe'.seen) < Len(Fields), ProbeExact'
      PROVE  Books'
  <2>1. BookTypes'
    BY <1>0, <1>1 DEF Books, BookTypes
  <2>2. LinesExact' /\ LivingExact' /\ RangesApart' /\ CountedExact'
    BY <1>0, SameOwners, SameApart DEF Books, CountedExact
  <2> QED
    BY <1>1, <2>1, <2>2 DEF Books
<1>2. ASSUME NEW s \in 1..SlotCount, ProbeBegins(s) PROVE Books'
  <2>1. probe' = [at |-> "read", slot |-> s, generation |-> manager.generation, seen |-> <<>>]
    BY <1>2 DEF ProbeBegins
  <2>2. <<>> \in Seq(SlotValues) /\ s \in Nat /\ Len(<<>>) = 0 /\ manager.generation \in Nat
    BY <1>0, HotPlugAssumption DEF ManagerState
  <2>3. probe' \in ProbeState /\ probe'.at = "read" /\ probe'.slot = s /\ probe'.seen = <<>> /\ probe'.generation = manager.generation
    BY <2>1, <2>2 DEF ProbeState
  <2>4. ProbeExact'
    BY <1>0, <2>2, <2>3 DEF ProbeExact
  <2> QED
    BY <1>1, <2>2, <2>3, <2>4, FiveFields
<1>3. CASE ProbeEnds
  <2>1. probe' = NoProbe /\ NoProbe.at = "idle"
    BY <1>3 DEF ProbeEnds, NoProbe
  <2>2. <<>> \in Seq(SlotValues)
    OBVIOUS
  <2>3. NoProbe \in ProbeState
    BY <2>2 DEF NoProbe, ProbeState
  <2> QED
    BY <1>1, <2>1, <2>3 DEF ProbeExact
<1>4. CASE hub_read
  <2> DEFINE n == Len(probe.seen) + 1
             x == slot_value(slots[probe.slot], Fields[n])
             seen == Append(probe.seen, x)
             absent == \E i \in 1..Min({3, Len(seen)}) : seen[i] = 0
             at == IF absent \/ Len(seen) = Len(Fields) THEN "done" ELSE "read"
  <2>1. probe.at = "read" /\ probe' = [probe EXCEPT !.seen = seen, !.at = at]
    BY <1>4 DEF hub_read
  <2>2. probe.slot \in 1..SlotCount /\ Len(probe.seen) < 5 /\ probe.seen \in Seq(SlotValues) /\ Len(probe.seen) \in Nat
    BY <1>0, <2>1, FiveFields DEF Books, BookTypes, ProbeState
  <2>3. n \in 1..Len(Fields) /\ slots[probe.slot] \in Slot
    BY <2>2, FiveFields DEF PlugInv, PlugTypes
  <2>4. x \in SlotValues
    BY <2>3 DEF SlotValues
  <2> HIDE DEF x
  <2>5. seen \in Seq(SlotValues) /\ Len(seen) = n /\ seen[n] = x /\ \A i \in 1..Len(probe.seen) : seen[i] = probe.seen[i]
    BY <2>2, <2>4
  <2>6. at \in {"done", "read"} /\ (at = "read" => n # 5)
    BY <2>5, FiveFields
  <2> HIDE DEF seen, at
  <2>7. probe' \in ProbeState /\ probe'.at = at /\ probe'.seen = seen /\ probe'.slot = probe.slot /\ probe'.generation = probe.generation
    BY <1>0, <2>1, <2>5, <2>6 DEF ProbeState
  <2>8. ProbeExact'
    <3>1. probe.generation <= manager.generation
      BY <2>1 DEF Books, ProbeExact
    <3>2. ASSUME probe.generation = manager.generation,
                 NEW i \in 1..n PROVE seen[i] = slot_value(slots[probe.slot], Fields[i])
      <4>1. CASE i = n
        BY <2>5, <4>1 DEF x
      <4>2. CASE i # n
        <5>1. i \in 1..Len(probe.seen)
          BY <2>2, <4>2
        <5>2. probe.seen[i] = slot_value(slots[probe.slot], Fields[i])
          BY <2>1, <3>2, <5>1, Zenon DEF Books, ProbeExact
        <5> QED
          BY <2>5, <5>1, <5>2
      <4> QED
        BY <4>1, <4>2
    <3> QED
      BY <1>0, <2>5, <2>7, <3>1, <3>2 DEF ProbeExact
  <2>9. n < 5 \/ n = 5
    BY <2>2
  <2> QED
    BY <1>1, <2>2, <2>5, <2>6, <2>7, <2>8, <2>9, FiveFields
<1> QED
  BY <1>2, <1>3, <1>4

(* Nobody brings a device up while the manager's lock is free. *)
LEMMA NoneAttaching ==
    ASSUME PlugInv, holder = Nobody
    PROVE  Attaching = {} /\ \A h \in HostThreads : host[h].at = "idle"
  BY FreeMeansIdle DEF Attaching

(* AttachBegins: the lines that allocate_irq gives were not in use. *)
LEMMA AttachBooks ==
    ASSUME PlugInv, Books, NEW h \in HostThreads, NEW m \in DeviceModules, NEW created \in BOOLEAN,
           AttachBegins(h, m, created)
    PROVE  Books'
<1> DEFINE irqs == allocate_irq(manager.irq_used, m.irqs)
<1>0. /\ holder = Nobody /\ UNCHANGED <<slots, table, probe>> /\ manager \in ManagerState
      /\ host \in [HostThreads -> HostState]
  BY DEF AttachBegins, Books, BookTypes, PlugInv, PlugTypes
<1>1. \/ UNCHANGED <<manager, alive, host>>
      \/ /\ manager' = [manager EXCEPT !.irq_used = @ \cup irqs] /\ alive' = alive \cup {devices + 1}
         /\ \E bars \in allocate_bars(m), s \in FirstOf(free_slot_index) :
              host' = [host EXCEPT ![h] = [at |-> "map", slot |-> s, bars |-> bars, irqs |-> irqs,
                                           dev |-> devices + 1, mapped |-> 0, unmapped |-> 0]]
  BY Zenon DEF AttachBegins
<1>2. irqs \in SUBSET Lines /\ \A l \in irqs : l \notin manager.irq_used
  BY DEF allocate_irq
<1> HIDE DEF irqs
<1>3. Attaching = {} /\ \A g \in HostThreads : host[g].at = "idle"
  BY <1>0, NoneAttaching
<1>4. RangesApart'
  BY <1>0 DEF Books, RangesApart
<1>5. CASE UNCHANGED <<manager, alive, host>>
  <2>1. BookTypes'
    BY <1>0, <1>5 DEF Books, BookTypes
  <2> QED
    BY <1>0, <1>4, <1>5, <2>1, QuietBooks, SameOwners DEF Books
<1>6. ASSUME NEW bars, NEW s, manager' = [manager EXCEPT !.irq_used = @ \cup irqs],
             alive' = alive \cup {devices + 1},
             host' = [host EXCEPT ![h] = [at |-> "map", slot |-> s, bars |-> bars, irqs |-> irqs,
                                          dev |-> devices + 1, mapped |-> 0, unmapped |-> 0]]
      PROVE  Books'
  <2>1. /\ manager' \in ManagerState /\ manager'.irq_used = manager.irq_used \cup irqs
        /\ manager'.generation = manager.generation /\ manager'.present_count = manager.present_count
    BY <1>0, <1>2, <1>6 DEF ManagerState
  <2>2. BookTypes'
    BY <1>0, <2>1 DEF Books, BookTypes
  <2>3. /\ host'[h].at = "map" /\ host'[h].irqs = irqs /\ host'[h].dev = devices + 1
        /\ \A g \in HostThreads \ {h} : host'[g].at = "idle"
    BY <1>0, <1>3, <1>6
  <2>4. External' = External /\ Attaching' = {h}
    BY <1>0, <2>3 DEF External, Attaching
  <2>5. \A s1 \in External : \A l \in slots[s1].irqs : l \in Lines
    BY DEF External, PlugInv, PlugTypes, Slot
  <2>6. \A s1 \in External : \A l \in slots[s1].irqs : l \in manager.irq_used
    BY <2>5 DEF Books, LinesExact
  <2>7. LinesExact'
    <3>1. \A l \in Lines : l \in manager.irq_used <=> \E s1 \in External : l \in slots[s1].irqs
      BY <1>3 DEF Books, LinesExact
    <3>2. \A l \in Lines : l \in manager'.irq_used <=>
             \/ \E s1 \in External' : l \in slots'[s1].irqs
             \/ \E g \in Attaching' : l \in host'[g].irqs
      BY <1>0, <2>1, <2>3, <2>4, <3>1
    <3>3. \A s1, t \in External' : s1 # t => \A l \in slots'[s1].irqs : l \notin slots'[t].irqs
      BY <1>0, <2>4 DEF Books, LinesExact
    <3>4. \A g \in Attaching', s1 \in External' : \A l \in host'[g].irqs : l \notin slots'[s1].irqs
      BY <1>0, <1>2, <2>3, <2>4, <2>6
    <3>5. \A g \in HostThreads : host'[g].at # "unmap"
      BY <2>3
    <3> QED
      BY <3>2, <3>3, <3>4, <3>5 DEF LinesExact
  <2>8. LivingExact'
    <3> SUFFICES ASSUME NEW d \in alive'
                 PROVE  (\E s1 \in External' : slots'[s1].dev = d) \/ (\E g \in Attaching' : host'[g].dev = d)
      BY DEF LivingExact
    <3>1. CASE d = devices + 1
      BY <2>3, <2>4, <3>1
    <3>2. CASE d \in alive
      BY <1>0, <1>3, <2>4, <3>2 DEF Books, LivingExact
    <3> QED
      BY <1>6, <3>1, <3>2
  <2> QED
    BY <1>0, <1>4, <2>1, <2>2, <2>7, <2>8, QuietBooks DEF Books
<1> QED
  BY <1>1, <1>5, <1>6

(* DetachBegins: the host thread copies what the slot lists. *)
LEMMA DetachBooks ==
    ASSUME PlugInv, Books, NEW h \in HostThreads, NEW s \in 1..SlotCount, DetachBegins(h, s)
    PROVE  Books'
<1> DEFINE new == [at |-> "unmap", slot |-> s, bars |-> slots[s].bars, irqs |-> slots[s].irqs,
                   dev |-> slots[s].dev, mapped |-> Len(slots[s].bars), unmapped |-> 0]
<1>0. /\ holder = Nobody /\ UNCHANGED <<slots, table, probe, manager, alive>> /\ host' = [host EXCEPT ![h] = new]
      /\ host \in [HostThreads -> HostState]
  BY DEF DetachBegins, PlugInv, PlugTypes
<1>1. new.at = "unmap" /\ new.slot = s /\ new.irqs = slots[s].irqs
  OBVIOUS
<1> HIDE DEF new
<1>2. Attaching = {} /\ \A g \in HostThreads : host[g].at = "idle"
  BY <1>0, NoneAttaching
<1>3. host'[h] = new /\ \A g \in HostThreads \ {h} : host'[g] = host[g]
  BY <1>0
<1>4. External' = External /\ Attaching' = {}
  BY <1>0, <1>1, <1>2, <1>3 DEF External, Attaching
<1>5. BookTypes' /\ RangesApart' /\ LivingExact'
  BY <1>0, <1>2, <1>4 DEF Books, BookTypes, RangesApart, LivingExact
<1>6. LinesExact'
  <2>1. \A g \in HostThreads : host'[g].at = "unmap" => host'[g].irqs = slots'[host'[g].slot].irqs
    BY <1>0, <1>1, <1>2, <1>3
  <2> QED
    BY <1>0, <1>2, <1>4, <2>1 DEF Books, LinesExact
<1> QED
  BY <1>0, <1>5, <1>6, QuietBooks DEF Books

(* The steps of a host thread on the bus: bus_map_device takes a range     *)
(* only where it overlaps none, bus_unmap_device takes one off.            *)
LEMMA BusBooks ==
    ASSUME PlugInv, Books, NEW h \in HostThreads, bus_map_device(h) \/ bus_unmap_device(h)
    PROVE  Books'
<1>0. /\ UNCHANGED <<slots, probe, manager, alive>> /\ host[h].at # "idle"
      /\ host \in [HostThreads -> HostState] /\ table \in [1..BusCapacity -> Entry] /\ host[h] \in HostState
  BY DEF bus_map_device, bus_unmap_device, PlugInv, PlugTypes
<1>1. \/ host' = [host EXCEPT ![h].at = "undo"] /\ host[h].at = "map"
      \/ host' = [host EXCEPT ![h].mapped = @ + 1]
      \/ host' = [host EXCEPT ![h].unmapped = @ + 1]
  BY Zenon DEF bus_map_device, bus_unmap_device
<1>2. \A g \in HostThreads : /\ host'[g].irqs = host[g].irqs /\ host'[g].dev = host[g].dev /\ host'[g].slot = host[g].slot
                             /\ host'[g].at \in {"map", "undo"} <=> host[g].at \in {"map", "undo"}
                             /\ host'[g].at = "unmap" => host[g].at = "unmap"
  <2>1. CASE host' = [host EXCEPT ![h].at = "undo"] /\ host[h].at = "map"
    BY <1>0, <2>1 DEF HostState
  <2>2. CASE host' = [host EXCEPT ![h].mapped = @ + 1]
    BY <1>0, <2>2 DEF HostState
  <2>3. CASE host' = [host EXCEPT ![h].unmapped = @ + 1]
    BY <1>0, <2>3 DEF HostState
  <2> QED
    BY <1>1, <2>1, <2>2, <2>3
<1>3. RangesApart'
  <2>1. CASE bus_map_device(h)
    <3> DEFINE bar == host[h].bars[host[h].mapped + 1]
               new == Mapping(bar, host[h].dev, host[h].mapped)
    <3>1. \/ UNCHANGED table
          \/ ~Refused(bar) /\ \E i \in FirstOf(FreeEntries) : table' = [table EXCEPT ![i] = new]
      BY <2>1, Zenon DEF bus_map_device
    <3>2. CASE UNCHANGED table
      BY <3>2 DEF Books, RangesApart
    <3>3. ASSUME ~Refused(bar), NEW e \in FirstOf(FreeEntries),
                 table' = [table EXCEPT ![e] = new] PROVE RangesApart'
      <4>1. new.base = bar.base /\ new.size = bar.size /\ new.present
        BY DEF Mapping
      <4>2. e \in 1..BusCapacity /\ \A i \in 1..BusCapacity : table[i].present => ~ranges_overlap(table[i], bar)
        BY <3>3 DEF FirstOf, FreeEntries, Refused
      <4> HIDE DEF new, bar
      <4>3. table'[e] = new /\ \A i \in 1..BusCapacity \ {e} : table'[i] = table[i]
        BY <1>0, <3>3, <4>2
      <4>4. \A i \in 1..BusCapacity : table[i].present => ~ranges_overlap(table[i], new) /\ ~ranges_overlap(new, table[i])
        BY <4>1, <4>2 DEF ranges_overlap
      <4> SUFFICES ASSUME NEW i \in 1..BusCapacity, NEW j \in 1..BusCapacity, table'[i].present,
                          table'[j].present, i # j
                   PROVE  ~ranges_overlap(table'[i], table'[j])
        BY DEF RangesApart
      <4>5. CASE i = e
        BY <4>3, <4>4, <4>5, Zenon
      <4>6. CASE j = e
        BY <4>3, <4>4, <4>6, Zenon
      <4>7. CASE i # e /\ j # e
        <5>1. table'[i] = table[i] /\ table'[j] = table[j]
          BY <4>3, <4>7
        <5> QED
          BY <5>1, Zenon DEF Books, RangesApart
      <4> QED
        BY <4>5, <4>6, <4>7
    <3> QED
      BY <3>1, <3>2, <3>3
  <2>2. CASE bus_unmap_device(h)
    <3> DEFINE e == EntryOf(NextBar(h))
    <3>1. table' = [table EXCEPT ![e] = EmptyEntry] /\ ~EmptyEntry.present
      BY <2>2 DEF bus_unmap_device, EmptyEntry
    <3> HIDE DEF e
    <3>2. \A i \in 1..BusCapacity : table'[i] = table[i] \/ ~table'[i].present
      BY <1>0, <3>1
    <3> QED
      BY <3>2, SameApart DEF Books
  <2> QED
    BY <2>1, <2>2
<1>4. BookTypes'
  BY <1>0 DEF Books, BookTypes
<1> QED
  BY <1>0, <1>2, <1>3, <1>4, QuietBooks, SameOwners DEF Books

(* A slot that changes makes what was read of it before out of date. *)
LEMMA NewGeneration ==
    ASSUME Books, UNCHANGED probe, manager'.generation = manager.generation + 1
    PROVE  ProbeExact'
<1>1. manager.generation \in Nat /\ probe.generation \in Nat
  BY DEF Books, BookTypes, ManagerState, ProbeState
<1>2. probe.at # "idle" => probe.generation < manager'.generation
  BY <1>1 DEF Books, ProbeExact
<1> QED
  BY <1>1, <1>2 DEF ProbeExact

(* There are finitely many slots: one more or one less is counted. *)
LEMMA SlotsCounted ==
    ASSUME NEW A, NEW B, A \subseteq 1..SlotCount, NEW s, s \notin A, B = A \cup {s}
    PROVE  Cardinality(B) = Cardinality(A) + 1 /\ Cardinality(A) \in Nat
<1>1. IsFiniteSet(1..SlotCount)
  BY FS_Interval, HotPlugAssumption
<1>2. IsFiniteSet(A)
  BY <1>1, FS_Subset
<1> QED
  BY <1>2, FS_AddElement, FS_CardinalityType

(* publish_slot: lines and device pass from the host thread to the slot.   *)
LEMMA PublishBooks ==
    ASSUME PlugInv, Books, NEW h \in HostThreads, publish_slot(h)
    PROVE  Books'
<1> DEFINE new == [present |-> TRUE, external |-> TRUE, bars |-> host[h].bars, irqs |-> host[h].irqs,
                   dev |-> host[h].dev]
           s == host[h].slot
<1>0. /\ host[h].at = "map" /\ UNCHANGED <<table, alive, probe>>
      /\ slots' = [slots EXCEPT ![s] = new] /\ host' = [host EXCEPT ![h] = IdleHost]
      /\ manager' = [manager EXCEPT !.present_count = @ + 1, !.generation = @ + 1, !.event_status = @ \cup {"ADDED"}]
      /\ host \in [HostThreads -> HostState] /\ slots \in [1..SlotCount -> Slot] /\ manager \in ManagerState
  BY DEF publish_slot, PlugInv, PlugTypes, Books, BookTypes
<1>1. \A g \in HostThreads \ {h} : host[g].at = "idle"
  BY <1>0, AtWork
<1>2. s \in 1..SlotCount /\ ~slots[s].present /\ ~slots[s].external
  BY <1>0 DEF PlugInv, HostExact, SlotsExact
<1>3. new.present /\ new.external /\ new.irqs = host[h].irqs /\ new.dev = host[h].dev
  OBVIOUS
<1> HIDE DEF new
<1>4. /\ slots'[s] = new /\ \A t \in 1..SlotCount \ {s} : slots'[t] = slots[t]
      /\ \A g \in HostThreads : host'[g].at = "idle"
  BY <1>0, <1>1, <1>2 DEF IdleHost
<1>5. /\ manager' \in ManagerState /\ manager'.irq_used = manager.irq_used
      /\ manager'.generation = manager.generation + 1 /\ manager'.present_count = manager.present_count + 1
  <2> DEFINE n == manager.present_count + 1
             g == manager.generation + 1
             e == manager.event_status \cup {"ADDED"}
  <2>1. /\ manager.irq_used \in SUBSET Lines /\ n \in Int /\ g \in Nat /\ e \in SUBSET {"ADDED", "REMOVED"}
        /\ manager = [manager EXCEPT !.irq_used = manager.irq_used]
    BY <1>0 DEF ManagerState
  <2>2. manager' = [manager EXCEPT !.irq_used = manager.irq_used, !.present_count = n, !.generation = g, !.event_status = e]
    BY <1>0, <2>1, Zenon
  <2> HIDE DEF n, g, e
  <2>3. /\ manager' \in ManagerState /\ manager'.irq_used = manager.irq_used
        /\ manager'.generation = g /\ manager'.present_count = n
    BY <1>0, <2>1, <2>2, Zenon DEF ManagerState
  <2> QED
    BY <2>3 DEF n, g
<1>6. Attaching = {h} /\ Attaching' = {} /\ External' = External \cup {s} /\ s \notin External
  BY <1>0, <1>1, <1>2, <1>3, <1>4 DEF Attaching, External
<1>7. BookTypes' /\ RangesApart' /\ ProbeExact'
  BY <1>0, <1>5, NewGeneration DEF Books, BookTypes, RangesApart
<1>8. CountedExact'
  <2> DEFINE A == {i \in 1..SlotCount : slots[i].present}
             B == {i \in 1..SlotCount : slots'[i].present}
  <2>1. s \notin A /\ B = A \cup {s} /\ A \subseteq 1..SlotCount
    BY <1>2, <1>3, <1>4
  <2>2. Cardinality(B) = Cardinality(A) + 1
    BY <2>1, SlotsCounted, Zenon
  <2> QED
    BY <1>5, <2>2 DEF Books, CountedExact
<1>9. \A t \in External : slots'[t] = slots[t] /\ t # s
  BY <1>4, <1>6 DEF External
<1>10. LinesExact'
  <2>1. \A l \in Lines : l \in manager'.irq_used <=> \E t \in External' : l \in slots'[t].irqs
    <3>1. \A l \in Lines : l \in manager.irq_used
                             <=> (\E t \in External : l \in slots[t].irqs) \/ l \in host[h].irqs
      BY <1>6 DEF Books, LinesExact
    <3>2. manager'.irq_used = manager.irq_used /\ slots'[s].irqs = host[h].irqs
      BY <1>3, <1>4, <1>5
    <3>3. ASSUME NEW l PROVE (\E t \in External' : l \in slots'[t].irqs)
                              <=> (\E t \in External : l \in slots[t].irqs) \/ l \in host[h].irqs
      BY <1>6, <1>9, <3>2, Zenon
    <3> QED
      BY <3>1, <3>2, <3>3, Zenon
  <2>2. \A t \in External : \A l \in host[h].irqs : l \notin slots[t].irqs
    BY <1>6 DEF Books, LinesExact
  <2>3. \A t, u \in External' : t # u => \A l \in slots'[t].irqs : l \notin slots'[u].irqs
    <3>1. \A t, u \in External : t # u => \A l \in slots[t].irqs : l \notin slots[u].irqs
      BY DEF Books, LinesExact
    <3>2. slots'[s].irqs = host[h].irqs
      BY <1>3, <1>4, <1>5
    <3> SUFFICES ASSUME NEW t \in External', NEW u \in External', t # u, NEW l \in slots'[t].irqs,
                        l \in slots'[u].irqs
                 PROVE  FALSE
      OBVIOUS
    <3>3. CASE t = s
      BY <1>6, <1>9, <2>2, <3>2, <3>3, Zenon
    <3>4. CASE u = s
      BY <1>6, <1>9, <2>2, <3>2, <3>4, Zenon
    <3> QED
      BY <1>6, <1>9, <3>1, <3>3, <3>4, Zenon
  <2> QED
    BY <1>4, <1>6, <2>1, <2>3 DEF LinesExact
<1>11. LivingExact'
  BY <1>0, <1>3, <1>4, <1>6, <1>9 DEF Books, LivingExact
<1> QED
  BY <1>7, <1>8, <1>10, <1>11 DEF Books

(* AttachUndone: what the host thread had taken is given back. *)
LEMMA UndoneBooks ==
    ASSUME PlugInv, Books, NEW h \in HostThreads, AttachUndone(h)
    PROVE  Books'
<1>0. /\ host[h].at = "undo" /\ UNCHANGED <<table, slots, probe>> /\ alive' = alive \ {host[h].dev}
      /\ host' = [host EXCEPT ![h] = IdleHost] /\ manager' = [manager EXCEPT !.irq_used = @ \ host[h].irqs]
      /\ host \in [HostThreads -> HostState] /\ manager \in ManagerState
  BY DEF AttachUndone, PlugInv, PlugTypes, Books, BookTypes
<1>1. \A g \in HostThreads \ {h} : host[g].at = "idle"
  BY <1>0, AtWork
<1>2. \A g \in HostThreads : host'[g].at = "idle"
  BY <1>0, <1>1 DEF IdleHost
<1>3. /\ manager' \in ManagerState /\ manager'.irq_used = manager.irq_used \ host[h].irqs
      /\ manager'.generation = manager.generation /\ manager'.present_count = manager.present_count
  BY <1>0 DEF ManagerState
<1>4. Attaching = {h} /\ Attaching' = {} /\ External' = External
  BY <1>0, <1>1, <1>2 DEF Attaching, External
<1>5. BookTypes' /\ RangesApart'
  BY <1>0, <1>3 DEF Books, BookTypes, RangesApart
<1>6. LinesExact'
  <2>1. \A l \in Lines : l \in manager'.irq_used <=> \E t \in External' : l \in slots'[t].irqs
    BY <1>0, <1>3, <1>4 DEF Books, LinesExact
  <2>2. \A t, u \in External' : t # u => \A l \in slots'[t].irqs : l \notin slots'[u].irqs
    BY <1>0, <1>4 DEF Books, LinesExact
  <2> QED
    BY <1>2, <1>4, <2>1, <2>2 DEF LinesExact
<1>7. LivingExact'
  BY <1>0, <1>4 DEF Books, LivingExact
<1> QED
  BY <1>0, <1>3, <1>5, <1>6, <1>7, QuietBooks DEF Books

(* DetachEnds: what the slot had is given back, and the slot with it. *)
LEMMA DetachedBooks ==
    ASSUME PlugInv, Books, NEW h \in HostThreads, DetachEnds(h)
    PROVE  Books'
<1> DEFINE s == host[h].slot
<1>0. /\ host[h].at = "unmap" /\ UNCHANGED <<table, probe>> /\ alive' = alive \ {host[h].dev}
      /\ slots' = [slots EXCEPT ![s] = EmptySlot] /\ host' = [host EXCEPT ![h] = IdleHost]
      /\ manager' = [manager EXCEPT !.irq_used = @ \ host[h].irqs, !.present_count = @ - 1,
                                    !.generation = @ + 1, !.event_status = @ \cup {"REMOVED"}]
      /\ host \in [HostThreads -> HostState] /\ slots \in [1..SlotCount -> Slot] /\ manager \in ManagerState
  BY DEF DetachEnds, PlugInv, PlugTypes, Books, BookTypes
<1>1. \A g \in HostThreads \ {h} : host[g].at = "idle"
  BY <1>0, AtWork
<1>2. s \in 1..SlotCount /\ slots[s].external /\ slots[s].present /\ slots[s].dev = host[h].dev /\ host[h].irqs = slots[s].irqs
  BY <1>0 DEF PlugInv, HostExact, SlotsExact, Books, LinesExact
<1>3. ~EmptySlot.present /\ ~EmptySlot.external
  BY DEF EmptySlot
<1>4. /\ slots'[s] = EmptySlot /\ \A t \in 1..SlotCount \ {s} : slots'[t] = slots[t]
      /\ \A g \in HostThreads : host'[g].at = "idle"
  BY <1>0, <1>1, <1>2 DEF IdleHost
<1>5. /\ manager' \in ManagerState /\ manager'.irq_used = manager.irq_used \ host[h].irqs
      /\ manager'.generation = manager.generation + 1 /\ manager'.present_count = manager.present_count - 1
  <2> DEFINE u == manager.irq_used \ host[h].irqs
             n == manager.present_count - 1
             g == manager.generation + 1
             e == manager.event_status \cup {"REMOVED"}
  <2>1. /\ u \in SUBSET Lines /\ n \in Int /\ g \in Nat /\ e \in SUBSET {"ADDED", "REMOVED"}
    BY <1>0 DEF ManagerState
  <2>2. manager' = [manager EXCEPT !.irq_used = u, !.present_count = n, !.generation = g, !.event_status = e]
    BY <1>0, Zenon
  <2> HIDE DEF u, n, g, e
  <2>3. /\ manager' \in ManagerState /\ manager'.irq_used = u
        /\ manager'.generation = g /\ manager'.present_count = n
    BY <1>0, <2>1, <2>2, Zenon DEF ManagerState
  <2> QED
    BY <2>3 DEF u, n, g
<1>6. Attaching = {} /\ Attaching' = {} /\ External' = External \ {s} /\ s \in External
  BY <1>0, <1>1, <1>2, <1>3, <1>4 DEF Attaching, External
<1>7. BookTypes' /\ RangesApart' /\ ProbeExact'
  BY <1>0, <1>5, NewGeneration DEF Books, BookTypes, RangesApart
<1>8. CountedExact'
  <2> DEFINE A == {i \in 1..SlotCount : slots'[i].present}
             B == {i \in 1..SlotCount : slots[i].present}
  <2>1. s \notin A /\ B = A \cup {s} /\ A \subseteq 1..SlotCount
    BY <1>2, <1>3, <1>4
  <2>2. Cardinality(B) = Cardinality(A) + 1 /\ Cardinality(A) \in Nat
    BY <2>1, SlotsCounted, Zenon
  <2> QED
    BY <1>5, <2>2 DEF Books, CountedExact
<1>9. \A t \in External' : slots'[t] = slots[t] /\ t # s /\ t \in External
  BY <1>4, <1>6 DEF External
<1>10. LinesExact'
  <2>1. \A l \in Lines : l \in manager.irq_used <=> \E t \in External : l \in slots[t].irqs
    BY <1>6 DEF Books, LinesExact
  <2>2. \A t \in External' : \A l \in slots[t].irqs : l \notin host[h].irqs
    BY <1>2, <1>6, <1>9 DEF Books, LinesExact
  <2>3. \A l \in Lines : l \in manager'.irq_used <=> \E t \in External' : l \in slots'[t].irqs
    BY <1>2, <1>5, <1>6, <1>9, <2>1, <2>2
  <2>4. \A t, u \in External' : t # u => \A l \in slots'[t].irqs : l \notin slots'[u].irqs
    BY <1>9 DEF Books, LinesExact
  <2> QED
    BY <1>4, <1>6, <2>3, <2>4 DEF LinesExact
<1>11. LivingExact'
  BY <1>0, <1>2, <1>6, <1>9 DEF Books, LivingExact
<1> QED
  BY <1>7, <1>8, <1>10, <1>11 DEF Books

(* While nobody is at work the entries of the bus are the ranges of the    *)
(* slots: each entry is the range of its base, and no other entry has it.  *)
LEMMA RangesExact ==
    ASSUME PlugInv, Books, holder = Nobody
    PROVE  {[base |-> table[i].base, size |-> table[i].size, dev |-> table[i].dev] :
              i \in {i \in 1..BusCapacity : table[i].present /\ table[i].dev # Hub}}
           = UNION {{[base |-> b.base, size |-> b.size, dev |-> slots[i].dev] : b \in Range(slots[i].bars)} : i \in External}
<1> DEFINE Of(i) == [base |-> table[i].base, size |-> table[i].size, dev |-> table[i].dev]
           Stretch(b, i) == [base |-> b.base, size |-> b.size, dev |-> slots[i].dev]
           mapped == {i \in 1..BusCapacity : table[i].present /\ table[i].dev # Hub}
           OnTable == {Of(i) : i \in mapped}
           InSlots == UNION {{Stretch(b, i) : b \in Range(slots[i].bars)} : i \in External}
<1>1. Attaching = {} /\ \A h \in HostThreads : host[h].at = "idle"
  BY NoneAttaching
<1>2. ASSUME NEW s \in External
      PROVE  /\ OnBus(table, slots[s].dev, slots[s].bars, 1, Len(slots[s].bars)) /\ slots[s].dev # Hub
             /\ Range(slots[s].bars) = {slots[s].bars[k] : k \in 1..Len(slots[s].bars)}
  <2>1. s \in 1..SlotCount /\ slots[s].external /\ Undisturbed(s) /\ slots[s] \in Slot
    BY <1>1, <1>2 DEF External, Undisturbed, PlugInv, PlugTypes
  <2>2. slots[s].dev \in alive /\ OnBus(table, slots[s].dev, slots[s].bars, 1, Len(slots[s].bars))
    BY <2>1, Zenon DEF PlugInv, SlotsExact
  <2>3. slots[s].dev # Hub
    BY <2>2 DEF PlugInv, DevicesCounted, PlugTypes, Hub
  <2>4. slots[s].bars \in Seq(Bar)
    BY <2>1 DEF Slot
  <2>5. DOMAIN slots[s].bars = 1..Len(slots[s].bars)
    BY <2>4
  <2> QED
    BY <2>2, <2>3, <2>5 DEF Range
<1>3. ASSUME NEW x \in OnTable PROVE x \in InSlots
  <2>1. PICK i \in mapped : x = Of(i)
    OBVIOUS
  <2>2. table[i].dev \in alive
    BY <2>1 DEF PlugInv, EntriesApart
  <2>3. PICK s \in External : slots[s].dev = table[i].dev
    BY <1>1, <2>2 DEF Books, LivingExact
  <2>a. OnBus(table, slots[s].dev, slots[s].bars, 1, Len(slots[s].bars))
    BY <1>2
  <2>b. i \in 1..BusCapacity /\ table[i].present /\ table[i].dev = slots[s].dev
    BY <2>1, <2>3
  <2>4. PICK k \in 1..Len(slots[s].bars) : table[i].base = slots[s].bars[k].base
    BY <2>a, <2>b, Zenon DEF OnBus
  <2>5. PICK j \in 1..BusCapacity : /\ table[j].present /\ table[j].dev = slots[s].dev
                                    /\ table[j].base = slots[s].bars[k].base /\ table[j].size = slots[s].bars[k].size
    BY <2>a, <2>4, Zenon DEF OnBus
  <2>6. i = j
    BY <2>1, <2>4, <2>5 DEF PlugInv, EntriesApart
  <2>7. x = Stretch(slots[s].bars[k], s)
    BY <2>1, <2>3, <2>5, <2>6
  <2>8. slots[s].bars[k] \in Range(slots[s].bars)
    BY <1>2, <2>4
  <2> HIDE DEF Stretch
  <2> QED
    BY <2>3, <2>7, <2>8
<1>4. ASSUME NEW x \in InSlots PROVE x \in OnTable
  <2>1. PICK s \in External : x \in {Stretch(b, s) : b \in Range(slots[s].bars)}
    OBVIOUS
  <2>a. PICK b \in Range(slots[s].bars) : x = Stretch(b, s)
    BY <2>1
  <2>b. PICK k \in 1..Len(slots[s].bars) : b = slots[s].bars[k]
    BY <1>2, <2>a
  <2>2. x = Stretch(slots[s].bars[k], s)
    BY <2>a, <2>b
  <2>c. OnBus(table, slots[s].dev, slots[s].bars, 1, Len(slots[s].bars))
    BY <1>2
  <2>3. PICK j \in 1..BusCapacity : /\ table[j].present /\ table[j].dev = slots[s].dev
                                    /\ table[j].base = slots[s].bars[k].base /\ table[j].size = slots[s].bars[k].size
    BY <2>c, <2>b, Zenon DEF OnBus
  <2>4. j \in mapped /\ x = Of(j)
    BY <1>2, <2>1, <2>2, <2>3
  <2> HIDE DEF mapped, Of
  <2> QED
    BY <2>4
<1> HIDE DEF OnTable, InSlots
<1>5. OnTable = InSlots
  BY <1>3, <1>4
<1> QED
  BY <1>5 DEF OnTable, InSlots

(* device_manager.c: whenever the manager's lock is free, slots, bus,      *)
(* lines and living devices agree, however many attaches and detaches      *)
(* have succeeded or failed half way, and what the kernel has read of a    *)
(* slot in several reads is of one device unless the generation says not.  *)
THEOREM BooksBalance == PlugSpec => []ResourcesExact
<1>1. PlugInit => Books
  BY BooksInit
<1>2. PlugInv /\ Books /\ [PlugNext]_plugVars => Books'
  <2> SUFFICES ASSUME PlugInv, Books, [PlugNext]_plugVars PROVE Books'
    OBVIOUS
  <2>1. ASSUME NEW h \in HostThreads, NEW m \in DeviceModules, NEW created \in BOOLEAN,
               AttachBegins(h, m, created)
        PROVE  Books'
    BY <2>1, AttachBooks
  <2>2. ASSUME NEW h \in HostThreads, NEW s \in 1..SlotCount, DetachBegins(h, s) PROVE Books'
    BY <2>2, DetachBooks
  <2>3. ASSUME NEW h \in HostThreads, HostStep(h) PROVE Books'
    BY <2>3, BusBooks, PublishBooks, UndoneBooks, DetachedBooks DEF HostStep
  <2>4. ASSUME NEW v \in Visitors,
               \/ VisitStep(v) \/ VisitBegins(v, "tick", 0)
               \/ \E a \in Addresses : VisitBegins(v, "access", a)
        PROVE  Books'
    BY <2>4, VisitorBooks
  <2>5. CASE hub_read \/ ProbeEnds \/ \E s \in 1..SlotCount : ProbeBegins(s)
    BY <2>5, ProbeBooks
  <2>6. CASE UNCHANGED plugVars
    <3>1. BookTypes' /\ RangesApart'
      BY <2>6 DEF plugVars, Books, BookTypes, RangesApart
    <3> QED
      BY <2>6, <3>1, QuietBooks, SameOwners DEF plugVars, Books
  <2> QED
    BY <2>1, <2>2, <2>3, <2>4, <2>5, <2>6, Zenon DEF PlugNext
<1>3. PlugInv /\ Books => ResourcesExact
  <2> SUFFICES ASSUME PlugInv, Books, holder = Nobody PROVE ResourcesExact
    BY DEF ResourcesExact
  <2> DEFINE present == {i \in 1..SlotCount : slots[i].present}
             external == {i \in present : slots[i].external}
  <2>1. Attaching = {} /\ external = External
    BY NoneAttaching DEF External, PlugInv, SlotsExact
  <2>2. manager.irq_used = UNION {slots[i].irqs : i \in External}
    <3>1. manager.irq_used \subseteq Lines /\ \A s \in External : slots[s].irqs \subseteq Lines
      BY DEF Books, BookTypes, ManagerState, External, PlugInv, PlugTypes, Slot
    <3>2. \A l \in Lines : l \in manager.irq_used <=> \E s \in External : l \in slots[s].irqs
      BY <2>1 DEF Books, LinesExact
    <3>3. \A l : l \in manager.irq_used <=> \E s \in External : l \in slots[s].irqs
      BY <3>1, <3>2
    <3> QED
      BY <3>3
  <2>3. \A i, j \in External : i # j => slots[i].irqs \cap slots[j].irqs = {}
    BY DEF Books, LinesExact
  <2>4. alive = {slots[i].dev : i \in External}
    <3>1. \A s \in External : slots[s].dev \in alive
      BY DEF External, PlugInv, SlotsExact
    <3>2. \A d \in alive : \E s \in External : slots[s].dev = d
      BY <2>1 DEF Books, LivingExact
    <3> QED
      BY <3>1, <3>2
  <2>5. manager.present_count = Cardinality(present)
    BY DEF Books, CountedExact
  <2>6. probe.at = "done" /\ probe.generation = manager.generation =>
           \A i \in 1..Len(probe.seen) : probe.seen[i] = slot_value(slots[probe.slot], Fields[i])
    BY DEF Books, ProbeExact
  <2>7. \A i, j \in {i \in 1..BusCapacity : table[i].present /\ table[i].dev # Hub} :
           i # j => ~ranges_overlap(table[i], table[j])
    BY DEF Books, RangesApart
  <2>8. {[base |-> table[i].base, size |-> table[i].size, dev |-> table[i].dev] :
              i \in {i \in 1..BusCapacity : table[i].present /\ table[i].dev # Hub}}
           = UNION {{[base |-> b.base, size |-> b.size, dev |-> slots[i].dev] : b \in Range(slots[i].bars)} : i \in external}
    BY <2>1, RangesExact, Zenon
  <2> QED
    BY <2>1, <2>2, <2>3, <2>4, <2>5, <2>6, <2>7, <2>8, Zenon DEF ResourcesExact
<1> QED
  BY <1>1, <1>2, <1>3, PlugInvariant, PTL DEF PlugSpec

=============================================================================
