------------------------------ MODULE HotPlug ------------------------------
(***************************************************************************)
(* Devices that come and go while processors run: the device manager       *)
(* (src/device_manager.c) and the table of mappings of the bus             *)
(* (src/bus.c).                                                            *)
(*                                                                         *)
(* Host threads attach and detach modules; all of it happens under the     *)
(* manager's lock.  Processors, and the thread that ticks devices, walk    *)
(* the table without that lock: they look at an entry, take its own lock,  *)
(* look again, and call the device while they hold it.  A read of the hub  *)
(* is such a call and takes the manager's lock inside it.                  *)
(*                                                                         *)
(* A register range (BAR) is a base and a size in a small window.  A step  *)
(* ends where another thread can tell: at a lock, or at a word that is     *)
(* read without one.  The table's own lock is taken only under the         *)
(* manager's lock and is left out, and so are services, logging and DMA.   *)
(***************************************************************************)
EXTENDS Integers, Sequences, FiniteSetsExt

CONSTANTS HostThreads,    \* threads that attach and detach
          Visitors,       \* processors, and the thread that ticks
          DeviceModules,  \* [bars: sequence of [size, align], irqs: number]
          SlotCount,      \* DEVICE_MANAGER_MAX_SLOTS
          BusCapacity,    \* BUS_MAX_DEVICES
          WindowEnd,      \* the window of dynamic ranges is 1..WindowEnd; the hub is at 0
          Addresses,      \* addresses that processors access
          Lines,          \* lines that allocate_irq gives out
          MaxAttempts,    \* bound: calls that attach or detach
          MaxVisits       \* bound: accesses and ticks

ASSUME HotPlugAssumption ==
    /\ SlotCount \in Nat \ {0} /\ BusCapacity \in Nat \ {0} /\ WindowEnd \in Nat
    /\ 0 \notin HostThreads \cup Visitors

(* descriptor_valid: no range is empty. *)
ASSUME ModuleAssumption ==
    \A m \in DeviceModules : m.bars \in Seq([size : Nat \ {0}, align : Nat \ {0}])

VARIABLES holder,    \* of the manager's lock, or Nobody
          slots,     \* the manager's slots
          manager,   \* irq_used, present_count, generation, event_status
          table,     \* table[i]: present, base, size, dev, bar, lock
          host,      \* what a host thread is doing
          visit,     \* what a visitor is doing
          probe,     \* the kernel's reading of a slot
          alive,     \* devices between create and destroy
          devices,   \* how many devices have been created; it names the next
          plugged    \* auxiliary: attempts, visits

plugVars == <<holder, slots, manager, table, host, visit, probe, alive, devices, plugged>>

Nobody == 0
Hub == 0
EmptySlot == [present |-> FALSE, external |-> FALSE, bars |-> <<>>, irqs |-> {}, dev |-> 0]
FixedSlot == [EmptySlot EXCEPT !.present = TRUE, !.bars = <<[base |-> -1, size |-> 1]>>]
EmptyEntry == [present |-> FALSE, base |-> 0, size |-> 0, dev |-> 0, bar |-> 0, lock |-> Nobody]
IdleHost == [at |-> "idle", slot |-> 0, bars |-> <<>>, irqs |-> {}, dev |-> 0, mapped |-> 0, unmapped |-> 0]
IdleVisit == [at |-> "idle", kind |-> "none", address |-> 0, entry |-> 0, dev |-> 0]
NoProbe == [at |-> "idle", slot |-> 0, generation |-> 0, seen |-> <<>>]

-----------------------------------------------------------------------------
(* Resources. *)

ranges_overlap(a, b) == a.base <= b.base + b.size - 1 /\ b.base <= a.base + a.size - 1

(* Addresses count accesses, not bytes: an access has the width of one     *)
(* address, so that mapping_contains refuses none at the end of a range.   *)
mapping_contains(entry, address) == entry.base <= address /\ address < entry.base + entry.size

FirstOf(S) == {i \in S : \A j \in S : i <= j}
free_slot_index == {i \in 1..SlotCount : ~slots[i].present}

(* The ranges of the slots: conflicting_bar_end walks them. *)
TakenBars == UNION {Range(slots[i].bars) : i \in {i \in 1..SlotCount : slots[i].present}}

(* allocate_bars: each range goes to the lowest aligned place that is free *)
(* of the slots' ranges and of those placed before it.  (The code jumps    *)
(* from a conflict to the end of it: no place between would do.)  There is *)
(* one such choice of bases, or none.                                      *)
Fits(b, bar, taken) ==
    /\ b % bar.align = 0 /\ b + bar.size - 1 <= WindowEnd
    /\ \A t \in taken : ~ranges_overlap([base |-> b, size |-> bar.size], t)
BarsAt(m, bases) == [k \in 1..Len(m.bars) |-> [base |-> bases[k], size |-> m.bars[k].size]]
LowestFit(m, bases, k) ==
    \E taken \in {TakenBars \cup {BarsAt(m, bases)[j] : j \in 1..(k - 1)}} :
        Fits(bases[k], m.bars[k], taken) /\ \A b \in 1..(bases[k] - 1) : ~Fits(b, m.bars[k], taken)
allocate_bars(m) ==
    {BarsAt(m, bases) : bases \in
        {bases \in [1..Len(m.bars) -> 1..WindowEnd] : \A k \in 1..Len(m.bars) : LowestFit(m, bases, k)}}

(* allocate_irq, once for every line: the lowest ones that are not used.   *)
allocate_irq(used, n) == {l \in Lines \ used : Cardinality({f \in Lines \ used : f < l}) < n}

-----------------------------------------------------------------------------
(* Attaching a module. *)

(* attach_module_locked up to create, which may fail: without a slot, a    *)
(* place or a line, nothing stays allocated.                               *)
AttachFails(m, irqs, created) ==
    free_slot_index = {} \/ allocate_bars(m) = {} \/ Cardinality(irqs) # m.irqs \/ ~created
AttachBegins(h, m, created) ==
    /\ host[h].at = "idle" /\ holder = Nobody /\ plugged.attempts < MaxAttempts
    /\ \E irqs \in {allocate_irq(manager.irq_used, m.irqs)} :
         \/ /\ AttachFails(m, irqs, created)
            /\ UNCHANGED <<holder, manager, alive, host, devices>>
         \/ /\ ~AttachFails(m, irqs, created)
            /\ devices' = devices + 1
            /\ holder' = h
            /\ manager' = [manager EXCEPT !.irq_used = @ \cup irqs]
            /\ alive' = alive \cup {devices + 1}
            /\ \E bars \in allocate_bars(m), s \in FirstOf(free_slot_index) :
                 host' = [host EXCEPT ![h] = [at |-> "map", slot |-> s, bars |-> bars, irqs |-> irqs,
                                              dev |-> devices + 1, mapped |-> 0, unmapped |-> 0]]
    /\ plugged' = [plugged EXCEPT !.attempts = @ + 1]
    /\ UNCHANGED <<slots, table, visit, probe>>

(* bus_map_device for the next range.  The entry's lock may still be held  *)
(* by a visitor that saw the device that was there before.                 *)
FreeEntries == {i \in 1..BusCapacity : ~table[i].present}
Refused(bar) ==
    FreeEntries = {} \/ \E j \in 1..BusCapacity : table[j].present /\ ranges_overlap(table[j], bar)
Mapping(bar, dev, n) ==
    [present |-> TRUE, base |-> bar.base, size |-> bar.size, dev |-> dev, bar |-> n, lock |-> Nobody]
bus_map_device(h) ==
    /\ host[h].at = "map" /\ host[h].mapped < Len(host[h].bars)
    /\ \E bar \in {host[h].bars[host[h].mapped + 1]} :
         \/ /\ Refused(bar)
            /\ host' = [host EXCEPT ![h].at = "undo"]
            /\ UNCHANGED table
         \/ /\ ~Refused(bar)
            /\ \E i \in FirstOf(FreeEntries) :
                 /\ table[i].lock = Nobody
                 /\ table' = [table EXCEPT ![i] = Mapping(bar, host[h].dev, host[h].mapped)]
            /\ host' = [host EXCEPT ![h].mapped = @ + 1]
    /\ UNCHANGED <<holder, slots, manager, visit, probe, alive, devices, plugged>>

publish_slot(h) ==
    /\ host[h].at = "map" /\ host[h].mapped = Len(host[h].bars)
    /\ holder' = Nobody
    /\ slots' = [slots EXCEPT ![host[h].slot] = [present |-> TRUE, external |-> TRUE, bars |-> host[h].bars,
                                                  irqs |-> host[h].irqs, dev |-> host[h].dev]]
    /\ manager' = [manager EXCEPT !.present_count = @ + 1, !.generation = @ + 1, !.event_status = @ \cup {"ADDED"}]
    /\ host' = [host EXCEPT ![h] = IdleHost]
    /\ UNCHANGED <<table, visit, probe, alive, devices, plugged>>

-----------------------------------------------------------------------------
(* Taking ranges off the bus, and a device down. *)

EntryOf(bar) == CHOOSE i \in 1..BusCapacity : table[i].present /\ table[i].base = bar.base /\ table[i].size = bar.size
NextBar(h) == host[h].bars[host[h].unmapped + 1]

(* Mutant: the entry is cleared without its lock. *)
UnmapUnlocked(h) ==
    /\ host[h].at \in {"undo", "unmap"} /\ host[h].unmapped < host[h].mapped
    /\ table' = [table EXCEPT ![EntryOf(NextBar(h))] = [EmptyEntry EXCEPT !.lock = table[EntryOf(NextBar(h))].lock]]
    /\ host' = [host EXCEPT ![h].unmapped = @ + 1]
    /\ UNCHANGED <<holder, slots, manager, visit, probe, alive, devices, plugged>>

bus_unmap_device(h) ==
    /\ host[h].at \in {"undo", "unmap"} /\ host[h].unmapped < host[h].mapped
    /\ table[EntryOf(NextBar(h))].lock = Nobody
    /\ table' = [table EXCEPT ![EntryOf(NextBar(h))] = EmptyEntry]
    /\ host' = [host EXCEPT ![h].unmapped = @ + 1]
    /\ UNCHANGED <<holder, slots, manager, visit, probe, alive, devices, plugged>>

(* Mutant: the lines of a module that cannot be mapped stay taken. *)
UndoKeepsLines(h) ==
    /\ host[h].at = "undo" /\ host[h].unmapped = host[h].mapped
    /\ alive' = alive \ {host[h].dev}
    /\ holder' = Nobody
    /\ host' = [host EXCEPT ![h] = IdleHost]
    /\ UNCHANGED <<slots, manager, table, visit, probe, devices, plugged>>

(* The bus had no room: the device is destroyed and its lines released.    *)
AttachUndone(h) ==
    /\ host[h].at = "undo" /\ host[h].unmapped = host[h].mapped
    /\ alive' = alive \ {host[h].dev}
    /\ holder' = Nobody
    /\ manager' = [manager EXCEPT !.irq_used = @ \ host[h].irqs]
    /\ host' = [host EXCEPT ![h] = IdleHost]
    /\ UNCHANGED <<slots, table, visit, probe, devices, plugged>>

DetachBegins(h, s) ==
    /\ host[h].at = "idle" /\ holder = Nobody /\ plugged.attempts < MaxAttempts
    /\ slots[s].present /\ slots[s].external
    /\ holder' = h
    /\ host' = [host EXCEPT ![h] = [at |-> "unmap", slot |-> s, bars |-> slots[s].bars, irqs |-> slots[s].irqs,
                                    dev |-> slots[s].dev, mapped |-> Len(slots[s].bars), unmapped |-> 0]]
    /\ plugged' = [plugged EXCEPT !.attempts = @ + 1]
    /\ UNCHANGED <<slots, manager, table, visit, probe, alive, devices>>

(* detach_module_locked once every range is off the bus.  (Its branch for  *)
(* a range that is not on the bus is never taken: ResourcesExact.)  The    *)
(* lines are released before destroy, in one step here: the manager's lock *)
(* is held until the slot is empty, and nobody can be given a line before. *)
DetachEnds(h) ==
    /\ host[h].at = "unmap" /\ host[h].unmapped = host[h].mapped
    /\ alive' = alive \ {host[h].dev}
    /\ holder' = Nobody
    /\ slots' = [slots EXCEPT ![host[h].slot] = EmptySlot]
    /\ manager' = [manager EXCEPT !.irq_used = @ \ host[h].irqs, !.present_count = @ - 1,
                                  !.generation = @ + 1, !.event_status = @ \cup {"REMOVED"}]
    /\ host' = [host EXCEPT ![h] = IdleHost]
    /\ UNCHANGED <<table, visit, probe, devices, plugged>>

HostStep(h) ==
    bus_map_device(h) \/ publish_slot(h) \/ bus_unmap_device(h) \/ AttachUndone(h) \/ DetachEnds(h)
-----------------------------------------------------------------------------
(* Visitors.  bus_read and bus_write look for one address and stop at its  *)
(* entry; bus_tick and bus_reset call every device once, by its range 0.   *)

VisitBegins(v, kind, address) ==
    /\ visit[v].at = "idle" /\ plugged.visits < MaxVisits
    /\ visit' = [visit EXCEPT ![v] = [at |-> "look", kind |-> kind, address |-> address, entry |-> 1, dev |-> 0]]
    /\ plugged' = [plugged EXCEPT !.visits = @ + 1]
    /\ UNCHANGED <<holder, slots, manager, table, host, probe, alive, devices>>

Visiting(v, at, entry, dev) ==
    visit' = [visit EXCEPT ![v] = [at |-> at, kind |-> visit[v].kind, address |-> visit[v].address, entry |-> entry, dev |-> dev]]
NextEntry(v) ==
    IF visit[v].entry = BusCapacity THEN visit' = [visit EXCEPT ![v] = IdleVisit]
    ELSE Visiting(v, "look", visit[v].entry + 1, 0)

(* The first look, without the lock. *)
LooksAtEntry(v) ==
    /\ visit[v].at = "look"
    /\ IF table[visit[v].entry].present
       THEN Visiting(v, "lock", visit[v].entry, 0)
       ELSE NextEntry(v)
    /\ UNCHANGED <<holder, slots, manager, table, host, probe, alive, devices, plugged>>

Wanted(v, entry) ==
    /\ entry.present
    /\ IF visit[v].kind = "access" THEN mapping_contains(entry, visit[v].address)
       ELSE entry.dev # Hub /\ entry.bar = 0

(* Mutant: an entry that is not wanted stays locked. *)
LeavesLocked(v) ==
    /\ visit[v].at = "lock" /\ table[visit[v].entry].lock = Nobody
    /\ table' = [table EXCEPT ![visit[v].entry].lock = v]
    /\ IF Wanted(v, table[visit[v].entry])
       THEN Visiting(v, "call", visit[v].entry, table[visit[v].entry].dev)
       ELSE NextEntry(v)
    /\ UNCHANGED <<holder, slots, manager, host, probe, alive, devices, plugged>>

(* The lock, and the second look; an entry that is not wanted is unlocked. *)
lock_mapping_for_address(v) ==
    /\ visit[v].at = "lock" /\ table[visit[v].entry].lock = Nobody
    /\ IF Wanted(v, table[visit[v].entry])
       THEN /\ table' = [table EXCEPT ![visit[v].entry].lock = v]
            /\ Visiting(v, "call", visit[v].entry, table[visit[v].entry].dev)
       ELSE UNCHANGED table /\ NextEntry(v)
    /\ UNCHANGED <<holder, slots, manager, host, probe, alive, devices, plugged>>

(* An access of the hub waits for the manager's lock; a write may          *)
(* acknowledge events.                                                     *)
HubAccess ==
    /\ holder = Nobody
    /\ \/ UNCHANGED manager
       \/ \E e \in {"ADDED", "REMOVED"} : manager' = [manager EXCEPT !.event_status = @ \ {e}]

(* The device returns. *)
DeviceReturns(v) ==
    /\ visit[v].at = "call"
    /\ IF visit[v].dev = Hub THEN HubAccess ELSE UNCHANGED manager
    /\ table' = [table EXCEPT ![visit[v].entry].lock = Nobody]
    /\ IF visit[v].kind = "access" THEN visit' = [visit EXCEPT ![v] = IdleVisit] ELSE NextEntry(v)
    /\ UNCHANGED <<holder, slots, host, probe, alive, devices, plugged>>

VisitStep(v) == LooksAtEntry(v) \/ lock_mapping_for_address(v) \/ DeviceReturns(v)

-----------------------------------------------------------------------------
(* discover_devices of kernel/devices.c reads a slot field by field, each  *)
(* one an access of the hub that lasts one step here; it goes on to the    *)
(* next slot when the slot is empty and gives up when it finds no range.   *)
(* Here every device has a class of its own.                               *)
Fields == <<"STATUS", "BAR0_BASE", "BAR0_SIZE", "CLASS", "IRQ0">>
slot_value(slot, field) ==
    CASE ~slot.present -> IF field = "IRQ0" THEN -1 ELSE 0
      [] field = "STATUS" -> IF slot.external THEN 2 ELSE 1
      [] field = "BAR0_BASE" -> slot.bars[1].base
      [] field = "BAR0_SIZE" -> slot.bars[1].size
      [] field = "CLASS" -> slot.dev
      [] field = "IRQ0" -> IF slot.irqs = {} THEN -1 ELSE Min(slot.irqs)

ProbeBegins(s) ==
    /\ probe.at = "idle" /\ plugged.visits < MaxVisits
    /\ probe' = [at |-> "read", slot |-> s, generation |-> manager.generation, seen |-> <<>>]
    /\ plugged' = [plugged EXCEPT !.visits = @ + 1]
    /\ UNCHANGED <<holder, slots, manager, table, host, visit, alive, devices>>

hub_read ==
    /\ probe.at = "read" /\ holder = Nobody
    /\ \E i \in 1..BusCapacity : table[i].present /\ table[i].dev = Hub /\ table[i].lock = Nobody
    /\ LET seen == Append(probe.seen, slot_value(slots[probe.slot], Fields[Len(probe.seen) + 1]))
           absent == \E i \in 1..Min({3, Len(seen)}) : seen[i] = 0
       IN probe' = [probe EXCEPT !.seen = seen,
                                 !.at = IF absent \/ Len(seen) = Len(Fields) THEN "done" ELSE "read"]
    /\ UNCHANGED <<holder, slots, manager, table, host, visit, alive, devices, plugged>>

ProbeEnds ==
    /\ probe.at = "done"
    /\ probe' = NoProbe
    /\ UNCHANGED <<holder, slots, manager, table, host, visit, alive, devices, plugged>>

-----------------------------------------------------------------------------
(* device_manager_init, bus_init and the publishing of fixed devices: the  *)
(* hub is on the bus, and a slot is taken.                                 *)
PlugInit ==
    /\ holder = Nobody /\ slots = [i \in 1..SlotCount |-> IF i = 1 THEN FixedSlot ELSE EmptySlot]
    /\ manager = [irq_used |-> {}, present_count |-> 1, generation |-> 1, event_status |-> {"ADDED"}]
    /\ table = [i \in 1..BusCapacity |->
                  IF i = 1 THEN Mapping([base |-> 0, size |-> 1], Hub, 0) ELSE EmptyEntry]
    /\ host = [h \in HostThreads |-> IdleHost]
    /\ visit = [v \in Visitors |-> IdleVisit]
    /\ probe = NoProbe /\ alive = {} /\ devices = 0
    /\ plugged = [attempts |-> 0, visits |-> 0]

PlugNext ==
    \/ \E h \in HostThreads :
          \/ \E m \in DeviceModules, created \in BOOLEAN : AttachBegins(h, m, created)
          \/ \E s \in 1..SlotCount : DetachBegins(h, s)
          \/ HostStep(h)
    \/ \E v \in Visitors :
          \/ \E a \in Addresses : VisitBegins(v, "access", a)
          \/ VisitBegins(v, "tick", 0)
          \/ VisitStep(v)
    \/ \E s \in 1..SlotCount : ProbeBegins(s)
    \/ hub_read \/ ProbeEnds

(* Every thread goes on when it can.  The spin locks promise no more: who  *)
(* waits for one gets it when the others stop coming, as they do here.     *)
PlugFairness ==
    /\ \A h \in HostThreads : WF_plugVars(HostStep(h))
    /\ \A v \in Visitors : WF_plugVars(VisitStep(v))

PlugSpec == PlugInit /\ [][PlugNext]_plugVars /\ PlugFairness
-----------------------------------------------------------------------------
(* What DEVICE_ABI.md promises of a detach: a device is destroyed only     *)
(* when no processor and no tick is inside it, and nobody gets into it any *)
(* more, though entries of the table are looked at without a lock and are  *)
(* reused for other devices.                                               *)
CallbacksMeetLiveDevices ==
    \A v \in Visitors : visit[v].at = "call" =>
        table[visit[v].entry].lock = v /\ visit[v].dev \in alive \cup {Hub}

(* Whenever the manager's lock is free, its books, the bus and the living  *)
(* devices agree: each slot's ranges, and no others, are on the bus, no    *)
(* two overlap, the lines in use are those of the slots, and no device     *)
(* lives without a slot, however an attach failed.  What the kernel read   *)
(* of a slot, in several reads, is one device's, unless the generation     *)
(* has changed.                                                            *)
ResourcesExact ==
    holder = Nobody =>
        LET present == {i \in 1..SlotCount : slots[i].present}
            external == {i \in present : slots[i].external}
            mapped == {i \in 1..BusCapacity : table[i].present /\ table[i].dev # Hub}
        IN /\ {[base |-> table[i].base, size |-> table[i].size, dev |-> table[i].dev] : i \in mapped}
                = UNION {{[base |-> b.base, size |-> b.size, dev |-> slots[i].dev] :
                             b \in Range(slots[i].bars)} : i \in external}
           /\ \A i, j \in mapped : i # j => ~ranges_overlap(table[i], table[j])
           /\ manager.irq_used = UNION {slots[i].irqs : i \in external}
           /\ \A i, j \in external : i # j => slots[i].irqs \cap slots[j].irqs = {}
           /\ alive = {slots[i].dev : i \in external}
           /\ manager.present_count = Cardinality(present)
           /\ probe.at = "done" /\ probe.generation = manager.generation =>
                \A i \in 1..Len(probe.seen) : probe.seen[i] = slot_value(slots[probe.slot], Fields[i])

(* No thread waits for ever: a visitor that holds an entry of the table    *)
(* and wants the manager's lock, and a host thread that holds the          *)
(* manager's lock and wants an entry, never wait for each other.           *)
PlugCallsEnd ==
    /\ \A h \in HostThreads : (host[h].at # "idle") ~> (host[h].at = "idle")
    /\ \A v \in Visitors : (visit[v].at # "idle") ~> (visit[v].at = "idle")
=============================================================================
