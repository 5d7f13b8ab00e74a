----------------------------- MODULE CpuMemory -----------------------------
(***************************************************************************)
(* A hardware thread (src/cpu.c): its state, its exceptions, its accesses  *)
(* to memory and the fetch of an instruction.                              *)
(*                                                                         *)
(* Memory is made of units.  A 64-bit word is two units, a vector register *)
(* is two words; one unit stands for each narrower width (8, 16, 32 bits)  *)
(* and for a 32-bit immediate.  Every rule about widths is kept: what is   *)
(* two units can straddle two pages, a page table can refuse the second    *)
(* one, arithmetic wraps at WordSize, a narrow value is sign extended.     *)
(* An instruction is a record, not its encoding; its operands are still    *)
(* fetched one after the other.                                            *)
(*                                                                         *)
(* A state s is a record: the fields of CPU, the memory ram, a device      *)
(* register dev, the page tables pts, and three that stand for C results:  *)
(* ok (what the handler returned), val (an output parameter), part (the    *)
(* units stored before an access failed).  up is FALSE once cpu_step has   *)
(* returned 0: the machine has stopped.                                    *)
(***************************************************************************)
EXTENDS Integers, Sequences, FiniteSets
LOCAL INSTANCE SequencesExt
LOCAL INSTANCE FiniteSetsExt

CONSTANTS UnitBits,   \* bits of a unit
          PageUnits,  \* units of a page, not less than a vector register
          RamUnits,   \* units of RAM, from address 0
          DevAddr,    \* the physical address of the device register
          RomAddr,    \* the first physical address of the boot ROM
          RomUnits,   \* units of ROM
          VaUnits,    \* MMU_VIRTUAL_ADDRESS_LIMIT
          Roots       \* the physical addresses that hold a root page table

ASSUME MemoryAssumption ==
    /\ UnitBits \in Nat \ {0} /\ PageUnits \in Nat /\ RamUnits \in Nat
    /\ PageUnits >= 4 /\ RamUnits % PageUnits = 0
    /\ RamUnits <= DevAddr /\ DevAddr + 2 <= RomAddr
    /\ RomAddr + RomUnits < 4 ^ UnitBits /\ VaUnits < 4 ^ UnitBits

UnitSize == 2 ^ UnitBits
REGISTER_BITS == 2 * UnitBits
WordSize == UnitSize * UnitSize
MaxWord == WordSize - 1
Sign(w) == w >= WordSize \div 2
Signed(w) == IF Sign(w) THEN w - WordSize ELSE w
Wrap(n) == n % WordSize

(* Registers: two general ones and REGISTER_SP; other numbers are invalid. *)
SP == 2
Registers == 0..SP

CPU_FLAG_MASK == {"Z", "N", "C", "V", "I", "U"}

(* The bits of a saved flags word, the two of make_saved_flags included. *)
FlagBit == [f \in CPU_FLAG_MASK \cup {"USER", "EXC"} |->
              CASE f = "Z" -> 1 [] f = "N" -> 2 [] f = "C" -> 4 [] f = "V" -> 8
                [] f = "I" -> 16 [] f = "U" -> 32 [] f = "USER" -> 64 [] f = "EXC" -> 128]
FlagWord(fs) == MapThenSumSet(LAMBDA f : FlagBit[f], fs)
FlagsOf(w) == {f \in DOMAIN FlagBit : (w \div FlagBit[f]) % 2 = 1}

make_saved_flags(s, exception_frame) ==
    FlagWord(s.flags \cup (IF s.mode = "user" THEN {"USER"} ELSE {})
                     \cup (IF exception_frame THEN {"EXC"} ELSE {}))

Fail(s) == [s EXCEPT !.ok = FALSE]

(* Only the first exception of an instruction is recorded. *)
set_exception(s, cause, badaddr, info) ==
    IF s.pend THEN Fail(s)
    ELSE [s EXCEPT !.ok = FALSE, !.pend = TRUE, !.epc = s.ipc, !.ecause = cause,
                   !.badaddr = badaddr,
                   !.einfo = info \cup (IF s.mode = "user" THEN {"ORIGIN_USER"} ELSE {})
                                  \cup (IF s.mmu THEN {"MMU_ENABLED"} ELSE {})]

illegal_instruction(s) == set_exception(s, "ILLEGAL_INSTRUCTION", 0, {})

require_supervisor(s) ==
    IF s.mode = "supervisor" THEN s ELSE set_exception(s, "PRIVILEGE_VIOLATION", 0, {})

access_exception_info(access) ==
    CASE access = "R" -> {"READ"} [] access = "W" -> {"WRITE"} [] access = "X" -> {"EXECUTE"}
      [] access = "A" -> {"READ", "WRITE", "ATOMIC"}

set_access_exception(s, cause, address, access, result) ==
    set_exception(s, cause, address,
                  {"BADADDR_VALID"} \cup access_exception_info(access)
                                    \cup (IF result = "OK" THEN {} ELSE {result}))

page_fault_for_access(access) ==
    CASE access = "X" -> "INSTRUCTION_PAGE_FAULT" [] access = "R" -> "LOAD_PAGE_FAULT"
      [] OTHER -> "STORE_PAGE_FAULT"

-----------------------------------------------------------------------------
(* The MMU.  A page table maps a page to an entry; the walk that finds the *)
(* entry is the subject of KernelMemory.                                   *)

Absent == [valid |-> FALSE, perm |-> {}, frame |-> 0]
Leaf(perm, frame) == [valid |-> TRUE, perm |-> perm, frame |-> frame]

permission_granted(perm, user, access) ==
    /\ user => "U" \in perm
    /\ IF access = "A" THEN {"R", "W"} \subseteq perm ELSE access \in perm

LeafResult(entry, user, access) ==
    CASE ~entry.valid -> "NOT_PRESENT"
      [] "W" \in entry.perm /\ "R" \notin entry.perm -> "MALFORMED"
      [] ~permission_granted(entry.perm, user, access) -> "PERMISSION"
      [] OTHER -> "OK"

mmu_translate(s, root, user, va, access) ==
    CASE va >= VaUnits -> "INVALID_VA"
      [] root \notin Roots -> "INVALID_ROOT"
      [] OTHER -> LeafResult(s.pts[root][va \div PageUnits], user, access)

Translation(s, va, access) ==
    IF s.mmu THEN mmu_translate(s, s.ptbr, s.mode = "user", va, access) ELSE "OK"

(* The physical address of a virtual one that translates. *)
Physical(s, va) ==
    IF s.mmu THEN s.pts[s.ptbr][va \div PageUnits].frame * PageUnits + (va % PageUnits) ELSE va

-----------------------------------------------------------------------------
(* The bus: what each kind of access can reach (src/bus.c). *)

ram_range_valid(p, n) == p <= RamUnits - n
InRom(p, n) == p >= RomAddr /\ p - RomAddr <= RomUnits - n
InDevice(p, n) == p = DevAddr /\ n = 2
bus_fetch(p, n) == ram_range_valid(p, n) \/ InRom(p, n)
bus_read(p, n) == InDevice(p, n) \/ InRom(p, n) \/ ram_range_valid(p, n)
bus_write(p, n) == InDevice(p, n) \/ ram_range_valid(p, n)

(* The routes of the accesses: instructions and data go over the bus, the  *)
(* stack and vectors straight to RAM.                                      *)
Reaches(route, p, n) ==
    CASE route = "fetch" -> bus_fetch(p, n)
      [] route = "read" -> bus_read(p, n)
      [] route = "write" -> bus_write(p, n)
      [] route = "ram" -> ram_range_valid(p, n)

(* The pieces of an access: one, or the parts on both sides of a page      *)
(* boundary when the MMU is on.                                            *)
Segments(s, va, n) ==
    IF ~s.mmu \/ (va % PageUnits) + n <= PageUnits THEN <<[va |-> va, n |-> n]>>
    ELSE <<[va |-> va, n |-> PageUnits - (va % PageUnits)],
           [va |-> va + PageUnits - (va % PageUnits), n |-> n - PageUnits + (va % PageUnits)]>>

(* The first of the pieces that fails a test, 0 if none does. *)
Untranslated(s, segs, access) ==
    SelectInSeq(segs, LAMBDA g : Translation(s, g.va, access) # "OK")
Unreached(s, segs, route) == SelectInSeq(segs, LAMBDA g : ~Reaches(route, Physical(s, g.va), g.n))

PageFault(s, va, access) ==
    set_access_exception(s, page_fault_for_access(access), va, access, Translation(s, va, access))

PhysicalFault(s, segs, k, access, cause) ==
    IF k = 0 THEN s
    ELSE set_access_exception([s EXCEPT !.part = IF k = 2 THEN segs[1].n ELSE 0],
                              cause, segs[k].va, access, "OK")

(* All the pieces are translated before the first is transferred; then     *)
(* each must be in reach of the access.                                    *)
CheckSegments(s, segs, t, access, cause, route) ==
    IF t # 0 THEN PageFault(s, segs[t].va, access)
    ELSE PhysicalFault(s, segs, Unreached(s, segs, route), access, cause)

CheckPieces(s, segs, access, cause, route) ==
    CheckSegments(s, segs, Untranslated(s, segs, access), access, cause, route)

(* build_memory_segments and the checks of the loops that follow it. *)
CheckAccess(s, va, n, access, cause, route) ==
    IF va > MaxWord - (n - 1)
    THEN set_access_exception(s, IF s.mmu THEN page_fault_for_access(access) ELSE cause,
                              va, access, IF s.mmu THEN "INVALID_VA" ELSE "OK")
    ELSE CheckPieces([s EXCEPT !.part = 0], Segments(s, va, n), access, cause, route)

Unit(s, p) == IF p < RamUnits THEN s.ram[p] ELSE 0

Load(s, va, n) ==
    [i \in 0..n - 1 |-> IF InDevice(Physical(s, va), n)
                        THEN (s.dev \div UnitSize ^ i) % UnitSize
                        ELSE Unit(s, Physical(s, va + i))]

WordOf(units) == IF DOMAIN units = {0} THEN units[0] ELSE units[0] + UnitSize * units[1]
UnitsOf(word, n) == [i \in 0..n - 1 |-> (word \div UnitSize ^ i) % UnitSize]

(* A later piece overwrites an earlier one in the same frame. *)
StoredUnit(s, va, units, p, is) == IF is = {} THEN s.ram[p] ELSE units[Max(is)]

Store(s, va, n, units) ==
    IF n = 0 THEN s
    ELSE IF InDevice(Physical(s, va), n) THEN [s EXCEPT !.dev = WordOf(units)]
    ELSE [s EXCEPT !.ram = [p \in DOMAIN s.ram |->
             StoredUnit(s, va, units, p, {i \in 0..n - 1 : Physical(s, va + i) = p})]]

Received(c, va, n) == IF c.ok THEN [c EXCEPT !.val = Load(c, va, n)] ELSE c

(* memory_read: val is the sequence of units read. *)
memory_read(s, va, n, access, cause, route) ==
    Received(CheckAccess(s, va, n, access, cause, route), va, n)

(* A store through the bus that fails on its second piece has stored the   *)
(* first one; a store to RAM checks all of them beforehand.                *)
Transmitted(c, va, units, partial) ==
    IF c.ok \/ partial
    THEN Store(c, va, IF c.ok THEN Cardinality(DOMAIN units) ELSE c.part, units)
    ELSE c

memory_write(s, va, units, cause, route, partial) ==
    Transmitted(CheckAccess(s, va, Cardinality(DOMAIN units), "W", cause, route),
                va, units, partial)

data_read(s, va, n) == memory_read(s, va, n, "R", "DATA_ACCESS", "read")
data_write(s, va, units) == memory_write(s, va, units, "DATA_ACCESS", "write", TRUE)
vector_read(s, va) == memory_read(s, va, 4, "R", "DATA_ACCESS", "ram")
vector_write(s, va, units) == memory_write(s, va, units, "DATA_ACCESS", "ram", FALSE)
stack_read(s, va) == memory_read(s, va, 2, "R", "STACK_FAULT", "ram")
stack_write(s, va, word) ==
    memory_write(s, va, UnitsOf(word, 2), "STACK_FAULT", "ram", FALSE)

(* instruction_address_valid_for_mode, after the translation r. *)
TargetChecked(s, address, r) ==
    IF r # "OK" THEN set_access_exception(s, "INSTRUCTION_PAGE_FAULT", address, "X", r)
    ELSE IF ~bus_fetch(Physical(s, address), 1)
    THEN set_access_exception(s, "INSTRUCTION_ACCESS", address, "X", "OK")
    ELSE s

instruction_address_valid(s, address, mode) ==
    TargetChecked(s, address,
                  IF s.mmu THEN mmu_translate(s, s.ptbr, mode = "user", address, "X") ELSE "OK")

-----------------------------------------------------------------------------
(* The fetch of the operands: a state that has failed stays as it is. *)

On(s, Do(_)) == IF s.ok THEN Do(s) ELSE s

Advance(s, n) == IF s.ok THEN [s EXCEPT !.pc = @ + n] ELSE s

Fetch(s, n) ==
    IF ~s.ok THEN s
    ELSE Advance(CheckAccess(s, s.pc, n, "X", "INSTRUCTION_ACCESS", "fetch"), n)

register_valid(s, r) == IF ~s.ok \/ r \in Registers THEN s ELSE illegal_instruction(s)

fetch_register(s, r) == register_valid(Fetch(s, 1), r)
fetch_register_pair(s, a, b) == register_valid(register_valid(Fetch(Fetch(s, 1), 1), a), b)
fetch_u32(s) == Fetch(s, 1)
fetch_u64(s) == Fetch(s, 2)

sign_extend(v) == IF v >= UnitSize \div 2 THEN v + WordSize - UnitSize ELSE v

SetReg(s, r, v) == [s EXCEPT !.reg[r] = v]
=============================================================================
