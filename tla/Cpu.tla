-------------------------------- MODULE Cpu --------------------------------
(***************************************************************************)
(* A hardware thread that executes instructions (src/cpu.c): privileged    *)
(* instructions, atomic accesses, exceptions, interrupts and system calls. *)
(*                                                                         *)
(* The program is code, a map from an address to the instruction there.    *)
(* The three handlers that the vector table names are an IRET each; what a *)
(* kernel does in between is an action of its own, HandlerMaps, which      *)
(* gives a faulting page the mapping the program needs.  A system call     *)
(* handler changes nothing.                                                *)
(***************************************************************************)
EXTENDS CpuVector
LOCAL INSTANCE SequencesExt

CONSTANTS VectorBase,   \* the address of the vector table in RAM
          VectorUnits,  \* CPU_VECTOR_TABLE_SIZE
          Handlers      \* what the table holds: "irq", "exception", "syscall" |-> address

VARIABLES cpu,    \* the state of the thread: see CpuMemory
          code,   \* address |-> instruction
          want,   \* the page table that a page fault handler works towards
          lines,  \* interrupt lines dispatched to the thread and not taken
          frames, \* ghost: the states that the traps not yet returned from interrupted
          last    \* ghost: the previous state and instruction

vars == <<cpu, code, want, lines, frames, last>>

NoHandler == MaxWord

-----------------------------------------------------------------------------
(* Traps. *)

(* read_vector: the handler that the table holds, or NoHandler. *)
read_vector(s, kind) ==
    IF /\ s.vbrOn /\ s.vbr = VectorBase /\ Handlers[kind] # NoHandler
       /\ instruction_address_valid(s, Handlers[kind], "supervisor").ok
    THEN Handlers[kind] ELSE NoHandler

(* The words of a trap frame, from its lowest address. *)
Frame(s, return_address, exception_frame) ==
    <<return_address, make_saved_flags(s, exception_frame)>>
        \o (IF s.mode = "user" THEN <<s.reg[SP]>> ELSE <<>>)

StackTop(s) == IF s.mode = "user" THEN s.ksp ELSE s.reg[SP]

WriteFrame(s, base, frame) ==
    On(On(stack_write(s, base, frame[1]), LAMBDA t : stack_write(t, base + 2, frame[2])),
       LAMBDA t : IF Len(frame) = 2 THEN t ELSE stack_write(t, base + 4, frame[3]))

(* ram_write_accessible for each word of the frame. *)
Accessible(s, base, n) ==
    \A k \in 0..n - 1 :
        CheckAccess(s, base + 2 * k, 2, "W", "STACK_FAULT", "ram").ok

(* The thread at the first instruction of a handler, its frame written. *)
InHandler(s, handler, base) ==
    [s EXCEPT !.reg[SP] = base, !.flags = @ \ {"I"}, !.pc = handler, !.waiting = FALSE]

StackFault(s, va) == set_access_exception(s, "STACK_FAULT", va, "W", "OK")

WrittenOrNot(s, t, handler, base) ==
    IF t.ok THEN InHandler(t, handler, base) ELSE StackFault([t EXCEPT !.mode = s.mode], base)

(* Mutant: the words of the frame are not checked before the first one is  *)
(* written.                                                                *)
EnterUnchecked(s, handler, frame, base) ==
    IF StackTop(s) < 2 * Len(frame) THEN StackFault(s, StackTop(s))
    ELSE WrittenOrNot(s, WriteFrame([s EXCEPT !.mode = "supervisor"], base, frame), handler, base)

EnterAt(s, handler, frame, base) ==
    IF StackTop(s) < 2 * Len(frame) THEN StackFault(s, StackTop(s))
    ELSE IF ~Accessible([s EXCEPT !.mode = "supervisor"], base, Len(frame)) THEN StackFault(s, base)
    ELSE InHandler(WriteFrame([s EXCEPT !.mode = "supervisor"], base, frame), handler, base)

enter_privileged_handler(s, handler, frame) ==
    EnterAt(s, handler, frame, StackTop(s) - 2 * Len(frame))

Stopped(s) == [s EXCEPT !.up = FALSE]

(* An exception inside an exception handler stops the machine. *)
Delivered(s) == IF s.ok THEN [s EXCEPT !.pend = FALSE, !.active = TRUE] ELSE Stopped(s)

DeliverTo(s, handler) ==
    IF s.active \/ handler = NoHandler THEN Stopped(s)
    ELSE Delivered(enter_privileged_handler(s, handler, Frame(s, s.epc, TRUE)))

DeliverWith(s) == DeliverTo(s, read_vector(s, "exception"))

deliver_exception(s) == DeliverWith([s EXCEPT !.ok = TRUE])

SyscallTo(s, handler) ==
    IF handler = NoHandler THEN illegal_instruction(s)
    ELSE enter_privileged_handler(s, handler, Frame(s, s.pc, FALSE))

execute_syscall(s, i) == SyscallTo(s, read_vector(s, "syscall"))

(* Mutant: every IRET ends the exception. *)
IretEndsException(s, pc, saved, user, usp) ==
    [s EXCEPT !.pc = pc, !.flags = saved \cap CPU_FLAG_MASK,
              !.mode = IF user THEN "user" ELSE "supervisor",
              !.ksp = IF user THEN s.reg[SP] + 6 ELSE @,
              !.reg[SP] = IF user THEN usp ELSE @ + 4,
              !.active = FALSE]

ReturnTo(s, pc, saved, user, usp) ==
    [s EXCEPT !.pc = pc, !.flags = saved \cap CPU_FLAG_MASK,
              !.mode = IF user THEN "user" ELSE "supervisor",
              !.ksp = IF user THEN s.reg[SP] + 6 ELSE @,
              !.reg[SP] = IF user THEN usp ELSE @ + 4,
              !.active = IF "EXC" \in saved THEN FALSE ELSE @]

(* The rest of execute_iret once pc and the saved flags have been read: s  *)
(* has read the user stack pointer too if the frame has one.  Near the end *)
(* of the address space the handler fails without an exception.            *)
IretReturns(s, pc, saved, user) ==
    IF ~user /\ s.reg[SP] > MaxWord - 4
    THEN set_access_exception(s, "STACK_FAULT", s.reg[SP], "R", "OK")
    ELSE On(instruction_address_valid(s, pc, IF user THEN "user" ELSE "supervisor"),
            LAMBDA t : ReturnTo(t, pc, saved, user, WordOf(t.val)))

IretFrom(s, pc, saved, user) ==
    On(IF ~user THEN s ELSE IF s.reg[SP] > MaxWord - 6 THEN Fail(s)
       ELSE stack_read(s, s.reg[SP] + 4),
       LAMBDA t : IretReturns(t, pc, saved, user))

IretFlags(s, pc, saved) == IretFrom(s, pc, saved, "USER" \in saved)

execute_iret(s, i) ==
    On(require_supervisor(s),
       LAMBDA t : IF t.reg[SP] > MaxWord - 2 THEN Fail(t)
                  ELSE On(stack_read(t, t.reg[SP]),
                          LAMBDA u : On(stack_read(u, u.reg[SP] + 2),
                                        LAMBDA v : IretFlags(v, WordOf(u.val), FlagsOf(WordOf(v.val))))))

-----------------------------------------------------------------------------
(* Atomic accesses: aligned words of RAM only. *)

AtomicRange(p) == p % 2 = 0 /\ ram_range_valid(p, 2)

Atomic(s, va) ==
    IF Translation(s, va, "A") # "OK" THEN PageFault(s, va, "A")
    ELSE IF ~AtomicRange(Physical(s, va))
    THEN set_access_exception(s, "DATA_ACCESS", va, "A", "OK")
    ELSE [s EXCEPT !.val = Load(s, va, 2)]

StoreIf(s, test, va, word) == IF test THEN Store(s, va, 2, UnitsOf(word, 2)) ELSE s

CompareExchange(s, i, old, same) ==
    [StoreIf(s, same, s.reg[i.a], s.reg[i.c])
        EXCEPT !.reg[i.d] = old, !.flags = (@ \cap {"I"}) \cup (IF same THEN {"Z"} ELSE {})]

(* Several registers: all are fetched, then all are checked. *)
fetch_registers(s, rs) ==
    FoldLeft(register_valid, FoldLeft(LAMBDA t, r : Fetch(t, 1), s, rs), rs)

execute_cas64(s, i) ==
    On(fetch_registers(s, <<i.a, i.b, i.c, i.d>>),
       LAMBDA t : On(Atomic(t, t.reg[i.a]), LAMBDA u :
                     CompareExchange(u, i, WordOf(u.val), WordOf(u.val) = u.reg[i.b])))

execute_xchg64(s, i) ==
    On(fetch_register_pair(s, i.a, i.b),
       LAMBDA t : On(Atomic(t, t.reg[i.a]), LAMBDA u :
                     SetReg(Store(u, u.reg[i.a], 2, UnitsOf(u.reg[i.b], 2)), i.b, WordOf(u.val))))

execute_atomic_add64(s, i) ==
    On(fetch_registers(s, <<i.a, i.b, i.c>>),
       LAMBDA t : On(Atomic(t, t.reg[i.a]), LAMBDA u :
                     SetReg(Store(u, u.reg[i.a], 2, UnitsOf(Wrap(WordOf(u.val) + u.reg[i.b]), 2)), i.c, WordOf(u.val))))

-----------------------------------------------------------------------------
(* Privileged state. *)

execute_halt(s, i) == On(require_supervisor(s), LAMBDA t : [t EXCEPT !.halted = TRUE])

execute_wait(s, i) == [s EXCEPT !.waiting = TRUE]

execute_ei(s, i) == On(require_supervisor(s), LAMBDA t : [t EXCEPT !.flags = @ \cup {"I"}])
execute_di(s, i) == On(require_supervisor(s), LAMBDA t : [t EXCEPT !.flags = @ \ {"I"}])

execute_enteruser(s, i) == On(require_supervisor(s), LAMBDA t : [t EXCEPT !.mode = "user"])

cpu_set_vector_base(s, address) ==
    IF address % 2 # 0 \/ ~ram_range_valid(address, VectorUnits)
    THEN set_access_exception(s, "DATA_ACCESS", address, "R", "OK")
    ELSE [s EXCEPT !.vbr = address, !.vbrOn = TRUE]

execute_setvbr(s, i) ==
    On(fetch_register(require_supervisor(s), i.a), LAMBDA t : cpu_set_vector_base(t, t.reg[i.a]))

execute_setksp(s, i) ==
    On(fetch_register(require_supervisor(s), i.a), LAMBDA t : [t EXCEPT !.ksp = t.reg[i.a]])

(* The registers that are copied to a general one; three need the           *)
(* supervisor mode.                                                        *)
execute_get(s, i) ==
    On(fetch_register(IF i.op \in {"GETVBR", "GETKSP", "GETPTBR"} THEN require_supervisor(s) ELSE s,
                      i.a),
       LAMBDA t : SetReg(t, i.a, CASE i.op = "GETVBR" -> t.vbr [] i.op = "GETKSP" -> t.ksp
                                   [] i.op = "GETPTBR" -> t.ptbr
                                   [] i.op = "GETMODE" -> IF t.mode = "user" THEN 0 ELSE 1
                                   [] i.op = "GETMMU" -> IF t.mmu THEN 1 ELSE 0
                                   [] i.op = "EXPC" -> t.epc [] i.op = "EXADDR" -> t.badaddr
                                   [] i.op = "COREID" -> 0 [] i.op = "THREADID" -> 0))

page_table_can_execute(s, root, address) ==
    /\ mmu_translate(s, root, s.mode = "user", address, "X") = "OK"
    /\ ram_range_valid(s.pts[root][address \div PageUnits].frame * PageUnits, PageUnits)

SetPtbr(s, root) ==
    IF root \notin Roots
    THEN set_access_exception(s, "MMU_CONFIGURATION", root, "R", "INVALID_ROOT")
    ELSE IF s.mmu /\ ~page_table_can_execute(s, root, s.pc)
    THEN set_access_exception(s, "MMU_CONFIGURATION", s.pc, "X", "OK")
    ELSE [s EXCEPT !.ptbr = root, !.ptbrSet = TRUE]

execute_setptbr(s, i) ==
    On(fetch_register(require_supervisor(s), i.a), LAMBDA t : SetPtbr(t, t.reg[i.a]))

execute_mmuon(s, i) ==
    On(require_supervisor(s), LAMBDA t :
       IF t.mmu THEN t
       ELSE IF ~t.ptbrSet \/ t.ptbr \notin Roots
       THEN set_exception(t, "MMU_CONFIGURATION", t.ptbr,
                          IF t.ptbrSet THEN {"BADADDR_VALID", "READ", "INVALID_ROOT"}
                          ELSE {"INVALID_ROOT"})
       ELSE IF ~page_table_can_execute(t, t.ptbr, t.pc)
       THEN set_access_exception(t, "MMU_CONFIGURATION", t.pc, "X", "OK")
       ELSE [t EXCEPT !.mmu = TRUE])

execute_mmuoff(s, i) ==
    On(require_supervisor(s), LAMBDA t :
       IF t.mmu /\ ~ram_range_valid(t.pc, 1)
       THEN set_access_exception(t, "MMU_CONFIGURATION", t.pc, "X", "OK")
       ELSE [t EXCEPT !.mmu = FALSE])

-----------------------------------------------------------------------------
(* OPCODE_HANDLERS: the state that the handler of an instruction leaves.   *)

Execute(s, i) ==
    CASE i.op \in {"NOP", "FENCE"} -> s
      [] i.op = "HALT" -> execute_halt(s, i)
      [] i.op = "WAIT" -> execute_wait(s, i)
      [] i.op = "MOVI64" -> execute_movi64(s, i)
      [] i.op = "MOV" -> execute_mov(s, i)
      [] i.op \in {"MOVI32U", "MOVI32S"} -> execute_movi32(s, i)
      [] i.op = "ADDI32" -> execute_addi32(s, i)
      [] i.op = "CMPI32" -> execute_cmpi32(s, i)
      [] i.op \in {"ANDI32", "ORI32", "XORI32", "TESTI32"} -> execute_logici32(s, i)
      [] i.op = "LEA" -> execute_lea(s, i)
      [] i.op \in {"LOADU", "LOADS", "LOAD64"} -> execute_load(s, i)
      [] i.op \in {"LOADUO", "LOADSO", "LOAD64O"} -> execute_load_offset(s, i)
      [] i.op \in {"STORE", "STORE64"} -> execute_store(s, i)
      [] i.op \in {"STOREO", "STORE64O"} -> execute_store_offset(s, i)
      [] i.op = "ADD" -> execute_add(s, i)
      [] i.op = "SUB" -> execute_sub(s, i)
      [] i.op = "CMP" -> execute_cmp(s, i)
      [] i.op = "MUL" -> execute_mul(s, i)
      [] i.op \in {"DIVU", "MODU", "DIVS", "MODS"} -> execute_div(s, i)
      [] i.op \in {"AND", "OR", "XOR"} -> execute_logic(s, i)
      [] i.op = "NOT" -> execute_not(s, i)
      [] i.op \in {"SHL", "SHR", "SAR"} -> execute_shift(s, i)
      [] i.op \in {"SHLV", "SHRV", "SARV"} -> execute_shiftv(s, i)
      [] i.op \in {"SEXT", "ZEXT"} -> execute_extend(s, i)
      [] i.op = "BRANCH" -> execute_branch(s, i)
      [] i.op = "JUMPR" -> execute_jumpr(s, i)
      [] i.op = "JUMPREL" -> execute_jumprel(s, i)
      [] i.op = "BRCC" -> execute_brcc(s, i)
      [] i.op = "CALL" -> execute_call(s, i)
      [] i.op = "CALLR" -> execute_callr(s, i)
      [] i.op = "CALLREL" -> execute_callrel(s, i)
      [] i.op = "RET" -> execute_ret(s, i)
      [] i.op = "PUSH" -> execute_push(s, i)
      [] i.op = "POP" -> execute_pop(s, i)
      [] i.op = "EI" -> execute_ei(s, i)
      [] i.op = "DI" -> execute_di(s, i)
      [] i.op = "IRET" -> execute_iret(s, i)
      [] i.op = "CAS64" -> execute_cas64(s, i)
      [] i.op = "XCHG64" -> execute_xchg64(s, i)
      [] i.op = "ATOMIC_ADD64" -> execute_atomic_add64(s, i)
      [] i.op = "SETVBR" -> execute_setvbr(s, i)
      [] i.op = "SETKSP" -> execute_setksp(s, i)
      [] i.op = "SETPTBR" -> execute_setptbr(s, i)
      [] i.op \in {"GETVBR", "GETKSP", "GETPTBR", "GETMODE", "GETMMU", "EXPC", "EXADDR",
                   "COREID", "THREADID"} -> execute_get(s, i)
      [] i.op = "ENTERUSER" -> execute_enteruser(s, i)
      [] i.op = "SYSCALL" -> execute_syscall(s, i)
      [] i.op = "MMUON" -> execute_mmuon(s, i)
      [] i.op = "MMUOFF" -> execute_mmuoff(s, i)
      [] i.op \in VectorOpcodes -> cpu_vector_execute(s, i)
      [] OTHER -> illegal_instruction(s)

(* The end of cpu_step: a handler that fails without an exception is an    *)
(* illegal instruction.                                                    *)
Finish(s) ==
    IF s.ok THEN s ELSE deliver_exception(IF s.pend THEN s ELSE illegal_instruction(s))

cpu_step(s, i) ==
    Finish(On(Fetch([s EXCEPT !.ipc = s.pc, !.pend = FALSE, !.ok = TRUE], 1),
              LAMBDA t : Execute(t, i)))

(* cpu_check_interrupt, with a line to take. *)
Interrupted(s) == IF s.ok THEN s ELSE Stopped(s)

cpu_check_interrupt(s) ==
    IF read_vector(s, "irq") = NoHandler THEN Stopped(s)
    ELSE Interrupted(enter_privileged_handler(s, Handlers["irq"], Frame(s, s.pc, FALSE)))

cpu_init == [reg |-> [r \in Registers |-> 0], vreg |-> [r \in VectorRegisters |-> [k \in 0..3 |-> 0]],
             flags |-> {}, fp |-> {}, pc |-> 0, ipc |-> 0, vbr |-> 0, vbrOn |-> FALSE,
             ptbr |-> 0, ptbrSet |-> FALSE, mmu |-> FALSE, ksp |-> 0, mode |-> "supervisor",
             epc |-> 0, ecause |-> "NONE", badaddr |-> 0, einfo |-> {}, pend |-> FALSE,
             active |-> FALSE, halted |-> FALSE, waiting |-> FALSE,
             ram |-> [a \in 0..RamUnits - 1 |-> 0], dev |-> 0, pts |-> [r \in Roots |-> <<>>],
             ok |-> TRUE, val |-> <<>>, part |-> 0, up |-> TRUE]

-----------------------------------------------------------------------------
(* The machine around the thread. *)

(* The cells of RAM that a trap frame on top of the stack of t occupies. *)
FrameCells(s, t) == {Physical(t, a) : a \in t.reg[SP]..StackTop(s) - 1}

(* A trap from s to t, after which f is the state to return to. *)
Push(kind, s, t, f) == <<[kind |-> kind, state |-> f, cells |-> FrameCells(s, t)]>> \o frames

(* A return from the newest trap. *)
Pop == IF Len(frames) < 2 THEN <<>>
       ELSE <<[frames[2] EXCEPT !.cells = @ \cup frames[1].cells]>>
                \o SubSeq(frames, 3, Len(frames))

FramesAfter(i, t) ==
    IF ~t.up THEN frames
    ELSE IF t.active /\ ~cpu.active THEN Push(t.ecause, cpu, t, cpu)
    ELSE IF i.op = "SYSCALL" THEN Push("syscall", cpu, t, [cpu EXCEPT !.pc = @ + 1])
    ELSE IF i.op = "IRET" THEN Pop
    ELSE frames

(* One instruction.  What ok, val and part say ends with it. *)
Step ==
    /\ cpu.up /\ ~cpu.halted /\ ~cpu.waiting /\ cpu.pc \in DOMAIN code
    /\ \E t \in {cpu_step(cpu, code[cpu.pc])} :
         /\ cpu' = [t EXCEPT !.ok = TRUE, !.val = <<>>, !.part = 0]
         /\ frames' = FramesAfter(code[cpu.pc], t)
    /\ last' = [pre |-> cpu, i |-> code[cpu.pc]]
    /\ UNCHANGED <<code, want, lines>>

(* A dispatched line is taken between two instructions. *)
Interrupt ==
    /\ cpu.up /\ ~cpu.halted /\ "I" \in cpu.flags
    /\ \E l \in lines :
         /\ lines' = lines \ {l}
         /\ cpu' = [cpu_check_interrupt(cpu) EXCEPT !.ok = TRUE, !.val = <<>>, !.part = 0]
    /\ last' = [pre |-> cpu, i |-> [op |-> "INTERRUPT"]]
    /\ frames' = IF cpu'.up THEN Push("irq", cpu, cpu', [cpu EXCEPT !.waiting = FALSE]) ELSE frames
    /\ UNCHANGED <<code, want>>

(* The page fault handler of a kernel maps the page. *)
HandlerMaps ==
    LET page == cpu.badaddr \div PageUnits IN
    /\ cpu.up /\ cpu.pc = Handlers["exception"] /\ cpu.mmu
    /\ cpu.ecause \in {"LOAD_PAGE_FAULT", "STORE_PAGE_FAULT", "INSTRUCTION_PAGE_FAULT"}
    /\ page \in DOMAIN want /\ cpu.pts[cpu.ptbr][page] # want[page]
    /\ cpu' = [cpu EXCEPT !.pts[cpu.ptbr][page] = want[page]]
    /\ UNCHANGED <<code, want, lines, frames, last>>

Next == Step \/ Interrupt \/ HandlerMaps

-----------------------------------------------------------------------------
(* Properties. *)

Restored(f, t) ==
    /\ t.reg = f.reg /\ t.vreg = f.vreg /\ t.flags = f.flags /\ t.fp = f.fp
    /\ t.pc = f.pc /\ t.mode = f.mode /\ t.waiting = f.waiting /\ t.dev = f.dev
    /\ f.mode = "user" => t.ksp = f.ksp

(* The IRET that ends a trap finds the thread as the trap interrupted it,  *)
(* the memory below the trap frames aside: an instruction that faulted on  *)
(* its second page, or on its operands, has changed nothing and can be     *)
(* executed again once the page is mapped (cpu.c: build_memory_segments    *)
(* translates everything before the first transfer).  The one exception is *)
(* DATA_ACCESS: a store through the bus may have stored its first piece.   *)
TrapsReturnExactly ==
    [][Len(frames') < Len(frames) /\ frames[1].kind # "DATA_ACCESS" =>
          /\ Restored(frames[1].state, cpu')
          /\ \A p \in DOMAIN cpu.ram \ frames[1].cells : cpu'.ram[p] = frames[1].state.ram[p]]_vars

(* exception_active is set exactly while a trap frame of an exception is   *)
(* on a stack: an interrupt that nests in the handler does not end the     *)
(* exception (the EXCEPTION_FRAME bit of the saved flags, execute_iret).   *)
ActiveExact ==
    cpu.up => (cpu.active <=> \E k \in DOMAIN frames : frames[k].kind \notin {"irq", "syscall"})

UserWritable(s, p) ==
    \E page \in DOMAIN s.pts[s.ptbr] :
        LET e == s.pts[s.ptbr][page]
        IN  e.valid /\ {"R", "W", "U"} \subseteq e.perm /\ p \div PageUnits = e.frame

Changed(s, t) == {p \in DOMAIN s.ram : s.ram[p] # t.ram[p]}

(* A step of user code leaves the privileged state alone.  It stays in     *)
(* user mode and writes only where the page table lets it, or it enters a  *)
(* handler of the vector table on the kernel stack; a machine that stops   *)
(* because the frame does not fit has written no part of it.               *)
UserConfined ==
    [][cpu.mode = "user" /\ cpu.mmu =>
          /\ cpu'.vbr = cpu.vbr /\ cpu'.ptbr = cpu.ptbr /\ cpu'.mmu /\ ~cpu'.halted
          /\ cpu'.ksp = cpu.ksp /\ cpu'.pts = cpu.pts
          /\ IF cpu'.mode = "user"
             THEN /\ cpu'.flags \cap {"I"} = cpu.flags \cap {"I"}
                  /\ \A p \in Changed(cpu, cpu') : cpu'.up /\ UserWritable(cpu, p)
             ELSE /\ \E k \in DOMAIN Handlers : cpu'.pc = Handlers[k]
                  /\ cpu'.reg[SP] = cpu.ksp - 6 /\ "I" \notin cpu'.flags
                  /\ \A p \in Changed(cpu, cpu') \ FrameCells(cpu, cpu') :
                        cpu'.ecause = "DATA_ACCESS" /\ UserWritable(cpu, p)]_vars

(* What a condition means for two integers. *)
Relation(c, l, r) ==
    CASE c \in {"ALWAYS", "ORDERED"} -> TRUE [] c = "UNORDERED" -> FALSE
      [] c = "EQ" -> l = r [] c = "NE" -> l # r
      [] c = "LT" -> Signed(l) < Signed(r) [] c = "LE" -> Signed(l) <= Signed(r)
      [] c = "GT" -> Signed(l) > Signed(r) [] c = "GE" -> Signed(l) >= Signed(r)
      [] c = "LTU" -> l < r [] c = "LEU" -> l <= r [] c = "GTU" -> l > r [] c = "GEU" -> l >= r

(* What it means for two floating point numbers. *)
FloatRelation(c, l, r) ==
    IF IsNaN(l) \/ IsNaN(r) THEN c \in {"ALWAYS", "NE", "UNORDERED"}
    ELSE CASE c \in {"ALWAYS", "ORDERED"} -> TRUE [] c = "UNORDERED" -> FALSE
           [] c = "EQ" -> Value(l) = Value(r) [] c = "NE" -> Value(l) # Value(r)
           [] c = "LT" -> Value(l) < Value(r) [] c = "LE" -> Value(l) <= Value(r)
           [] c = "GT" -> Value(l) > Value(r) [] c = "GE" -> Value(l) >= Value(r)

Compared(j, s, c) ==
    CASE j.op \in {"CMP", "SUB"} -> Relation(c, s.reg[j.a], s.reg[j.b])
      [] j.op = "CMPI32" -> Relation(c, s.reg[j.a], sign_extend(j.imm))
      [] j.op = "FCMP" -> FloatRelation(c, read_lane(s.vreg[j.a], 0, 2), read_lane(s.vreg[j.b], 0, 2))

(* The unsigned conditions mean nothing after a floating point comparison. *)
BranchAfterCompare ==
    /\ cpu.pc \in DOMAIN code /\ code[cpu.pc].op \in {"BRCC", "BRANCH"}
    /\ code[cpu.pc].cond \in Conditions
    /\ last.i.op \in {"CMP", "SUB", "CMPI32", "FCMP"}
    /\ last.i.op = "FCMP" => code[cpu.pc].cond \notin {"LTU", "LEU", "GTU", "GEU"}

(* A branch after a comparison is taken exactly when the numbers compared  *)
(* are in the relation that its condition names: signed, unsigned or       *)
(* floating point (set_sub_flags, execute_float_compare and                *)
(* evaluate_condition agree on the meaning of the flags).                  *)
BranchesDecide ==
    [][last' # last /\ frames' = frames /\ BranchAfterCompare =>
          (cpu'.pc # cpu.pc + 3) = Compared(last.i, last.pre, code[cpu.pc].cond)]_vars

SameSign(m, n) == m = 0 \/ (m < 0) = (n < 0)

Ulp(n) == IF n < 16 THEN 1 ELSE IF n < 32 THEN 2 ELSE IF n < 64 THEN 4 ELSE 8

(* The result v and status f of i on the integers l and r. *)
ResultAgrees(i, l, r, v, flags) ==
    CASE i.op = "ADD" -> /\ ("V" \in flags) = (Signed(l) + Signed(r) # Signed(v))
                         /\ ("C" \in flags) = (l + r # v)
      [] i.op = "SUB" -> /\ ("V" \in flags) = (Signed(l) - Signed(r) # Signed(v))
                         /\ ("C" \notin flags) = (l - r # v)
      [] i.op = "MUL" -> ("C" \in flags) = (l * r # v)
      [] i.op = "DIVS" -> LET m == Signed(l) - Signed(v) * Signed(r)
                          IN  Abs(m) < Abs(Signed(r)) /\ SameSign(m, Signed(l))
      [] i.op = "MODS" -> /\ (Signed(l) - Signed(v)) % Abs(Signed(r)) = 0
                          /\ Abs(Signed(v)) < Abs(Signed(r)) /\ SameSign(Signed(v), Signed(l))
      [] i.op = "SAR" -> Signed(v) = Signed(l) \div 2 ^ i.imm
      [] i.op = "SARV" -> Signed(v) = Signed(l) \div 2 ^ (r % REGISTER_BITS)
      [] OTHER -> TRUE

FloatAgrees(i, l, r, v, fp) ==
    CASE IsFinite(l) /\ IsFinite(r) /\ IsInf(v) ->
            fp = IF i.fop = "DIV" /\ Value(r) = 0 THEN {"DIVIDE_BY_ZERO"} ELSE {"OVERFLOW"}
      [] IsNaN(v) -> fp = {"INVALID"}
      [] OTHER -> fp \subseteq {"UNDERFLOW"}

(* An arithmetic instruction that completes gives the integer result, or a *)
(* carry or overflow says that it does not fit; a signed quotient rounds   *)
(* towards zero and its remainder has the sign of the dividend; a floating *)
(* point result that is not a number has set exactly the status bit that   *)
(* explains it; an integer that goes to floating point and back is the     *)
(* nearest representable one or saturates.                                 *)
ArithmeticAgrees ==
    [][last' # last /\ frames' = frames /\ cpu'.up =>
          LET i == last'.i IN
          CASE i.op \in {"ADD", "SUB", "MUL", "DIVS", "MODS", "SAR", "SARV"} ->
                  ResultAgrees(i, cpu.reg[i.a], cpu.reg[i.b], cpu'.reg[i.a], cpu'.flags)
            [] i.op = "FLOAT" /\ cpu.fp = {} ->
                  FloatAgrees(i, read_lane(cpu.vreg[i.b], 0, 2), read_lane(cpu.vreg[i.c], 0, 2),
                              read_lane(cpu'.vreg[i.a], 0, 2), cpu'.fp)
            [] i.op = "F64TOI64" /\ last.i.op = "I64TOF64" ->
                  LET n == Signed(last.pre.reg[last.i.b])
                      v == Signed(cpu'.reg[i.a])
                  IN  IF n >= 124 THEN v = 127 /\ "INVALID" \in cpu'.fp
                      ELSE 2 * Abs(v - n) <= Ulp(Abs(n)) /\ cpu'.fp = cpu.fp
            [] OTHER -> TRUE]_vars

(* What an instruction computes, and what a branch makes of it, is what    *)
(* the numbers say (cpu_alu_* and evaluate_condition).                     *)
ResultsAgree == BranchesDecide /\ ArithmeticAgrees
=============================================================================
