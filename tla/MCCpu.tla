------------------------------- MODULE MCCpu -------------------------------
(***************************************************************************)
(* Programs of one or two instructions in every situation that the         *)
(* properties of Cpu tell apart.  Pages of eight units: 0 vector table,    *)
(* 1 handlers, 2 program, 3 and 4 data and user stack, 5 kernel stack,     *)
(* 6 the device.  The frames of pages 3 and 4 are swapped, so that what is *)
(* contiguous in virtual memory is not in RAM.                             *)
(***************************************************************************)
EXTENDS Cpu

MCHandlers == [k \in {"exception", "irq", "syscall"} |->
                 CASE k = "exception" -> 8 [] k = "irq" -> 12 [] k = "syscall" -> 14]

Ins == [op |-> "NOP", a |-> 0, b |-> 1, c |-> 1, d |-> 0, imm |-> 0, wide |-> 0,
        cond |-> "ALWAYS", fop |-> "ADD"]
Op(op) == [Ins EXCEPT !.op = op]

(* The handler of an exception opens the interrupts before it returns. *)
HandlerCode ==
    [a \in {8, 9, 12, 14} |-> IF a = 8 THEN Op("EI") ELSE Op("IRET")]

Join(f, g) == [a \in DOMAIN f \cup DOMAIN g |-> IF a \in DOMAIN f THEN f[a] ELSE g[a]]

Kernel == {"R", "W", "X"}
User == {"R", "W", "X", "U"}

Want == [p \in 0..7 |-> CASE p \in {0, 1, 5} -> Leaf(Kernel, p)
                          [] p = 2 -> Leaf({"R", "X", "U"}, 2)
                          [] p = 3 -> Leaf(User, 4)
                          [] p = 4 -> Leaf(User, 3)
                          [] p = 6 -> Leaf(User, 6)
                          [] p = 7 -> Absent]

(* A page that the program needs: there, absent, read-only, the kernel's,  *)
(* with an entry that the walk rejects, or mapped where nothing is.        *)
Forms(p) == {Want[p], Absent, Leaf({"R", "U"}, Want[p].frame), Leaf(Kernel, Want[p].frame),
             Leaf({"W", "U"}, Want[p].frame), Leaf(User, 9)}

Base == [cpu_init EXCEPT !.vbr = VectorBase, !.vbrOn = TRUE, !.pts = [r \in Roots |-> Want],
                         !.ptbr = CHOOSE r \in Roots : TRUE, !.ptbrSet = TRUE, !.ksp = 48,
                         !.ram = [a \in DOMAIN @ |-> a % 16]]

Start(s, program, pending) ==
    /\ cpu = s /\ code = Join(program, HandlerCode) /\ want = Want
    /\ lines = pending /\ frames = <<>> /\ last = [pre |-> s, i |-> Ins]

Samples == {0, 1, 2, 3, 7, 8, 15, 100, 126, 127, 128, 129, 130, 156, 254, 255}
FloatSamples == {0, 1, 7, 8, 40, 56, 64, 119, 120, 124} \cup {128, 129, 135, 136, 184, 247, 248}

(* One arithmetic instruction. *)
InitArithmetic ==
    \E op \in {"ADD", "SUB", "MUL", "DIVU", "MODU", "DIVS", "MODS", "AND", "OR", "XOR", "NOT",
               "SHLV", "SHRV", "SARV", "SHL", "SHR", "SAR", "SEXT", "ZEXT", "ADDI32", "ANDI32",
               "ORI32", "XORI32", "TESTI32", "LEA", "MOV", "MOVI64", "MOVI32U", "MOVI32S"},
       l \in Samples, r \in Samples :
       Start([Base EXCEPT !.reg[0] = l, !.reg[1] = r, !.reg[2] = 48, !.pc = 16],
             [a \in {16} |-> [Op(op) EXCEPT !.imm = r % 16, !.wide = r]], {})

(* A comparison and a branch over one unit. *)
InitBranch ==
    \E cmp \in {"CMP", "SUB", "CMPI32", "FCMP"}, br \in {"BRCC", "BRANCH"},
       c \in Conditions \cup {"COUNT"} :
    \E l \in IF cmp = "FCMP" THEN FloatSamples ELSE Samples,
       r \in IF cmp = "FCMP" THEN FloatSamples ELSE Samples :
       /\ c = "COUNT" => br = "BRCC"
       /\ Start([Base EXCEPT !.reg[0] = l, !.reg[1] = r, !.reg[2] = 48, !.pc = 16,
                             !.vreg[0] = Lanes(2, [n \in {0} |-> l]),
                             !.vreg[1] = Lanes(2, [n \in {0} |-> r])],
                [a \in {16, 19} |-> IF a = 16 THEN [Op(cmp) EXCEPT !.imm = r % 16]
                                    ELSE [Op(br) EXCEPT !.cond = c, !.imm = 1, !.wide = 23]], {})

(* Floating point and integer lanes. *)
InitFloat ==
    \E l \in FloatSamples, r \in FloatSamples, fop \in {"ADD", "SUB", "MUL", "DIV"},
       op \in {"FLOAT", "VFLOAT", "VADD", "VMUL", "VSUB", "VAND", "VOR", "VXOR"} :
       /\ op \notin {"FLOAT", "VFLOAT"} => fop = "ADD"
       /\ Start([Base EXCEPT !.reg[2] = 48, !.pc = 16,
                             !.vreg[0] = Lanes(2, [n \in {0, 1} |-> l]),
                             !.vreg[1] = Lanes(2, [n \in {0, 1} |-> IF n = 0 THEN r ELSE 64])],
                [a \in {16, 20, 22} |-> CASE a = 16 -> [Op(op) EXCEPT !.fop = fop, !.imm = 1 + (l % 2),
                                                                      !.b = 0, !.c = 1]
                                          [] a = 20 -> Op("GETFPSTATUS")
                                          [] a = 22 -> Op("CLEARFPSTATUS")], {})

(* To floating point, its sign, and back. *)
InitConvert ==
    \E n \in Samples, sign \in {"FNEG", "FABS", "VMOV"} :
       Start([Base EXCEPT !.reg[1] = n, !.reg[2] = 48, !.pc = 16],
             [a \in {16, 19, 22} |-> CASE a = 16 -> Op("I64TOF64")
                                       [] a = 19 -> [Op("F64TOI64") EXCEPT !.b = 0]
                                       [] a = 22 -> [Op(sign) EXCEPT !.a = 1, !.b = 0]], {})

MemoryOps == {"LOADU", "LOADS", "LOAD64", "LOADUO", "LOADSO", "LOAD64O", "STORE", "STORE64",
              "STOREO", "STORE64O", "CAS64", "XCHG64", "ATOMIC_ADD64", "VLOAD128", "VSTORE128",
              "FLOAD", "FSTORE", "PUSH", "POP", "CALL", "CALLR", "CALLREL", "RET", "JUMPR",
              "JUMPREL", "SYSCALL"}

(* An access by user code across the boundary of pages 3 and 4, or next to *)
(* the kernel's page or the device, with an interrupt pending or not; the  *)
(* instruction itself may straddle pages 2 and 3.                          *)
InitMemory ==
    \E op \in MemoryOps, address \in {24, 29, 31, 39, 48, 250}, pc \in {16, 22},
       e3 \in Forms(3), e4 \in Forms(4), pending \in {{}, {"line"}} :
       /\ pending # {} => e3 = Want[3]
       /\ address \in {48, 250} => e4 = Want[4]
       /\ Start([Base EXCEPT !.reg = [r \in Registers |-> IF r = 1 /\ op \notin {"STORE", "STORE64",
                                        "STOREO", "STORE64O", "CAS64", "XCHG64", "ATOMIC_ADD64",
                                        "VSTORE128", "FSTORE", "PUSH", "CALLR", "JUMPR"}
                                     THEN address
                                     ELSE IF r = 0 THEN address ELSE IF r = 1 THEN 165
                                     ELSE address],
                             !.pc = pc, !.mode = "user", !.mmu = TRUE, !.flags = {"I", "C"},
                             !.vreg[1] = [k \in 0..3 |-> 9 + k],
                             !.pts = [r \in Roots |-> [Want EXCEPT ![3] = e3, ![4] = e4]]],
                [a \in {pc} |-> [Op(op) EXCEPT !.imm = IF op \in {"FLOAD", "FSTORE"} THEN 2 ELSE 1,
                                               !.wide = address]], pending)

PrivilegedOps == {"HALT", "WAIT", "EI", "DI", "IRET", "SETVBR", "GETVBR", "SETKSP", "GETKSP",
                  "SETPTBR", "GETPTBR", "MMUON", "MMUOFF", "ENTERUSER", "GETMODE", "GETMMU", "EXPC",
                  "EXADDR", "COREID", "THREADID", "SYSCALL", "FENCE", "BAD", "MOV"}

(* A privileged instruction in either mode, with the MMU on or off and a   *)
(* kernel stack that holds a frame, does not, or ends in a foreign page.   *)
InitPrivileged ==
    \E op \in PrivilegedOps, mode \in {"user", "supervisor"}, mmu \in BOOLEAN, ie \in BOOLEAN,
       ksp \in {48, 42, 4, 43}, value \in {1, 4, 43, 254}, set \in BOOLEAN, e5 \in Forms(5) :
       /\ e5 # Want[5] => mmu
       /\ ~set => ~mmu
       /\ Start([Base EXCEPT !.reg = [r \in Registers |-> value], !.pc = 16, !.mode = mode,
                             !.mmu = mmu, !.flags = IF ie THEN {"I"} ELSE {}, !.ksp = ksp,
                             !.ptbrSet = set, !.pts = [r \in Roots |-> [Want EXCEPT ![5] = e5]]],
                [a \in {16} |-> [Op(op) EXCEPT !.b = IF op = "MOV" THEN 3 ELSE 1]], {"line"})

MCInit == InitArithmetic \/ InitBranch \/ InitFloat \/ InitConvert \/ InitMemory \/ InitPrivileged

MCSpec == MCInit /\ [][Next]_vars
=============================================================================
