----------------------------- MODULE CpuInteger -----------------------------
(***************************************************************************)
(* The integer instructions of src/cpu.c that need no privilege: moves,    *)
(* arithmetic, loads and stores, branches, the stack.  An instruction i is *)
(* a record: its opcode op, register numbers a and b, a one-unit immediate *)
(* imm and a one-word immediate wide.  Each execute_ operator is a handler *)
(* of OPCODE_HANDLERS: it maps the state after the opcode has been fetched *)
(* to the state that the handler leaves.                                   *)
(***************************************************************************)
EXTENDS CpuMemory
LOCAL INSTANCE Bitwise

BitNot(w) == MaxWord - w

set_zero_negative_flags(s, result) ==
    [s EXCEPT !.flags = (@ \cap {"I"}) \cup (IF result = 0 THEN {"Z"} ELSE {})
                                       \cup (IF Sign(result) THEN {"N"} ELSE {})]

AddFlags(s, fs) == [s EXCEPT !.flags = @ \cup fs]

(* Mutant: the overflow flag is computed as for an addition. *)
SubFlagsOfAdd(s, left, right, result) ==
    AddFlags(set_zero_negative_flags(s, result),
             (IF left >= right THEN {"C"} ELSE {})
               \cup (IF Sign(left) = Sign(right) /\ Sign(left) # Sign(result) THEN {"V"} ELSE {}))

set_add_flags(s, left, right, result) ==
    AddFlags(set_zero_negative_flags(s, result),
             (IF result < left THEN {"C"} ELSE {})
               \cup (IF Sign(left) = Sign(right) /\ Sign(left) # Sign(result) THEN {"V"} ELSE {}))

(* The carry of a subtraction is set when there is no borrow. *)
set_sub_flags(s, left, right, result) ==
    AddFlags(set_zero_negative_flags(s, result),
             (IF left >= right THEN {"C"} ELSE {})
               \cup (IF Sign(left) # Sign(right) /\ Sign(left) # Sign(result) THEN {"V"} ELSE {}))

(* A result with the flags of most instructions. *)
SetResult(s, r, v) == set_zero_negative_flags(SetReg(s, r, v), v)

-----------------------------------------------------------------------------
(* Moves and immediates. *)

execute_movi64(s, i) ==
    On(fetch_u64(fetch_register(s, i.a)), LAMBDA t : SetReg(t, i.a, i.wide))

execute_mov(s, i) ==
    On(fetch_register_pair(s, i.a, i.b), LAMBDA t : SetReg(t, i.a, t.reg[i.b]))

fetch_register_immediate32(s, i) == fetch_u32(fetch_register(s, i.a))

execute_movi32(s, i) ==
    On(fetch_register_immediate32(s, i),
       LAMBDA t : SetReg(t, i.a, IF i.op = "MOVI32S" THEN sign_extend(i.imm) ELSE i.imm))

AddTo(s, r, left, right) ==
    set_add_flags(SetReg(s, r, Wrap(left + right)), left, right, Wrap(left + right))

execute_addi32(s, i) ==
    On(fetch_register_immediate32(s, i),
       LAMBDA t : AddTo(t, i.a, t.reg[i.a], sign_extend(i.imm)))

execute_cmpi32(s, i) ==
    On(fetch_register_immediate32(s, i),
       LAMBDA t : set_sub_flags(t, t.reg[i.a], sign_extend(i.imm),
                                Wrap(t.reg[i.a] - sign_extend(i.imm))))

(* The immediate of a logical instruction is not sign extended. *)
execute_logici32(s, i) ==
    On(fetch_register_immediate32(s, i),
       LAMBDA t : CASE i.op = "ANDI32" -> SetResult(t, i.a, t.reg[i.a] & i.imm)
                    [] i.op = "ORI32" -> SetResult(t, i.a, t.reg[i.a] | i.imm)
                    [] i.op = "XORI32" -> SetResult(t, i.a, t.reg[i.a] ^^ i.imm)
                    [] i.op = "TESTI32" -> set_zero_negative_flags(t, t.reg[i.a] & i.imm))

execute_lea(s, i) ==
    On(fetch_u32(fetch_register_pair(s, i.a, i.b)),
       LAMBDA t : SetReg(t, i.a, Wrap(t.reg[i.b] + sign_extend(i.imm))))

-----------------------------------------------------------------------------
(* Arithmetic. *)

execute_add(s, i) ==
    On(fetch_register_pair(s, i.a, i.b), LAMBDA t : AddTo(t, i.a, t.reg[i.a], t.reg[i.b]))

Subtract(s, left, right) == set_sub_flags(s, left, right, Wrap(left - right))

execute_sub(s, i) ==
    On(fetch_register_pair(s, i.a, i.b),
       LAMBDA t : Subtract(SetReg(t, i.a, Wrap(t.reg[i.a] - t.reg[i.b])), t.reg[i.a], t.reg[i.b]))

execute_cmp(s, i) ==
    On(fetch_register_pair(s, i.a, i.b), LAMBDA t : Subtract(t, t.reg[i.a], t.reg[i.b]))

Multiply(s, r, left, right) ==
    AddFlags(SetResult(s, r, Wrap(left * right)),
             IF left # 0 /\ right > MaxWord \div left THEN {"C"} ELSE {})

execute_mul(s, i) ==
    On(fetch_register_pair(s, i.a, i.b), LAMBDA t : Multiply(t, i.a, t.reg[i.a], t.reg[i.b]))

twos_complement_magnitude(v) == IF Sign(v) THEN Wrap(BitNot(v) + 1) ELSE v
apply_twos_complement_sign(m, negative) == IF negative THEN Wrap(BitNot(m) + 1) ELSE m

SignedQuotient(l, r) ==
    apply_twos_complement_sign(twos_complement_magnitude(l) \div twos_complement_magnitude(r),
                               Sign(l) # Sign(r))
SignedRemainder(l, r) ==
    apply_twos_complement_sign(twos_complement_magnitude(l) % twos_complement_magnitude(r), Sign(l))

Divide(s, i, l, r) ==
    IF r = 0 THEN set_exception(s, "DIVIDE_BY_ZERO", 0, {})
    ELSE IF i.op = "DIVS" /\ l = WordSize \div 2 /\ r = MaxWord
    THEN set_exception(s, "ARITHMETIC_OVERFLOW", 0, {})
    ELSE SetResult(s, i.a, CASE i.op = "DIVU" -> l \div r [] i.op = "MODU" -> l % r
                             [] i.op = "DIVS" -> SignedQuotient(l, r)
                             [] i.op = "MODS" -> SignedRemainder(l, r))

execute_div(s, i) ==
    On(fetch_register_pair(s, i.a, i.b), LAMBDA t : Divide(t, i, t.reg[i.a], t.reg[i.b]))

execute_logic(s, i) ==
    On(fetch_register_pair(s, i.a, i.b),
       LAMBDA t : SetResult(t, i.a, CASE i.op = "AND" -> t.reg[i.a] & t.reg[i.b]
                                      [] i.op = "OR" -> t.reg[i.a] | t.reg[i.b]
                                      [] i.op = "XOR" -> t.reg[i.a] ^^ t.reg[i.b]))

execute_not(s, i) ==
    On(fetch_register(s, i.a), LAMBDA t : SetResult(t, i.a, BitNot(t.reg[i.a])))

(* value >> amount, with ones shifted in from the left for a negative one. *)
arithmetic_shift_right(v, amount) ==
    IF amount = 0 \/ ~Sign(v) THEN v \div 2 ^ amount
    ELSE (v \div 2 ^ amount) + Wrap(MaxWord * 2 ^ (REGISTER_BITS - amount))

Shifted(op, v, amount) ==
    CASE op \in {"SHL", "SHLV"} -> Wrap(v * 2 ^ amount)
      [] op \in {"SHR", "SHRV"} -> v \div 2 ^ amount
      [] op \in {"SAR", "SARV"} -> arithmetic_shift_right(v, amount)

fetch_shift_operands(s, i) ==
    On(register_valid(Fetch(Fetch(s, 1), 1), i.a),
       LAMBDA t : IF i.imm >= REGISTER_BITS THEN illegal_instruction(t) ELSE t)

execute_shift(s, i) ==
    On(fetch_shift_operands(s, i),
       LAMBDA t : SetResult(t, i.a, Shifted(i.op, t.reg[i.a], i.imm)))

execute_shiftv(s, i) ==
    On(fetch_register_pair(s, i.a, i.b),
       LAMBDA t : SetResult(t, i.a, Shifted(i.op, t.reg[i.a], t.reg[i.b] % REGISTER_BITS)))

execute_extend(s, i) ==
    On(fetch_register_pair(s, i.a, i.b),
       LAMBDA t : SetReg(t, i.a, IF i.op = "SEXT" THEN sign_extend(t.reg[i.b] % UnitSize)
                                 ELSE t.reg[i.b] % UnitSize))

-----------------------------------------------------------------------------
(* Loads and stores, without and with a displacement. *)

Width(i) == IF i.op \in {"LOAD64", "LOAD64O", "STORE64", "STORE64O"} THEN 2 ELSE 1

Loaded(s, i) ==
    On(s, LAMBDA t : SetReg(t, i.a, IF i.op \in {"LOADS", "LOADSO"} THEN sign_extend(WordOf(t.val))
                                    ELSE WordOf(t.val)))

execute_load(s, i) ==
    On(fetch_register_pair(s, i.a, i.b),
       LAMBDA t : Loaded(data_read(t, t.reg[i.b], Width(i)), i))

execute_load_offset(s, i) ==
    On(fetch_u32(fetch_register_pair(s, i.a, i.b)),
       LAMBDA t : Loaded(data_read(t, Wrap(t.reg[i.b] + sign_extend(i.imm)), Width(i)), i))

execute_store(s, i) ==
    On(fetch_register_pair(s, i.a, i.b),
       LAMBDA t : data_write(t, t.reg[i.a], UnitsOf(t.reg[i.b], Width(i))))

execute_store_offset(s, i) ==
    On(fetch_u32(fetch_register_pair(s, i.a, i.b)),
       LAMBDA t : data_write(t, Wrap(t.reg[i.a] + sign_extend(i.imm)),
                             UnitsOf(t.reg[i.b], Width(i))))

-----------------------------------------------------------------------------
(* Branches. *)

JumpTo(s, target) ==
    On(instruction_address_valid(s, target, s.mode), LAMBDA t : [t EXCEPT !.pc = target])

relative_target(s, i) == Wrap(s.pc + sign_extend(i.imm))

Conditions == {"ALWAYS", "EQ", "NE", "LT", "LE", "GT", "GE", "LTU", "LEU", "GTU", "GEU",
               "ORDERED", "UNORDERED"}

(* evaluate_condition: does the condition c hold in the flags fs? *)
ConditionHolds(fs, c) ==
    LET less == ("N" \in fs) # ("V" \in fs) IN
    CASE c = "ALWAYS" -> TRUE
      [] c = "EQ" -> "Z" \in fs
      [] c = "NE" -> "Z" \notin fs
      [] c = "LT" -> "U" \notin fs /\ less
      [] c = "LE" -> "U" \notin fs /\ ("Z" \in fs \/ less)
      [] c = "GT" -> "U" \notin fs /\ "Z" \notin fs /\ ~less
      [] c = "GE" -> "U" \notin fs /\ ~less
      [] c = "LTU" -> "C" \notin fs
      [] c = "LEU" -> "C" \notin fs \/ "Z" \in fs
      [] c = "GTU" -> "C" \in fs /\ "Z" \notin fs
      [] c = "GEU" -> "C" \in fs
      [] c = "ORDERED" -> "U" \notin fs
      [] c = "UNORDERED" -> "U" \in fs

(* JUMP, and the jumps JZ to JGEU that name the same conditions. *)
execute_branch(s, i) ==
    On(fetch_u64(s), LAMBDA t : IF ConditionHolds(t.flags, i.cond) THEN JumpTo(t, i.wide) ELSE t)

execute_jumpr(s, i) == On(fetch_register(s, i.a), LAMBDA t : JumpTo(t, t.reg[i.a]))

execute_jumprel(s, i) == On(fetch_u32(s), LAMBDA t : JumpTo(t, relative_target(t, i)))

execute_brcc(s, i) ==
    On(fetch_u32(Fetch(s, 1)),
       LAMBDA t : IF i.cond \notin Conditions THEN illegal_instruction(t)
                  ELSE IF ConditionHolds(t.flags, i.cond) THEN JumpTo(t, relative_target(t, i))
                  ELSE t)

-----------------------------------------------------------------------------
(* The stack. *)

(* Mutant: the stack pointer moves before the word is known to fit. *)
PushMovesFirst(s, word) ==
    IF s.reg[SP] < 2 THEN set_access_exception(s, "STACK_FAULT", s.reg[SP], "W", "OK")
    ELSE stack_write(SetReg(s, SP, s.reg[SP] - 2), s.reg[SP] - 2, word)

stack_push(s, word) ==
    IF s.reg[SP] < 2 THEN set_access_exception(s, "STACK_FAULT", s.reg[SP], "W", "OK")
    ELSE On(stack_write(s, s.reg[SP] - 2, word), LAMBDA t : SetReg(t, SP, s.reg[SP] - 2))

stack_pop(s) == On(stack_read(s, s.reg[SP]), LAMBDA t : SetReg(t, SP, Wrap(s.reg[SP] + 2)))

(* The target is checked before the return address is pushed. *)
CallTo(s, target) ==
    On(instruction_address_valid(s, target, s.mode),
       LAMBDA t : On(stack_push(t, t.pc), LAMBDA u : [u EXCEPT !.pc = target]))

execute_call(s, i) == On(fetch_u64(s), LAMBDA t : CallTo(t, i.wide))
execute_callr(s, i) == On(fetch_register(s, i.a), LAMBDA t : CallTo(t, t.reg[i.a]))
execute_callrel(s, i) == On(fetch_u32(s), LAMBDA t : CallTo(t, relative_target(t, i)))

execute_ret(s, i) ==
    On(stack_read(s, s.reg[SP]),
       LAMBDA t : On(instruction_address_valid(t, WordOf(t.val), t.mode),
                     LAMBDA u : [SetReg(u, SP, Wrap(u.reg[SP] + 2)) EXCEPT !.pc = WordOf(u.val)]))

execute_push(s, i) == On(fetch_register(s, i.a), LAMBDA t : stack_push(t, t.reg[i.a]))

execute_pop(s, i) ==
    On(On(fetch_register(s, i.a), stack_pop), LAMBDA t : SetReg(t, i.a, WordOf(t.val)))
=============================================================================
