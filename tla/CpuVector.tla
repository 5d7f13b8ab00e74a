----------------------------- MODULE CpuVector -----------------------------
(***************************************************************************)
(* The vector and floating point instructions (src/cpu_vector.c).          *)
(*                                                                         *)
(* A vector register is four units: four narrow lanes or two words.  A     *)
(* floating point number is a word in an IEEE-754 format of eight bits:    *)
(* one of sign, four of exponent, three of fraction, with signed zeros,    *)
(* subnormal numbers, infinities and NaNs, rounded to nearest even.  It    *)
(* stands for binary64.  The instructions on binary32 are the same text at *)
(* the other width and are left out, with the two conversions between the  *)
(* formats.                                                                *)
(***************************************************************************)
EXTENDS CpuInteger
LOCAL INSTANCE Bitwise
LOCAL INSTANCE FiniteSetsExt

ASSUME FloatAssumption == UnitBits = 4

VectorRegisters == 0..1

fetch_general_register(s, r) == fetch_register(s, r)

fetch_vector_register(s, r) ==
    On(Fetch(s, 1), LAMBDA t : IF r \in VectorRegisters THEN t ELSE illegal_instruction(t))

(* The registers are checked one by one, unlike those of the integer code. *)
fetch_vector_pair(s, a, b) == fetch_vector_register(fetch_vector_register(s, a), b)
fetch_vector_triple(s, i) == fetch_vector_register(fetch_vector_pair(s, i.a, i.b), i.c)

read_lane(v, lane, width) == WordOf([k \in 0..width - 1 |-> v[lane * width + k]])

(* A register whose lanes are given; the ones not given are zero. *)
Lanes(width, values) ==
    [k \in 0..3 |-> IF k \div width \in DOMAIN values
                    THEN (values[k \div width] \div UnitSize ^ (k % width)) % UnitSize
                    ELSE 0]

SetVec(s, r, v) == [s EXCEPT !.vreg[r] = v]

-----------------------------------------------------------------------------
(* Loads, stores and integer lanes. *)

execute_vload128(s, i) ==
    On(On(fetch_general_register(fetch_vector_register(s, i.a), i.b),
          LAMBDA t : vector_read(t, t.reg[i.b])),
       LAMBDA t : SetVec(t, i.a, t.val))

execute_vstore128(s, i) ==
    On(fetch_vector_register(fetch_general_register(s, i.a), i.b),
       LAMBDA t : vector_write(t, t.reg[i.a], t.vreg[i.b]))

execute_vmov(s, i) ==
    On(fetch_vector_pair(s, i.a, i.b), LAMBDA t : SetVec(t, i.a, t.vreg[i.b]))

LaneResult(op, l, r) == CASE op = "VADD" -> l + r [] op = "VSUB" -> l - r [] op = "VMUL" -> l * r

(* Every lane wraps at its own width. *)
execute_vector_integer(s, i) ==
    On(fetch_vector_triple(s, i),
       LAMBDA t : SetVec(t, i.a, Lanes(i.imm, [n \in 0..(4 \div i.imm) - 1 |->
           LaneResult(i.op, read_lane(t.vreg[i.b], n, i.imm), read_lane(t.vreg[i.c], n, i.imm))
             % UnitSize ^ i.imm])))

execute_vector_bitwise(s, i) ==
    On(fetch_vector_triple(s, i),
       LAMBDA t : SetVec(t, i.a, [k \in 0..3 |->
           CASE i.op = "VAND" -> t.vreg[i.b][k] & t.vreg[i.c][k]
             [] i.op = "VOR" -> t.vreg[i.b][k] | t.vreg[i.c][k]
             [] OTHER -> t.vreg[i.b][k] ^^ t.vreg[i.c][k]]))

(* A scalar load clears the rest of the register. *)
execute_float_load(s, i) ==
    On(On(fetch_general_register(fetch_vector_register(s, i.a), i.b),
          LAMBDA t : data_read(t, t.reg[i.b], i.imm)),
       LAMBDA t : SetVec(t, i.a, Lanes(i.imm, [n \in {0} |-> WordOf(t.val)])))

execute_float_store(s, i) ==
    On(fetch_vector_register(fetch_general_register(s, i.a), i.b),
       LAMBDA t : data_write(t, t.reg[i.a], UnitsOf(read_lane(t.vreg[i.b], 0, i.imm), i.imm)))

-----------------------------------------------------------------------------
(* The floating point format.  A finite number is Value(w) / One. *)

Infinity == 120
Magnitude(w) == w % 128
IsNaN(w) == Magnitude(w) > Infinity
IsInf(w) == Magnitude(w) = Infinity
IsFinite(w) == Magnitude(w) < Infinity
IsSubnormal(w) == Magnitude(w) \in 1..7
NaN == Infinity + 4

One == 512
MagnitudeValue(m) == IF m < 8 THEN m ELSE (8 + (m % 8)) * 2 ^ ((m \div 8) - 1)
Value(w) == IF Sign(w) THEN -MagnitudeValue(Magnitude(w)) ELSE MagnitudeValue(Magnitude(w))
Abs(n) == IF n < 0 THEN -n ELSE n

(* The magnitude nearest to n / d, ties to even; past the last one is      *)
(* infinity.                                                               *)
Round(n, d) ==
    LET lo == Max({m \in 0..Infinity - 1 : MagnitudeValue(m) <= n \div d})
        below == n - MagnitudeValue(lo) * d
        above == MagnitudeValue(lo + 1) * d - n
    IN  IF below < above \/ (below = above /\ lo % 2 = 0) THEN lo ELSE lo + 1

WithSign(negative, m) == IF negative THEN m + 128 ELSE m

(* The host's arithmetic: left op right, as IEEE-754 has it. *)
FloatSum(l, r) ==
    CASE IsNaN(l) \/ IsNaN(r) \/ (IsInf(l) /\ IsInf(r) /\ l # r) -> NaN
      [] IsInf(l) -> l
      [] IsInf(r) -> r
      [] Value(l) + Value(r) = 0 -> WithSign(Sign(l) /\ Sign(r), 0)
      [] OTHER -> WithSign(Value(l) + Value(r) < 0, Round(Abs(Value(l) + Value(r)), 1))

Negated(w) == WithSign(~Sign(w), Magnitude(w))

FloatProduct(l, r) ==
    CASE IsNaN(l) \/ IsNaN(r) -> NaN
      [] IsInf(l) \/ IsInf(r) ->
            IF Magnitude(l) = 0 \/ Magnitude(r) = 0 THEN NaN
            ELSE WithSign(Sign(l) # Sign(r), Infinity)
      [] Value(l) # 0 /\ Abs(Value(r)) > (2 ^ 30) \div Abs(Value(l)) ->
            WithSign(Sign(l) # Sign(r), Infinity)
      [] OTHER -> WithSign(Sign(l) # Sign(r), Round(Abs(Value(l) * Value(r)), One))

FloatQuotient(l, r) ==
    CASE IsNaN(l) \/ IsNaN(r) \/ (IsInf(l) /\ IsInf(r))
            \/ (Magnitude(l) = 0 /\ Magnitude(r) = 0) -> NaN
      [] IsInf(l) \/ Magnitude(r) = 0 -> WithSign(Sign(l) # Sign(r), Infinity)
      [] IsInf(r) -> WithSign(Sign(l) # Sign(r), 0)
      [] (Abs(Value(l)) * One) \div Abs(Value(r)) >= MagnitudeValue(Infinity) ->
            WithSign(Sign(l) # Sign(r), Infinity)
      [] OTHER -> WithSign(Sign(l) # Sign(r), Round(Abs(Value(l)) * One, Abs(Value(r))))

calculate_float64(op, l, r) ==
    CASE op = "ADD" -> FloatSum(l, r) [] op = "SUB" -> FloatSum(l, Negated(r))
      [] op = "MUL" -> FloatProduct(l, r) [] op = "DIV" -> FloatQuotient(l, r)

-----------------------------------------------------------------------------
(* The sticky status and the instructions that set it. *)

update_float64_status(l, r, result, op) ==
    LET zero == op = "DIV" /\ Magnitude(r) = 0 /\ Magnitude(l) # 0 /\ IsFinite(l)
    IN  {f \in {"INVALID", "DIVIDE_BY_ZERO", "OVERFLOW", "UNDERFLOW"} :
           CASE f = "INVALID" -> IsNaN(result)
             [] f = "DIVIDE_BY_ZERO" -> zero
             [] f = "OVERFLOW" -> ~zero /\ IsFinite(l) /\ IsFinite(r) /\ IsInf(result)
             [] f = "UNDERFLOW" -> IsSubnormal(result)}

AddStatus(s, fs) == [s EXCEPT !.fp = @ \cup fs]

(* execute_scalar_float64 on lane 0, execute_vector_float64 on both. *)
FloatLanes(s, i, lanes) ==
    LET l(n) == read_lane(s.vreg[i.b], n, 2)
        r(n) == read_lane(s.vreg[i.c], n, 2)
        value == [n \in lanes |-> calculate_float64(i.fop, l(n), r(n))]
    IN  SetVec(AddStatus(s, UNION {update_float64_status(l(n), r(n), value[n], i.fop) : n \in lanes}),
               i.a, Lanes(2, value))

execute_scalar_float(s, i) == On(fetch_vector_triple(s, i), LAMBDA t : FloatLanes(t, i, {0}))
execute_vector_float(s, i) == On(fetch_vector_triple(s, i), LAMBDA t : FloatLanes(t, i, {0, 1}))

Compare(s, l, r) ==
    CASE IsNaN(l) \/ IsNaN(r) -> AddStatus([s EXCEPT !.flags = @ \cup {"U"}], {"INVALID"})
      [] Value(l) = Value(r) -> [s EXCEPT !.flags = @ \cup {"Z", "C"}]
      [] Value(l) < Value(r) -> [s EXCEPT !.flags = @ \cup {"N"}]
      [] OTHER -> [s EXCEPT !.flags = @ \cup {"C"}]

execute_float_compare(s, i) ==
    On(fetch_vector_pair(s, i.a, i.b),
       LAMBDA t : Compare([t EXCEPT !.flags = @ \cap {"I"}],
                          read_lane(t.vreg[i.a], 0, 2), read_lane(t.vreg[i.b], 0, 2)))

execute_float_sign(s, i) ==
    On(fetch_vector_pair(s, i.a, i.b),
       LAMBDA t : SetVec(t, i.a, Lanes(2, [n \in {0} |->
           IF i.op = "FABS" THEN Magnitude(read_lane(t.vreg[i.b], 0, 2))
           ELSE Negated(read_lane(t.vreg[i.b], 0, 2))])))

execute_i64tof64(s, i) ==
    On(fetch_general_register(fetch_vector_register(s, i.a), i.b),
       LAMBDA t : SetVec(t, i.a, Lanes(2, [n \in {0} |->
           WithSign(Sign(t.reg[i.b]), Round(Abs(Signed(t.reg[i.b])) * One, 1))])))

(* Out of range saturates and is invalid; the least integer is in range. *)
ToInteger(s, r, w) ==
    LET limit == (WordSize \div 2) * One
    IN  CASE IsNaN(w) -> AddStatus(SetReg(s, r, 0), {"INVALID"})
          [] Value(w) >= limit -> AddStatus(SetReg(s, r, (WordSize \div 2) - 1), {"INVALID"})
          [] Value(w) <= -limit -> AddStatus(SetReg(s, r, WordSize \div 2),
                                             IF Value(w) < -limit THEN {"INVALID"} ELSE {})
          [] OTHER -> SetReg(s, r, Wrap(IF Sign(w) THEN -(Abs(Value(w)) \div One)
                                        ELSE Value(w) \div One))

execute_f64toi64(s, i) ==
    On(fetch_vector_register(fetch_general_register(s, i.a), i.b),
       LAMBDA t : ToInteger(t, i.a, read_lane(t.vreg[i.b], 0, 2)))

FpBit == [f \in {"INVALID", "DIVIDE_BY_ZERO", "OVERFLOW", "UNDERFLOW"} |->
            CASE f = "INVALID" -> 1 [] f = "DIVIDE_BY_ZERO" -> 2
              [] f = "OVERFLOW" -> 4 [] f = "UNDERFLOW" -> 8]

execute_getfpstatus(s, i) ==
    On(fetch_general_register(s, i.a),
       LAMBDA t : SetReg(t, i.a, MapThenSumSet(LAMBDA f : FpBit[f], t.fp)))

execute_clearfpstatus(s, i) == [s EXCEPT !.fp = {}]

-----------------------------------------------------------------------------
(* VECTOR_HANDLERS and cpu_vector_execute. *)

VectorOpcodes == {"VLOAD128", "VSTORE128", "VMOV", "VADD", "VSUB", "VMUL", "VAND", "VOR", "VXOR",
                  "FLOAD", "FSTORE", "FLOAT", "VFLOAT", "FCMP", "FNEG", "FABS", "I64TOF64",
                  "F64TOI64", "GETFPSTATUS", "CLEARFPSTATUS"}

cpu_vector_execute(s, i) ==
    CASE i.op = "VLOAD128" -> execute_vload128(s, i)
      [] i.op = "VSTORE128" -> execute_vstore128(s, i)
      [] i.op = "VMOV" -> execute_vmov(s, i)
      [] i.op \in {"VADD", "VSUB", "VMUL"} -> execute_vector_integer(s, i)
      [] i.op \in {"VAND", "VOR", "VXOR"} -> execute_vector_bitwise(s, i)
      [] i.op = "FLOAD" -> execute_float_load(s, i)
      [] i.op = "FSTORE" -> execute_float_store(s, i)
      [] i.op = "FLOAT" -> execute_scalar_float(s, i)
      [] i.op = "VFLOAT" -> execute_vector_float(s, i)
      [] i.op = "FCMP" -> execute_float_compare(s, i)
      [] i.op \in {"FNEG", "FABS"} -> execute_float_sign(s, i)
      [] i.op = "I64TOF64" -> execute_i64tof64(s, i)
      [] i.op = "F64TOI64" -> execute_f64toi64(s, i)
      [] i.op = "GETFPSTATUS" -> execute_getfpstatus(s, i)
      [] i.op = "CLEARFPSTATUS" -> execute_clearfpstatus(s, i)
=============================================================================
