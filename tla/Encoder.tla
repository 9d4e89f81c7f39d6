------------------------------- MODULE Encoder -------------------------------
(***************************************************************************)
(* The encoder of the Auto Assembler (asm_x86): `Parse` turns the operands *)
(* of an instruction into a normal form, `Build` the form into bytes.      *)
(*                                                                         *)
(* An instruction as written is [m, ops]: a mnemonic and its operands, each*)
(*   [t |-> "reg", n, s]     register n of s bytes                         *)
(*   [t |-> "xmm", n]        SSE register                                  *)
(*   [t |-> "mem", terms, s] [..+..], s the size word before it, or 0      *)
(*   [t |-> "imm", k, v]     any other text: a number or symbol whose value*)
(*   [t |-> "imm", k, n]     is the eight bytes v (k = "num"), or the name *)
(*                           of register n of one or two bytes ("r8","r16")*)
(* The terms of an address are registers [k |-> "reg", n, s], registers    *)
(* times a scale [k |-> "scaled", n, s, by] and numbers [k |-> "disp", d]. *)
(* How numbers and names are spelt is left out.                            *)
(***************************************************************************)
EXTENDS Integers, Sequences, SequencesExt

Disp32 == 2147483647    \* i32::MAX

NoReg  == -1
Error  == [form |-> "error"]
Failed == <<>>

-----------------------------------------------------------------------------
(* Bytes.                                                                  *)

Byte(d, i) == (d \div 256^i) % 256
Le(d, n)   == [i \in 1..n |-> Byte(d, i - 1)]

Ones(v, from)  == \A i \in from..8 : v[i] = 255
Zeros(v, from) == \A i \in from..8 : v[i] = 0

\* An i64 is at least the smallest signed, at most the largest unsigned number of
\* n bytes.
FitsIn(v, n) == Zeros(v, n + 1) \/ (Ones(v, n + 1) /\ v[n] >= 128)

\* append_imm
AppendImm(v, n) == IF n = 0 THEN <<>> ELSE SubSeq(v, 1, n)
ImmFits(v, n)   == n \in {0, 8} \/ FitsIn(v, n)

High(n) == n \div 8
Low(n)  == n % 8

\* A plausible bug: registers 8 to 15 as index have no REX bit.
RexWithoutX(w, r, x, b) ==
  IF w \/ r + b > 0
  THEN <<64 + (IF w THEN 8 ELSE 0) + 4 * r + b>>
  ELSE <<>>

\* push_rex
Rex(w, r, x, b) ==
  IF w \/ r + x + b > 0
  THEN <<64 + (IF w THEN 8 ELSE 0) + 4 * r + 2 * x + b>>
  ELSE <<>>

-----------------------------------------------------------------------------
(* encode_mem                                                              *)

Log2(s) == CHOOSE i \in 0..3 : 2^i = s

MemOk(m) ==
  /\ m.disp \in (-Disp32 - 1)..Disp32
  /\ m.index # NoReg => Low(m.index) # 4 /\ m.scale \in {1, 2, 4, 8}

Mod(m) ==
  IF m.disp = 0 /\ Low(m.base) # 5 THEN 0
  ELSE IF m.disp \in -128..127 THEN 1
  ELSE 2

Disp(m) == Le(m.disp, <<0, 1, 4>>[Mod(m) + 1])

NeedSib(m) == m.index # NoReg \/ Low(m.base) = 4

Sib(m) ==
  IF ~NeedSib(m) THEN <<>>
  ELSE IF m.index = NoReg THEN <<8 * 4 + Low(m.base)>>
  ELSE <<64 * Log2(m.scale) + 8 * Low(m.index) + Low(m.base)>>

\* emit_rm and emit_sse: REX, opcode, ModRM, SIB and displacement for a register
\* and a register or memory.
EmitRm(w, reg, rm, opcode) ==
  IF "reg" \in DOMAIN rm
  THEN Rex(w, High(reg), 0, High(rm.reg)) \o opcode \o <<192 + 8 * Low(reg) + Low(rm.reg)>>
  ELSE Rex(w, High(reg), IF rm.index = NoReg THEN 0 ELSE High(rm.index), High(rm.base))
         \o opcode
         \o <<64 * Mod(rm) + 8 * Low(reg) + (IF NeedSib(rm) THEN 4 ELSE Low(rm.base))>>
         \o Sib(rm) \o Disp(rm)

-----------------------------------------------------------------------------
(* Insn::build and Insn::size                                              *)

RmOk(rm) == "reg" \in DOMAIN rm \/ MemOk(rm)

Build(f, imm) ==
  CASE f.form = "RmR" /\ RmOk(f.rm) ->
         f.prefix \o EmitRm(f.w, f.reg, f.rm, f.opcode)
    [] f.form = "RmI" /\ RmOk(f.rm) /\ ImmFits(imm, f.width) ->
         EmitRm(f.w, f.digit, f.rm, f.opcode) \o AppendImm(imm, f.width)
    [] f.form = "MovRI" /\ (f.size = 8 \/ ImmFits(imm, 4)) ->
         Rex(f.size = 8, 0, 0, High(f.num)) \o <<184 + Low(f.num)>> \o AppendImm(imm, f.size)
    [] f.form = "Short" ->
         (IF f.num >= 8 THEN <<65>> ELSE <<>>) \o <<f.opcode + Low(f.num)>>
    [] f.form = "Raw" -> f.bytes
    [] OTHER -> Failed

Zero64 == [i \in 1..8 |-> 0]

Size(f) == Len(Build(f, Zero64))

-----------------------------------------------------------------------------
(* parse_mem: the terms from left to right. A scale is cut to eight bits.  *)
(* Sums beyond an i64, which wrap there, are left out.                     *)

AddTerm(m, term) ==
  CASE term.k = "scaled" -> [m EXCEPT !.index = term.n, !.scale = term.by % 256]
    [] term.k = "reg"    -> IF m.base = NoReg THEN [m EXCEPT !.base = term.n]
                                              ELSE [m EXCEPT !.index = term.n]
    [] term.k = "disp"   -> [m EXCEPT !.disp = @ + term.d]

ParseMem(terms) ==
  FoldLeft(AddTerm, [base |-> NoReg, index |-> NoReg, scale |-> 1, disp |-> 0], terms)

-----------------------------------------------------------------------------
(* parse and its helpers, one per family of mnemonics.                     *)

Rm(o) == IF o.t = "mem" THEN ParseMem(o.terms) ELSE [reg |-> o.n]

RmR(opcode, w, reg, o) ==
  [form |-> "RmR", prefix |-> <<>>, opcode |-> <<opcode>>, w |-> w, reg |-> reg, rm |-> Rm(o)]

RmI(opcode, digit, w, o, width) ==
  [form |-> "RmI", opcode |-> <<opcode>>, digit |-> digit, w |-> w, rm |-> Rm(o), width |-> width]

Sse(prefix, opcode, w, reg, o) ==
  [form |-> "RmR", prefix |-> prefix, opcode |-> <<15, opcode>>, w |-> w, reg |-> reg, rm |-> Rm(o)]

Are(a, b, s, t) == a.t = s /\ b.t = t
Wide(o) == o.s = 8

\* rm_size: a register's size, or the size word with dword as the default.
SizeOk(o) == o.t = "reg" \/ o.s \in {0, 4, 8}

\* check_same_size
SameSize(a, b) == a.s = b.s

Shape(a, b) == <<a.t, b.t>>

ParseMov(a, b) ==
  CASE Shape(a, b) = <<"reg", "imm">> -> [form |-> "MovRI", num |-> a.n, size |-> a.s]
    [] Shape(a, b) = <<"reg", "reg">> /\ SameSize(a, b) -> RmR(137, Wide(a), b.n, a)
    [] Shape(a, b) = <<"reg", "mem">> -> RmR(139, Wide(a), a.n, b)
    [] Shape(a, b) = <<"mem", "reg">> -> RmR(137, Wide(b), b.n, a)
    [] Shape(a, b) = <<"mem", "imm">> /\ SizeOk(a) -> RmI(199, 0, Wide(a), a, 4)
    [] OTHER -> Error

Alu == [add |-> <<1, 0>>, or |-> <<9, 1>>, adc |-> <<17, 2>>, sbb |-> <<25, 3>>,
        and |-> <<33, 4>>, sub |-> <<41, 5>>, xor |-> <<49, 6>>, cmp |-> <<57, 7>>]

ParseAlu(m, a, b) ==
  LET rmr == Alu[m][1] IN
  CASE Shape(a, b) \in {<<"reg", "imm">>, <<"mem", "imm">>} /\ SizeOk(a) ->
         RmI(129, Alu[m][2], Wide(a), a, 4)
    [] Shape(a, b) = <<"reg", "reg">> /\ SameSize(a, b) -> RmR(rmr, Wide(a), b.n, a)
    [] Shape(a, b) = <<"reg", "mem">> -> RmR(rmr + 2, Wide(a), a.n, b)
    [] Shape(a, b) = <<"mem", "reg">> -> RmR(rmr, Wide(b), b.n, a)
    [] OTHER -> Error

\* parse_test and parse_xchg: with memory the order of the operands is the same.
Symmetric(opcode, a, b) ==
  CASE Shape(a, b) = <<"reg", "reg">> /\ SameSize(a, b) -> RmR(opcode, Wide(a), b.n, a)
    [] Shape(a, b) = <<"reg", "mem">> -> RmR(opcode, Wide(a), a.n, b)
    [] Shape(a, b) = <<"mem", "reg">> -> RmR(opcode, Wide(b), b.n, a)
    [] OTHER -> Error

ParseTest(a, b) ==
  IF b.t = "imm" /\ a.t \in {"reg", "mem"} /\ SizeOk(a)
  THEN RmI(247, 0, Wide(a), a, 4)
  ELSE Symmetric(133, a, b)

ParseXchg(a, b) == Symmetric(135, a, b)

ParseLea(a, b) == IF Are(a, b, "reg", "mem") THEN RmR(141, Wide(a), a.n, b) ELSE Error

Unary == [inc |-> <<255, 0>>, dec |-> <<255, 1>>, not |-> <<247, 2>>, neg |-> <<247, 3>>]

ParseUnary(m, a) ==
  IF a.t \in {"reg", "mem"} /\ SizeOk(a)
  THEN RmI(Unary[m][1], Unary[m][2], Wide(a), a, 0)
  ELSE Error

ParsePushPop(m, a) ==
  IF a.t = "reg" /\ a.s = 8
  THEN [form |-> "Short", opcode |-> IF m = "push" THEN 80 ELSE 88, num |-> a.n]
  ELSE Error

Shift == [rol |-> 0, ror |-> 1, rcl |-> 2, rcr |-> 3, shl |-> 4, sal |-> 4, shr |-> 5, sar |-> 7]

ParseShift(m, a, b) ==
  IF a.t \notin {"reg", "mem"} \/ b.t # "imm" \/ ~SizeOk(a) THEN Error
  ELSE IF b.k = "r8" /\ b.n = 1 THEN RmI(211, Shift[m], Wide(a), a, 0)
  ELSE RmI(193, Shift[m], Wide(a), a, 1)

ParseImul(a, b) ==
  IF a.t = "reg" /\ b.t \in {"reg", "mem"} THEN Sse(<<>>, 175, Wide(a), a.n, b) ELSE Error

\* A source in memory has its size word, a register its own width.
ParseMovx(m, a, b) ==
  LET byte == IF b.t = "mem" THEN b.s = 1 ELSE b.k = "r8"
      o    == IF b.t = "mem" THEN b ELSE [t |-> "reg", n |-> b.n]
  IN IF /\ a.t = "reg"
        /\ \/ b.t = "mem" /\ b.s \in {1, 2}
           \/ b.t = "imm" /\ b.k \in {"r8", "r16"}
     THEN Sse(<<>>, (IF m = "movzx" THEN 182 ELSE 190) + (IF byte THEN 0 ELSE 1), Wide(a), a.n, o)
     ELSE Error

\* sse_table: prefix, opcode of the load, opcode of the store (0: none).
SseTable ==
  [movss |-> <<243, 16, 17>>, movsd |-> <<242, 16, 17>>, movups |-> <<0, 16, 17>>,
   movupd |-> <<102, 16, 17>>, movaps |-> <<0, 40, 41>>, movapd |-> <<102, 40, 41>>,
   addss |-> <<243, 88, 0>>, subss |-> <<243, 92, 0>>, mulss |-> <<243, 89, 0>>,
   divss |-> <<243, 94, 0>>, addsd |-> <<242, 88, 0>>, subsd |-> <<242, 92, 0>>,
   mulsd |-> <<242, 89, 0>>, divsd |-> <<242, 94, 0>>, addps |-> <<0, 88, 0>>,
   subps |-> <<0, 92, 0>>, mulps |-> <<0, 89, 0>>, divps |-> <<0, 94, 0>>,
   addpd |-> <<102, 88, 0>>, subpd |-> <<102, 92, 0>>, mulpd |-> <<102, 89, 0>>,
   divpd |-> <<102, 94, 0>>, xorps |-> <<0, 87, 0>>, xorpd |-> <<102, 87, 0>>,
   cvtsi2ss |-> <<243, 42, 0>>, cvtsi2sd |-> <<242, 42, 0>>,
   cvttss2si |-> <<243, 44, 0>>, cvttsd2si |-> <<242, 44, 0>>]

ToSse   == {"cvtsi2ss", "cvtsi2sd"}
FromSse == {"cvttss2si", "cvttsd2si"}

ParseSse(m, a, b) ==
  LET prefix == IF SseTable[m][1] = 0 THEN <<>> ELSE <<SseTable[m][1]>>
      load   == SseTable[m][2]
      store  == SseTable[m][3]
  IN CASE Shape(a, b) \in {<<"xmm", "xmm">>, <<"xmm", "mem">>} -> Sse(prefix, load, FALSE, a.n, b)
       [] Shape(a, b) = <<"xmm", "reg">> /\ m \in ToSse -> Sse(prefix, load, Wide(b), a.n, b)
       [] Shape(a, b) \in {<<"reg", "xmm">>, <<"reg", "mem">>} /\ m \in FromSse ->
            Sse(prefix, load, Wide(a), a.n, b)
       [] Shape(a, b) = <<"mem", "xmm">> /\ store # 0 -> Sse(prefix, store, FALSE, b.n, a)
       [] OTHER -> Error

ParseMovdq(m, a, b) ==
  LET q == m = "movq" IN
  CASE Shape(a, b) = <<"xmm", "reg">> -> Sse(<<102>>, 110, Wide(b), a.n, b)
    [] Shape(a, b) = <<"xmm", "mem">> -> Sse(<<102>>, 110, q, a.n, b)
    [] Shape(a, b) = <<"reg", "xmm">> -> Sse(<<102>>, 126, Wide(a), b.n, a)
    [] Shape(a, b) = <<"mem", "xmm">> -> Sse(<<102>>, 126, q, b.n, a)
    [] Shape(a, b) = <<"xmm", "xmm">> /\ q -> Sse(<<243>>, 126, FALSE, a.n, b)
    [] OTHER -> Error

Fixed == [ret |-> <<195>>, nop |-> <<144>>, int3 |-> <<204>>, leave |-> <<201>>,
          cdq |-> <<153>>, cqo |-> <<72, 153>>]

ParseOne(m, a) ==
  CASE m \in DOMAIN Unary -> ParseUnary(m, a)
    [] m \in {"push", "pop"} -> ParsePushPop(m, a)
    [] OTHER -> Error

ParseTwo(m, a, b) ==
  CASE m = "mov"  -> ParseMov(a, b)
    [] m = "test" -> ParseTest(a, b)
    [] m = "xchg" -> ParseXchg(a, b)
    [] m = "lea"  -> ParseLea(a, b)
    [] m = "imul" -> ParseImul(a, b)
    [] m \in DOMAIN Alu        -> ParseAlu(m, a, b)
    [] m \in DOMAIN Shift      -> ParseShift(m, a, b)
    [] m \in {"movzx", "movsx"} -> ParseMovx(m, a, b)
    [] m \in {"movd", "movq"}  -> ParseMovdq(m, a, b)
    [] m \in DOMAIN SseTable   -> ParseSse(m, a, b)
    [] OTHER -> Error

\* An address needs a base.
BaseOk(o) == o.t = "mem" => ParseMem(o.terms).base # NoReg

Parse(i) ==
  IF i.m \in DOMAIN Fixed THEN [form |-> "Raw", bytes |-> Fixed[i.m]]
  ELSE IF \E j \in DOMAIN i.ops : ~BaseOk(i.ops[j]) THEN Error
  ELSE CASE Len(i.ops) = 1 -> ParseOne(i.m, i.ops[1])
         [] Len(i.ops) = 2 -> ParseTwo(i.m, i.ops[1], i.ops[2])
         [] OTHER -> Error

\* imm_text: the forms with an immediate.
HasImm(f) == f.form = "MovRI" \/ (f.form = "RmI" /\ f.width > 0)

\* The assembler resolves the immediate, and fails on the name of a register.
Encode(i) ==
  LET f == Parse(i) IN
  IF ~HasImm(f) THEN Build(f, Zero64)
  ELSE IF i.ops[2].k = "num" THEN Build(f, i.ops[2].v)
  ELSE Failed
=============================================================================
