--------------------------------- MODULE X86 ---------------------------------
(***************************************************************************)
(* What a processor makes of the bytes of an instruction in 64-bit mode,   *)
(* for the opcodes the encoder uses: the reference the encoder is checked  *)
(* against. It is read off the opcode map and shares no table with it.     *)
(*                                                                         *)
(* An instruction is [m, ops] with operands in canonical form:             *)
(*   <<"reg", n, s>>, <<"xmm", n>>, <<"high", n>> (ah, ch, dh, bh),        *)
(*   <<"imm", bytes>>, <<"mem", address, s>> with s = 0 where the mnemonic *)
(*   says it, and an address [coef, disp]: how often each register is      *)
(*   added, and the displacement.                                          *)
(***************************************************************************)
EXTENDS Integers, Sequences

Bit(n, i) == (n \div 2^i) % 2 = 1
Ext(bit)  == IF bit THEN 8 ELSE 0

Drop(s, n) == SubSeq(s, n + 1, Len(s))

SignedByte(b) == IF b >= 128 THEN b - 256 ELSE b
Signed32(s)   == s[1] + 256 * s[2] + 65536 * s[3] + 16777216 * SignedByte(s[4])

SignExtend(s) == [i \in 1..8 |-> IF i <= Len(s) THEN s[i] ELSE IF s[Len(s)] >= 128 THEN 255 ELSE 0]

-----------------------------------------------------------------------------
(* Prefixes, opcode, ModRM.                                                *)

HasLegacy(s) == s[1] \in {102, 242, 243}
Legacy(s)    == IF HasLegacy(s) THEN s[1] ELSE 0
PastLegacy(s) == IF HasLegacy(s) THEN Drop(s, 1) ELSE s
RexOf(s)     == LET t == PastLegacy(s) IN IF t[1] \in 64..79 THEN t[1] ELSE 0
PastRex(s)   == LET t == PastLegacy(s) IN IF t[1] \in 64..79 THEN Drop(t, 1) ELSE t
TwoByte(s)   == PastRex(s)[1] = 15
Opcode(s)    == PastRex(s)[IF TwoByte(s) THEN 2 ELSE 1]
Body(s)      == Drop(PastRex(s), IF TwoByte(s) THEN 2 ELSE 1)

Digit(s)  == (Body(s)[1] \div 8) % 8
RegOf(s)  == Digit(s) + Ext(Bit(RexOf(s), 2))
ModOf(s)  == Body(s)[1] \div 64
RmOf(s)   == Body(s)[1] % 8
IsReg(s)  == ModOf(s) = 3
HasSib(s) == ~IsReg(s) /\ RmOf(s) = 4
SibOf(s)  == Body(s)[2]
AfterSib(s) == Drop(Body(s), IF HasSib(s) THEN 2 ELSE 1)

BaseField(s) == IF HasSib(s) THEN SibOf(s) % 8 ELSE RmOf(s)
NoBase(s)    == ModOf(s) = 0 /\ BaseField(s) = 5
BaseReg(s)   == BaseField(s) + Ext(Bit(RexOf(s), 0))
IndexReg(s)  == ((SibOf(s) \div 8) % 8) + Ext(Bit(RexOf(s), 1))
Scale(s)     == 2^(SibOf(s) \div 64)

DispSize(s)  == IF IsReg(s) THEN 0
                ELSE IF ModOf(s) = 1 THEN 1
                ELSE IF ModOf(s) = 2 \/ NoBase(s) THEN 4 ELSE 0
DispOf(s)    == CASE DispSize(s) = 0 -> 0
                  [] DispSize(s) = 1 -> SignedByte(AfterSib(s)[1])
                  [] DispSize(s) = 4 -> Signed32(AfterSib(s))

Coef(s) ==
  [r \in 0..15 |->
     (IF ~NoBase(s) /\ r = BaseReg(s) THEN 1 ELSE 0)
     + (IF HasSib(s) /\ IndexReg(s) # 4 /\ r = IndexReg(s) THEN Scale(s) ELSE 0)]

\* Without a base and an index byte the address is relative to the instruction.
Address(s) == [coef |-> Coef(s), disp |-> DispOf(s), rip |-> NoBase(s) /\ ~HasSib(s), narrow |-> FALSE]

\* What follows ModRM, SIB and displacement.
Rest(s) == Drop(AfterSib(s), DispSize(s))

-----------------------------------------------------------------------------
(* Operands.                                                               *)

W(s)        == Bit(RexOf(s), 3)
Width(s)    == IF W(s) THEN 8 ELSE 4
Gp(n, size) == <<"reg", n, size>>
RmNum(s)    == RmOf(s) + Ext(Bit(RexOf(s), 0))

RmGp(s, size) == IF IsReg(s) THEN Gp(RmNum(s), size) ELSE <<"mem", Address(s), size>>
RmXmm(s)      == IF IsReg(s) THEN <<"xmm", RmNum(s)>> ELSE <<"mem", Address(s), 0>>
\* Without REX the names of four byte registers mean the high bytes of others.
RmByte(s)     == IF IsReg(s) /\ RexOf(s) = 0 /\ RmOf(s) >= 4 THEN <<"high", RmOf(s) - 4>> ELSE RmGp(s, 1)

\* An immediate of four bytes, extended to the operand's size.
Imm32(s, size) == <<"imm", SubSeq(SignExtend(SubSeq(s, 1, 4)), 1, size)>>
Imm8(s)        == <<"imm", SubSeq(s, 1, 1)>>

Instr(m, ops) == [m |-> m, ops |-> ops]
Unknown == Instr("?", <<>>)

Arithmetic == <<"add", "or", "adc", "sbb", "and", "sub", "xor", "cmp">>
Shifts     == <<"rol", "ror", "rcl", "rcr", "shl", "shr", "?", "sar">>

OneByte(s) ==
  LET op  == Opcode(s)
      r   == Gp(RegOf(s), Width(s))
      rm  == RmGp(s, Width(s))
      imm == Imm32(Rest(s), Width(s))
      low == (op % 8) + Ext(Bit(RexOf(s), 0))
  IN CASE op < 64 /\ op % 8 = 1 -> Instr(Arithmetic[(op \div 8) + 1], <<rm, r>>)
       [] op < 64 /\ op % 8 = 3 -> Instr(Arithmetic[(op \div 8) + 1], <<r, rm>>)
       [] op \in 80..87   -> Instr("push", <<Gp(low, 8)>>)
       [] op \in 88..95   -> Instr("pop", <<Gp(low, 8)>>)
       [] op = 129        -> Instr(Arithmetic[Digit(s) + 1], <<rm, imm>>)
       [] op = 133        -> Instr("test", <<rm, r>>)
       [] op = 135        -> Instr("xchg", <<rm, r>>)
       [] op = 137        -> Instr("mov", <<rm, r>>)
       [] op = 139        -> Instr("mov", <<r, rm>>)
       [] op = 141        -> Instr("lea", <<r, rm>>)
       [] op = 144        -> Instr("nop", <<>>)
       [] op = 153        -> Instr(IF W(s) THEN "cqo" ELSE "cdq", <<>>)
       [] op \in 184..191 -> Instr("mov", <<Gp(low, Width(s)), <<"imm", SubSeq(Body(s), 1, Width(s))>>>>)
       [] op = 193        -> Instr(Shifts[Digit(s) + 1], <<rm, Imm8(Rest(s))>>)
       [] op = 195        -> Instr("ret", <<>>)
       [] op = 199        -> Instr("mov", <<rm, imm>>)
       [] op = 201        -> Instr("leave", <<>>)
       [] op = 204        -> Instr("int3", <<>>)
       [] op = 211        -> Instr(Shifts[Digit(s) + 1], <<rm, Gp(1, 1)>>)
       [] op = 247 /\ Digit(s) = 0 -> Instr("test", <<rm, imm>>)
       [] op = 247 /\ Digit(s) = 2 -> Instr("not", <<rm>>)
       [] op = 247 /\ Digit(s) = 3 -> Instr("neg", <<rm>>)
       [] op = 255 /\ Digit(s) = 0 -> Instr("inc", <<rm>>)
       [] op = 255 /\ Digit(s) = 1 -> Instr("dec", <<rm>>)
       [] OTHER -> Unknown

\* One opcode, four instructions: without prefix, with 66, with F3, with F2.
ByPrefix(p, ms) == ms[CASE p = 0 -> 1 [] p = 102 -> 2 [] p = 243 -> 3 [] p = 242 -> 4]
Move(p) == ByPrefix(p, <<"movups", "movupd", "movss", "movsd">>)

TwoBytes(s) ==
  LET op == Opcode(s)
      p  == Legacy(s)
      x  == <<"xmm", RegOf(s)>>
      r  == Gp(RegOf(s), Width(s))
      mx == RmXmm(s)
      ld == <<x, mx>>
      st == <<mx, x>>
      q  == IF W(s) THEN "movq" ELSE "movd"
  IN CASE op = 16 -> Instr(Move(p), ld)
       [] op = 17 -> Instr(Move(p), st)
       [] op = 40 -> Instr(IF p = 0 THEN "movaps" ELSE "movapd", ld)
       [] op = 41 -> Instr(IF p = 0 THEN "movaps" ELSE "movapd", st)
       [] op = 42 -> Instr(ByPrefix(p, <<"?", "?", "cvtsi2ss", "cvtsi2sd">>), <<x, RmGp(s, Width(s))>>)
       [] op = 44 -> Instr(ByPrefix(p, <<"?", "?", "cvttss2si", "cvttsd2si">>), <<r, mx>>)
       [] op = 87 -> Instr(ByPrefix(p, <<"xorps", "xorpd", "?", "?">>), ld)
       [] op = 88 -> Instr(ByPrefix(p, <<"addps", "addpd", "addss", "addsd">>), ld)
       [] op = 89 -> Instr(ByPrefix(p, <<"mulps", "mulpd", "mulss", "mulsd">>), ld)
       [] op = 92 -> Instr(ByPrefix(p, <<"subps", "subpd", "subss", "subsd">>), ld)
       [] op = 94 -> Instr(ByPrefix(p, <<"divps", "divpd", "divss", "divsd">>), ld)
       [] op = 110 -> Instr(q, <<x, RmGp(s, Width(s))>>)
       [] op = 126 /\ p = 102 -> Instr(q, <<RmGp(s, Width(s)), x>>)
       [] op = 126 /\ p = 243 -> Instr("movq", ld)
       [] op = 175 -> Instr("imul", <<r, RmGp(s, Width(s))>>)
       [] op = 182 -> Instr("movzx", <<r, RmByte(s)>>)
       [] op = 183 -> Instr("movzx", <<r, RmGp(s, 2)>>)
       [] op = 190 -> Instr("movsx", <<r, RmByte(s)>>)
       [] op = 191 -> Instr("movsx", <<r, RmGp(s, 2)>>)
       [] OTHER -> Unknown

\* Bytes past the end read as zero.
Padded(s) == s \o [i \in 1..16 |-> 0]

Decode(bytes) ==
  IF TwoByte(Padded(bytes)) THEN TwoBytes(Padded(bytes)) ELSE OneByte(Padded(bytes))
=============================================================================
