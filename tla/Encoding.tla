------------------------------ MODULE Encoding ------------------------------
(***************************************************************************)
(* The encoder against the processor: one instruction, as written in a     *)
(* script, is encoded, and the bytes are decoded again. `Written` is what  *)
(* the text says, in the form the decoder answers in.                      *)
(***************************************************************************)
EXTENDS Encoder, FiniteSets

Cpu == INSTANCE X86

VARIABLE insn    \* the instruction, as written

-----------------------------------------------------------------------------
(* The instructions that can be written, but for those with a scale below  *)
(* zero (-4*rcx): two that are cut can cancel and be right by chance.      *)

RegNum == 0..15

Term ==
  [k : {"reg"}, n : RegNum, s : {4, 8}] \cup [k : {"scaled"}, n : RegNum, s : {4, 8}, by : Nat]
    \cup [k : {"disp"}, d : Int]

Operand ==
  [t : {"reg"}, n : RegNum, s : {4, 8}] \cup [t : {"xmm"}, n : RegNum]
    \cup [t : {"mem"}, terms : Seq(Term), s : {0, 1, 2, 4, 8}]
    \cup [t : {"imm"}, k : {"num"}, v : [1..8 -> 0..255]]
    \cup [t : {"imm"}, k : {"r8", "r16"}, n : RegNum]

Instruction == [m : STRING, ops : Seq(Operand)]

-----------------------------------------------------------------------------
(* What the text says.                                                     *)

\* The registers of an address; one times zero is none.
Registers(terms) ==
  {j \in DOMAIN terms : terms[j].k = "reg" \/ (terms[j].k = "scaled" /\ terms[j].by # 0)}

TermCoef(term, r) ==
  CASE term.k = "reg"    -> IF term.n = r THEN 1 ELSE 0
    [] term.k = "scaled" -> IF term.n = r THEN term.by ELSE 0
    [] term.k = "disp"   -> 0

AddressOf(terms) ==
  [coef   |-> [r \in 0..15 |-> FoldLeft(LAMBDA n, term : n + TermCoef(term, r), 0, terms)],
   disp   |-> FoldLeft(LAMBDA n, term : n + (IF term.k = "disp" THEN term.d ELSE 0), 0, terms),
   rip    |-> FALSE,
   narrow |-> \E j \in Registers(terms) : terms[j].s = 4]

Movx == {"movzx", "movsx"}

\* The size of a memory operand: the mnemonic's, its size word, that of the register
\* beside it, or a dword.
MemSize(i, o) ==
  LET beside == {i.ops[j].s : j \in {j \in DOMAIN i.ops : i.ops[j].t = "reg"}}
  IN CASE i.m \in DOMAIN SseTable \ ToSse -> 0
       [] i.m = "movq" -> 8
       [] i.m = "movd" -> 4
       [] i.m = "lea"  -> CHOOSE s \in beside : TRUE
       [] OTHER -> IF o.s # 0 THEN o.s
                   ELSE IF beside # {} /\ i.m \notin ToSse THEN CHOOSE s \in beside : TRUE
                   ELSE 4

SizeHere(i) ==
  CASE i.ops[1].t = "reg" -> i.ops[1].s
    [] i.ops[1].t = "mem" -> MemSize(i, i.ops[1])
    [] OTHER -> 0

WrittenOp(i, o) ==
  CASE o.t = "reg" -> <<"reg", o.n, o.s>>
    [] o.t = "xmm" -> <<"xmm", o.n>>
    [] o.t = "mem" -> <<"mem", AddressOf(o.terms), MemSize(i, o)>>
    [] o.t = "imm" /\ o.k = "r8"  -> <<"reg", o.n, 1>>
    [] o.t = "imm" /\ o.k = "r16" -> <<"reg", o.n, 2>>
    [] o.t = "imm" /\ o.k = "num" ->
         <<"imm", SubSeq(o.v, 1, IF i.m \in DOMAIN Shift THEN 1 ELSE SizeHere(i))>>

\* Two names of one shift, and the two orders of test and xchg, are one instruction.
Written(i) ==
  LET ops == [j \in DOMAIN i.ops |-> WrittenOp(i, i.ops[j])]
  IN [m   |-> IF i.m = "sal" THEN "shl" ELSE i.m,
      ops |-> IF i.m \in {"test", "xchg"} /\ i.ops[2].t = "mem" THEN Reverse(ops) ELSE ops]

-----------------------------------------------------------------------------
(* The instructions that are accepted and encoded as something else.       *)

Mems(i) == {i.ops[j] : j \in {j \in DOMAIN i.ops : i.ops[j].t = "mem"}}

\* spl, bpl, sil and dil need a REX prefix, or they mean ah, ch, dh and bh.
HighByte(i) ==
  i.m \in Movx /\ i.ops[2].t = "imm" /\ i.ops[2].k = "r8" /\ i.ops[2].n \in 4..7
    /\ i.ops[1].s = 4 /\ i.ops[1].n < 8

\* An immediate of 32 bits with the top bit set is sign-extended to a qword.
SignedImm(i) ==
  /\ Len(i.ops) = 2 /\ i.ops[2].t = "imm" /\ i.ops[2].k = "num" /\ i.m \notin DOMAIN Shift
  /\ ~(i.m = "mov" /\ i.ops[1].t = "reg")
  /\ SizeHere(i) = 8
  /\ Zeros(i.ops[2].v, 5) /\ i.ops[2].v[4] >= 128

\* A third register of an address replaces the second.
LostRegister(i) == \E o \in Mems(i) : Cardinality(Registers(o.terms)) > 2

\* A scale is cut to eight bits.
ScaleCut(i) ==
  \E o \in Mems(i) : \E j \in Registers(o.terms) : o.terms[j].k = "scaled" /\ o.terms[j].by > 255

\* A 32-bit register of an address is taken for the 64-bit one.
NarrowAddress(i) == \E o \in Mems(i) : AddressOf(o.terms).narrow

\* The size word of memory beside a register, and the size of imul's source, are
\* not compared with the register's.
SizeIgnored(i) ==
  /\ Len(i.ops) = 2
  /\ \/ i.m = "imul" /\ i.ops[2].t = "reg" /\ i.ops[1].s # i.ops[2].s
     \/ /\ i.m \notin Movx \cup {"lea"} \cup DOMAIN SseTable
        /\ \E r, o \in {i.ops[1], i.ops[2]} :
             r.t = "reg" /\ o.t = "mem" /\ o.s \notin {0, r.s}
     \/ i.m \in ToSse /\ i.ops[2].t = "mem" /\ i.ops[2].s \notin {0, 4}

\* movd of a 64-bit register is movq, and the reverse.
OtherMove(i) ==
  i.m \in {"movd", "movq"} /\ \E j \in 1..2 :
    i.ops[j].t = "reg" /\ i.ops[j].s # (IF i.m = "movd" THEN 4 ELSE 8)

\* A conversion between an SSE and a general register takes two SSE registers, or
\* loads an SSE register.
WrongConversion(i) ==
  \/ i.m \in ToSse   /\ i.ops[2].t = "xmm"
  \/ i.m \in FromSse /\ i.ops[1].t = "xmm"

\* The operands of an instruction without operands are not looked at.
OperandIgnored(i) == i.m \in DOMAIN Fixed /\ i.ops # <<>>

Misread(i) ==
  \/ HighByte(i) \/ SignedImm(i) \/ LostRegister(i) \/ ScaleCut(i) \/ NarrowAddress(i)
  \/ SizeIgnored(i) \/ OtherMove(i) \/ WrongConversion(i) \/ OperandIgnored(i)

-----------------------------------------------------------------------------
(* Properties.                                                             *)

Accepted(i) == Encode(i) # Failed

\* What the encoder accepts is what the processor executes, except for exactly
\* the nine cases above; and the length that places the labels in the first pass
\* is the length of the bytes written in the second (asm_x86: parse, Insn::build,
\* Insn::size).
MeansWhatIsWritten ==
  Accepted(insn) =>
    /\ Cpu!Decode(Encode(insn)) = Written(insn) <=> ~Misread(insn)
    /\ Len(Encode(insn)) = Size(Parse(insn))

\* The header of asm_x86.rs lists the forms that are supported, "movzx/movsx reg,
\* r/m8|r/m16", "movd/movq xmm,reg/[mem]", "cvtsi2ss/cvtsi2sd" and a scale of "1/2/4/8"
\* among them. An instruction with no part beside those forms (a third register, a
\* 32-bit one in an address, operands of nop, an immediate beyond 31 bits) that is
\* accepted should be what is written.
ListedFormsAreRight ==
  Accepted(insn) /\ ~(LostRegister(insn) \/ NarrowAddress(insn) \/ OperandIgnored(insn)
                         \/ SignedImm(insn))
    => Cpu!Decode(Encode(insn)) = Written(insn)
=============================================================================
