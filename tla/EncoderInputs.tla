---------------------------- MODULE EncoderInputs ----------------------------
(* The instructions the encoder is checked on: every mnemonic with every     *)
(* shape of operands, every kind of register number, and the addresses and   *)
(* immediates at the boundaries of their encodings.                          *)
EXTENDS Encoding

Nums  == {0, 5, 12}
Gps   == [t : {"reg"}, n : Nums, s : {4, 8}]
Xmms  == [t : {"xmm"}, n : {1, 9}]

R(n)       == [k |-> "reg", n |-> n, s |-> 8]
R32(n)     == [k |-> "reg", n |-> n, s |-> 4]
By(n, f)   == [k |-> "scaled", n |-> n, s |-> 8, by |-> f]
D(d)       == [k |-> "disp", d |-> d]
Mem(terms) == [t |-> "mem", terms |-> terms, s |-> 0]
Word(o, s) == [o EXCEPT !.s = s]

Based   == {<<R(b), D(d)>> : b \in 0..15, d \in {0, 8, -128, 127, 128, -129}}
             \cup {<<R(3), D(d)>> : d \in {Disp32, -Disp32 - 1}}
Indexed == {<<R(b), By(x, f), D(d)>> :
              b \in {3, 5, 12}, x \in {1, 4, 5, 9, 12}, f \in {1, 2, 3, 4, 8}, d \in {0, 128}}
Odd     == {<<R(b), R(x)>> : b \in {3, 13}, x \in {1, 4, 9}}
             \cup {<<By(1, 4), R(3)>>, <<D(8), R(3), D(-8)>>, <<By(1, 4)>>, <<D(16)>>,
                   <<R(3), R(1), R(6)>>, <<R(3), By(1, 4), R(6)>>, <<R(3), R(1), By(6, 2)>>,
                   <<R32(3)>>, <<R32(3), R32(1)>>, <<R(3), R32(1)>>}
             \cup {<<R(3), By(1, f)>> : f \in {0, 256, 260}} \cup {<<R(3), By(1, 0), R(6)>>}
Addresses == {Mem(terms) : terms \in Based \cup Indexed \cup Odd}
Mems2     == {Mem(<<R(3)>>), Mem(<<R(13), By(9, 2), D(4)>>)}
Sized     == {Word(o, s) : o \in Mems2, s \in {0, 4, 8}}

Num(v) == [t |-> "imm", k |-> "num", v |-> v]
Small  == {Num(<<b>> \o [j \in 1..7 |-> e]) : b \in {1, 127, 128, 255}, e \in {0, 255}}
Large  == {Num(<<b[1], 0, 0, b[2], b[3], b[3], b[3], b[4]>>) :
             b \in {<<1, 127, 0, 0>>, <<1, 128, 0, 0>>, <<0, 128, 255, 255>>, <<0, 127, 255, 255>>,
                    <<1, 2, 3, 4>>}}
Imms   == Small \cup Large
R8     == {[t |-> "imm", k |-> "r8", n |-> n] : n \in 0..15}
R16    == {[t |-> "imm", k |-> "r16", n |-> n] : n \in {0, 5, 12}}
Cl     == [t |-> "imm", k |-> "r8", n |-> 1]

Two(ms, as, bs) == {[m |-> m, ops |-> <<a, b>>] : m \in ms, a \in as, b \in bs}
One(ms, as)     == {[m |-> m, ops |-> <<a>>] : m \in ms, a \in as}

General == DOMAIN Alu \cup {"mov", "test", "xchg", "imul", "lea"}
SseOps  == DOMAIN SseTable
AnyReg  == [t : {"reg"}, n : 0..15, s : {4, 8}]

Instructions ==
  UNION {Two(General, Gps, Gps), Two(General, Gps, Sized), Two(General, Sized, Gps),
         Two({"mov", "lea"}, [t : {"reg"}, n : {0, 9}, s : {8}], Addresses),
         Two({"movss"}, Xmms, Addresses),
         Two(General, Gps \cup Sized, Imms),
         Two(DOMAIN Shift, Gps \cup Sized, Small \cup {Cl}),
         Two(Movx, Gps, R8 \cup R16), Two(Movx, Gps, {Word(o, s) : o \in Mems2, s \in {0, 1, 2, 4}}),
         Two(SseOps, Xmms, Xmms \cup Mems2), Two(SseOps, Mems2, Xmms),
         Two(SseOps, Xmms, Gps), Two(SseOps, Gps, Xmms \cup Mems2),
         Two(ToSse, Xmms, Sized \cup {Word(o, s) : o \in Mems2, s \in {1, 2}}),
         Two({"mov", "add", "test", "shl"}, Gps \cup Mems2, {Cl} \cup R16),
         Two({"movd", "movq"}, Xmms, Xmms \cup Gps \cup Mems2),
         Two({"movd", "movq"}, Gps \cup Mems2, Xmms),
         One(DOMAIN Unary \cup {"push", "pop"}, AnyReg \cup Sized),
         One(DOMAIN Fixed, Gps), [m : DOMAIN Fixed, ops : {<<>>}]}

\* Each of them for itself: there is nothing to do but encode it.
InputsSpec == insn \in Instructions /\ [][FALSE]_insn
=============================================================================
