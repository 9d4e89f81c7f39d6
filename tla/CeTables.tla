------------------------------- MODULE CeTables -------------------------------
(***************************************************************************)
(* Tables to import, as trees, and what importing them should give. A node *)
(* is an entry with the values of its elements, in `kids` the entries      *)
(* nested in it; `early` says that they stand before its own elements, and *)
(* `hotkey` that it has an element with a description of its own.          *)
(***************************************************************************)
EXTENDS CeImport, FiniteSets

VARIABLE table    \* a sequence of nodes

-----------------------------------------------------------------------------
(* The tree as tokens.                                                     *)

Element(tag, v) ==
  IF v = None THEN <<>>
  ELSE <<[k |-> "start", tag |-> tag], [k |-> "text", v |-> v], [k |-> "end", tag |-> tag]>>

Around(tag, toks) ==
  IF toks = <<>> THEN <<>>
  ELSE <<[k |-> "start", tag |-> tag]>> \o toks \o <<[k |-> "end", tag |-> tag]>>

Own(n) ==
  Element("description", n.desc) \o Element("variabletype", n.type)
    \o Element("length", n.length) \o Element("unicode", IF n.unicode THEN 1 ELSE 0)
    \o Element("address", n.addr)
    \o Around("offsets", FlattenSeq([j \in DOMAIN n.offsets |-> Element("offset", n.offsets[j])]))

RECURSIVE Tokens(_)
Tokens(nodes) ==
  FlattenSeq([j \in DOMAIN nodes |->
    LET n    == nodes[j]
        kids == Around("cheatentries", Tokens(n.kids))
        keys == IF n.hotkey THEN Around("hotkey", Element("description", "hotkey")) ELSE <<>>
    IN Around("cheatentry", IF n.early THEN kids \o Own(n) \o keys ELSE Own(n) \o keys \o kids)])

-----------------------------------------------------------------------------
(* What the table says: the entries, the nested before the one they are in.*)

RECURSIVE Flat(_)
Flat(nodes) ==
  FlattenSeq([j \in DOMAIN nodes |-> Flat(nodes[j].kids) \o <<nodes[j]>>])

Known(n) == n.type \in Numeric \cup {"string"}

Importable(n) ==
  /\ Known(n) /\ n.addr # None
  /\ IF n.offsets = <<>> THEN n.addr.module \in DOMAIN ModuleBases \cup {None} ELSE n.addr.module # None

\* A table lists the offset applied last first. A hotkey's description, which comes
\* after the entry's, replaces it.
Expected(n) ==
  LET pointer == n.offsets # <<>>
      chars   == CASE n.length = None -> 16 [] n.length = 0 -> 1 [] OTHER -> n.length
  IN [desc    |-> IF n.hotkey THEN "hotkey" ELSE n.desc,
      type    |-> IF n.type # "string" THEN n.type ELSE IF n.unicode THEN "utf16" ELSE "utf8",
      len     |-> IF n.type # "string" THEN 0 ELSE chars * (IF n.unicode THEN 2 ELSE 1),
      address |-> IF pointer THEN 0
                  ELSE n.addr.base + (IF n.addr.module = None THEN 0 ELSE ModuleBases[n.addr.module]),
      pointer |-> IF pointer
                  THEN [module |-> n.addr.module, base |-> n.addr.base,
                        offsets |-> [j \in DOMAIN n.offsets |-> n.offsets[Len(n.offsets) + 1 - j]]]
                  ELSE None]

\* Every entry of the table that can be resolved joins the cheat table, once, with its
\* own elements and none of an entry nested in it or around it, in the order in which the
\* entries end; and what is neither imported nor a folder, a script or without an address
\* is counted as skipped (ce_import::parse, import_ct_dialog).
ImportKeepsTable ==
  LET kept   == SelectSeq(Flat(table), Importable)
      listed == SelectSeq(Flat(table), LAMBDA n : n.addr # None /\ (Known(n) \/ n.offsets # <<>>))
      result == Import(Tokens(table))
  IN /\ result.saved = [j \in DOMAIN kept |-> Expected(kept[j])]
     /\ result.skipped = Len(listed) - Len(kept)

-----------------------------------------------------------------------------
(* The tables checked: every kind of entry alone and nested two deep.      *)

At(module, base) == [module |-> module, base |-> base]

Node(desc, type, addr, offsets) ==
  [desc |-> desc, type |-> type, addr |-> addr, offsets |-> offsets, length |-> None,
   unicode |-> FALSE, hotkey |-> FALSE, early |-> FALSE, kids |-> <<>>]

Plain ==
  {Node("folder", None, None, <<>>), Node("script", "script", None, <<>>),
   Node("lost", "float", None, <<>>),
   Node("abs", "4 bytes", At(None, 7), <<>>), Node("here", "float", At("game", 2), <<>>),
   Node("away", "double", At("other", 3), <<>>),
   Node("ptr", "8 bytes", At("game", 4), <<30, 10>>), Node("ptr2", "byte", At("other", 5), <<20>>),
   Node("noname", "4 bytes", At(None, 6), <<1>>), Node("untyped", "script", At("game", 8), <<2>>)}

Texts ==
  {[Node("text", "string", At("game", 1), <<>>) EXCEPT !.length = l, !.unicode = u] :
     l \in {None, 0, 12}, u \in BOOLEAN}

Keyed == {[n EXCEPT !.hotkey = TRUE] : n \in Plain}

Nested(outer, inner) == {[o EXCEPT !.kids = k, !.early = e] : o \in outer, k \in inner, e \in BOOLEAN}

One(nodes) == {<<n>> : n \in nodes}
Few == {n \in Plain : n.desc \in {"folder", "abs", "ptr", "untyped"}}

Tables ==
  {<<>>} \cup One(Plain \cup Texts \cup Keyed)
    \cup One(Nested(Plain, One(Plain \cup Texts \cup Keyed)))
    \cup {<<a, b>> : a \in Nested(Few, One(Few)), b \in Few}
    \cup One(Nested(Few, One(Nested(Few, One(Few)))))
    \cup One(Nested(Few, {<<a, b>> : a, b \in Few}))
=============================================================================
