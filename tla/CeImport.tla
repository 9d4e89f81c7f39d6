------------------------------- MODULE CeImport -------------------------------
(***************************************************************************)
(* The import of a Cheat Engine table (.CT): the XML becomes tokens, an    *)
(* automaton with a stack of open entries turns the tokens into entries,   *)
(* and those that can be resolved join the cheat table.                    *)
(*                                                                         *)
(* A token is [k |-> "start" or "end", tag] or [k |-> "text", v], the text *)
(* being the value it spells: a type, an address [module, base], a number. *)
(* Spelling, quoting, entities and case are left out.                      *)
(***************************************************************************)
EXTENDS Integers, Sequences, SequencesExt

CONSTANTS
  ModuleBases, \* module_bases: the bases of the modules of the game attached
  None         \* an element that is absent or illegible

\* Builder::default()
NewEntry == [desc |-> None, type |-> None, addr |-> None, offsets |-> <<>>, length |-> None,
             unicode |-> FALSE]

-----------------------------------------------------------------------------
(* parse                                                                   *)

Numeric == {"byte", "2 bytes", "4 bytes", "8 bytes", "float", "double"}
Strings == {"utf8", "utf16"}

\* map_type
MapType(t, unicode) ==
  IF t \in Numeric THEN t
  ELSE IF t = "string" THEN (IF unicode THEN "utf16" ELSE "utf8")
  ELSE None

\* str_len
Bytes(b) ==
  IF MapType(b.type, b.unicode) \notin Strings THEN 0
  ELSE LET chars == IF b.length = None THEN 16 ELSE IF b.length = 0 THEN 1 ELSE b.length
       IN IF b.unicode THEN 2 * chars ELSE chars

\* finalize: nothing comes of a folder or a script, nor of an entry without a legible
\* address.
Useful(b) ==
  /\ MapType(b.type, b.unicode) # None \/ b.offsets # <<>>
  /\ b.addr # None

Finalize(b) ==
  [desc |-> b.desc, type |-> MapType(b.type, b.unicode), module |-> b.addr.module,
   base |-> b.addr.base, offsets |-> Reverse(b.offsets), len |-> Bytes(b)]

Top(s) == Last(s.stack)
SetTop(s, b) == [s EXCEPT !.stack = Append(Front(@), b)]

Open(s, tag) ==
  LET t == [s EXCEPT !.tag = tag]
  IN CASE tag = "cheatentry" -> [t EXCEPT !.stack = Append(@, NewEntry)]
       [] tag = "offsets"    -> [t EXCEPT !.inOffsets = TRUE]
       [] OTHER -> t

\* A plausible bug: an entry closes all the entries it is nested in.
CloseAll(s) ==
  [s EXCEPT !.stack = <<>>, !.out = IF Useful(Top(s)) THEN Append(@, Finalize(Top(s))) ELSE @]

CloseEntry(s) ==
  [s EXCEPT !.stack = Front(@), !.out = IF Useful(Top(s)) THEN Append(@, Finalize(Top(s))) ELSE @]

Close(s, tag) ==
  LET t == [s EXCEPT !.tag = None]
  IN CASE tag = "cheatentry" /\ s.stack # <<>> -> CloseEntry(t)
       [] tag = "offsets" -> [t EXCEPT !.inOffsets = FALSE]
       [] OTHER -> t

\* The text belongs to the tag opened last, unless one was closed since.
Text(s, v) ==
  IF s.stack = <<>> THEN s
  ELSE CASE s.tag = "description"  -> SetTop(s, [Top(s) EXCEPT !.desc = v])
         [] s.tag = "variabletype" -> SetTop(s, [Top(s) EXCEPT !.type = v])
         [] s.tag = "address"      -> SetTop(s, [Top(s) EXCEPT !.addr = v])
         [] s.tag = "length"       -> SetTop(s, [Top(s) EXCEPT !.length = v])
         [] s.tag = "unicode"      -> SetTop(s, [Top(s) EXCEPT !.unicode = (v = 1)])
         [] s.tag = "offset" /\ s.inOffsets ->
              IF v = None THEN s ELSE SetTop(s, [Top(s) EXCEPT !.offsets = Append(@, v)])
         [] OTHER -> s

Token(s, tok) ==
  CASE tok.k = "start" -> Open(s, tok.tag)
    [] tok.k = "end"   -> Close(s, tok.tag)
    [] tok.k = "text"  -> Text(s, tok.v)

Parse(toks) ==
  FoldLeft(Token, [stack |-> <<>>, out |-> <<>>, tag |-> None, inOffsets |-> FALSE], toks).out

-----------------------------------------------------------------------------
(* import_ct_dialog: what joins the cheat table.                           *)

IsPointer(e) == e.offsets # <<>>

\* A pointer needs its module's name, an address in a module the module's base.
Resolvable(e) ==
  /\ e.type # None
  /\ IF IsPointer(e) THEN e.module # None ELSE e.module = None \/ e.module \in DOMAIN ModuleBases

Saved(e) ==
  [desc |-> e.desc, type |-> e.type, len |-> e.len,
   address |-> IF IsPointer(e) THEN 0
               ELSE IF e.module = None THEN e.base ELSE ModuleBases[e.module] + e.base,
   pointer |-> IF IsPointer(e)
               THEN [module |-> e.module, base |-> e.base, offsets |-> e.offsets]
               ELSE None]

Import(toks) ==
  LET entries == Parse(toks)
      kept    == SelectSeq(entries, Resolvable)
  IN [saved |-> [j \in DOMAIN kept |-> Saved(kept[j])], skipped |-> Len(entries) - Len(kept)]
=============================================================================
