--------------------------- MODULE MCAutoAssembler ---------------------------
(* Instances of AutoAssembler for TLC, with scripts of the documentation.   *)
EXTENDS AutoAssembler

CONSTANTS p1, p2

Procs == {p1, p2}

\* The module of p2 has the instruction elsewhere.
Sites == [p \in Proc |-> IF p = p1 THEN 1 ELSE 4]

L(op, name) == [op |-> op, name |-> name, near |-> ""]
AllocNear(name, near) == [op |-> "alloc", name |-> name, near |-> near]

Patch == <<L("anchor", "inject"), L("jmp", "newmem"), L("nop", ""), L("anchor", "return")>>
Restore == <<L("anchor", "inject"), L("db", "")>>

\* The example of the README.
Readme ==
  [ enable  |-> <<L("aobscanmodule", "inject"), AllocNear("newmem", "inject"),
                  L("anchor", "newmem"), L("db", ""), L("jmp", "return")>> \o Patch,
    disable |-> Restore \o <<L("dealloc", "newmem")>> ]

\* AA_TEMPLATE with its comments removed.
Template ==
  [ enable  |-> <<L("aobscanmodule", "inject"), AllocNear("newmem", "inject"),
                  L("anchor", "newmem"), L("nop", ""), L("jmp", "return")>> \o Patch,
    disable |-> Restore \o <<L("unregistersymbol", "inject"), L("dealloc", "newmem")>> ]

\* AA_TEMPLATE as it is: every line is a comment.
Empty == [enable |-> <<>>, disable |-> <<>>]

\* The example with a branch in the cave, allocated before the scan.
Branching ==
  [ enable  |-> <<L("alloc", "newmem"), L("aobscanmodule", "inject"),
                  L("anchor", "newmem"), L("je", "return"), L("db", ""), L("jmp", "return")>>
                \o Patch,
    disable |-> Restore \o <<L("dealloc", "newmem")>> ]

ModuleScripts == {Readme, Template, Branching, Empty}
ReadmeOnly    == {Readme}
=============================================================================
