---------------------------- MODULE AutoAssembler ----------------------------
(***************************************************************************)
(* The Auto Assembler: run_section executes the [ENABLE] or the [DISABLE]  *)
(* section of a script against the attached process, and AsmState keeps    *)
(* symbols and allocations from one run to the next, across scripts and    *)
(* across attach.                                                          *)
(*                                                                         *)
(* A cell of memory holds one instruction of a patch. The game's code has  *)
(* one instruction of two cells, "o1" "o2", that scripts look for, and is  *)
(* in its module at an address that differs from process to process.       *)
(* Caves are the blocks VirtualAllocEx may hand out; the game takes some   *)
(* of them for itself. Address 0 stands for no address.                    *)
(***************************************************************************)
EXTENDS Integers, Sequences, FiniteSetsExt, SequencesExt

CONSTANTS
  Proc,        (* processes the user can attach to                         *)
  NoProc,      (* App.attached = None                                      *)
  Blocked,     (* processes whose protection blocks injection              *)
  Site,        (* where each process has the instruction scripts look for  *)
  MODULE_SIZE, (* cells of the module                                      *)
  Cave,        (* first cell of each block                                 *)
  CAVE_SIZE,   (* cells of a block                                         *)
  Far,         (* the blocks a rel32 jump does not reach                   *)
  Name,        (* the names of symbols; "" is none                         *)
  Script       (* the scripts a user writes, loads or restores             *)

Cells(c) == c..(c + CAVE_SIZE - 1)
Module   == 1..MODULE_SIZE
Addr     == Module \cup UNION {Cells(c) : c \in Cave}

\* The lines a script may have, among those the program understands.
Operation == {"alloc", "aobscan", "aobscanmodule", "unregistersymbol", "dealloc",
              "anchor", "db", "nop", "jmp", "je"}
ScriptLine == [op : Operation, name : Name, near : Name]

ASSUME AaAssumption ==
  /\ MODULE_SIZE \in Nat /\ CAVE_SIZE \in Nat \ {0} /\ Cave \subseteq Nat \ {0}
  /\ Script \subseteq [enable : Seq(ScriptLine), disable : Seq(ScriptLine)]
  /\ NoProc \notin Proc /\ Blocked \subseteq Proc
  /\ \A p \in Proc : Site[p] \in Module /\ Site[p] + 1 \in Module
  /\ \A c \in Cave : Cells(c) \cap Module = {}
  /\ \A c, d \in Cave : c # d => Cells(c) \cap Cells(d) = {}
  /\ Far \subseteq Cave

VARIABLES
  mem,       (* the cells of each process                                  *)
  owner,     (* who holds each block of each process                       *)
  attached,  (* App.attached                                               *)
  script,    (* App.aa_script                                              *)
  symbols,   (* AsmState.symbols                                           *)
  allocs,    (* AsmState.allocs                                            *)
  job,       (* where run_section is                                       *)
  outcome    (* history: what the status bar and the log say of the last   *)
             (* run, if the user has started nothing since                 *)

asm  == <<symbols, allocs>>
user == <<attached, script>>
aaVars == <<mem, owner, attached, script, symbols, allocs, job, outcome>>

Cell(op) == [op |-> op, to |-> 0]
Jumps    == {"jmp", "je"}

\* What a line of code assembles to.
Emission == {"db", "nop"} \cup Jumps

Names == {line.name : line \in UNION {ToSet(s.enable \o s.disable) : s \in Script}}
OutcomeType == [status : {"none", "enabled", "disabled", "failed"},
                log : {"none", "steps", "(secao vazia)", "error"}]
NoOutcome   == [status |-> "none", log |-> "none"]
RunFailed   == [status |-> "failed", log |-> "error"]
RunDone(section, log) ==
  [status |-> IF section = "enable" THEN "enabled" ELSE "disabled", log |-> log]
Idle  == [pc |-> "idle", section |-> "enable", lines |-> <<>>, items |-> <<>>,
          placed |-> <<>>, deferred |-> <<>>]

AaTypeOK ==
  /\ mem \in [Proc -> [Addr -> [op : {"o1", "o2", "nop", "data", "zero", "unmapped"} \cup Jumps,
                                to : Nat]]]
  /\ owner \in [Proc -> [Cave -> {"free", "game", "assembler"}]]
  /\ \A p \in Proc, c \in Cave :
       owner[p][c] = "free" <=> \A a \in Cells(c) : mem[p][a].op = "unmapped"
  /\ attached \in Proc \cup {NoProc}
  /\ script \in Script
  /\ DOMAIN symbols \subseteq Names /\ Range(symbols) \subseteq Nat \ {0}
  /\ \A k \in DOMAIN allocs : allocs[k].name \in Names /\ allocs[k].at \in Cave
  /\ job.pc \in {"idle", "commands", "apply"}
  /\ job.pc = "idle" => job = Idle
  /\ \A k \in DOMAIN job.placed : job.placed[k].line.op \in Emission
  /\ outcome \in OutcomeType

AaInit ==
  /\ mem = [p \in Proc |-> [a \in Addr |->
              Cell(IF a = Site[p] THEN "o1" ELSE IF a = Site[p] + 1 THEN "o2"
                   ELSE IF a \in Module THEN "data" ELSE "unmapped")]]
  /\ owner = [p \in Proc |-> [c \in Cave |-> "free"]]
  /\ attached = NoProc
  /\ script \in Script
  /\ symbols = [n \in {} |-> 0]
  /\ allocs = <<>>
  /\ job = Idle
  /\ outcome = NoOutcome

-----------------------------------------------------------------------------
(* Between two runs.                                                       *)

\* The state of the assembler outlives the process it was made for.
Attach(p) ==
  /\ job.pc = "idle"
  /\ attached' = p
  /\ outcome' = NoOutcome
  /\ UNCHANGED <<mem, owner, script, asm, job>>

\* The editor, "Restaurar template", or a table with a script.
ChangeScript(s) ==
  /\ job.pc = "idle"
  /\ script' = s
  /\ UNCHANGED <<mem, owner, attached, asm, job, outcome>>

\* run_assembler, from the panel or a hotkey. A section that is empty or not there
\* does nothing, and is a success whose log says so.
RunSection(section) ==
  /\ job.pc = "idle"
  /\ attached \in Proc \ Blocked
  /\ IF script[section] = <<>>
     THEN job' = job /\ outcome' = RunDone(section, "(secao vazia)")
     ELSE /\ job' = [Idle EXCEPT !.pc = "commands", !.section = section,
                                  !.lines = script[section]]
          /\ outcome' = NoOutcome
  /\ UNCHANGED <<mem, owner, user, asm>>

-----------------------------------------------------------------------------
(* Pass 1: commands run, line by line; code and anchors are collected.     *)

Line      == Head(job.lines)
Doing(op) == job.pc = "commands" /\ job.lines # <<>> /\ Line.op \in op
LineDone  == [job EXCEPT !.lines = Tail(@)]

\* An error ends the run where it is: what was done stays done.
Fail ==
  /\ job' = Idle
  /\ outcome' = RunFailed
  /\ UNCHANGED <<mem, owner, user, asm>>

\* f with n mapped to a.
With(f, n, a) == [m \in DOMAIN f \cup {n} |-> IF m = n THEN a ELSE f[m]]

\* alloc_near: the blocks near the address given, or any if these are taken.
Free == {c \in Cave : owner[attached][c] = "free"}
AllocChoice == IF Line.near # "" /\ Free \ Far # {} THEN Free \ Far ELSE Free

\* VirtualAllocEx hands out zeroed memory.
Alloc ==
  /\ Doing({"alloc"})
  /\ Line.near \in DOMAIN symbols \cup {""}
  /\ \E c \in AllocChoice :
       /\ mem' = [mem EXCEPT ![attached] =
                    [a \in Addr |-> IF a \in Cells(c) THEN Cell("zero") ELSE @[a]]]
       /\ owner' = [owner EXCEPT ![attached][c] = "assembler"]
       /\ symbols' = With(symbols, Line.name, c)
       /\ allocs' = Append(allocs, [name |-> Line.name, at |-> c])
  /\ job' = LineDone
  /\ UNCHANGED <<user, outcome>>

AllocFails ==
  /\ Doing({"alloc"})
  /\ Line.near \notin DOMAIN symbols \cup {""} \/ Free = {}
  /\ Fail

\* The first place of the pattern: in the module, or anywhere.
Found ==
  LET where == IF Line.op = "aobscanmodule" THEN Module ELSE Addr
  IN {a \in where : /\ a + 1 \in where
                    /\ mem[attached][a].op = "o1" /\ mem[attached][a + 1].op = "o2"}

Scan ==
  /\ Doing({"aobscan", "aobscanmodule"})
  /\ Found # {}
  /\ symbols' = With(symbols, Line.name, Min(Found))
  /\ job' = LineDone
  /\ UNCHANGED <<mem, owner, user, allocs, outcome>>

ScanFails == Doing({"aobscan", "aobscanmodule"}) /\ Found = {} /\ Fail

Defer ==
  /\ Doing({"unregistersymbol", "dealloc"})
  /\ job' = [LineDone EXCEPT !.deferred = Append(@, Line)]
  /\ UNCHANGED <<mem, owner, user, asm, outcome>>

Collect ==
  /\ Doing({"anchor"} \cup Emission)
  /\ job' = [LineDone EXCEPT !.items = Append(@, Line)]
  /\ UNCHANGED <<mem, owner, user, asm, outcome>>

-----------------------------------------------------------------------------
(* Pass 2: layout.                                                         *)

LineSize(line) == IF line.op = "db" THEN 2 ELSE 1

\* A plausible bug: an anchor always defines its label where the cursor is.
AnchorRedefines(l, name) ==
  IF l.cursor # 0 THEN [l EXCEPT !.symbols = With(@, name, l.cursor)]
  ELSE IF name \in DOMAIN l.symbols THEN [l EXCEPT !.cursor = l.symbols[name]]
  ELSE [l EXCEPT !.ok = FALSE]

\* A plausible bug: a label needs no place to stand for.
AnchorNowhere(l, name) ==
  IF name \in DOMAIN l.symbols THEN [l EXCEPT !.cursor = l.symbols[name]]
  ELSE [l EXCEPT !.symbols = With(@, name, l.cursor)]

\* An anchor goes to the symbol it names, or makes it one.
Anchor(l, name) ==
  IF name \in DOMAIN l.symbols THEN [l EXCEPT !.cursor = l.symbols[name]]
  ELSE IF l.cursor # 0 THEN [l EXCEPT !.symbols = With(@, name, l.cursor)]
  ELSE [l EXCEPT !.ok = FALSE]

Place(l, line) ==
  IF ~l.ok THEN l
  ELSE IF line.op = "anchor" THEN Anchor(l, line.name)
  ELSE IF l.cursor = 0 THEN [l EXCEPT !.ok = FALSE]
  ELSE [l EXCEPT !.placed = Append(@, [at |-> l.cursor, line |-> line]),
                 !.cursor = @ + LineSize(line)]

\* After each of the items.
Laid ==
  LET after[n \in 0..Len(job.items)] ==
        IF n = 0 THEN [symbols |-> symbols, placed |-> <<>>, cursor |-> 0, ok |-> TRUE]
        ELSE Place(after[n - 1], job.items[n])
  IN after[Len(job.items)]

\* The labels a failed layout has defined stay defined.
Layout ==
  /\ job.pc = "commands" /\ job.lines = <<>>
  /\ LET l == Laid
     IN /\ symbols' = l.symbols
        /\ job' = IF l.ok THEN [job EXCEPT !.pc = "apply", !.items = <<>>, !.placed = l.placed]
                  ELSE Idle
        /\ outcome' = IF l.ok THEN outcome ELSE RunFailed
  /\ UNCHANGED <<mem, owner, user, allocs>>

-----------------------------------------------------------------------------
(* Pass 3 writes, pass 4 runs what was deferred.                           *)

InFar(a)     == \E c \in Far : a \in Cells(c)
InReach(a, b) == InFar(a) = InFar(b) /\ (InFar(a) => \E c \in Far : {a, b} \subseteq Cells(c))

Writing    == job.pc = "apply" /\ job.placed # <<>>
NextPlaced == Head(job.placed)
Resolves ==
  NextPlaced.line.op \in Jumps =>
    NextPlaced.line.name \in DOMAIN symbols /\ InReach(NextPlaced.at, symbols[NextPlaced.line.name])
Span       == NextPlaced.at..(NextPlaced.at + LineSize(NextPlaced.line) - 1)
Mapped     == \A a \in Span : a \in Addr /\ mem[attached][a].op # "unmapped"

\* What an emission leaves at cell a; "db" brings the original bytes.
CellWritten(a) ==
  CASE NextPlaced.line.op = "db"     -> Cell(IF a = NextPlaced.at THEN "o1" ELSE "o2")
    [] NextPlaced.line.op = "nop"    -> Cell("nop")
    [] NextPlaced.line.op \in Jumps ->
         [op |-> NextPlaced.line.op, to |-> symbols[NextPlaced.line.name]]

Write ==
  /\ Writing /\ Resolves /\ Mapped
  /\ mem' = [mem EXCEPT ![attached] =
               [a \in Addr |-> IF a \in Span THEN CellWritten(a) ELSE @[a]]]
  /\ job' = [job EXCEPT !.placed = Tail(@)]
  /\ UNCHANGED <<owner, user, asm, outcome>>

\* A plausible bug: a write that failed is left out.
WriteFailsUnnoticed ==
  /\ Writing
  /\ job' = [job EXCEPT !.placed = Tail(@)]
  /\ UNCHANGED <<mem, owner, user, asm, outcome>>

\* The name is unknown, the jump is too long, or write_code fails, which may
\* happen wherever it writes.
WriteFails == Writing /\ Fail

\* Only the last allocation of the name is in symbols, the first one is freed;
\* VirtualFreeEx frees whatever block begins at the address.
Position(name) == SelectInSeq(allocs, LAMBDA x : x.name = name)

\* A plausible bug: the allocation that was freed stays in the list.
DeallocKeepsEntry(name) ==
  LET c == allocs[Position(name)].at
  IN /\ owner' = [owner EXCEPT ![attached][c] = "free"]
     /\ mem' = [mem EXCEPT ![attached] =
                  [a \in Addr |-> IF a \in Cells(c) THEN Cell("unmapped") ELSE @[a]]]
     /\ symbols' = [n \in DOMAIN symbols \ {name} |-> symbols[n]]
     /\ allocs' = allocs

Dealloc(name) ==
  LET c == allocs[Position(name)].at
  IN /\ owner' = [owner EXCEPT ![attached][c] = "free"]
     /\ mem' = [mem EXCEPT ![attached] =
                  [a \in Addr |-> IF a \in Cells(c) THEN Cell("unmapped") ELSE @[a]]]
     /\ symbols' = [n \in DOMAIN symbols \ {name} |-> symbols[n]]
     /\ allocs' = RemoveAt(allocs, Position(name))

Unregister(name) ==
  /\ symbols' = [n \in DOMAIN symbols \ {name} |-> symbols[n]]
  /\ UNCHANGED <<mem, owner, allocs>>

RunDeferred ==
  /\ LET d == Head(job.deferred)
     IN IF d.op = "unregistersymbol" THEN Unregister(d.name)
        ELSE IF Position(d.name) # 0 THEN Dealloc(d.name)
        ELSE UNCHANGED <<mem, owner, asm>>
  /\ job' = [job EXCEPT !.deferred = Tail(@)]
  /\ UNCHANGED <<user, outcome>>

\* A plausible bug: dealloc does not wait for the writes.
CleanupEarly == job.pc = "apply" /\ job.deferred # <<>> /\ RunDeferred

Cleanup ==
  /\ job.pc = "apply" /\ job.placed = <<>> /\ job.deferred # <<>>
  /\ RunDeferred

FinishRun ==
  /\ job.pc = "apply" /\ job.placed = <<>> /\ job.deferred = <<>>
  /\ job' = Idle
  /\ outcome' = RunDone(job.section, "steps")
  /\ UNCHANGED <<mem, owner, user, asm>>

-----------------------------------------------------------------------------
(* The game takes and gives back memory of its own meanwhile.              *)

GameAllocates(p, c) ==
  /\ owner[p][c] = "free"
  /\ owner' = [owner EXCEPT ![p][c] = "game"]
  /\ mem' = [mem EXCEPT ![p] = [a \in Addr |-> IF a \in Cells(c) THEN Cell("data") ELSE @[a]]]
  /\ UNCHANGED <<user, asm, job, outcome>>

GameFrees(p, c) ==
  /\ owner[p][c] = "game"
  /\ owner' = [owner EXCEPT ![p][c] = "free"]
  /\ mem' = [mem EXCEPT ![p] = [a \in Addr |-> IF a \in Cells(c) THEN Cell("unmapped") ELSE @[a]]]
  /\ UNCHANGED <<user, asm, job, outcome>>

Commands == Alloc \/ AllocFails \/ Scan \/ ScanFails \/ Defer \/ Collect
Apply    == Write \/ WriteFails \/ Cleanup \/ FinishRun

AaNext ==
  \/ \E p \in Proc : Attach(p)
  \/ \E s \in Script : ChangeScript(s)
  \/ \E section \in {"enable", "disable"} : RunSection(section)
  \/ Commands
  \/ Layout
  \/ Apply
  \/ \E p \in Proc, c \in Cave : GameAllocates(p, c) \/ GameFrees(p, c)

AaSpec == AaInit /\ [][AaNext]_aaVars

-----------------------------------------------------------------------------
(* Properties.                                                             *)

\* Where the game, executing p's instruction, comes out behind it: the cells
\* from which every path gets there in at most the number of steps a patch has.
Passes(p) ==
  LET back == Site[p] + 2
      from[n \in 0..(CAVE_SIZE + 2)] ==
        IF n = 0 THEN {back}
        ELSE LET known == from[n - 1]
             IN known \cup
                {a \in Addr : LET cell == mem[p][a] IN
                   \/ cell.op \in {"o1", "o2", "nop"} /\ a + 1 \in known
                   \/ cell.op = "jmp" /\ cell.to \in known
                   \/ cell.op = "je" /\ {a + 1, cell.to} \subseteq known}
  IN from[CAVE_SIZE + 2]

\* The game may reach the patched instruction at any moment, also while a
\* section is being applied, has failed halfway or is being undone: it must
\* come out behind it. The order of run_section's passes (writes before
\* deallocations, an error before either) is what ensures it.
GameSurvives == \A p \in Proc : Site[p] \in Passes(p)

\* "Enable aplica, Disable desfaz" (assembler_panel): an Enable that reports success
\* with other than "(secao vazia)" in its log has turned the instruction into a jump the
\* game survives.
EnableApplies ==
  outcome.status = "enabled" /\ outcome.log # "(secao vazia)" =>
    /\ mem[attached][Site[attached]].op = "jmp"
    /\ Site[attached] \in Passes(attached)

\* ... and a Disable that does leaves the original instruction, also after an Enable
\* that failed halfway, or after two.
DisableUndoes ==
  outcome.status = "disabled" /\ outcome.log # "(secao vazia)" =>
    /\ mem[attached][Site[attached]].op = "o1"
    /\ mem[attached][Site[attached] + 1].op = "o2"

\* The assembler writes to and frees blocks it allocated, never those the game
\* did, even if the game now holds a block that the assembler gave back.
GameBlocksUntouched ==
  [][\A p \in Proc, c \in Cave : owner[p][c] = "game" =>
       \/ owner'[p][c] = "game" /\ \A a \in Cells(c) : mem'[p][a] = mem[p][a]
       \/ GameFrees(p, c)]_aaVars
=============================================================================
