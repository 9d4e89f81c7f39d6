-------------------------------- MODULE MCData --------------------------------
(* What the program does to memory, traffic, files and its own text, for the   *)
(* components whose properties are of safety alone: the assembler, the         *)
(* requests that pass the proxy, its certification authority, the capture, the *)
(* pointer scan, the installer; and three computations: the scans of an        *)
(* integer kept as a double, an instruction to encode, a table to import. They *)
(* share no state in the program, so a behaviour exercises one of them, named  *)
(* by `section`, which never changes; the variables of the others keep one     *)
(* value. The last two computations keep no state: a first state is what is    *)
(* given to them.                                                              *)
EXTENDS MCAutoAssembler, ScanPrecision, EncoderInputs, Proxy, CaStore, Capture, PointerScan,
        Installer

VARIABLES section, table

Ce == INSTANCE CeTables WITH ModuleBases <- [game |-> 100]

Regions == <<0..3, 6..9>>

inputs == <<section, insn, table>>
all    == <<inputs, aaVars, prVars, vars, caVars, capVars, psVars, inVars>>

\* The inputs are of the kind that is proved about (Conversions_proofs).
ASSUME InputsAreInstructions == Instructions \subseteq Instruction

Nothing == [m |-> "nop", ops |-> <<>>]

NothingScanned ==
  now = 0 /\ seen = 0 /\ last = 0 /\ source = "match" /\ verdict = NoVerdict

NoPointer ==
  /\ memory = <<>> /\ target = 0 /\ left = <<>> /\ map = {} /\ stack = <<>> /\ found = <<>>
  /\ cancel = FALSE /\ phase = "idle" /\ whole = FALSE /\ pokes = 0

DataInit ==
  /\ section \in {"assembler", "requests", "ca", "capture", "pointer", "installer",
                  "scans", "encoder", "import"}
  /\ AaInit /\ (section # "assembler" => script = Empty)
  /\ Init /\ CaInit /\ CapInit
  /\ IF section = "pointer" THEN PsInit ELSE NoPointer
  /\ InInit /\ dir = (CHOOSE d \in Dir : TRUE)
  /\ IF section = "scans" THEN PrInit ELSE NothingScanned
  /\ IF section = "encoder" THEN insn \in Instructions ELSE insn = Nothing
  /\ IF section = "import" THEN table \in Ce!Tables ELSE table = <<>>

In(s) == section = s /\ UNCHANGED inputs
NoAa  == UNCHANGED aaVars
NoPr  == UNCHANGED prVars
NoPx  == UNCHANGED vars
NoCa  == UNCHANGED caVars
NoCap == UNCHANGED capVars
NoPs  == UNCHANGED psVars
NoIn  == UNCHANGED inVars

OnlyAssembler == In("assembler") /\ NoPr /\ NoPx /\ NoCa /\ NoCap /\ NoPs /\ NoIn
OnlyScans     == In("scans")     /\ NoAa /\ NoPx /\ NoCa /\ NoCap /\ NoPs /\ NoIn
\* The repeater meets the requests in the accept loop only (MCBackground has it).
OnlyRequests  == In("requests")  /\ NoAa /\ NoPr /\ NoCa /\ NoCap /\ NoPs /\ NoIn
OnlyCa        == In("ca")        /\ NoAa /\ NoPr /\ NoPx /\ NoCap /\ NoPs /\ NoIn
OnlyCapture   == In("capture")   /\ NoAa /\ NoPr /\ NoPx /\ NoCa /\ NoPs /\ NoIn
OnlyPointer   == In("pointer")   /\ NoAa /\ NoPr /\ NoPx /\ NoCa /\ NoCap /\ NoIn
OnlyInstaller == In("installer") /\ NoAa /\ NoPr /\ NoPx /\ NoCa /\ NoCap /\ NoPs

\* Bound: in the process that blocks injection, where no section runs, the game takes no
\* memory.
Quiet == \A p \in Blocked : owner'[p] = owner[p]

DataNext ==
  \/ OnlyAssembler /\ AaNext /\ Quiet
  \/ OnlyScans /\ PrNext
  \/ OnlyRequests /\ Next /\ repeater' = repeater
  \/ OnlyCa /\ CaNext
  \/ OnlyCapture /\ CapNext
  \/ OnlyPointer /\ PsNext
  \/ OnlyInstaller /\ InNext

DataSpec == DataInit /\ [][DataNext]_all

\* Every variable of the component at work keeps its type.
DataTypeOK ==
  /\ section = "assembler" => AaTypeOK
  /\ section = "requests" => TypeOK
  /\ section = "ca" => CaTypeOK
  /\ section = "capture" => CapTypeOK
  /\ section = "pointer" => PsTypeOK
  /\ section = "installer" => InTypeOK

\* Ce!ImportKeepsTable: an imported table is what the file says.
ImportKeepsTable == section = "import" => Ce!ImportKeepsTable
=============================================================================
