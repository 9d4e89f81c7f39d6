# A verification development for Quarry

Quarry (repository OpenCE) is a Windows memory scanner in the manner of Cheat
Engine, written in Rust with an egui front end: value searches over another
process, a cheat table with freezing, pointer scans, an auto assembler, a
watchpoint debugger, and tools for a game's traffic (capture, redirection, an
HTTP(S) proxy, clients of the League client's local API). This directory holds
TLA+ models of its logic, configurations for TLC, and theorems checked by TLAPS.

All paths are relative to the repository; `main.rs`, `scan.rs` and so on are in
`src/src/`.

## 1. The system

One GUI thread owns `App` (main.rs). Each frame `App::update` polls the receivers
of the background jobs and draws the panels; a click runs an operation of `App` to
its end. Long work is done by threads the operations spawn. They are joined to the
GUI by an `mpsc` channel for the result, atomics for progress and cancelling, or
a mutex around shared state. The GUI never waits for a job: it only calls
`try_recv`.

| component | state | operations | interacts through | what is hard | what makes it correct |
|---|---|---|---|---|---|
| search session (main.rs, scan.rs) | matches, `has_scanned`, snapshot of an unknown-value search, two pending tasks | first scan, unknown first scan, next scan, new search, cancel, attach | channel and cancel flag of each task | scans interleave with the process, with attach and with cancel; a next scan takes the list away | a scan computes what its comparison says; results are neither lost nor mixed; a pending scan is collected |
| chunked reading (memory.rs) | position in a region | read a block, skip a hole | callback into the scan | overlap, alignment, partial reads | no match lost, none reported twice |
| comparison (scan.rs, value.rs) | `Match.last` (an `f64`) | compare, compare_pair | — | rounding of 64-bit integers | a verdict is the one the integers give |
| cheat table and freezer (main.rs, hotkeys.rs) | table, list of frozen targets, freezer threads | add, remove, edit, freeze, load, attach; a pass every 40 ms | mutex around the list, stop flag per thread | attach while a freezer is in its pass; a list built for another process | one freezer, frozen entries and only these are written |
| hotkey thread (hotkeys.rs) | queue of ids | press, poll | channel | ids pile up while no frame is drawn | an id does what its button does |
| auto assembler (assembler.rs) | symbols and allocations kept between runs | Enable, Disable | the target's memory | a run that fails halfway, symbols older than the process, a game that runs meanwhile | the game survives, Disable undoes Enable |
| x86-64 encoder (asm_x86.rs) | — | size and encode a line | called by the assembler, which lays out code by the size | prefixes, ModRM, SIB, displacements and immediates that depend on each other | the bytes mean what was written, and are as many as were announced |
| pointer scan (pointer.rs) | map of pointers | search, resolve, validate | one job thread | limits and cycles | every path found resolves to the target, and no path within the limits is missed |
| AOB scan, injection, processes (inject.rs, process.rs) | — | scan, write code, allocate, inject a DLL | Windows calls | partial failure of a sequence of calls | handles and memory are given back |
| watchpoint debugger (debugger.rs) | hits, debug registers of all threads | start, event loop, stop | mutex, stop flag, debug events | threads created and ended meanwhile; detaching with registers armed; starting twice | no access escapes the watch, each is counted once, the game survives it |
| packet capture (capture.rs) | conversations, packets, totals | ingest, refresh process table, snapshot | two mutexes and atomics | limits, snapshots that are not atomic | totals agree with what is kept |
| traffic redirection (redirect.rs) | port set, NAT map, status | divert, bridge, refresh ports, stop | shared maps, three threads and two per connection | stopping a blocked receive; reuse of a port | a packet goes where its connection belongs; all threads end |
| HTTP(S) proxy (proxy.rs) | history, queue of intercepted items, rules, CA files | proxy, intercept, decide, repeat | mutexes, oneshot channels | a client that leaves while its item waits; a proxy restarted under its panel; a crash between two files | what is held leaves only when allowed, what is sent on is the text shown; the CA never changes |
| LCU client, event stream (lcu.rs, lcu_ws.rs) | last response; event buffer | request; connect, receive | channel; mutex | limits of the buffer, end of the thread | a slot is free again when its work is over |
| script engine (script.rs) | output of a run | run | channel | ownership of the output | output and error reach the panel |
| Cheat Engine import (ce_import.rs) | stack of open entries | import a .CT file | appends to the cheat table | entries nest, elements come in any order | an entry gets its own elements and none of another's |
| protection classifier, disassembler, Unity helpers (anticheat.rs, disasm.rs, unity.rs) | — | pure functions of their input | — | — | — |
| installer (installer/setup) | step of the wizard, progress; files, shortcuts and registry | install, uninstall | mutex; a command that runs two seconds later | a step that fails after others succeeded, a window closed meanwhile | a success is complete; what is listed can be removed |
| GUI panels (main.rs) | edit fields | — | — | — | a button is enabled only when its operation may run |

`PROJECT.json` repeats the list with the state of each ("components") and names,
line by line, what is hard to test in each ("hazards").

## 2. What is modelled

### Search, Scans, ScanSession, SearchHistory — the search session

State: `attached`, `matches`, `hasScanned`, `snapshot` are the fields of `App`;
`scanTask` and `unknownTask` are the pending task together with the worker at the
other end of its channel (`todo` is what its loop has not reached, `out` its
result so far, `cancel` the shared flag). `mem` is the memory of the processes,
which changes at any step. Actions: one per button of the search tab with the
condition that enables it (`FirstScan`, `UnknownFirst`, `NextScan`, `UnknownNext`,
`NewSearch`, `CancelScan`, `CancelUnknown`), `Attach`, one turn of each worker's
loop (`FirstScanTurn`, `NextScanTurn`, `UnknownNextTurn`, `SnapshotTurn`), its end
(`ScanSend`, `SnapshotSend`), its death, and the two polls. `WorkerDies` is a
panic of the thread, which the polls handle (`TryRecvError::Disconnected`).

Abstracted: an address is a region that holds one value; regions are of equal
size, so the limit `SNAP_MAX_TOTAL` is a number of regions (`SnapMax`); the value
type is fixed. `OneScanAtATime`, `NextScanFilters`, `NothingOverwritten`,
`ResultsAreScanned`, `ScanExact`, `SnapshotExact` and `EverythingCollected` are
explained where they are defined. `ScanExact` and
`SnapshotExact` relate the loop, with its interleaved cancels and polls, to one
look at the whole memory. They are stated for scans during which the process left
its memory alone: otherwise there is no one memory to compare with.

What is promised when the process does write is `Search`: one pending scan, no workers, no
polls, and an answer given in one step, which for every region is right for some value
the region held while the scan was pending (`Answers`). A cancelled scan may leave regions
unscanned, a full snapshot may leave them out, and nothing else may be missing. `SearchHistory`
shows that `ScanSession` implements it. The variable `held` it adds remembers what the regions
have held (`Remember` sets it in every step and hinders none); `Pending` is the search a
task, of either kind, stands for. Turns, ends and deaths of workers are no steps of `Search`;
a poll is its `Deliver` or its `Fail`. `Scans` holds what both speak of: comparisons, values
and lists of matches.

### ChunkedScan — reading a region

State: the position of `read_chunked` and of the loop in its callback. The first
state chooses the item size, `fast` (aligned items only), the positions that
match and the pages that cannot be read; every outcome Windows may give to a read
that meets such a page is possible, and `tight` singles out the best one (the
read stops at the hole and reports what it has). The page and block sizes are
constants. A text search is the same walk with `fast` off.

### ScanPrecision — comparing with the previous value

One match, followed through next scans while its process writes it. An `f64` is a
number of `MANTISSA` bits, rounded half to even; a value has `WIDTH` bits.

### Freezer — the cheat table and its threads

State: table, frozen entries and edit fields of the GUI; `list`, the shared
`frozen_targets`; the freezer threads with their stop flags; the queue of hotkey
ids. A pass over the list and a rebuild of it each hold the mutex from end to
end, so each is one action. The stop flag is outside of it: `CheckStop` and
`Pass` are two actions. A restarted game is another process; `Pointer` entries
keep the base of the module in the process the list was built for. `orphanPasses` counts
passes begun after the stop flag was set; only properties read it.

### AutoAssembler — run_section

State: `symbols` and `allocs` (`AsmState`), the job of `run_section` with its four
passes, the cells of each process, who holds each block. A cell holds one
instruction, so a patch is a few cells: what the model tells apart is whether the
game, executing, comes out behind the patched instruction. One command or one write
is one step, because the game runs between them; `run_section` itself runs in the GUI
thread, so nothing else of the GUI does. A line can fail wherever the code returns
an error, and a write wherever it writes. `Found`, `Alloc`, `Write`, `Dealloc` act
on the memory of the process attached now, whatever process the symbols come from.
`je` stands for every relative branch and `db` for every fixed sequence of bytes.
Processes in `Blocked` are those whose protection disables the panel and the hotkeys.
`outcome` is what the status bar and the log say of the last run: a section that is empty or
missing applies nothing and is a success all the same ("executado (1 passos)"), whose log
says `(secao vazia)`.
A script is any two sequences of `ScriptLine`: an operation the program knows and the
symbols (`Name`) it takes; the constant `Script` says which scripts a user has.

The scripts of `MCAutoAssembler` are the README's example, the editor's
template, the template with nothing in it, and one with a branch in its cave.

### Proxy, Interception, CaStore — the HTTP(S) proxy

`Proxy`: `handle`, `editorId`, `editor` and `repeater` are fields of `App`
(`proxy`, `icpt_id`, `icpt_headers` with `icpt_body`, `rep_rx`); `intercept`,
`counter`, `pending` and `flows` are those of `Shared`, of which every start has a new
one: a start is a *generation*. `serve[g]` is its accept loop, and `pc`, `item`,
`decision`, `follow` are the task of each request (`forward`), the last three its
local variables and its oneshot channel. Actions: `Start`, `Stop`, `Toggle`, `Frame` (one
frame of `proxy_intercept`, with the button pressed in it), `ClearHistory`, the
repeater's `Shoot`, `TakeShot`, `AnswerShot`, `PollShot`; the loop's `Bind`,
`BindFails`, `Shutdown`, which drops every task of the runtime; the task's `Arrive`,
`Read`, `TakeDecision`, `Send`, `Reply`, `TakeReplyDecision`; and `Leave`, a client
that disconnects at any point, which drops its task and leaves its item in the
queue. A text is known by the item it was shown under, not by its content.

`Interception` is the abstract specification: one `stage` per request, and the order
in which stages may follow each other (held, allowed, sent, held again, released,
answered, with refused and gone). `Proxy` implements it under the refinement mapping
`Stage`: a held request is "allowed" from the moment the user's verdict is in the channel,
not when the task reads it. The property `Interception` of the run is that
specification; it is also proved.

`CaStore`: the two files and the steps of `load_or_create_ca`, any of which may fail and
leave part of a file, with the program killed between any two. Each start has a thread of its
own; "Parar" only drops the handle of the panel, so a second start may look for the files,
generate and write while the first still does (`StartCa`, `Look`, `WriteCert`, `WriteKey`,
`DropHandle`). `first` and `firstCert` remember the files at the first success of a start that
was alone; only the property reads them.

### Redirect — traffic redirection

State: the stop flag, the refresher with the ports it `seen` and has not published,
`target_ports`, the divert thread and the packets the driver holds, the NAT map, the
listener, and for every connection what its process sees (`conn`), its local
port and its bridge of two directions, each of which is reading or writing (`pump`): a read
returns every 200 ms and the loop looks at the stop flag, a write (`write_all`) returns when
the other end has read, or with an error, and never otherwise (`DirectionReads`,
`DirectionWrites`, `DirectionStops`). A process that closes gives its port back, so
`Connect` may take a port that the maps still remember. The driver and TCP are
modelled from what the code expects of them (delivery in order, a reset for a packet
nobody takes). `late` counts packets rewritten after the flag was set.

### Capture — packet capture and its sessions

State: `CaptureShared` (the packet total, the conversations with their counts and
their rings, who owns them), the packet the thread is in the middle of
(`IngestCounts`, `IngestAggregates`, `IngestStores`: three locks), the copy
`snapshot_session` is in the middle of (`CopyConvs`, `CopyPackets`, `SaveSession`:
three accesses) and the saved sessions.

### Encoder, X86, Encoding, EncoderInputs — the encoder

`Encoder` translates `parse`, `Insn::size` and `Insn::build`; `X86` decodes bytes as a
processor in 64-bit mode does, read off the opcode map and not off the encoder;
`Encoding` compares them: what the decoder reads is what the text says, in as many
bytes as `size` announced. It also says what can be written: `Instruction`, any mnemonic
with any sequence of operands, each a register, an address of any sequence of terms,
or an immediate. `EncoderInputs` is the finite part of it that TLC runs through: every
mnemonic, every shape of operands, the register numbers that are special in ModRM or SIB
(4, 5, 12, 13) and ordinary ones, displacements and immediates at the ends of a byte and of a
dword, scales at the end of a byte. That TLC's set is a part of the other is an ASSUME of `MCData`.

### PointerScan

The map is built region by region while the game writes (`MapRegion`, `Poke`); then
the recursion `search_rec` is a stack of calls (`VisitStatic`, `VisitHeap`, `Return`)
that may be cancelled at any call. The reference, `Chains`, is a set
comprehension over sequences of addresses.

### Watch — the watchpoint debugger

One thread per watch (`AttachDebugger`, `CheckQuit`, `WaitTimesOut`,
`HandleEvent`) and a game whose threads come, go and touch the watched address
(`CreateThread`, `ExitThread`, `Access`, `GameOver`). Windows is modelled from what the
code relies on: one debugger per process, creation of a thread reported before
it runs, the game suspended while an event waits. `CloseQuarry` ends the program with every
loop in it; Windows detaches its debugger and leaves the game alive, its registers armed.

### Jobs, EventFeed — one-slot jobs and the LCU events

`Jobs`: the five kinds of work that a panel starts and a later frame collects; the
state is that of one kind, because they share nothing.
`EventFeed`: feeds that may overlap when one is closed and the next opened, the buffer
with its limit, the panic on a cut inside a character.

### CeImport, CeTables — import of Cheat Engine tables

`CeImport` is the automaton with its stack of open entries, then `finalize` and
`import_ct_dialog`. `CeTables` holds tables as trees, their tokens, and what
importing them should give, stated on the tree.

### Installer

The wizard, its worker step by step, the uninstaller step by step and the command that
removes the folder later. Each step of `do_install` may fail and ends the installation; each
step of `do_uninstall` may fail and the next follows all the same, because its results are
ignored. Each window may be closed, which ends the process, and a file that was being
written is then damaged and counts as gone (`BrokenOff`, for a step that fails and for one
that is broken off). Runs of both programs may overlap.

### MCScanning, MCBackground, MCData

Components that share no state are checked in one run: the first state picks a
`section` and the behaviour is one of that component alone, so the state space is
the sum, not the product, of theirs. The three modules extend the components (and
`MCScanSession`, `MCChunkedScan`, `MCFreezer`, `MCAutoAssembler`, which give them values), so
that the theorems about each carry over. `MCScanning` has the two halves of a search,
`MCBackground` the threads that must end when they are told to, with the fairness of each, and
`MCData` the components whose properties are of safety alone, among them two conversions that
keep no state, the encoder and the import: a first state is what is given to them. The proxy
is in two sections, its repeater in `MCBackground` and its requests in `MCData`: they meet
only in the accept loop, which is in both.

## 3. The runs

| run | question | bounds, and why they are enough | result |
|---|---|---|---|
| scanning | **session:** do scans, cancels, polls, attach and a process that writes ever mix it up; is every answer right for values held during the scan, exact when nothing was written, and collected; is the whole what `Search` says. **walk:** is a region walked without loss, repetition or false match, to its end | **session:** one process, two writable regions, two values, a snapshot of one region, one comparison of each of the three ways a worker uses the previous value (not at all, as a number, as a text). A region is read in one step, so two make one that was reached and one that was not; a limit of one with two candidates makes the snapshot stop early. **walk:** page of two bytes, block of two pages, region of two and a half blocks; items of 1 to 4 bytes, up to the length of a block; every set of pages unreadable; at most two matches less than a block apart, or every item (two matches further apart are not in one read). About 986 000 states | holds |
| background | **freezer:** is there one, does it write what is frozen and nothing else, does a stopped one end. **repeater:** does a shot come back. **redirect:** does each connection reach its server, does a dropped redirection end. **watch:** does no access escape it. **job, feed:** does background work end | **freezer:** two processes, two threads (one is left while the other starts), one entry with a pointer whose module only one of the processes has, two values, two hotkeys waiting. **repeater:** two generations. **redirect:** two connections, one of them the target's, two ports and two packets in flight (a port can be reused while a packet of its old owner waits). **watch:** two threads, two watches, three accesses. **job:** three requests. **feed:** two feeds, buffer of two, three events. About 248 000 states | holds |
| data | **assembler:** does the game survive scripts being enabled, disabled, exchanged and failing. **requests:** is the interception what `Interception` says, is the text sent on the one shown. **ca:** does it stay. **capture:** is a saved one consistent. **pointer:** are chains exact. **installer:** is an installation sound. **scans:** when is the verdict on an integer kept as a double right. **encoder:** does an instruction mean what is written. **import:** is an imported table its file | **assembler:** module of six cells, three blocks of four cells of which one is out of reach of a jump, four scripts, a second process that is protected and in which the game takes no memory (`Quiet`: no run touches it). A block is as long as the longest cave. **requests:** two, in two generations, a history of one. **ca:** three starts: two that overlap and one after them. **capture:** three packets with one conversation kept and rings of two (each limit is passed), two captures. **pointer:** four aligned addresses in two regions, two of them static, three values, two targets, chains of up to three, three results, two writes of the game. **installer:** two folders, three runs. **scans:** 4-bit values, mantissa of 2 bits: values with one, two and four units to a double, ties included. **encoder:** the instructions of `EncoderInputs`. **import:** tables nested two deep, with every kind of entry at every depth. About 658 000 states | holds |
| scan_stale_snapshot | does a normal search leave no snapshot | two regions | violated, finding 1 |
| chunked_scan_loss | is nothing lost next to an unreadable page | page of four bytes, items of four bytes | violated, finding 2 |
| scan_precision_loss | is the verdict on a 64-bit integer always right | values of 5 bits, mantissa of 3 | violated, finding 3 |
| freezer_restart | does freezing survive a restart of the game | two processes, two entries | violated, finding 4 |
| assembler_restart | does the game survive scripts after a restart | two unprotected processes, one block | violated, finding 5 |
| editor_item | does the editor load every new item | two requests, two generations | violated, finding 6 |
| watch_closing | does the game survive the end of a watch | two threads, one watch, two accesses | violated, finding 7 |
| redirect_drop | do connections end with the redirection | those of `background` | violated, finding 8 |
| encoder_forms | does an accepted instruction of the listed forms mean what is written | the instructions of `EncoderInputs` | violated, findings 9 to 13 |

Deadlock is not checked in the passing runs: in each of them a system may stop by design (a walk that is done, a
match that was dropped, a proxy or a redirection that is over, a conversion).

In the section `assembler` the only process a script runs on is the first one: with two
such processes `GameSurvives` fails, which is finding 5, and every other
behaviour is covered by one. What the runs' scripts leave out is named in the
hazards: a label inside a cave, and `aobscan` over the whole process. With either,
a second Enable goes wrong for the same reason as finding 5 does: names stay
bound to what they were, and memory to what was written. Longer caves, more blocks and
other scripts of the documented form are what the theorems of section 5 are for.

### Fairness

The session: weak fairness of each worker's next step and of each poll. The
operating system schedules the threads; `update` asks for a repaint while a task is
pending, and every frame polls. No fairness is given to the user or the process. The walk
is a loop in one thread.

`MCBackground`: weak fairness of each freezer, a loop with a sleep (a mutex held only for a
rebuild does not keep it out); of an accept loop that is told to stop or can
bind, of the poll of the repeater (frames are drawn), of the refresher, of the divert
thread when a packet is there (it blocks otherwise: `DroppedRedirectEnds` says so),
of the listener's end, of a bridge that connects, and of a direction that *reads* after the stop
flag was set (its reads time out). A direction that writes has none: `write_all` may wait
for ever for an end that does not read, which is finding 8, and `DroppedRedirectEnds` says
of such a bridge only that no direction of it is reading. Weak fairness too of the
debug loop (its wait has a time limit), of the polls of the jobs, of the threads of the two
scans, whose work is bounded, and of a connected feed's look at its flag (its read has
a time limit). Clients, servers and the user owe nothing, so neither a
held request nor a shot to a silent server is promised an end; a request to a silent client
and a feed that is still connecting have no fairness. No property needs strong fairness.

A step of one section disables those of the others for good, so a disjunction of steps
of several sections is fair to each of them; that is how the specifications write it. Several
of the liveness properties have the form `[]<>(stopped => ended)`: a flag is never taken back
and what has ended stays so, and then it says what `stopped ~> ended` does.

## 4. Where the code and what is said about it part

1. **A first scan keeps an older snapshot** (`do_first_scan`, main.rs:1507). The field
   is documented as "snapshot ativo da busca de valor desconhecido (None = busca
   normal)" (main.rs:240); `do_first_scan` does not clear it, so the next scan
   compares with the old snapshot and ignores the matches on screen.
2. **Matches next to unreadable pages are lost** (memory.rs:88). The comment says
   "um match nao pode cruzar uma pagina nao mapeada, entao nao ha perda". When the first
   byte of a block is unreadable the walk moves by 1 + 0x1000 bytes and misses the
   item at the start of the page after it. `CompleteAroundHoles` says when
   nothing is lost.
3. **64-bit integers are compared as doubles** (scan.rs:418) with the value of the
   previous scan; the README (src/README.md:24) says "comparados com precisão
   total". `ErrorIsSmall` bounds the error.
4. **Frozen entries are not frozen after attaching** (main.rs:1005), until the
   table is edited: `attach` does not rebuild the list.
5. **Symbols of the auto assembler outlive the process** (assembler.rs:461): after
   attaching to a restarted game, Enable jumps to an address of the old one.
6. **The editor does not load every new item** (main.rs:5160): the comment above says
   "Carrega os buffers editáveis quando chega um item novo", but the ids are compared, which a
   restarted proxy counts from one again. The first item with the id that was in the editor is
   shown with, and sent as, the text of the old one. `EditorHoldsItem` says that this is
   the only way.
7. **A watch that ends may end the game** (debugger.rs:188): "fechar o Quarry NAO deve matar
   o alvo" (debugger.rs:111) and "Fechar o Quarry não mata o alvo" (README.md:329), but the
   debugger detaches without clearing the registers it armed, and a single step may be
   waiting. The same holds when the program is closed (`CloseQuarry`): not killing the target on
   exit does not disarm it. While a watch is attached, the game is safe
   (`WatchSeesEveryAccess`).
8. **A dropped redirection keeps bridges that write** (redirect.rs:441, 466): "O Drop encerra
   tudo" (redirect.rs:141), but only reads have a timeout.
9. **movd and movq take the width of the register** (asm_x86.rs:578, class `OtherMove`): the
   comment says "REX.W para movq".
10. **movzx and movsx from spl, bpl, sil, dil read ah to bh** (asm_x86.rs:917, `HighByte`): the
    header lists "movzx/movsx reg, r/m8|r/m16" (asm_x86.rs:12), and `parse_reg8` promises the
    low byte (787).
11. **A conversion accepts the wrong kind of register** (asm_x86.rs:547, `WrongConversion`):
    "cvtsi2ss/cvtsi2sd recebem GP como origem" (538).
12. **The size of a word in memory is ignored** (asm_x86.rs:548, `SizeIgnored`):
    "cvtsi2ss/cvtsi2sd xmm, r/m32|64" (549), but memory is always read as 32 bits.
13. **A scale is cut to eight bits** (asm_x86.rs:394, `ScaleCut`): "escala 1/2/4/8" (22), but
    258 is accepted as two.

Findings 9 to 13 are classes of one property, `ListedFormsAreRight`, of which TLC shows the
first instruction it meets; that every class has instructions that are misread, and that no
other instruction is, is `MeansWhatIsWritten` (each class has members in `EncoderInputs`).

Two more disagreements are outside of what is modelled and have no run. The output of a
script is always empty: the engine still shares it when it is read (script.rs:87), where the
header says "print(x) / debug(x) -> vao para a saida do script" (script.rs:20). And a number
without a prefix is decimal for the README ("sem prefixo = decimal", README.md:177) and
hexadecimal for the encoder (asm_x86.rs:22).

### Behaviours the models show and we found no promise about

They are part of the models, and where a property would otherwise be false it says so.

* Proxy: the item of a client that left stays in the queue until it is decided on. Dropped
  replies are not in the history.
* Auto assembler: Enable or Disable of a section that is empty or missing is a success in the
  status bar, and only the log says `(secao vazia)`. The panel's "Enable aplica, Disable desfaz"
  (main.rs:3401) is stated by `EnableApplies` and `DisableUndoes` for a success whose log
  lists steps.
* CA: before any start has succeeded alone, a certificate that was shown may be replaced
  after a crash, and two starts at once may leave the certificate of one with the key of
  the other; then the pair stays like that, and later starts sign with the key
  (`CaStable`). A key file that was torn is an error of every later start.
* Redirect: a connection whose first packets passed before its port was known breaks
  when later ones are rewritten; the refresher may overwrite the status of an error; an idle
  connection may be cut by a read timeout.
* Watch: stopping and starting at once meets the old debugger, and the new watch fails.
* Jobs: `poll_script_task` is the one poll that ignores a dead thread; `do_request` has
  no time limit; `attach` leaves the pending pointer, pattern and script jobs alone.
* EventFeed: an event cut inside a character ends the thread with the status still
  "conectado".
* CE import: a description inside a hotkey replaces that of its entry; nested
  entries come before the one they are nested in.
* Installer: the delayed removal takes the files of an installation made meanwhile
  (`overlap`). A command can be left in the registry that leads nowhere (`orphaned`): when
  an installation over an older one is broken off while it copies the uninstaller, and when
  the uninstaller could not delete the key and removes the folder all the same.
* Encoder: four more classes in which the bytes do not mean what is written, beside the five
  that are findings: `SignedImm` (an immediate with bit 31 set is sign-extended to a
  qword), `LostRegister` (a third register in an address replaces the second),
  `NarrowAddress` (a 32-bit register in an address is taken for the 64-bit one) and
  `OperandIgnored` (operands of an instruction that has none). They are written in forms
  the program does not list. Each is defined in `Encoding`.

## 5. What is proved

TLAPS proves the following for every value of the constants that satisfies the named
assumption of the module (`ConstantsAssumption`, `FzAssumption`, `AaAssumption`,
`PrecisionAssumption`, `CaptureConstants`,
`InstallerConstants`, `PointerConstants`, `WatchConstants`, `JobsConstants`,
`FeedConstants`): any number of processes, regions, values,
entries, threads, any size of page, block and item. A theorem that needs more of the
constants than its module assumes says so in its own ASSUME: in `CaStore` and `Redirect`,
that bounds are natural numbers and that the values standing for "none" are none of the
others; in `AutoAssembler`, what is said below.

### ScanSession_proofs

`TypeOK`, `OneScanAtATime`, `NextScanFilters`, `NothingOverwritten` and `ResultsAreScanned` are
invariants. The inductive invariant `IInv` adds `NextScanSplits`: the addresses a next
scan took, those it has not reached and those it kept stay apart, which is what makes
the answer to a cancel a restriction of the list. `NothingOverwritten` is inductive
only together with `OneScanAtATime`: the poll of a snapshot would clear the matches
otherwise.

`ScanExact` and `SnapshotExact` follow from `ResultInv`. `ScanCorrect` is the loop invariant:
as long as the memory was left alone, `out` is what the reference definition gives on
the addresses reached. `SnapshotCorrect` adds that a limit was met only when as many
regions were kept; cardinalities come from `FiniteSetTheorems`.

`ImplementsSearch`: `HistorySpec => Search`. `SearchInv` adds to `ResultInv` that the history
holds what the regions of the scanned process hold now (`HeldInv`), and that what a running
worker has found is right, and what a worker has sent is an answer, for the values in the history
(`ScanJudged`, `SnapshotJudged`). A turn judges a region by its content now, which is in
the history; a write or a cancel only makes more answers admissible (`RightGrows`, `AnswersGrow`).

### ChunkedScan_proofs

`CkTypeOK`, `SoundReport` (from `OnlyReportable` and `TestedOnce`), `CompleteWithoutHoles` and
`CompleteAroundHoles`. `WalkInv` says where in its block the walk is and that what was
reported lies before it or ends inside the part already covered. `CompleteInv` says, where
the walk is `Favourable` (no holes, or best-case reads, items longer than a byte, and holes apart from each
other and from the first page), that every reportable item before the position of each phase was reported: a block starts at a
byte that can be read, a short read stopped at a hole, and a step of a page over a hole
skips only items that touch it. The arithmetic of alignment is in lemmas on multiples: the
first item of a block is the first multiple of the size in it, and two multiples less
than one size apart are equal.

### Conversions_proofs

Of `ScanPrecision`: `ExactWhenRepresentable`, `ErrorIsSmall`, and that integers below `2^MANTISSA` are never
misjudged, for every width and mantissa. `PrecisionInv` says that `Match.last` is the
rounding of the last value kept and that the verdict was taken with it (`Judged`). What
it rests on: `Ulp` is the least power of two that brings a value into the mantissa
(that there is one is proved by well-founded induction), rounding moves a value by at most half of
it, and a comparison with a previous value that is off by at most d goes wrong only for
a value at most d from the right one.

Of the encoder: `EncoderIsRight`, that is `MeansWhatIsWritten` for every instruction of
`Instruction`: whatever the mnemonic, the number of operands, the registers, sizes and
immediates, the number and order of the terms of an address, their displacements and scales.
An instruction that is accepted decodes to what is written if, and only if, it is in
none of the nine classes of section 4 (five of them findings), so the classes are neither too few nor too wide. The
argument goes from the bytes to the text:

* Prefixes: what precedes the opcode is read as it was pushed, and `push_rex` leaves REX out
  exactly when the decoder's default is right.
* Address: for each of the forms of ModRM, SIB and displacement, the decoder finds the
  base, index, scale and displacement that `encode_mem` was given. The special cases
  (base 4 and 12 need a SIB, base 5 and 13 a displacement, index 4 is none) are cases
  here and nowhere else.
* `EmittedIsRead` puts both together: what `emit_rm` and `emit_sse` write is read back,
  whatever follows it.
* `AddressIsRight`: what `parse_mem` makes of the terms, from left to right, is the sum
  that is written. The sums are folds over sequences; the proof looks at the first
  length at which they would differ, and at sums of which at most two terms count.
* What each opcode means (`OneByteMeans`, `TwoBytesMean`), apart from where its operands come
  from.
* Which parser a mnemonic goes to, and for each, that what it emits means what is written or
  the instruction is misread. An operand that is accepted has one of few shapes, so the nine
  classes reduce to few in each family.
* Lengths: the bytes are as many with the immediate as with zero, because its width is part of the form.

The constants of the encoder are numbers, so the theorem has no assumption but that the instruction
is one. Not in the model are addresses with a scale below zero (`-4*rcx`; it is cut to eight
bits like the others, and two that cancel can be right by chance) and addresses whose displacements add up to
more than an i64, where the sum wraps.

### Freezer_proofs

`FzTypeOK`, `Handover` (from `OneFreezer` and `OrphanWritesOnce`), `OnlyFrozenWritten`.
`ThreadHistory` counts, for each thread, what its place in the loop says about the passes
it may have begun late: none before the flag, none while it has only been checked, at
most one afterwards. `OneCurrent` says two threads that were not told to stop are the same.

### AutoAssembler_proofs

`AaTypeOK` for all scripts. `GameSurvives`, `EnableApplies`, `DisableUndoes` and
`GameBlocksUntouched` under two hypotheses:

* `OneTarget`: at most one process is not blocked. Finding 5 is that this is needed; the
  run `assembler_restart` is the counterexample without it.
* `AllDocumented`: a script's Enable is any commands that allocate the cave and scan for
  the instruction, then a cave of any length that ends in a jump back (with any branches
  out of it), then the patch; its Disable restores the instruction and then frees or unregisters
  what it likes. `DocumentedConform` proves that the scripts of the repository's
  documentation, those of the run, are of this form.

`EnableApplies` and `DisableUndoes` are about a run that reports success and whose log lists
steps, as section 4 says of empty sections.

The inductive invariant is `PatchInv` = `Typed` /\ `ProcInv` /\ `JobInv` /\ `OutcomeInv`.
`ProcInv`: in every process the instruction is `Intact`, or it is `Hooked` to a cave that
the assembler holds and that has every line in it; in the target the symbols mean what
scripts take them for, and `allocs` lists blocks the assembler holds, each once. `JobInv`
says, for each point of Enable and of Disable, which commands are left, what has been collected
and which writes are still to come: the jump is written after the whole cave, which
is why a run that fails at any line, a write that fails, and a game that executes between any two
writes leave the game alive; and a dealloc is deferred until after the restoring writes,
so no jump leads to a block given back. That execution gets through is a
lemma on the recursive function `Passes`: the cells from which the game comes out grow
backwards, line by line, from the jump at the end of the cave. `Laid`, which places
the code in passes 3 and 4, is characterised the same way. TLC does not evaluate
`PatchInv`, which quantifies over caves of every length; it checks what the invariant is for.

### Proxy_proofs

For any number of requests and generations, `TypeOK`, `EditorHoldsItem`, and
`ImplementsInterception`: `Spec => Interception`. The inductive invariant: ids in use are
below the counter (`Numbered`), the ids of a queue differ (`Distinct`), an item that was
decided on is in no queue (`Resolved`, which is why a verdict is never given twice and a
step of the abstract specification is enabled), the editor holds an item of some generation
and, if it is of the queue's generation, the only one with its id (`EditorFilled`,
`EditorMatches`). Most steps push and resolve nothing; `Moving` describes them all, and only
`Pause`, `Frame` and `Arrive` are treated one by one.

`CaStable`, in the same module, for any number of starts, with `CaTypes`. `NobodyGenerates` says that once a
start has succeeded alone no thread is between generating a pair and writing its key: there
was none beside that start, and later ones find both files. `OneAtATime` says that before that, as long as
no two starts have overlapped, the start that generates found no key and the certificate on
disk is its own, so the files of the first success are of one pair; `CertFirst` that the key is
written last.

### Traffic_proofs

`BridgesToOwnServer` and `RewritesOnceAfterDrop`, for any number of connections, ports and
packets. Two open connections have different ports (`Exclusive`); packets of an earlier
owner of a port come before the first of the owner it has now (`StaleFirst`) and none is
left once that one was rewritten (`NoneStale`), so that from then on the map holds its
destination (`Mapped`), and the listener looks up the right one (`Routed`).

`SessionsConsistent`, for captures of any length and any limits. `CapInv` follows the
packet in hand through the three locks and the copy through its three: the total is never less
than the packets of the conversations (`Counting`), a ring holds all packets of its conversation up
to its limit, but for the one in hand (`Storing`), and what a copy has taken stays in these
relations with what it has still to take, because counts only grow (`CopiesAgree`); this
is why nothing has to be atomic.
The sum over conversations is a fold; what a step adds to it is a lemma proved by
induction on finite sets.

`RedirectTypes` and `CaptureTypes`: the types of their variables.

### Tools_proofs

`WatchSeesEveryAccess`, for any number of threads, watches and accesses.
`EveryThreadArmed` says that a thread of the game whose register is not set has its
creation to be handled, and the game is suspended until it is; `Suspended` that the events
are those of an attach or a single one, which makes the count of hits and steps exact;
`OneDebugger` that the watch whose loop runs is the debugger.

`InstallIsSound`, for any number of folders and runs. `Progress`
says which steps a worker at each point has done, `WizardShows` that a worker works only under
its window, `Registered` that the registered folder has its uninstaller and does
not await its removal, unless it is orphaned; all but for a removal that overlaps a new
installation. What a failed step and a closed window do to the disk is one lemma
(`BrokenOffKeeps`).

`ChainsAreExact`, for every memory, limit and target.
`MapInv`: the map holds, sorted, values that the addresses of the regions read had. `SearchInv`
is about the stack of calls: every chain found or on the stack is one (`SearchOK`), and
every chain within the limits is found, or passes through an entry that a call on the
stack has still to look at (`NoneLost`), unless the search was cut short.

`WatchTypes`, `PointerTypes`, `JobsTypes`, `FeedsAreBounded` and `InstallerTypes`: the types and
limits of all their variables. For the watch, `Bounded`: a
watch counts no more accesses than were raised under it. For a feed, `FeedInv`: the
buffer keeps at most its limit, of the events that came after it was cleared.

### What is only model-checked

* The liveness properties: the prover does not treat fairness or ENABLED.
* `ImportKeepsTable`: the reference of the import is a RECURSIVE operator on trees, which
  the prover does not accept in a module with theorems, and that the automaton keeps to it is
  an induction over trees.

Where a proof needs induction (on the length of a cave, the size of a set, an exponent),
it takes the least counterexample with `WFMin` of `WellFoundedInduction`, or with the
cardinality of a finite set, or the first place at which a fold goes wrong. The library's induction theorems, whose parameter is an
operator, cannot be applied. `ResultsAreScanned` and `NextScanFilters`, parts of the
inductive invariant, are only proved: the run checks `Search`, which says more.

## 6. What is not modelled

* The protection classifier, the disassembler view, the Unity helpers: functions of
  their input, without state and without a reference to compare with other than
  themselves. Layout and formatting of the panels; build scripts.
* In the modelled parts: TLS, headers and the content of texts in the proxy; parsing of
  packet headers, the pcap file and the filter of the capture panel; checksums in the
  redirection; the spelling of numbers, names and addresses (encoder, import, assembler
  operands); text decoding and the width of the value type during a search (hazard
  main.rs:1676); files written by "save"; where the threads of the game are (hazard
  assembler.rs:495); registers and disassembly of a hit; the catalogue and the audit of
  the LCU panel; re-validation of a saved pointer list; injection of a DLL.
* Windows, the WinDivert driver and TCP are environment: modelled as far as the code
  relies on them, and marked external in the map.

## 7. Plan

Done: the models of `ScanSession` with `Search`, `ChunkedScan`, `ScanPrecision`, `Freezer`,
`AutoAssembler`, `Proxy` with `Interception` and `CaStore`, `Redirect`, `Capture`, the
encoder, `Watch`, `PointerScan`, `Jobs`, `EventFeed`, the import, `Installer`; and a theorem for
every safety property a run checks, but for `ImportKeepsTable` (end of section 5).

Left: `AutoAssembler` with the remaining commands (`call`, `dd`, `dq`, `jmp64`).

## 8. Running

    tlc -config Scanning.cfg MCScanning            # likewise for the other runs
    tlapm Proxy_proofs.tla                         # likewise for the other proofs

`PROJECT.json` lists for each run its module and configuration ("runs"), for each
definition the lines it stands for ("map"), and for each checked property a
plausible bug of the code that breaks it ("mutants"; the bugs are the definitions
marked "A plausible bug").
