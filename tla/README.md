# A verification project for iopmod

TLA+ modules, TLC configurations and TLAPS proofs for the modules that run on
the input/output processor (IOP) of the PlayStation 2, and for the tools that
build them. Paths are relative to the root of the repository; *main* is the
main processor, which runs the Linux driver on the other side of the SIF.

Run a model with `tlc -config MCIrqRelay.cfg MCIrqRelay`, check a proof with
`tlapm IrqRelayProofs.tla`. `PROJECT.json` lists the components, the runs, the
lines each definition stands for, the hazards, the theorems, and for every
property a *slip*: a small, plausible mistake in the code with which TLC finds
the property violated. The slips are the operators with comments "A slip: ...".

## 1. The system

### Components

| Component | State | Operations | Interacts with |
|---|---|---|---|
| Interrupt manager wrappers, `builtin/interrupt.c` | none of its own; a handler and a mask bit per line in the ROM module `intrman` | `request_irq__`, `release_irq__`, `enable_irq__`, `disable_irq__` | `intrman`; errors through `errno_for_iop_error` (`builtin/ioperr.c`) |
| DEV9 SPD interrupts, `builtin/spd-irq.c` | `spd_irqs[16]`, `spd_irq_count`; device registers for status and mask | request, release, enable, disable; `spd_handle_irq` | shares the line `IRQ_IOP_DEV9` among 16 virtual lines, claims it for the first, gives it back with the last |
| Interrupt controller, `module/irq.c` | none | `request_irq`, `release_irq`, `enable_irq`, `disable_irq` | picks the wrappers or the SPD by the number of the line |
| IRQ relay, `module/irqrelay.c` | `irqs[MAX_IRQ_RELAYS]`, the static `status` | RPC: `request_map`, `remap`, `release_map`; interrupt: `service_irq` | called by main through the RPC server; tells main by a SIF command or a bit of SMFLAG |
| SIF commands, `builtin/sif.c` | a packet in the frame of each caller | `sif_cmd_opt_data` | `sifcmd`, `sifman`: a queue of DMA transfers; called from threads and from interrupts |
| Kernel log, `builtin/printk.c`, `module/printk.c` | a buffer in the frame | `putk`, `printk` | SIF commands, `vsnprintf` |
| ATA, `module/ata.c` | one static `struct ata_dev`: list, index, direction, buffer, bounce buffer | commands `ata_sif_cmd_bb`, `ata_sif_cmd_sg` in the interrupt of the SIF; the thread `sg_event` | main sends lists and takes acknowledgements; the disk by DMA |
| Gamepad, `module/gamepad.c` | `controller_state`, one semaphore, the local `schedule` of the thread | `gamepad_init`; `sio2_irq`, `event_alarm`, the thread `sio2_event` | SIO2 hardware, alarms, main by SIF commands |
| DEV9, `module/dev9.c` | `dev9_use_count`, registers of the bus | `dev9_request`, `dev9_release` | `ata_init`, drivers of others |
| Entry of a module, `include/iopmod/mod.h` | registration of its library with `loadcore` | `_module_init` | `loadcore`, and the entry function of each module, a ladder of calls that may fail |
| Formatted printing, `builtin/vsnprintf.c` | a cursor in a buffer, the conversion that is read | `vsnprintf` | `printk`; divides 64-bit words |
| 64-bit division, `builtin/__udivmoddi4.c` | two loops over four words | `__udivdi3`, `__umoddi3` by way of `__udivmoddi4` | what the compiler makes of `/` and `%` |
| Lexer, `tool/lexc.c` | a token: type, place, length, line and column | first and next token, with and without comments and white space | `iopmod-symc` |
| Generator of symbol tables, `tool/iopmod-symc.c` | a tree of modules, libraries and functions; a temporary and an output file | read, fill, order, write | the lexer; the build, which compiles its output into `iopmod-info` and into each module |
| Symbol table, `tool/symtab.c` | one constant array | iteration over modules, libraries, functions and aliases; look-up | `iopmod-info` |
| IRX and ELF, `tool/irx.c`, `tool/elf*.c`, `tool/iopmod-info.c`, `tool/iopmod-link.c` | a file in memory | iteration over sections, symbols, imports, exports; stripping and linking | the tables of `module-symbol.S` and `script/iop.ld`; the symbol table; files |
| Files and messages, `tool/file.c`, `tool/print.c`, `tool/string.c` | a buffer that grows, a descriptor | read, write, print | the system; the rules of `module/Makefile` |

### What is hard here

* **Three kinds of context.** Threads preempt one another; interrupts and alarms
  preempt threads; devices and the DMA controller wait for neither. What the
  code protects with `irq_save`/`irq_restore` is one step, what it reads before
  that is not.
* **A shared line.** The count of SPD lines, the table of callbacks, the mask in
  the device and the registration in `intrman` are four views of one thing, and
  each of the calls that change them may fail half way.
* **A table whose entries are arguments of callbacks.** `irqrelay` hands
  `&irqs[i]` to `intrman`. A slot that is cleared or reused too early relays
  the interrupt of one line under the number of another.
* **A packet on the stack.** `sif_cmd_opt_data` must not return before the DMA
  controller has read it; the queue has a limit, and the function retries.
* **Pieces.** A list of ATA is moved through two buffers of different sizes,
  with SIF DMA rounding each piece up.
* **Turns.** The gamepad thread distinguishes two events of one semaphore by
  taking turns. One event too many, or too few, and it is wrong for good.
* **Failure.** Every `*_init` has a ladder of labels for errors.
* **One array for a tree.** The iterators of the symbol table tell modules,
  libraries, functions and aliases apart by the names that are missing in a row,
  and each of these may have none of the next.
* **A lexer by hand.** Types of tokens change while their characters are read:
  a slash becomes a comment, a dot a number or an ellipsis.
* **Numbers written backwards.** Padding, sign and prefix go into the buffer from
  the left and digits from the right, and any of them may be where it ends.
* **A round trip.** The index of a function is compiled into a module by one run
  of `iopmod-symc`, and its name is found again in a table that another run has
  compiled into `iopmod-info`.
* **A rule that rewrites its own target.** A module is stripped, copied and
  linked by three commands on one file, each of which may write less than it
  read.

### What makes each component correct

The hazards in `PROJECT.json` give the line for each.

* Interrupts: the line `IRQ_IOP_DEV9` is held exactly while it is needed
  (`Dev9Held`, `CountMatches`); what is let through has a callback
  (`MaskedUnlessRequested`); no interrupt is lost between reading the status
  and acknowledging it (`NoLostSpd`); who was granted a line is called
  (`GrantedIsCalled`, `CallsOnlyHolders`, `OwedIsServed`).
* Relay: a callback's slot is in use for its line (`HandlerSound`); a line has
  one slot (`OneSlotPerLine`, a part of `IInv`); a slot in use is active (`SlotActive`); main is
  told of raised lines, by the map of the moment, and is told
  (`RelayFollowsMap`, `DueIsTold`); a call that fails changes nothing
  (`FailedRpcChangesNothing`).
* SIF: the packet is what the caller made it while the controller may read it
  (`PacketsValid`); commands arrive unaltered and once, before the call returns
  (`SendsIntact`), and they do arrive (`SendsReturn`).
* ATA: the pieces tile each entry (`ReadsComplete`) and fit where they go
  (`BounceFits`); the thread does not disturb the interrupt
  (`ThreadMovesNothing`) and only what was asked for is moved
  (`MovesAreRequested`); acknowledgements match lists (`AcksAreExact`,
  `AnsweredIsProcessed`, `ListIsAcked`).
* Gamepad: exactly one event is due (`OneEventDue`); the answers read are those
  of the last transfer (`RxAfterTransfer`); polling goes on (`PollsForever`)
  and lasting changes are told (`LastingIsTold`).
* Entry: a module that gives up leaves nothing (`ExitLeavesNothing`); one that
  runs has the libraries it calls (`ImportsStay`); the DEV9 is in use as often as
  it is used (`UsesAreCounted`, `UnusedIsReleased`).
* Printing: what is in the buffer is the beginning of the text, with a null, and
  the result is its length (`BufferIsPrefix`); integers read back as the values
  of their types (`IntegersRead`).
* Division: the quotient and the remainder are exact (`DivisionIsExact`).
* Lexer: each token is the longest there is at its place, at the line and column
  it says (`TokenIsRight`); only white space and comments are skipped
  (`SkipsBlanksOnly`); the text ends (`ValidTextEnds`).
* Symbol tables: what is declared is listed, once (`DeclaredIsListed`); a function
  is in the slot of its index (`ExportSlotIsIndex`); the output is whole
  (`OutputIsWhole`).
* Modules as files: what is shown of a module is what was declared, and nothing
  is shown of other files (`InfoIsRight`); what the rule makes is whole, stripped and linked
  (`MadeIsWhole`); a file fits the buffer it is read into (`NulFits`).

## 2. Modules and how they correspond to the code

    Intrman -- SpdIrq -- Irq --+-- IrqRelay ----+
                               |                +-- IrqRelayProofs -- MCIrqRelay
                               +-- IrqProofs ---+
                               |                +-- SpdClientsProofs
                               +-- SpdClients --+-- MCSpdClients

    SifChannel <= SifCmd --+-- MCSifCmd      Ata --+-- MCAta      Gamepad --+-- MCGamepad
                           +-- SifCmdProofs        +-- AtaProofs            +-- GamepadProofs

    Getopt -- Symc -- Symtab -- Irx --+-- MCTools         Lexer ------+
       |                              +-- ToolProofs      Vsnprintf --+-- MCSequential
       +------------------------ File +                   Udivmod ----+
                                                          ModuleInit -+

    Vsnprintf, Udivmod, ModuleInit -- RuntimeProofs

Operations have the names they have in the source, with `__` and `____` kept. An
operation that returns a value is a relation whose last parameter `ret` is the
value it returns.

**Intrman** models `builtin/interrupt.c`, `builtin/ioperr.c` and, as external,
the ROM module `intrman`: `handler`, `enabled` and `raised` are its tables. A
request of a line that is taken, a release of one that is free and a line that
does not exist fail with the error number the ROM has for it. If `MayFail` is
true, either call may also fail for no reason the caller can see, which stands
for calls from a wrong context. `release_irq__` masks the line before it asks
`intrman`, and that order is kept.

**SpdIrq** models `builtin/spd-irq.c`. `spd_irqs` holds the callback together
with its argument. `spd_request_irq__` and `spd_release_irq__` are each a check
and a locked part, which `IrqRelay` composes into one step, being the only
thread and with interrupts off, and `SpdClients` keeps apart. The handler is
split where the device can come in between: `SpdEnter` reads both registers,
`SpdAck` writes the status, `SpdCall` is a round of the loop, `SpdReturn` ends
it. `owed` is a history variable. That the DEV9 line is a level, asserted while
an enabled SPD line is, is an assumption about the hardware, and is
`Dev9Asserted`. A request that fails in `intrman` converts the error number
twice in the code, once as an IOP error and once as an errno, so that "busy"
becomes "invalid"; the model does the same.

**Irq** models `module/irq.c`: the choice between the two.

**IrqRelay** models `module/irqrelay.c`. `ServeRpc` is a call to
`irqrelay_service_rpc`, `SpdServe` and `ServeLine` are interrupts. `Foreign` is a
handler of a module outside the repository, which may take any free line and
gives back only its own. The static `status` is what the call returns. The bit
fields of seven bits are kept as a limit on what is accepted, and the shift of
`set_smflag`, which uses the low five bits of the number, as `% 32`.

**SpdClients** models drivers in threads that use the SPD lines through
`module/irq.c`, preempting one another between check and lock.

**SifChannel** is what `sif_cmd_opt_data` promises. **SifCmd** models it:
`SendCmd` is one round of the loop on a full queue that succeeds, `Relaxed` the
end of the busy wait and of the stack frame, `Transfer` the DMA controller,
which reads the frame as it is at that moment. `putk` and `printk` are modelled
by the size they send. The refinement maps `call` to the calls that were begun,
and `arrived` to the contexts that wait and have nothing in the queue.

**Ata** models the commands, the list and the thread. Sizes are in units of
their own. The modules are compiled with `-O0`, so that each mention of a field of
the structure reads it from memory, and the interrupt comes between any two of
them: `seen` is the value of `dev->index` that the loop test or the increment has
read, `e` the one the entry was looked up with. `Pointed` is what that is: an entry,
or, past the end of a table that is full, `dev->index` and `dev->dir`, which lie
behind it and are read and written as an address and a size. `spd` is the
direction the SPD is programmed for, which `dev->dir` is to tell. A list has no
more entries than a packet carries, which is as many as the table has; the code
relies on main for that. The disk delivers units in order; main copies a piece out
of the bounce buffer before the next one. `taken` counts the acknowledgements main
has got, so that with those on their way all that were ever sent are counted.

**Gamepad** models `gamepad_init` with its labels, the interrupt, the alarm and
the thread. `controller_rx` is split per controller. Registers are abstracted to
a transfer that ends with an interrupt, whether by an answer or by a time-out.

**Lexer** models `tool/lexc.c`. A step of `Spec` is a step of one of the loops
`lexc_for_every_token` and `lexc_for_each_token`. `Scan` is the loop over
characters, `Consider` its `switch`: what a character does to a token of each
type. Characters the tables do not tell apart have one representative, and the
type of an operator is its text, so that the cases of the `switch` for
operators are the set `Longer`. The reference, `Expected`, says of each type of
token what its text is and takes the longest, without reading it in turn. It
keeps what this lexer makes of C on purpose or not: numbers are a digit and
hexadecimal digits with a fraction and signs after exponents, and `/*/` is a
comment that is closed.

**Symc** models `main` of `tool/iopmod-symc.c`. A declaration is a sequence of
the phrases that `tscanf` looks for; `Read` is one declaration, of whatever file.
`Open`, `Close` and `Rename` are `write_symtab`, divided where a call of the
library may fail or the program be killed. **Symtab** adds the array that the
statements become, with the iterators, look-ups and listings of `tool/symtab.c`, and the
export table of `include/iopmod/module-symbol.S`. A `while` loop that advances a
pointer is `Until`, a `for` loop is `For`. The reference reads nothing in turn
either: it takes the module and library of a declaration from the positions of
the declarations before it. Versions go with names and are left out. `Alphabet` is
the order of `strcasecmp`.

**Getopt** is what `getopt_long` tells the three tools of their command lines: which
options there are, the argument of the last one of a name, what comes first of those
that end the program at once, and whether there is one file. The operators
`parse_options` of `Symc`, `link_options` of `File` and `info_options` of `Irx` are
made of these.

**ModuleInit** models `include/iopmod/mod.h` and `module/dev9.c`, and the entry
functions of all modules as *ladders*: the sequences of what they obtain, and
for each call that may fail what is given back. `Load` is the loader, which
links a module with the libraries there are; the loader has one module at a time
between `_module_init` and its return. `driver` and `client` are modules outside
the repository: one that has a library and gives its use of the DEV9 back when
it fails, as the header asks for, and one that imports that library. What a
module holds when it is unloaded is kept in `held`, which is what the properties
look at; its uses of the DEV9 are counted as `lost` once it is loaded again.

**Vsnprintf** models `builtin/vsnprintf.c`. A step is a turn of the loop over
the format, in its five states. `out` is what the code has: the characters
counted and written, and the buffer. `all` is the same in a buffer without a
limit, to compare with. `format_int` keeps the code's own way of counting: from
zero in what is left of the buffer, padding and sign from the left, digits from
the right, each only where there is room, and the caller advances by the length,
written or not. Types have a few bits, in which the least value has no opposite
all the same. **Udivmod** models the division, a step being a turn of a loop; the
type of the divisor that is tested for its highest bit is `Word \div 2`. An
`__umoddi3` by zero returns a word of its frame that was never written, and may
return any.

**Irx** models a module as a file of words: the tables of imports and exports
that `include/iopmod/module-symbol.S` makes of the statements of `Symc` that the
linker keeps, the sections of `script/iop.ld`, the symbols; and on the other side
`tool/elf.c` and `tool/irx.c`, which find sections, symbols, tables and links in
it, and `tool/iopmod-info.c`, which shows them. `grouped` is a module of another
maker, with one table for a library rather than one for a function. Either an
alias or the name itself may be the symbol at a link. `iopmod_info` is the whole
tool, from its command line to the status it ends with; `NoModules` are files that
`irx_identify` is to refuse: an empty one, one of another kind or version, and an
object without the section `.iopmod`. **File** models `tool/file.c`
by its calls of the system, which may be short or fail, and the rule of
`module/Makefile` with `tool/iopmod-link.c`. A file is a few blocks; each says
what was done to it. `MCTools` puts the two together: `iopmod-info` is run on the
module before the rule and after.

## 3. Runs

| Run | Question | Bounds |
|---|---|---|
| `irqrelay` | the table of relays and both controllers agree; interrupts are told | two slots, lines 13 (DEV9), 22 and one SPD line; calls name a line that does not exist (100), one too wide (200), two maps |
| `irqrelay_faults` | the same when any call of `intrman` may fail, with the inductive invariant of the proofs | two SPD lines and a plain one may be called for, the line they share may be taken by others |
| `spdclients` | drivers with lines of their own | two drivers, three lines, one driver with two |
| `spdclients_race` | *violated:* a line granted is a line held, for two drivers that ask for the same one | the same |
| `sifcmd` | packets, order and return of calls; refinement of `SifChannel` with its liveness | two threads and the interrupt, room for two transfers, two ids, sizes 95 and 96 |
| `ata` | tiling, acknowledgement, thread against interrupt, the end of the loops | buffer of 4, alignment 2, bounce buffers of 2 and 4 or none, a table of three, two lists out of five |
| `ata_table` | *violated:* what is transferred is an entry of a list, when lists that fill the table write | a table of two, two lists out of two |
| `ata_spare` | *violated:* a list that main has an answer to was processed | those of `ata` |
| `gamepad` | one event, turns, polling, changes | two controllers with two states, failures, a stale interrupt |
| `tools` | round trip from declarations to lists, export table; files. Round trip from declarations to a module and back; the rule | five declarations out of eight, nine command lines. Three sets of header files, every set of functions to call; ten command lines, a module, four files that are none and a missing one; files of seven blocks, a buffer that grows by two or three |
| `sequential` | tokens, positions, what is skipped, the end; buffers, lengths and values; quotients and remainders; what is left of modules that give up, imports, the use count | texts of two characters of 33, three of 12, and of up to five over the characters of comments, literals, numbers and operators; types of 4 to 7 bits, buffers of 0 to 14 bytes, one to three conversions; words of 4 bits; the six modules and two others, ten loads |
| `sequential_unused` | *violated:* without a module that has the DEV9 its use count is zero | the same |

`tools` and `sequential` hold several programs that never run together: each
behaviour is of one of them, which the initial state chooses, and the others are
idle.

Why the bounds are enough. Two slots and two SPD lines are what it takes for a
slot to be reused for another line while the first line is still pending, for
the count to pass 0, 1 and 2, and for the table to be full. Two SPD lines in
`spdclients` belong to one driver and one to another, so that a line is
requested and released while others are pending, masked, or being served. Three
contexts over a queue of two fill it, with an interrupt arriving while two
threads are in the function. A buffer of four with alignment two has pieces
smaller than, equal to and larger than each buffer, and rounded ones; the second
list finds in the table what the first left, and one of them fills it. A table of
two entries, in `ata_table`, is full with two, and an index of two is what lies
behind it. In the gamepad the state of a
button matters only as being the same or not. The lexer looks at one character
at a time, at the one before and at the second of its token, so that texts of
five characters reach every pair of states and characters; they hold a whole
comment with a star before its end, and a literal with two backslashes. Five
declarations are a module, a library and three functions out of order and with a
gap, or two modules with a library each. Ten loads are one for each module and
one more for the two that may fail with a use of the DEV9. In `sequential`, every
pair of flags meets a width, a precision and a buffer that ends before, within
and after the number, and every type its limits and what wraps around them;
divisors of four bits need from none to three shifts. Seven blocks are read into
buffers that are doubled, then grow by their largest step, and end with a read
that finds the buffer full and one that does not.

Bounds named in the models: `MaxLists` (lists main sends), `DmaMax` (room in
the queue), `Slots`, `RpcIrqs`, `RpcMaps`, `BounceSizes`, `Lists`, `Texts`,
`MaxDeclarations`, `Declarations`, `Calls`, `Room`, `Headers`, `Blocks`, `MaxLoads`. Those that cut behaviour short are `MaxLists`,
without which `processed`, `acks` and `taken` would grow, `MaxLoads`, with `lost`, and
`MaxDeclarations`. Deadlock is checked except in `tools` and
`sequential`, whose programs end, or load no more modules.

### Fairness

* `IrqRelay`, `SpdClients`: handlers that have begun run to their end, and a
  line that is raised and let through over and over is served. A processor that
  runs at all does this. Nothing obliges main to call, a device to raise, or a
  driver to go on.
* `SifCmd`: the DMA controller goes on; a context that could go on again and
  again does. The strong fairness of `SendCmd` says that of two contexts that
  retry on a full queue neither is overtaken for ever: `sif_cmd_opt_data` retries
  in a loop, and other contexts send finitely often in between.
* `Ata`: commands arrive, the disk delivers and both contexts go on.
* `Gamepad`: transfers end (the SIO2 has a time-out), alarms go off, interrupts
  are served, the thread has the processor when it is ready.
* `Lexer`: the program goes on.

### Findings

Four runs end in a counterexample, with a finding in `PROJECT.json` for each:

* `spdclients_race`: two threads are both granted the line they ask for.
* `ata_table`: the thread compares an old index, the interrupt processes a list of
  writes that fills the table, and the thread looks up the entry behind the last
  one: `dev->index` for an address and `dev->dir`, which is 1, for a size. It
  transfers that and changes both, and the SPD is no longer programmed as
  `dev->dir` says. After a list of reads `dev->dir` is 0, and the thread passes
  over it. In `ata` main sends no list that fills the table before or after one that
  writes, and nothing of this happens.
* `ata_spare`: the semaphore of `sg_event` begins at one, so that the thread
  acknowledges a list that nobody sent, and main takes that for the answer to a
  list that has not been processed. `AcksAreExact` shows that this is the only
  one, ever.
* `sequential_unused`: `ata_init` calls `dev9_request` and, on its error path, never
  `dev9_release`. `UsesAreCounted` counts such uses as lost.

Seen while reading or in counterexamples, and not kept as runs:

* `putk` (`builtin/printk.c:15`) passes on strings of any length, which
  `sif_cmd` refuses if they are too long; `include/iopmod/printk.h:13` says that
  they are cut off. `printk` never gets there, for its buffer is as large as a
  packet.
* `gamepad_init` does not release its interrupt when a later step fails
  (`module/gamepad.c:255`), and the handler of a module that is no more stays;
  a second load finds the line taken. `ExitLeavesNothing` makes the exception.
* `symtab_next_module` (`tool/symtab.c:206`) passes over modules without a
  library, except for the first. `DeclaredIsListed` asks for modules that have
  one.
* The names of libraries of eight characters have no null in a module, and
  `iopmod-info` compares them with `strcmp`: their functions are shown without
  names. `InfoIsRight` is claimed for shorter ones.
* `irx_first_import_link` and `irx_first_export_link` do not test their link,
  and an exported library without functions shows its null and goes on.
* After `--strip` every symbol has the empty name, which `iopmod-info` shows as a
  second name. The section `.iopmod` is at address 0 like `.text`, and is of
  type `SHT_PROGBITS` until it is linked, so that `elf_ent_for_addr` finds the
  first of the two; the addresses it is asked for are beyond its end.
* `xclose` compares the result of `close` with `EINTR`, where it means `errno`.
* `file_copy` makes no null after the contents, of which `file.h` says that they
  are always terminated. Nothing calls it.
* `iopmod-link` without `-o` hands a null pointer to `strdup`.
* When a command of the rule for `.irx` fails, make keeps the file as it is, for
  there is no `.DELETE_ON_ERROR`, and takes it as up to date the next time:
  stripped and not linked, or cut short.
* The error path at `module/ata.c:317` cannot be reached, since `sif_cmd_opt_data`
  fails only for payloads that are too large; if it were, a negative size would
  be subtracted from the entry.

* A release that fails in `intrman` leaves the slot of `irqrelay` set, although
  `release_irq__` has masked the line by then, and it stays masked. `SlotActive` is
  therefore claimed only when `intrman` refuses no more than it must; no property
  says that such a line is let through again, for it is not.
* `spd_handle_irq` calls the callback of a line that another callback has masked
  after the status was read. Nothing says that it should not; `CallsOnlyHolders`
  says that the line has not gone to someone else.
* Every read goes through the bounce buffer, also when it is aligned, although it
  is said to be for addresses and sizes that are not (`module/ata.c:281`). If none
  was announced, the loop of `ata_sif_cmd_rd_bounce` never ends, in the interrupt.
  In `ata` main may send a list of whole alignment units without one, and
  `ListIsAcked` says that nothing else keeps a list from being processed.
* `ata_sif_cmd_sg` compares the count of a list with nothing before it copies the
  entries.
* The lexer returns an invalid character as a token of length 0, again and
  again, and `iopmod-symc` loops for ever on a header file that has one outside
  comments and literals. `ValidTextEnds` is claimed for other texts.
* `read_function` takes the last token of a declaration for the name of a function
  when there is no call in it, for `tscanf` sets the name before it fails.
* `fill_library` fills gaps in the indices of an exported library, but
  `EXPORT_FU` in `module-symbol.S` emits nothing for them, so that the functions
  after a gap are in slots below their index. No module of the repository exports
  a library with a gap; `ExportSlotIsIndex` is claimed for those without.
* `write_symtab` frees `option.tmpfile` and leaves it set, and `atexit_` hands it
  to `unlink`.
* `function_index_cmp` returns 1 or 0 and never a negative number, which the
  merge sort of the GNU library can do with and other sorts may not.
* `module/dev9.c:27` tests the address of the power register, which always has
  the bit set, not its content: the branch that turns the power on never runs,
  and is not in the model. `dev9_use_count` has no lock; the model has one caller
  at a time.
* `sio2_event` ignores the result of `thbase_set_alarm`; polling stops if it
  fails.
* A bounce buffer whose size is no multiple of 16 would be overrun by a piece
  that is rounded up; main is expected to announce multiples, and
  `BounceSizes` holds only such.
* An error from `intrman` for `IRQ_IOP_DEV9` is converted twice.

## 4. Proofs

Every module that holds proofs says at its top what it shows. A theorem holds
for all values of the constants that keep the assumptions, so also for any
number of lists, loads and calls: `MaxLists`, `MaxLoads` and `DmaMax`, which bound
the runs, may have any value.

| Module | Theorem | Says |
|---|---|---|
| `IrqRelayProofs` | `IInvHolds` | the inductive invariant |
| | `TypesHold` | `TypeOK`, including that a slot's fields never overflow |
| | `HandlersAreSound` | `HandlerSound` |
| | `OneSlotEach` | `OneSlotPerLine` |
| | `Dev9HeldByCount` | `Dev9Held`, failures of `intrman` included |
| | `UnrequestedIsMasked` | `MaskedUnlessRequested` |
| | `NoInterruptLost` | `NoLostSpd` |
| | `NoticesFollowMaps` | `RelayFollowsMap`, an action property |
| | `CountIsExact` | `CountMatches`, if `~MayFail` |
| | `SetSlotsAreActive` | `SlotActive`, if `~MayFail` |
| | `FailuresChangeNothing` | `FailedRpcChangesNothing`, an action property, if `~MayFail` |
| `SpdClientsProofs` | `ClientsInvHolds` | the inductive invariant, if `LinesAreOwn` (as are all of these) |
| | `GrantedAreCalled` | `GrantedIsCalled` |
| | `OnlyHoldersAreCalled` | `CallsOnlyHolders` |
| | `ControllersStayRight` | `Dev9Held`, `MaskedUnlessRequested`, `NoLostSpd` |
| | `CountStaysExact` | `CountMatches`, if `~MayFail` |
| `SifCmdProofs` | `IInvHolds` | the inductive invariant |
| | `PacketsAreValid` | `PacketsValid` |
| | `SendsAreIntact` | `SendsIntact`: `SifCmd` implements `SifChannel` |
| `AtaProofs` | `IInvHolds` | the inductive invariant, if `TableHolds` (as are all of these but one) |
| | `ThreadIsHarmless` | `ThreadMovesNothing`, an action property |
| | `RequestedMoves` | `MovesAreRequested` |
| | `AcksStayExact` | `AcksAreExact`, for any lists |
| | `PiecesFitBuffers` | `BounceFits`, if `BuffersAreWhole` |
| | `ReadsAreComplete` | `ReadsComplete`, if `EntriesApart` |
| `GamepadProofs` | `IInvHolds` | the inductive invariant |
| | `OneEventIsDue` | `OneEventDue` |
| | `AnswersAreFresh` | `RxAfterTransfer` |
| | `MainKnowsState` | what main was told last is what was read last |
| `RuntimeProofs` | `ModInvHolds` | the inductive invariant of what modules have |
| | `GivingUpLeavesNothing` | `ExitLeavesNothing` |
| | `LibrariesStay` | `ImportsStay` |
| | `UsesStayCounted` | `UsesAreCounted` |
| | `UdivInvHolds` | the inductive invariant of the division |
| | `DivisionExact` | `DivisionIsExact`, for words of any number of bits |
| | `VsnInvHolds` | the inductive invariant of printing, if `ArgsAreTyped` |
| | `TextIsCut` | `BufferIsPrefix`, if `ArgsAreTyped` and `TextFits` |
| `ToolProofs` | `FileInvHolds` | the inductive invariant of the rule for `.irx` |
| | `WhatIsMadeIsWhole` | `MadeIsWhole` |
| | `NullAlwaysFits` | `NulFits` |
| | `WrittenIsWhole` | `OutputIsWhole` |
| | `SymInvHolds` | the inductive invariant of the tree of modules |
| | `SlotIsIndex` | `ExportSlotIsIndex`, for any declarations |

`IrqProofs` states what the operations of the two interrupt controllers do to the
variables they share, one lemma each, and that each keeps `IrqBase`, whoever
calls them, and `IrqInv`, while nobody masks a line. The relay has both; drivers
in threads, which mask lines, have the first.

### Assumptions

Those on constants are in the modules that declare them: the lines of the SPD are
finitely many and none of them is a line of `intrman`, `IRQ_IOP_DEV9` is one of
those, the callbacks are different from one another and from null, the fields of
a call are bytes, buffers and their alignment are not zero, addresses are
numbers, a wider type has no fewer bits and the widest holds a pointer, a phrase
`id_` of a declaration has a number without a sign, a list has no more entries than
the table. Seven more are hypotheses of the
theorems that need them. The runs that check the same properties fulfil them.

* `~MayFail`, `intrman` refuses only what it must. The properties are false
  without it: a release that fails has masked the line and leaves it counted.
* `LinesAreOwn`, no two drivers want the same line. `spdclients_race` shows that
  they are false without it. The lines of the SPD each belong to one device, and a
  device has one driver.
* `TableHolds`, no list fills the table, or no list writes. `ata_table` shows that
  it is needed. The lists of `ata` do both, and `KindsApart` sees to it that each
  behaviour has one kind only.
* `BuffersAreWhole`, the buffers are whole alignment units. That of the IOP is; of
  the one that main announces nothing in the code says so (see the findings).
* `ArgsAreTyped`, the arguments of `vsnprintf` have the types that the conversions
  of its format say. C defines nothing for others.
* `TextFits`, the buffer without a limit that the text is compared with is large
  enough for it. It is a part of the model, not of the code.
* `EntriesApart`, no two entries of a list of reads have an address in common. Of two
  that have, the last one wins, and the first is not complete.

### The arguments

*Relay.* `HandlerSound` is not inductive: `release_map` releases a line by its
number, and if the line had meanwhile gone to someone else, the slot would be
cleared while a callback still points to it. What rules that out is
`SlotsHoldLines`: the line of a slot in use has that slot as its callback, or,
when a release has failed, is an SPD line without a callback, which `release_map`
can still try again. `OneSlotPerLine` is needed so that the slot found is the
slot that holds the line. Below, `Dev9Held` needs `HandlerOnDev9` (nobody else
registers `spd_handle_irq`), and that the count is at least the number of lines
with a callback (`CountCovers`): a failed release of the shared line clears the
callback and keeps the count. That a failed call changes nothing needs
`UnsetIsUnused`: `request_map` fills a slot before it asks for the line and clears
it after, which puts back what was there only if a slot out of use is zero.

*Drivers.* Between check and lock others run. `ChecksStand` says that what the check
found is still so: the line of a driver that requests has no callback, that of one
that releases is its own. Other drivers keep that because the lines are their own
(`OnlyWanted`), interrupts because they change no callback. The callbacks of
drivers and what drivers hold are the same relation, which is why both
`GrantedIsCalled` and `CallsOnlyHolders` follow.

*SIF commands.* `PacketsValid` needs that the ids in the queue differ (`IdsDiffer`),
for a context waits for its id to be gone, and that a packet is what was asked
for already before it is queued (`FramesMatch`). Of the refinement, a `Transfer` of
the first in the queue is the arrival of what its context asked for, which is
`PacketsValid`; that a context that is put in the queue has not arrived, nor one
that stays there when another leaves it, needs that no context is in it twice.

*ATA.* The thread compares an index it read before an interrupt with the count of
the list that the interrupt brought, and goes on to the entry at the index it reads
after that. It moves nothing because interrupts leave nothing of any entry, not of
this list nor, beyond its end, of those before (`NothingLeft`), which in turn is what
`InterruptMoves` says of an interrupt at its end. `ThreadGoesOn` says that the index
the thread goes on with is one of the table, or, if a list may fill it, one behind
it, where the size is `dev->dir`: zero after a list of reads (`Directions`), which is
why `TableHolds` asks for these. `InterruptMoves` also says that the index has
not moved between the interrupt's own loop test and increment: the thread, which
could put back an old one, does not run then. `AcksAreExact` counts what was ever
sent and needs only that the thread is at its end once. `ReadsComplete` rests on `Reading`,
which exhibits where in the order of the disk each entry so far begins, as a
function, so that no sum over the list has to be unfolded: each entry finished
appends one value to it. `BounceFits` rests on `PiecesAreWhole`: what has gone
through the bounce buffer is whole alignment units, but for the last piece.

*Gamepad.* Of the turn of the thread, a transfer, an interrupt, an alarm and the
semaphore exactly one is there (`AtMostOne`, `AtLeastOne`), from the start of the
thread on. This needs `ScheduleTells`, that the thread that waits goes on with the
event it waits for, and `Beginning`: while `gamepad_init` has come no further than the
semaphore, nothing is under way, though its interrupt may be called already.

*Modules that are loaded.* `RungsGive` bounds what a module has by what the rungs
behind it gave and what an earlier load left (`Kept`, which is what the code
forgets). `ExitLeavesNothing` is its case at the end; `UsesAreCounted` needs it to
know at each rung whether the module that gets the DEV9 had it before.
`ImportsStay` needs `LibrariesAreThere` and that one module is loaded at a time.

*The rule.* What has been read is the beginning of the input and what has been
written is the beginning of what was made of it (`Contents`), of which a read of
nothing in a buffer with room left proves the end. `Input` says that each command
has its input until it writes itself.

*Symbol tables.* That `OutputIsWhole` is inductive needs only what the temporary file
holds when it is renamed, and that `Printed` no longer changes by then.

*Division.* What `UdivInv` says of the second loop is that
`dividend = quot * divisor + num`, that `den` is the divisor shifted as often as
`qbit` is, by `Pow2[k]`, and that `num < 2 * den`: a subtraction leaves less than
`den`, and halving restores the bound. When `qbit` has been shifted out, the bound
has become `num < divisor`. That no bit is lost on the way up is
`den < Word \div 2`, and on the way down that `den` is even while `qbit > 1`. That
each power of two is twice the one before is `PowersOfTwo`, which is proved from the
recursive function they are.

*Printing.* `VsnInv` says that `out` holds what `all` holds as far as the buffer goes, and
nothing after it (`TextSoFar`). What is hard is `format_int`: it counts from zero
in what is left, writes digits from the right, and leaves the advance of the
pointer to its caller. `FieldWrites` shows that for all that it writes what `EMIT` would
have written of the whole field, cut at the same place. It needs to know that the
number of digits is a number, for which a value must be below some power of its
base: every value that `va_arg` yields is below a power of two that the type has
bits for, and no base is less than two.

*Export tables.* `SymInv` says that once `order_symtab` has run, the functions of every
library are in the order of their indices. From there it is a matter of sequences:
`Flattened` says that the elements of sequences that are put after one another keep
their order, and `Selected` that those of a sequence that pass a test do, so that
the words of an export table have ascending indices; with a second library the
module would have a second statement `LP`. `CountedFromZero` does the rest: numbers
that ascend and are all those from zero to a last one are each at its own place.
`Select` and the buckets of `order_library` stand in `Symc` for `SelectSeq` and `SortSeq`, of
which the provers know no definition.

*Recursion.* The library's induction theorems take an operator. Here induction is over the
numbers of a *set*: `Induction` says that a set with zero, and with the successor of each
of its numbers, has all numbers, by way of the least that is missing, which there is
since `<` is well-founded. With it, that a recursive function exists, and what its values are,
is proved for the powers and for `FlattenSeq`.

The inductive invariant of the relay is also an invariant of the run
`irqrelay_faults`.

### Only model-checked

* Liveness, which is out of the prover's reach: `DueIsTold`, `OwedIsServed`,
  `SendsReturn`, `ListIsAcked`, `PollsForever`, `LastingIsTold`, `ValidTextEnds`.
* What a reference definition says of a whole text, table or file: `TokenIsRight`
  and `SkipsBlanksOnly` of the lexer, `DeclaredIsListed` of the symbol tables, `InfoIsRight`
  of modules as files, `IntegersRead` of printing. The provers have no definitions
  of `SelectSeq` and `SortSeq`, in which these are stated, and the proofs would
  be inductions over every loop of the code.

## 5. Not modelled, and the plan

Done, with proofs: the interrupt controllers and the relay (the core), drivers in
threads, SIF commands with their abstract channel, ATA, gamepad, the entry of
modules and the use count of the DEV9, division, formatted printing, the rule that
makes modules, the file that `iopmod-symc` writes and the export tables it makes.
Done, model-checked: the lexer, the look-ups of the symbol table, modules as files
with the tool that shows them.

Left to prove: of `TokenIsRight`, that the tokens of a text follow one another
without a gap; of `IntegersRead`, that the digits of a number are its digits in the
base.

Left out for good:

* `memcpy`, `memset`, `strlen`: loops of a line.
* The conversion of byte order in `tool/elf32.c`, the path functions of
  `tool/file.c`, `file_copy`, `tool/print.c`, `tool/string.c`, and the layout of
  what the tools print: no state, or formatting only.
* The registers of the SIO2, the SPD and the DMA controller, beyond what the
  models say of transfers and interrupts; the branches under `#if 0` and the
  direct transfers of `module/ata.c:189`, which are never taken.
* A file that is cut short and shown by `iopmod-info`: `elf_identify` tests the
  header only, and what is read after the end of the file is undefined.
* The vendored `include/compat/elf.h`, beyond the structures `Irx` reads, and the
  headers of external modules, beyond what the models say of their functions.
