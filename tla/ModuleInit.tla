----------------------------- MODULE ModuleInit -----------------------------
(***************************************************************************)
(* The entry of a module, include/iopmod/mod.h: its library is registered   *)
(* with loadcore before its own entry function is called, and released if   *)
(* that gives up.  The entry functions of the modules are ladders: what was *)
(* obtained before the call that fails is to be given back in reverse.  One *)
(* module is loaded at a time; one that gives up is unloaded.               *)
(*                                                                          *)
(* "driver" is a module outside the repository that is built with mod.h,    *)
(* has a library and uses the DEV9 as include/iopmod/module/dev9.h says.    *)
(* "client" is another, that uses that library.                             *)
(***************************************************************************)
EXTENDS Integers, FiniteSets, SequencesExt

CONSTANT MaxLoads   \* bound: modules loaded, again or for the first time

ASSUME ModuleInitAssumption == MaxLoads \in Nat

Modules == {"irq", "printk", "dev9", "irqrelay", "gamepad", "ata", "driver", "client"}

\* Those with SYMTAB_EXPORT: each has a library of its name.
Exporting == {"irq", "printk", "dev9", "driver"}

\* Libraries of those modules that are called.
Imports == [m \in Modules |->
    CASE m = "dev9" -> {"printk"}
      [] m \in {"irqrelay", "gamepad"} -> {"irq", "printk"}
      [] m = "ata" -> {"dev9", "printk"}
      [] m = "driver" -> {"dev9"}
      [] m = "client" -> {"driver"}
      [] OTHER -> {}]

\* What an entry function obtains, in order.  "run" is thbase_start.
ata_init      == <<"dev9", "thread", "sema", "run", "command">>
gamepad_init  == <<"irq", "thread", "sema", "run">>
irqrelay_init == <<"thread", "queue", "rpc", "run">>
driver_init   == <<"dev9", "thread">>

Ladder == [m \in Modules |->
    CASE m = "ata" -> ata_init [] m = "gamepad" -> gamepad_init
      [] m = "irqrelay" -> irqrelay_init [] m = "driver" -> driver_init
      [] OTHER -> <<>>]       \* dev9_init, and the weak _module_start

\* Calls without a result that is tested.
CannotFail == {"command", "queue", "rpc"}

\* What is given back when a call fails.  A slip: of ata, all but the thread.
UndoneLess(m, failed) ==
    CASE m = "irqrelay" /\ failed = "run" -> {"rpc", "queue", "thread"}
      [] m \in {"ata", "gamepad"} /\ failed = "run" -> {"sema"}
      [] m = "driver" /\ failed = "thread" -> {"dev9"}
      [] OTHER -> {}

Undone(m, failed) ==
    CASE m = "irqrelay" /\ failed = "run" -> {"rpc", "queue", "thread"}
      [] m \in {"ata", "gamepad"} /\ failed = "run" -> {"sema", "thread"}
      [] m \in {"ata", "gamepad"} /\ failed = "sema" -> {"thread"}
      [] m = "driver" /\ failed = "thread" -> {"dev9"}
      [] OTHER -> {}

VARIABLES
    phase,          \* of each module: "out", "init", "start", "exit" or "resident"
    libraries,      \* those registered with loadcore, by their modules
    held,           \* what each module has obtained and not given back
    dev9_use_count, \* of module/dev9.c
    bus,            \* the registers of the bus of the DEV9 are set up
    lost,           \* history: uses of the DEV9 that nobody can give back
    rung,           \* of the ladder of the module that is started
    loads           \* bounded: modules loaded so far

modVars == <<phase, libraries, held, dev9_use_count, bus, lost, rung, loads>>

ModTypeOK ==
    /\ phase \in [Modules -> {"out", "init", "start", "exit", "resident"}]
    /\ libraries \subseteq Modules
    /\ \A m \in Modules : held[m] \subseteq Range(Ladder[m])
    /\ {dev9_use_count, lost, rung, loads} \subseteq Nat /\ bus \in BOOLEAN

ModInit ==
    /\ phase = [m \in Modules |-> "out"]
    /\ libraries = {} /\ held = [m \in Modules |-> {}]
    /\ dev9_use_count = 0 /\ bus = FALSE /\ lost = 0 /\ rung = 1 /\ loads = 0

To(m, ph) == phase' = [phase EXCEPT ![m] = ph]

\* The loader links a module with the libraries there are, and calls
\* _module_init.  What is left of its last load is not its own any more, but the
\* line of the SIO2 stays taken.
Load(m) ==
    /\ loads < MaxLoads
    /\ \A k \in Modules : phase[k] \in {"out", "resident"}
    /\ phase[m] = "out" /\ Imports[m] \subseteq libraries
    /\ To(m, "init") /\ rung' = 1 /\ loads' = loads + 1
    /\ lost' = lost + Cardinality(held[m] \cap {"dev9"})
    /\ held' = [held EXCEPT ![m] = @ \ {"dev9"}]
    /\ UNCHANGED <<libraries, dev9_use_count, bus>>

----------------------------------------------------------------------------
(* module/dev9.c: FIXME: mutex.  There is one caller at a time.             *)

\* dev9_power_on, for the first use.  It tests bit 2 of the address of the power
\* register, which is set, and not its content: the branch that turns the
\* hardware on is never taken, and what is left is to set up the bus.
dev9_request ==
    /\ bus' = (dev9_use_count = 0 \/ bus)
    /\ dev9_use_count' = dev9_use_count + 1

\* A slip: the hardware is in use or it is not.
dev9_release_all == dev9_use_count' = 0 /\ UNCHANGED bus

\* dev9_power_off is empty: what was set up stays.
dev9_release == dev9_use_count' = dev9_use_count - 1 /\ UNCHANGED bus

----------------------------------------------------------------------------
(* _module_init                                                             *)

loadcore_register_library(m) ==
    /\ phase[m] = "init" /\ m \in Exporting
    /\ \/ To(m, "start") /\ libraries' = libraries \cup {m}
       \/ To(m, "out") /\ UNCHANGED libraries
    /\ UNCHANGED <<held, dev9_use_count, bus, lost, rung, loads>>

\* Without SYMTAB_EXPORT.
NoLibrary(m) ==
    /\ phase[m] = "init" /\ m \notin Exporting
    /\ To(m, "start")
    /\ UNCHANGED <<libraries, held, dev9_use_count, bus, lost, rung, loads>>

Wanted(m) == Ladder[m][rung]
Climbing(m) == phase[m] = "start" /\ rung <= Len(Ladder[m])

\* A call of the entry function that succeeds.
Obtain(m) ==
    /\ Climbing(m) /\ Wanted(m) \notin held[m]
    /\ held' = [held EXCEPT ![m] = @ \cup {Wanted(m)}]
    /\ IF Wanted(m) = "dev9" THEN dev9_request ELSE UNCHANGED <<dev9_use_count, bus>>
    /\ rung' = rung + 1
    /\ UNCHANGED <<phase, libraries, lost, loads>>

\* One that fails, as request_irq does for a line that is taken; dev9_request
\* never does.
FailToObtain(m) ==
    /\ Climbing(m) /\ Wanted(m) \notin CannotFail \cup {"dev9"}
    /\ LET undone == held[m] \cap Undone(m, Wanted(m))
       IN  /\ held' = [held EXCEPT ![m] = @ \ undone]
           /\ IF "dev9" \in undone THEN dev9_release ELSE UNCHANGED <<dev9_use_count, bus>>
    /\ To(m, "exit")
    /\ UNCHANGED <<libraries, lost, rung, loads>>

Resident(m) ==
    /\ phase[m] = "start" /\ rung > Len(Ladder[m])
    /\ To(m, "resident")
    /\ UNCHANGED <<libraries, held, dev9_use_count, bus, lost, rung, loads>>

\* A slip: the library stays.
ExitKeeping(m) ==
    /\ phase[m] = "exit"
    /\ To(m, "out")
    /\ UNCHANGED <<libraries, held, dev9_use_count, bus, lost, rung, loads>>

\* MODULE_EXIT: loadcore_release_library, if there is one.
Exit(m) ==
    /\ phase[m] = "exit"
    /\ To(m, "out") /\ libraries' = libraries \ {m}
    /\ UNCHANGED <<held, dev9_use_count, bus, lost, rung, loads>>

_module_init(m) ==
    \/ loadcore_register_library(m) \/ NoLibrary(m)
    \/ Obtain(m) \/ FailToObtain(m) \/ Resident(m) \/ Exit(m)

ModNext == \E m \in Modules : Load(m) \/ _module_init(m)

ModSpec == ModInit /\ [][ModNext]_modVars

----------------------------------------------------------------------------
(* Properties                                                               *)

\* Nothing can call into a module that gave up and was unloaded, and nothing of
\* it is left, at whichever call it failed: no thread, semaphore, server or
\* library.  The exceptions are what the ladders lack: gamepad_init does not
\* release its interrupt line, and ata_init does not give back its use of the
\* DEV9.
ExitLeavesNothing ==
    /\ ModTypeOK
    /\ \A m \in Modules : phase[m] = "out" =>
          /\ m \notin libraries
          /\ held[m] \subseteq
                CASE m = "gamepad" -> {"irq"} [] m = "ata" -> {"dev9"} [] OTHER -> {}

\* A module that runs calls libraries of modules that are there.
ImportsStay ==
    \A m \in Modules : phase[m] # "out" => \A i \in Imports[m] : phase[i] = "resident"

\* The uses of the DEV9 are those of the modules that have one, and those that
\* were lost, however modules come and go: it is never taken for unused while
\* a driver uses it, and its bus is set up by then.
UsesAreCounted ==
    /\ dev9_use_count = lost + Cardinality({m \in Modules : "dev9" \in held[m]})
    /\ dev9_use_count > 0 => bus

\* When no module that is there has the DEV9, its count is zero, so that "the
\* DEV9 hardware is powered off, if it's no longer used" (dev9.h).  The code
\* does not keep to it: ata_init may give up without dev9_release.
UnusedIsReleased ==
    (\A m \in Modules : phase[m] # "out" => "dev9" \notin held[m]) => dev9_use_count = 0
=============================================================================
