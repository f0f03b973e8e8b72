-------------------------------- MODULE File --------------------------------
(***************************************************************************)
(* tool/file.c, by the calls of the operating system that it makes, and     *)
(* what is done with it: tool/iopmod-link.c, which reads a module, changes  *)
(* it in memory and writes it, and the rule of module/Makefile that makes   *)
(* an .irx of an .iop: iopmod-link --strip, objcopy, and iopmod-link on its *)
(* own output.                                                              *)
(*                                                                          *)
(* A file is a sequence of blocks.  Calls may be short, and they may fail;  *)
(* those that are interrupted and made again are steps without effect,      *)
(* except for close, for xclose compares its result with EINTR where it     *)
(* means errno: an interrupted close is one that fails.                     *)
(***************************************************************************)
EXTENDS Getopt

CONSTANTS
    Blocks,     \* blocks of a module
    MinGrow, MaxGrow,   \* by how many blocks the buffer may grow: 4 KiB to 1 MiB
    Absent      \* no file

ASSUME FileAssumption ==
    /\ {Blocks, MinGrow, MaxGrow} \subseteq Nat \ {0}
    /\ MinGrow <= MaxGrow

VARIABLES
    disk,       \* what is in "iop" and "irx"
    rule,       \* the command of the rule: "strip", "objcopy", "link", "made" or "failed"
    at,         \* where the command is
    fd,         \* an open descriptor
    data,       \* what was read
    capacity,   \* blocks there is room for
    got,        \* blocks that this call of xread or xwrite has moved
    short       \* xwrite has returned less than it was given

fileVars == <<disk, rule, at, fd, data, capacity, got, short>>

\* The module: what has been done to it, by blocks.
Module(stripped, linked) == [k \in 1 .. Blocks |-> [stripped |-> stripped, linked |-> linked, k |-> k]]

FileInit ==
    /\ disk = [iop |-> Module(FALSE, FALSE), irx |-> Absent]
    /\ rule = "strip" /\ at = "ropen" /\ fd = FALSE
    /\ data = <<>> /\ capacity = 0 /\ got = 0 /\ short = FALSE

\* The commands of the rule: --strip -o $@ $<, and -o $@ $@.
Arguments ==
    IF rule = "strip" THEN <<Opt("strip"), OptArg("output", "irx"), Arg("iop")>>
                      ELSE <<OptArg("output", "irx"), Arg("irx")>>

\* parse_options of iopmod-link.
link_options(args) ==
    [status |-> IF Parsed(args) = "parsed" /\ ~OneInput(args) THEN "failed" ELSE Parsed(args),
     strip  |-> Chosen(args, "strip"),
     input  |-> LastOf(args, "file", Absent),
     output |-> LastOf(args, "output", Absent)]

link_option == link_options(Arguments)

Source == disk[link_option.input]

\* pr_fatal_errno, and make stops.
Fatal == rule' = "failed" /\ at' = "exit"

----------------------------------------------------------------------------
(* file_read: every path of an error closes what is open.                   *)

\* Tried again while it is interrupted; then there is a descriptor, or -1 and
\* nothing that would have to be closed.
xopen == \/ fd' = TRUE
         \/ fd' = FALSE

xclose == fd' = FALSE

OpenRead ==
    /\ at = "ropen" /\ link_option.status = "parsed"
    /\ xopen
    /\ IF fd' THEN at' = "grow" /\ UNCHANGED rule ELSE Fatal
    /\ data' = <<>> /\ capacity' = 0 /\ got' = 0
    /\ UNCHANGED <<disk, short>>

clamp_val(v, lo, hi) == Min({Max({v, lo}), hi})

\* A slip: the buffer grows by its size, in the beginning not at all.
GrownBySize(size) == size + Min({size, MaxGrow})
Grown(size) == size + clamp_val(size, MinGrow, MaxGrow)

\* realloc.
Grow ==
    /\ at = "grow"
    /\ capacity' = Grown(Len(data)) /\ got' = 0
    /\ at' = "read"
    /\ UNCHANGED <<disk, rule, fd, data, short>>

\* A turn of xread, which ends with the blocks it was asked for or at the end.
ReadSome ==
    /\ at = "read" /\ Len(data) < capacity
    /\ \E k \in 1 .. Min({capacity, Len(Source)}) - Len(data) :
          data' = data \o SubSeq(Source, Len(data) + 1, Len(data) + k) /\ got' = got + k
    /\ UNCHANGED <<disk, rule, at, fd, capacity, short>>

\* xread returns what it has, and file_read goes on until that is nothing.
ReadDone ==
    /\ at = "read"
    /\ Len(data) \in {capacity, Len(Source)}
    /\ at' = IF got = 0 THEN "nul" ELSE "grow"
    /\ UNCHANGED <<disk, rule, fd, data, capacity, got, short>>

\* data[size] = '\0' and xclose.
CloseRead ==
    /\ at = "nul"
    /\ at' = "last" /\ xclose
    /\ UNCHANGED <<disk, rule, data, capacity, got, short>>

\* realloc, read or close has failed.
FailRead ==
    /\ at \in {"grow", "read", "nul", "last"}
    /\ Fatal /\ xclose
    /\ UNCHANGED <<disk, data, capacity, got, short>>

----------------------------------------------------------------------------
(* iopmod-link                                                              *)

strip_module(f) == [k \in DOMAIN f |-> [f[k] EXCEPT !.stripped = TRUE]]
link_module(f)  == [k \in DOMAIN f |-> [f[k] EXCEPT !.linked = TRUE]]

\* The last realloc, and the change of the module.
Change ==
    /\ at = "last"
    /\ capacity' = Len(data) + 1
    /\ data' = IF link_option.strip THEN strip_module(data) ELSE link_module(data)
    /\ at' = "rename"
    /\ UNCHANGED <<disk, rule, fd, got, short>>

\* The contents get the path of the output; strdup may fail.
file_rename ==
    /\ at = "rename"
    /\ \/ at' = "wopen" /\ UNCHANGED rule
       \/ Fatal
    /\ UNCHANGED <<disk, fd, data, capacity, got, short>>

----------------------------------------------------------------------------
(* file_write                                                               *)

OpenWrite ==
    /\ at = "wopen"
    /\ xopen
    /\ IF fd' THEN /\ at' = "write" /\ UNCHANGED rule
                   /\ disk' = [disk EXCEPT ![link_option.output] = <<>>]
       ELSE Fatal /\ UNCHANGED disk
    /\ got' = 0 /\ short' = FALSE
    /\ UNCHANGED <<data, capacity>>

WriteSome ==
    /\ at = "write" /\ got < Len(data)
    /\ \E k \in 1 .. Len(data) - got :
          /\ disk' = [disk EXCEPT ![link_option.output] = @ \o SubSeq(data, got + 1, got + k)]
          /\ got' = got + k
    /\ UNCHANGED <<rule, at, fd, data, capacity, short>>

\* xwrite returns when all is written, or write returns zero.
WriteDone ==
    /\ at = "write"
    /\ at' = "wclose" /\ short' = (got < Len(data))
    /\ UNCHANGED <<disk, rule, fd, data, capacity, got>>

\* A slip: what xwrite returned is not compared with the size.
CloseWriteShort ==
    /\ at = "wclose"
    /\ xclose
    /\ at' = "exit" /\ rule' = IF link_option.strip THEN "objcopy" ELSE "made"
    /\ UNCHANGED <<disk, data, capacity, got, short>>

\* xclose, the comparison, ENOSPC.  EXIT_SUCCESS lets make go on.
CloseWrite ==
    /\ at = "wclose"
    /\ xclose
    /\ IF short THEN Fatal
       ELSE at' = "exit" /\ rule' = IF link_option.strip THEN "objcopy" ELSE "made"
    /\ UNCHANGED <<disk, data, capacity, got, short>>

FailWrite ==
    /\ at \in {"write", "wclose"}
    /\ Fatal /\ xclose
    /\ UNCHANGED <<disk, data, capacity, got, short>>

file_read  == OpenRead \/ Grow \/ ReadSome \/ ReadDone \/ CloseRead \/ FailRead
file_write == OpenWrite \/ WriteSome \/ WriteDone \/ CloseWrite \/ FailWrite

----------------------------------------------------------------------------
(* The rule of the Makefile                                                 *)

\* objcopy leaves a module as it is; it writes a new file and renames it.
objcopy ==
    /\ rule = "objcopy"
    /\ \/ rule' = "link" /\ at' = "ropen"
       \/ Fatal
    /\ UNCHANGED <<disk, fd, data, capacity, got, short>>

FileNext == file_read \/ Change \/ file_rename \/ file_write \/ objcopy

FileSpec == FileInit /\ [][FileNext]_fileVars

----------------------------------------------------------------------------
(* Properties                                                               *)

\* However short the reads and the writes are, and whichever call fails: make
\* goes on to the next command with the whole module only, and in the end it
\* is stripped and linked.  Input is never changed before it was read to its
\* end, and nothing is left open.
MadeIsWhole ==
    /\ rule = "made" => disk.irx = Module(TRUE, TRUE)
    /\ rule \in {"objcopy", "link"} /\ at \in {"exit", "ropen", "grow", "read"} =>
          disk.irx = Module(TRUE, FALSE)
    /\ at = "wopen" => Len(data) = Blocks
    /\ at = "exit" => ~fd

\* The null that file_read puts after the contents is within the buffer, and a
\* read of nothing is the end of the file, not the end of the buffer.
NulFits == at = "nul" => Len(data) < capacity /\ data = Source
=============================================================================
