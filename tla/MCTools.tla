------------------------------ MODULE MCTools -------------------------------
(* The tools, of which a behaviour has one of two kinds.  Either iopmod-symc *)
(* reads header files of a few declarations: modules with and without        *)
(* libraries, and functions with aliases and with gaps between their         *)
(* indices.  Or it has read the files of a few modules, a module is made of  *)
(* a file by iopmod-link and objcopy, whose calls may be short and may fail, *)
(* and iopmod-info shows it before and after.                                *)
EXTENDS Irx, File

CONSTANTS ata, dev9, loadcore, start, stop, reset, boot,
          Idle      \* there is no module

MCNames == {ata, dev9, loadcore, start, stop, reset, boot}

MCAlphabet == <<ata, boot, dev9, loadcore, reset, start, stop>>

Has(what, id) == [what |-> what, id |-> id]

\* A library has the name of its module or that of another; a function may
\* have the name another has as an alias; the last has none.
MCDeclarations ==
    {<<Has("MODULE_ID", ata)>>, <<Has("MODULE_ID", dev9)>>,
     <<Has("LIBRARY_ID", ata)>>, <<Has("LIBRARY_ID", dev9)>>,
     <<Has("id_", 0), Has("call", start)>>,
     <<Has("id_", 1), Has("call", stop), Has("alias_", reset), Has("alias_", start)>>,
     <<Has("id_", 2), Has("call", reset), Has("alias_", stop)>>,
     <<Has("id_", 2)>>}

\* Both rules of the repository, output to a terminal, options given twice or
\* after the files, and command lines that are refused or only ask for help.
MCCommandLines ==
    {<<Arg("h")>>, <<OptArg("output", ata), Arg("h")>>, <<Opt("module"), OptArg("output", ata), Arg("h")>>,
     <<OptArg("output", dev9), Arg("h"), OptArg("output", ata), Opt("module")>>,
     <<Opt("module")>>, <<Opt("module"), Arg("h")>>, <<>>,
     <<OptArg("output", ata), Opt("?"), Opt("help")>>, <<Opt("version"), Opt("?")>>}

Ata  == <<<<Has("MODULE_ID", ata)>>>>
Dev9 == <<<<Has("MODULE_ID", dev9)>>, <<Has("LIBRARY_ID", dev9)>>,
          <<Has("id_", 1), Has("call", stop), Has("alias_", reset), Has("alias_", boot)>>,
          <<Has("id_", 0), Has("call", start)>>>>
Loadcore == <<<<Has("MODULE_ID", loadcore)>>, <<Has("LIBRARY_ID", loadcore)>>,
              <<Has("id_", 0), Has("call", boot)>>,
              <<Has("LIBRARY_ID", ata)>>,
              <<Has("id_", 0), Has("call", reset)>>,
              <<Has("id_", 2), Has("call", stop), Has("alias_", start)>>>>

OneLibrary == SubSeq(Loadcore, 1, 3)

MCHeaders == {Ata \o Dev9 \o Loadcore, OneLibrary \o Dev9, Dev9 \o Ata}

\* With and without options, for no file and for two, and what ends at once.
MCInfoCommandLines ==
    {<<Arg("f")>>, <<Opt("alias"), Arg("f")>>, <<Arg("f"), Opt("identify")>>,
     <<>>, <<Opt("identify"), Arg("f"), Arg("f")>>,
     <<Opt("modules"), Opt("libraries"), Opt("functions")>>, <<Opt("libraries"), Arg("f")>>,
     <<Opt("modules")>>, <<Opt("?"), Arg("f")>>, <<Opt("help"), Opt("?")>>}

SymcInit ==
    /\ Init /\ FileInit
    /\ built = Idle /\ statements = None /\ text = <<>> /\ symbols = <<>> /\ shown = None

MCInit ==
    \/ SymcInit
    \/ IrxInit /\ FileInit

Whole(f) == disk[f] # Absent /\ Len(disk[f]) = Blocks

\* The information is of the file before it is made or of the one that is.
MCNext ==
    \/ built = Idle /\ Next /\ UNCHANGED <<built, statements, text, symbols, shown, fileVars>>
    \/ built = None /\ PrintStatements /\ UNCHANGED fileVars
    \/ Build /\ UNCHANGED fileVars
    \/ text # <<>> /\ shown = None /\ FileNext /\ UNCHANGED irxVars
    \/ /\ at \in {"ropen", "exit"} /\ UNCHANGED fileVars
       /\ \E f \in {"iop", "irx"} : Whole(f) /\ Info(disk[f][1].stripped, disk[f][1].linked)

MCSpec == MCInit /\ [][MCNext]_<<irxVars, fileVars>>
=============================================================================
