-------------------------------- MODULE Symc --------------------------------
(***************************************************************************)
(* tool/iopmod-symc.c: the generator of symbol tables.  It reads the        *)
(* declarations of all header files into a tree of modules, libraries and   *)
(* functions, fills the gaps between the indices of functions, orders them  *)
(* and writes the tree as the statements of a macro, to a temporary file    *)
(* that replaces the output once it is complete.                            *)
(*                                                                          *)
(* A declaration is a sequence of phrases, which are what tscanf tells      *)
(* apart in its tokens: [what |-> "id_", id |-> 4] is "id_(4)" and          *)
(* [what |-> "call", id |-> f] is "f(".  Names stand for names and their    *)
(* versions.                                                                *)
(***************************************************************************)
EXTENDS Getopt

CONSTANTS
    Names,              \* of modules, libraries, functions and aliases
    Declarations,       \* sequences of phrases
    CommandLines,       \* what iopmod-symc may be called with
    MaxDeclarations,    \* bound: declarations in all files
    NoName,             \* no name: a function that is undefined, NULL in a table
    Missing, Earlier, Partial,  \* contents of a file that is no table: there is no file,
                                \* it is of an earlier run, it is not complete
    Other               \* the name that a token which is none gives a function

VARIABLES
    option,     \* "module", the module "outfile" is named for, and whether there are files
    input,      \* the declarations that have been read
    symtab,     \* struct symtab of main
    phase,      \* how far main is
    tmp, out,   \* contents of option.tmpfile and option.outfile
    stdout      \* what was printed without option.outfile

vars == <<option, input, symtab, phase, tmp, out, stdout>>

\* A phrase has a name but for "id_(%i)", which has the value of an integer
\* token: no sign.
Phrase == [what : {"MODULE_ID", "LIBRARY_ID", "call", "alias_"}, id : Names]
          \cup [what : {"id_"}, id : Nat]

ASSUME SymcAssumption == Declarations \subseteq Seq(Phrase)

\* Those of s that pass the test, in their order: SelectSeq, in terms that the
\* provers can expand.
Select(s, Test(_)) == FlattenSeq([k \in DOMAIN s |-> IF Test(s[k]) THEN <<s[k]>> ELSE <<>>])

\* What tscanf finds when it is tried at every token of a declaration.
Phrases(d, what) == Select(d, LAMBDA p : p.what = what)
ids(d, what) == [k \in DOMAIN Phrases(d, what) |-> Phrases(d, what)[k].id]

----------------------------------------------------------------------------
(* Reading declarations                                                     *)

\* tscanf sets the name for every token it tries, so that a declaration
\* without a call has the name of its last token, and is not passed over.
FunctionName(d) == IF ids(d, "call") = <<>> THEN Other ELSE Head(ids(d, "call"))

Aliases(d) == ids(d, "alias_")

read_function(functions, d) ==
    IF ids(d, "id_") = <<>> THEN functions
    ELSE Append(functions, [name  |-> FunctionName(d),
                            index |-> Head(ids(d, "id_")),
                            alias |-> Aliases(d)])

read_declaration(s, d) ==
    LET heads == {k \in DOMAIN d : \/ d[k].what = "MODULE_ID"
                                   \/ d[k].what = "LIBRARY_ID" /\ s # <<>>}
        head  == d[Min(heads)]
        m     == Len(s)
    IN  IF heads # {} /\ head.what = "MODULE_ID"
        THEN Append(s, [name |-> head.id, library |-> <<>>])
        ELSE IF heads # {}
        THEN [s EXCEPT ![m].library = Append(@, [name |-> head.id, function |-> <<>>])]
        ELSE IF s = <<>> \/ s[m].library = <<>> THEN s
        ELSE [s EXCEPT ![m].library[Len(s[m].library)].function = read_function(@, d)]

----------------------------------------------------------------------------
(* Filling and ordering                                                     *)

Each(s, Op(_)) == [k \in DOMAIN s |-> Op(s[k])]

\* Every library of every module.
EachLibrary(s, Op(_)) ==
    Each(s, LAMBDA m : [m EXCEPT !.library =
                            Each(@, LAMBDA l : [l EXCEPT !.function = Op(@)])])

Indices(functions) == {functions[k].index : k \in DOMAIN functions}

\* An empty function for every index below the largest that no function has.
fill_library(functions) ==
    LET Numbers  == [i \in 1 .. Max(Indices(functions) \cup {0}) |-> i - 1]
        gaps     == Select(Numbers, LAMBDA i : i \notin Indices(functions))
        Empty(i) == [name |-> NoName, index |-> i, alias |-> <<>>]
    IN  functions \o Each(gaps, Empty)

\* A slip: the functions stay in the order of their declarations, and those
\* that were filled in come last.
order_library_not(functions) == functions

\* qsort; function_index_cmp gives 1 and 0 and no negative number, with which
\* the merge sort of the library does well, and keeps those that are equal in
\* their order: those of index 0, then those of index 1 and so on.
order_library(functions) ==
    FlattenSeq([i \in 1 .. Max(Indices(functions) \cup {0}) + 1 |->
                    Select(functions, LAMBDA f : f.index = i - 1)])

fill_symtab(s)  == EachLibrary(s, fill_library)
order_symtab(s) == EachLibrary(s, order_library)

----------------------------------------------------------------------------
(* Statements                                                               *)

Statement(st, m, l, i, n) == [st |-> st, module |-> m, library |-> l, index |-> i, name |-> n]

print_function(f, l, m) ==
    LET Alias(n) == Statement("FA", m, l, f.index, n)
    IN  IF f.name = NoName THEN <<Statement("FU", m, l, f.index, NoName)>>
        ELSE <<Statement("FP", m, l, f.index, f.name)>>
             \o Each(f.alias, Alias)
             \o <<Statement("FE", m, l, f.index, f.name)>>

print_library(l, m) ==
    <<Statement("LP", m, l.name, 0, NoName)>>
    \o FlattenSeq(Each(l.function, LAMBDA f : print_function(f, l.name, m)))
    \o <<Statement("LE", m, l.name, 0, NoName)>>

print_module(m) ==
    <<Statement("MP", m.name, NoName, 0, NoName)>>
    \o FlattenSeq(Each(m.library, LAMBDA l : print_library(l, m.name)))
    \o <<Statement("ME", m.name, NoName, 0, NoName)>>

\* The macros SYMTAB, SYMTAB_MODULE_ID, SYMTAB_EXPORT and SYMTAB_IMPORT.
Empty == [all |-> <<>>, id |-> NoName, export |-> <<>>, import |-> <<>>]

print_symtab(s) == [Empty EXCEPT !.all = FlattenSeq(Each(s, print_module))]

print_symtab_module(s, outfile) ==
    LET module_match(m) == m.name = outfile
        same   == Select(s, module_match)
        others == Select(s, LAMBDA m : ~module_match(m))
    IN  [Empty EXCEPT
            !.id     = IF same = <<>> THEN NoName ELSE Head(same).name,
            !.export = IF same = <<>> \/ Head(same).library = <<>> THEN <<>>
                       ELSE print_module(Head(same)),
            !.import = FlattenSeq(Each(others, print_module))]

Printed == IF option.module THEN print_symtab_module(symtab, option.outfile)
           ELSE print_symtab(symtab)

----------------------------------------------------------------------------
(* main                                                                     *)

\* parse_options, with what getopt_long tells it.
parse_options(args) ==
    [module |-> Chosen(args, "module"), files |-> Chosen(args, "file"),
     outfile |-> LastOf(args, "output", NoName)]

Init ==
    /\ \E args \in CommandLines :
          /\ option = parse_options(args)
          /\ phase = IF Parsed(args) = "parsed" THEN "read" ELSE Parsed(args)
    /\ input = <<>> /\ symtab = <<>>
    /\ tmp = Missing /\ out = Earlier /\ stdout = Missing

Read(d) ==
    /\ phase = "read" /\ option.files /\ Len(input) < MaxDeclarations
    /\ input' = Append(input, d)
    /\ symtab' = read_declaration(symtab, d)
    /\ UNCHANGED <<option, phase, tmp, out, stdout>>

FillAndOrder ==
    /\ phase = "read"
    /\ symtab' = order_symtab(fill_symtab(symtab))
    /\ phase' = "ordered"
    /\ UNCHANGED <<option, input, tmp, out, stdout>>

\* write_symtab, by the calls of it that may fail.
Open ==
    /\ phase = "ordered" /\ option.outfile # NoName
    /\ phase' = "open" /\ tmp' = Partial
    /\ UNCHANGED <<option, input, symtab, out, stdout>>

\* A slip: the file is closed after it was renamed.
CloseLate ==
    /\ phase = "open"
    /\ phase' = "closed"
    /\ UNCHANGED <<option, input, symtab, tmp, out, stdout>>

Close ==
    /\ phase = "open"
    /\ phase' = "closed" /\ tmp' = Printed
    /\ UNCHANGED <<option, input, symtab, out, stdout>>

\* option.tmpfile is freed but not cleared, and atexit_ removes a file of
\* whatever name that memory holds by then: none of this program's.
Rename ==
    /\ phase = "closed"
    /\ phase' = "done" /\ out' = tmp /\ tmp' = Missing
    /\ UNCHANGED <<option, input, symtab, stdout>>

\* Without option.outfile there is nothing to match modules with.
Stdout ==
    /\ phase = "ordered" /\ option.outfile = NoName
    /\ ~option.module \/ symtab = <<>>
    /\ phase' = "done" /\ stdout' = Printed
    /\ UNCHANGED <<option, input, symtab, tmp, out>>

\* A file that cannot be read, an integer that is malformed, an output that
\* cannot be opened, written, closed or renamed: pr_fatal_error, and atexit_.
Fail ==
    /\ phase \notin {"done", "exited", "failed", "killed"}
    /\ phase' = "failed"
    /\ tmp' = IF phase \in {"open", "closed"} THEN Missing ELSE tmp
    /\ UNCHANGED <<option, input, symtab, out, stdout>>

\* The program is killed, and atexit_ is not run.
Kill ==
    /\ phase \in {"open", "closed"}
    /\ phase' = "killed"
    /\ UNCHANGED <<option, input, symtab, tmp, out, stdout>>

Next ==
    \/ \E d \in Declarations : Read(d)
    \/ FillAndOrder \/ Open \/ Close \/ Rename \/ Stdout \/ Fail \/ Kill

Spec == Init /\ [][Next]_vars

----------------------------------------------------------------------------
(* Properties                                                               *)

\* The output is never a part of a table, whenever the program fails or is
\* killed: it is the table of an earlier run until it is that of this one.  A
\* run that ends by itself leaves no temporary file.
OutputIsWhole ==
    /\ out = IF phase = "done" /\ option.outfile # NoName THEN Printed ELSE Earlier
    /\ phase \in {"done", "exited", "failed"} => tmp = Missing
=============================================================================
