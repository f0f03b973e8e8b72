-------------------------------- MODULE Irx ---------------------------------
(***************************************************************************)
(* A module as a file, and tool/iopmod-info.c, which shows what it imports  *)
(* and exports, with tool/irx.c and tool/elf.c.  The tables in its text are *)
(* what include/iopmod/module-symbol.S makes of the statements that         *)
(* iopmod-symc printed, and the names that are shown are found again in the *)
(* symbol table that iopmod-symc compiled into iopmod-info: a round trip    *)
(* through two outputs of one tool.                                         *)
(*                                                                          *)
(* A file is a sequence of words.  Offsets and addresses are in words.      *)
(***************************************************************************)
EXTENDS Symtab

CONSTANTS
    Long,       \* names of IOPMOD_MAX_LIBRARY_NAME characters
    Headers,    \* declarations, of which each is in a header file
    InfoCommandLines,   \* what iopmod-info may be called with
    None,       \* nothing is shown; no file
    _init_module    \* the name of the entry

VARIABLES
    built,      \* the module: its name, the functions it calls, the shape of its tables
    statements, \* what iopmod-symc --module printed for it
    text,       \* section .text of the module
    symbols,    \* its symbols
    shown       \* what iopmod-info shows of it

irxVars == <<vars, built, statements, text, symbols, shown>>

----------------------------------------------------------------------------
(* The text of a module: include/iopmod/module-symbol.S and script/iop.ld   *)

\* The statements of the functions it calls, by any name: the linker drops the
\* others.
Called(k, s) ==
    LET line == LineOf(k)
    IN  s = Statement("FP", line.module, line.library, line.index, line.name)
ImportFPs == SelectSeq(statements.import, LAMBDA s : \E k \in built.calls : Called(k, s))

\* IMPORT_FP and IMPORT_FE: a table for every function, with a link of two
\* instructions and a null.  Modules of other makers have tables of several.
Word(is, val) == [is |-> is, val |-> val]
Number(v) == Word("number", v)

Heading(magic, library) == <<Word(magic, 0), Number(0), Word("version", 0), Word("name", library)>>
Link(index) == <<Word("jr", 0), Word("li", index)>>
Nulls == <<Number(0), Number(0)>>

ImportTable(s) == Heading("import", s.library) \o Link(s.index) \o Nulls

ImportTables(FPs) ==
    IF ~built.grouped THEN FlattenSeq(Each(FPs, ImportTable))
    ELSE LET Of(l) == SelectSeq(FPs, LAMBDA s : s.library = l)
             First(k) == \A j \in 1 .. k - 1 : FPs[j].library # FPs[k].library
             first == SelectSeq([k \in DOMAIN FPs |-> k], First)
         IN  FlattenSeq(Each(first, LAMBDA k :
                 Heading("import", FPs[k].library)
                 \o FlattenSeq(Each(Of(FPs[k].library), LAMBDA s : Link(s.index)))
                 \o Nulls))

\* EXPORT_LP, EXPORT_FP and EXPORT_LE.  Its functions follow _module_init.
FunctionAddress(k) == k

ExportTables ==
    LET libraries == SelectSeq(statements.export, LAMBDA s : s.st = "LP")
        FPs       == ExportTable(statements)
    IN  FlattenSeq(Each(libraries, LAMBDA l :
            Heading("export", l.library)
            \o Each(SelectSeq([k \in DOMAIN FPs |-> FunctionAddress(k)],
                              LAMBDA k : FPs[k].library = l.library), Number)
            \o <<Number(0)>>))

Code == [k \in 1 .. Len(ExportTable(statements)) + 3 |-> Word("code", 0)]
Text == Code \o ImportTables(ImportFPs) \o ExportTables

\* What is at the address of a link of this build: the names of the function.
SymbolOf(s, address) ==
    LET line  == LineOf(CHOOSE k \in built.calls : Called(k, s))
        names == <<line.name>> \o line.alias
    IN  [type |-> "FUNC", value |-> address,
         name |-> IF built.symbol \in DOMAIN names THEN names[built.symbol] ELSE line.name]

Symbols(FPs) ==
    IF built.grouped THEN <<>>
    ELSE [k \in DOMAIN FPs |-> SymbolOf(FPs[k], Len(Code) + 8 * (k - 1) + 4)]

\* Sections have their addresses from the script, offsets by their order.
Section(name, type, addr, offset, size) ==
    [name |-> name, type |-> type, addr |-> addr, offset |-> offset, size |-> size]

\* The sections .iopmod and .rodata: id and entry addresses and the name; the id
\* with the address of its name.
IOPMOD_NO_ID == -1
EV_CURRENT == 1
IopmodWords == <<Number(Len(text)), Number(0), Word("name", built.name)>>
IdWords     == <<Number(Len(text) + 2), Word("version", 0), Word("name", built.name)>>

Image(stripped, linked) ==
    LET T == Len(text)
    IN  [word |-> <<Word("ehdr", EV_CURRENT)>> \o IopmodWords \o text \o IdWords,
         symbol |-> Each(symbols, LAMBDA s : IF stripped THEN [s EXCEPT !.name = NoName] ELSE s)
                    \o <<[type |-> "SECTION", value |-> 0, name |-> ".text"]>>,
         section |-> <<Section("", "NULL", 0, 0, 0),
                       Section(".iopmod", IF linked THEN "IOPMOD" ELSE "PROGBITS", 0, 1, 3),
                       Section(".text", "PROGBITS", 0, 4, T),
                       Section(".rodata", "PROGBITS", T, 4 + T, 3)>>]

\* Files that are none: too short for a header, no ELF object or one of another
\* version, and an object of the build, which has no section .iopmod.
NoModules(f) ==
    {[f EXCEPT !.word = <<>>],
     [f EXCEPT !.word[1] = Word("code", EV_CURRENT)],
     [f EXCEPT !.word[1] = Word("ehdr", EV_CURRENT + 1)],
     [f EXCEPT !.section = SelectSeq(@, LAMBDA s : s.name # ".iopmod")]}

----------------------------------------------------------------------------
(* tool/elf.c                                                               *)

elf_ent_for_offset(offset, f) == f.word[offset + 1]

elf_offset_in_section(offset, shdr) ==
    shdr.offset <= offset /\ offset < shdr.offset + shdr.size
elf_addr_in_section(addr, shdr) ==
    shdr.addr <= addr /\ addr < shdr.addr + shdr.size

\* elf_for_each_section, until one is found; none is -1.
FirstSection(f, P(_)) == SelectInSeq(f.section, P)

\* elf_ent_for_addr, as an offset.
elf_offset_for_addr(addr, f) ==
    LET k == FirstSection(f, LAMBDA s : s.type = "PROGBITS" /\ elf_addr_in_section(addr, s))
    IN  IF k = 0 THEN -1 ELSE f.section[k].offset + addr - f.section[k].addr

elf_addr_for_ent(offset, f) ==
    LET k == FirstSection(f, LAMBDA s : elf_offset_in_section(offset, s))
    IN  IF k = 0 THEN -1 ELSE offset - f.section[k].offset + f.section[k].addr

elf_first_section_with_name(name, f) ==
    f.section[FirstSection(f, LAMBDA s : s.name = name)]

\* elf_symbol gives the name of a symbol or of its section; a symbol that was
\* stripped has the empty name.
elf_symbol_for_addr(addr, f) ==
    LET k == SelectInSeq(f.symbol, LAMBDA s : s.value = addr)
    IN  IF k = 0 THEN None ELSE f.symbol[k].name

----------------------------------------------------------------------------
(* tool/irx.c: libraries and links are offsets                              *)

\* The entries of all libraries: the words of the text that are the magic.
irx_for_each_library(magic, f) ==
    LET shdr == elf_first_section_with_name(".text", f)
    IN  SelectSeq([k \in 1 .. shdr.size |-> shdr.offset + k - 1],
                  LAMBDA o : elf_ent_for_offset(o, f).is = magic)

FirstLink(library) == library + 4

Null(offset, f) == LET w == elf_ent_for_offset(offset, f) IN w.is = "number" /\ w.val = 0

\* The first link is not tested; the next ones end with a null.
irx_for_each_import_link(library, f) ==
    LET link == FirstLink(library)
        count == Min({n \in 1 .. (Len(f.word) - link) \div 2 - 1 : Null(link + 2 * n + 1, f)})
    IN  [n \in 1 .. count |-> link + 2 * (n - 1)]

irx_for_each_export_link(library, f) ==
    LET link == FirstLink(library)
        count == Min({n \in 1 .. Len(f.word) - link - 1 : Null(link + n, f)})
    IN  [n \in 1 .. count |-> link + n - 1]

\* A slip: the first half of a link.
irx_id_for_import_link_jr(link, f) == elf_ent_for_offset(link, f).val
irx_id_for_import_link(link, f) == elf_ent_for_offset(link + 1, f).val

\* The buffer has a header, which has the magic and the version.
elf_identify(f) ==
    /\ Len(f.word) >= 1
    /\ Head(f.word).is = "ehdr" /\ Head(f.word).val = EV_CURRENT

\* NULL is -1.
irx_iopmod(f) ==
    LET k == FirstSection(f, LAMBDA s : s.name = ".iopmod")
    IN  IF k = 0 THEN -1 ELSE f.section[k].offset

irx_identify(f) == elf_identify(f) /\ irx_iopmod(f) # -1

\* The name, if the module has an id.
irx_iopmod_id(f) ==
    LET At(offset) == elf_offset_for_addr(elf_ent_for_offset(offset, f).val, f)
        id_addr    == elf_ent_for_offset(irx_iopmod(f), f).val
    IN  IF id_addr = IOPMOD_NO_ID THEN NoName
        ELSE elf_ent_for_offset(At(At(irx_iopmod(f))), f).val

----------------------------------------------------------------------------
(* tool/iopmod-info.c                                                       *)

\* library->name as a string: a name of eight characters has no null, and goes
\* on with the low byte of what follows, unless that is zero.  Then no
\* library has it.
LowByte(w) == IF w.is = "number" THEN (4 * w.val) % 256 ELSE 8
LibraryString(library, f) ==
    LET name == elf_ent_for_offset(library + 3, f).val
    IN  IF name \in Long /\ LowByte(elf_ent_for_offset(library + 4, f)) # 0 THEN None ELSE name

NameOrNone(T, rows) == IF rows = <<>> THEN None ELSE T[Head(rows)].function

show_import_links(library, alias, f, T) ==
    LET Line(link) ==
            LET id   == irx_id_for_import_link(link, f)
                decl == NameOrNone(T, func_symbol_from_index(T, LibraryString(library, f), id))
                decl_alias ==
                    NameOrNone(T, func_first_alias_from_index(T, LibraryString(library, f), id))
                name == elf_symbol_for_addr(elf_addr_for_ent(link, f), f)
            IN  [library |-> elf_ent_for_offset(library + 3, f).val, id |-> id,
                 s0 |-> IF alias THEN decl_alias ELSE decl,
                 s1 |-> IF name \in {decl, decl_alias} THEN None ELSE name]
    IN  Each(irx_for_each_import_link(library, f), Line)

show_export_links(library, alias, f, T) ==
    LET links == irx_for_each_export_link(library, f)
        entry == elf_ent_for_offset(irx_iopmod(f) + 1, f).val
        Line(i) ==
            LET rows == func_symbol_from_index(T, LibraryString(library, f), i)
                decl == NameOrNone(T, rows)
                decl_alias ==
                    NameOrNone(T, func_first_alias_from_index(T, LibraryString(library, f), i))
                name == CASE decl # None /\ ~alias -> decl
                          [] decl_alias # None /\ alias -> decl_alias
                          [] decl # None /\ alias /\ decl_alias = None -> decl
                          [] decl = None /\ decl_alias # None /\ ~alias -> decl_alias
                          [] OTHER -> IF elf_ent_for_offset(links[i + 1], f).val = entry
                                      THEN _init_module ELSE None
            IN  [library |-> elf_ent_for_offset(library + 3, f).val, id |-> i,
                 address |-> elf_ent_for_offset(links[i + 1], f).val, name |-> name]
    IN  [k \in DOMAIN links |-> Line(k - 1)]

show_info(alias, f, T) ==
    [id |-> irx_iopmod_id(f), alias |-> alias,
     import |-> FlattenSeq(Each(irx_for_each_library("import", f),
                                LAMBDA l : show_import_links(l, alias, f, T))),
     export |-> FlattenSeq(Each(irx_for_each_library("export", f),
                                LAMBDA l : show_export_links(l, alias, f, T)))]

\* parse_options: a list ends the program, that of functions before that of
\* libraries before that of modules; otherwise there is to be one file.
info_options(args) ==
    LET lists == SelectSeq(<<"functions", "libraries", "modules">>, LAMBDA l : Chosen(args, l))
    IN  [status    |-> IF Parsed(args) = "parsed" /\ lists = <<>> /\ ~OneInput(args) THEN "failed"
                       ELSE Parsed(args),
         list      |-> IF lists = <<>> THEN None ELSE Head(lists),
         modules   |-> Chosen(args, "modules"), libraries |-> Chosen(args, "libraries"),
         identify  |-> Chosen(args, "identify"), alias |-> Chosen(args, "alias")]

\* Columns with modules and libraries are there if these are asked for, too.
show_list(o, T) ==
    CASE o.list = "functions" ->
            Each(list_functions(T),
                 LAMBDA l : [l EXCEPT !.module  = IF o.modules THEN @ ELSE None,
                                      !.library = IF o.libraries THEN @ ELSE None])
      [] o.list = "libraries" ->
            Each(list_libraries(T), LAMBDA l : [l EXCEPT !.module = IF o.modules THEN @ ELSE None])
      [] o.list = "modules" -> list_modules(T)

Ended(status, what) == [status |-> status, what |-> what]

\* main, of a file or None if it cannot be read: the status, and what is shown.
iopmod_info(args, f, T) ==
    LET o == info_options(args)
    IN  CASE o.status # "parsed" -> Ended(o.status, None)
          [] o.status = "parsed" /\ o.list # None -> Ended("exited", show_list(o, T))
          [] o.status = "parsed" /\ o.list = None ->
                IF f = None \/ ~irx_identify(f) THEN Ended("failed", None)
                ELSE Ended("exited", IF o.identify THEN None ELSE show_info(o.alias, f, T))

----------------------------------------------------------------------------
(* A module that is built after the header files were read                 *)

OwnFunctions == {k \in Functions : LineOf(k).module = built.name}

\* Its statements are compiled into iopmod-info.
IrxInit ==
    /\ input \in Headers
    /\ symtab = order_symtab(fill_symtab(FoldLeft(read_declaration, <<>>, input)))
    /\ option = [module |-> FALSE, files |-> TRUE, outfile |-> NoName]
    /\ phase = "compiled" /\ tmp = Missing /\ out = Earlier /\ stdout = Printed
    /\ built = None /\ statements = None
    /\ text = <<>> /\ symbols = <<>>
    /\ shown = None

\* The rules of module/Makefile: iopmod-symc --module, the compiler, the linker.
\* The label _module_export can be that of one library only.
PrintStatements ==
    /\ statements = None
    /\ \E name \in {IdOf(k, "MODULE_ID") : k \in ModulesAll} :
          /\ statements' = print_symtab_module(symtab, name)
          /\ built' \in [name : {name}, calls : SUBSET {k \in Functions : LineOf(k).module # name},
                         grouped : BOOLEAN, symbol : 1 .. 3]
    /\ Len(SelectSeq(statements'.export, LAMBDA s : s.st = "LP")) <= 1
    /\ built'.grouped => built'.symbol = 1
    /\ UNCHANGED <<vars, text, symbols, shown>>

Build ==
    /\ statements # None /\ text = <<>>
    /\ text' = Text /\ symbols' = Symbols(ImportFPs)
    /\ UNCHANGED <<vars, built, statements, shown>>

\* iopmod-info, of a file that is whole or of another one.
Info(stripped, linked) ==
    /\ text # <<>> /\ shown = None
    /\ LET module == Image(stripped, linked)
       IN  \E f \in {module, None} \cup NoModules(module), args \in InfoCommandLines :
              shown' = [args |-> args, module |-> f = module,
                        ended |-> iopmod_info(args, f, Table(stdout))]
    /\ UNCHANGED <<vars, built, statements, text, symbols>>

----------------------------------------------------------------------------
(* Properties                                                               *)

\* iopmod-info knows a module for one and nothing else, shows nothing of what is
\* none, and lists what it knows without a file.  Of a module it shows the id and
\* every function that it imports or exports under its library with its index
\* and by its declared name, or the first of its aliases: those that were declared
\* when the module was built, although a module holds no names and a table of its
\* own for each function.  A name in the module that says nothing new is left
\* out (iopmod-info.c; "exit sucessfully if the file is an IOP module").
\*
\* This is so for libraries whose names are shorter than eight characters, and
\* for exported libraries that have functions and no gaps.
What == shown.ended.what
Shows(line) == IF ~What.alias THEN line.name
               ELSE IF line.alias # <<>> THEN Head(line.alias) ELSE None

Lines(S) == {line \in {LineOf(k) : k \in S} : line.library \notin Long}

ImportsShown ==
    LET lines == {k \in DOMAIN What.import : What.import[k].library \notin Long}
        Of(line, l) ==
            /\ l.library = line.library /\ l.id = line.index /\ l.s0 = Shows(line)
            /\ l.s1 \in {None, NoName} \cup (Range(line.alias) \ {l.s0})
        calls == Lines(built.calls)
    IN  /\ Cardinality(lines) = Cardinality(calls)
        /\ \A line \in calls : \E j \in lines : Of(line, What.import[j])

ExportsShown ==
    LET slots(l) == SelectSeq(ExportTable(statements), LAMBDA s : s.library = l)
        Name(line) == IF Shows(line) = None THEN line.name ELSE Shows(line)
    IN  \A line \in Lines(OwnFunctions) :
            Gapless(slots(line.library)) =>
                \E j \in DOMAIN What.export :
                    /\ What.export[j].library = line.library
                    /\ What.export[j].id = line.index /\ What.export[j].name = Name(line)

InfoIsRight ==
    shown # None /\ Parsed(shown.args) = "parsed" =>
        LET Says(name) == Chosen(shown.args, name)
            listed == \E l \in {"functions", "libraries", "modules"} : Says(l)
            one    == OneInput(shown.args) /\ shown.module
        IN  /\ shown.ended.status = IF listed \/ one THEN "exited" ELSE "failed"
            /\ listed \/ (one /\ ~Says("identify")) <=> What # None
            /\ Says("functions") /\ Says("libraries") /\ Says("modules") =>
                  Counted(What) = Declared(Functions)
            /\ one /\ ~listed /\ ~Says("identify") =>
                  What.id = built.name /\ ImportsShown /\ ExportsShown
=============================================================================
