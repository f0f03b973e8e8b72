------------------------------- MODULE Symtab -------------------------------
(***************************************************************************)
(* tool/symtab.c: the table that the statements of tool/iopmod-symc.c are   *)
(* compiled into, with its iterators and look-ups, and what the assembler   *)
(* makes of them for a module, include/iopmod/module-symbol.S.  The table   *)
(* is one array with a row for every module, library, function and alias,   *)
(* and the iterators tell them apart by the names that are missing.         *)
(***************************************************************************)
EXTENDS Symc

CONSTANT Alphabet   \* the names as strcasecmp orders them

\* Statements are those of the macro that was written.
Row(m, l, n, i, a) == [module |-> m, library |-> l, function |-> n, index |-> i, alias |-> a]

\* MODULE_PROLOGUE and so on; FE, LE, ME and FU make no row.
RowsOf(s) ==
    CASE s.st = "MP" -> <<Row(s.module, NoName, NoName, 0, FALSE)>>
      [] s.st = "LP" -> <<Row(s.module, s.library, NoName, 0, FALSE)>>
      [] s.st = "FP" -> <<Row(s.module, s.library, s.name, s.index, FALSE)>>
      [] s.st = "FA" -> <<Row(s.module, s.library, s.name, s.index, TRUE)>>
      [] OTHER       -> <<>>

\* The array "symtab", which an empty row ends.
Table(t) == FlattenSeq(Each(t.all, RowsOf)) \o <<Row(NoName, NoName, NoName, 0, FALSE)>>

----------------------------------------------------------------------------
(* Iterators: a module, library or function is the place of its row         *)

symtab_end(T, i)          == T[i].module = NoName
symtab_library_end(T, i)  == symtab_end(T, i) \/ T[i].library = NoName
symtab_function_end(T, i) == symtab_end(T, i) \/ T[i].function = NoName

\* The first row from i on that ends the loop "while (...) symbol++".
Until(T, i, P(_)) == Min({j \in i .. Len(T) : P(j)})

symtab_next_symbol(T, i) == IF symtab_end(T, i) THEN i ELSE i + 1

symtab_next_module(T, i) ==
    symtab_next_symbol(T, Until(T, i + 1, LAMBDA j : symtab_library_end(T, j)))

LibraryRow(T, j) == symtab_end(T, j) \/ (T[j].library # NoName /\ T[j].function = NoName)

symtab_first_library(T)   == Until(T, 1, LAMBDA j : symtab_end(T, j) \/ T[j].library # NoName)
symtab_next_library(T, i) ==
    Until(T, IF symtab_library_end(T, i) THEN i ELSE i + 1, LAMBDA j : LibraryRow(T, j))

\* A slip: aliases are functions too.
symtab_next_function_any(T, i) == IF symtab_function_end(T, i) THEN i ELSE i + 1

symtab_next_function(T, i) ==
    Until(T, IF symtab_function_end(T, i) THEN i ELSE i + 1,
          LAMBDA j : symtab_function_end(T, j) \/ ~T[j].alias)

symtab_first_alias(T, i) == IF ~symtab_function_end(T, i) /\ T[i + 1].alias THEN i + 1 ELSE i
symtab_next_alias(T, i)  == IF symtab_function_end(T, i) THEN i ELSE i + 1

\* for (i = first; more; i = next)
For(T, first, More(_), Following(_)) ==
    LET from[i \in DOMAIN T] == IF More(i) THEN <<i>> \o from[Following(i)] ELSE <<>>
    IN  from[first]

symtab_for_each_module(T) ==
    For(T, 1, LAMBDA i : ~symtab_end(T, i), LAMBDA i : symtab_next_module(T, i))
symtab_for_each_library(T) ==
    For(T, symtab_first_library(T), LAMBDA i : T[i].library # NoName,
        LAMBDA i : symtab_next_library(T, i))
symtab_for_each_library_function(T, l) ==
    For(T, l + 1, LAMBDA i : T[i].function # NoName, LAMBDA i : symtab_next_function(T, i))
symtab_for_each_function_alias(T, f) ==
    For(T, symtab_first_alias(T, f), LAMBDA i : T[i].alias, LAMBDA i : symtab_next_alias(T, i))

----------------------------------------------------------------------------
(* Look-ups, and what tool/iopmod-info.c lists                              *)

symtab_library_for_name(T, name) ==
    SelectSeq(symtab_for_each_library(T), LAMBDA l : T[l].library = name)

\* The functions of the first library of a name with an index: the first of
\* them is returned, and NULL if there are none.
func_symbol_from_index(T, name, index) ==
    LET L == symtab_library_for_name(T, name)
    IN  IF L = <<>> THEN <<>>
        ELSE SelectSeq(symtab_for_each_library_function(T, Head(L)),
                       LAMBDA f : T[f].index = index)

\* The aliases of those functions, of which the first is returned, too.
func_first_alias_from_index(T, name, index) ==
    FlattenSeq(Each(func_symbol_from_index(T, name, index),
                    LAMBDA f : symtab_for_each_function_alias(T, f)))

symtab_module_for_library(T, l) == T[l].module

\* strcasecmp, for qsort, which keeps those that are equal in their order.
Place(name) == SelectInSeq(Alphabet, LAMBDA n : n = name)
ByName(rows, Name(_)) ==
    LET Before(a, b) == \/ Place(Name(rows[a])) < Place(Name(rows[b]))
                        \/ Name(rows[a]) = Name(rows[b]) /\ a < b
    IN  Each(SetToSortSeq(DOMAIN rows, Before), LAMBDA k : rows[k])

order_modules(T)   == ByName(symtab_for_each_module(T), LAMBDA i : T[i].module)
order_libraries(T) == ByName(symtab_for_each_library(T), LAMBDA l : T[l].library)

\* A line for each module; for each library; for each function.
print_module_line(T, i) == T[i].module
print_library_line(T, l) == [module |-> symtab_module_for_library(T, l), library |-> T[l].library]
print_functions(T, l) ==
    Each(symtab_for_each_library_function(T, l),
         LAMBDA f : [module |-> symtab_module_for_library(T, l), library |-> T[l].library,
                     index |-> T[f].index, name |-> T[f].function,
                     alias |-> Each(symtab_for_each_function_alias(T, f),
                                    LAMBDA a : T[a].function)])

list_modules(T)   == Each(order_modules(T), LAMBDA i : print_module_line(T, i))
list_libraries(T) == Each(order_libraries(T), LAMBDA l : print_library_line(T, l))
list_functions(T) == FlattenSeq(Each(order_libraries(T), LAMBDA l : print_functions(T, l)))

----------------------------------------------------------------------------
(* The export table of a module: EXPORT_FP is a word of it, the others and  *)
(* EXPORT_FU are none.                                                      *)

ExportTable(t) == Select(t.export, LAMBDA s : s.st = "FP")

----------------------------------------------------------------------------
(* What the declarations say, without reading them in turn                  *)

Is(k, what) == \E p \in DOMAIN input[k] : input[k][p].what = what
Latest(S) == IF S = {} THEN 0 ELSE Max(S)
IdOf(k, what) == Head(ids(input[k], what))

ModuleAt(k)  == Latest({j \in 1 .. k : Is(j, "MODULE_ID")})
LibraryAt(k) == Latest({j \in ModuleAt(k) + 1 .. k : Is(j, "LIBRARY_ID")})

\* The declarations of functions, in a module and a library of it.
Functions == {k \in DOMAIN input : Is(k, "id_") /\ ModuleAt(k) > 0 /\ LibraryAt(k) > 0}

LineOf(k) == [module  |-> IdOf(ModuleAt(k), "MODULE_ID"),
              library |-> IdOf(LibraryAt(k), "LIBRARY_ID"),
              index   |-> IdOf(k, "id_"),
              name    |-> FunctionName(input[k]),
              alias   |-> Aliases(input[k])]

Declared(S) == [line \in {LineOf(k) : k \in S} |-> Cardinality({k \in S : LineOf(k) = line})]
Counted(s)  == [line \in Range(s) |-> Cardinality({k \in DOMAIN s : s[k] = line})]

----------------------------------------------------------------------------
(* Properties                                                               *)

Complete == phase = "done" /\ ~option.module
AllTable == Table(Printed)

\* Every function that a header file declares is listed under its module and
\* its library, once, with its index and all of its aliases, and nothing else
\* is: whatever was filled in and however rows were ordered.  Every library is
\* listed with its module, and so are the modules, all that have a library and
\* none twice, both by their names.
ModulesAll == {k \in DOMAIN input : Is(k, "MODULE_ID")}
LibrariesAll == {k \in DOMAIN input : Is(k, "LIBRARY_ID") /\ ModuleAt(k) > 0}
ModuleLines(S) == ByName(SetToSortSeq(S, <), LAMBDA k : IdOf(k, "MODULE_ID"))
LibraryLines == ByName(SetToSortSeq(LibrariesAll, <), LAMBDA k : IdOf(k, "LIBRARY_ID"))
ModuleOf(k) == IdOf(ModuleAt(k), "MODULE_ID")

DeclaredIsListed ==
    Complete =>
        /\ Counted(list_functions(AllTable)) = Declared(Functions)
        /\ list_libraries(AllTable) =
              Each(LibraryLines, LAMBDA k : [module |-> ModuleOf(k), library |-> IdOf(k, "LIBRARY_ID")])
        /\ \E S \in SUBSET ModulesAll :
              /\ {ModuleAt(k) : k \in LibrariesAll} \subseteq S
              /\ list_modules(AllTable) = Each(ModuleLines(S), LAMBDA k : IdOf(k, "MODULE_ID"))

\* "index of function in library export table, starting from 0" (symtab.h):
\* so it is for a library whose indices have no gaps and no duplicates, if the
\* module has one library, as the label _module_export has it.
Gapless(s) == {s[k].index : k \in DOMAIN s} = 0 .. Len(s) - 1

ExportSlotIsIndex ==
    phase = "done" /\ Len(Select(Printed.export, LAMBDA s : s.st = "LP")) = 1 =>
        LET slots == ExportTable(Printed)
        IN  Gapless(slots) => \A k \in DOMAIN slots : slots[k].index = k - 1
=============================================================================
