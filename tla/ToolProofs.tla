---------------------------- MODULE ToolProofs -----------------------------
(***************************************************************************)
(* The tools that make a module get all of it or fail: the symbol table of  *)
(* tool/iopmod-symc.c, for any declarations, and the module of the rule in  *)
(* module/Makefile (tool/file.c), for any number of blocks and growth of    *)
(* the buffer.  What the table says of a library has its functions in the   *)
(* order of their indices, and in the slots of those if they have no gap.   *)
(***************************************************************************)
EXTENDS Symtab, File, WellFoundedInduction, TLAPS

----------------------------------------------------------------------------
(* A module that is made                                                    *)

Block == [stripped : BOOLEAN, linked : BOOLEAN, k : 1 .. Blocks]

\* The command that is run reads a module in this state, and makes this of it.
Given == Module(rule = "link", FALSE)
Made  == Module(TRUE, rule = "link")

Begins(d, s) == Len(d) <= Len(s) /\ \A i \in 1 .. Len(d) : d[i] = s[i]

FileTypeOK ==
    /\ rule \in {"strip", "objcopy", "link", "made", "failed"}
    /\ at \in {"exit", "ropen", "grow", "read", "nul", "last", "rename", "wopen", "write", "wclose"}
    /\ fd \in BOOLEAN /\ short \in BOOLEAN /\ capacity \in Nat /\ got \in Nat
    /\ DOMAIN disk = {"iop", "irx"}

\* A command that is run is one of iopmod-link, and has its input until it
\* writes.
Input ==
    /\ at # "exit" <=> rule \in {"strip", "link"}
    /\ disk.iop = Module(FALSE, FALSE)
    /\ rule = "objcopy" \/ (rule = "link" /\ at \notin {"write", "wclose"}) =>
          disk.irx = Module(TRUE, FALSE)
    /\ rule = "made" => disk.irx = Module(TRUE, TRUE)

\* What is read is the beginning of the input; what is written, of what was made
\* of it.
Contents ==
    /\ at \in {"grow", "read"} => Begins(data, Given) /\ data \in Seq(Block)
    /\ at = "read" => Len(data) <= capacity /\ (got = 0 => Len(data) < capacity)
    /\ at = "nul" => Len(data) < capacity
    /\ at \in {"nul", "last"} => data = Given
    /\ at \in {"rename", "wopen", "write", "wclose"} => data = Made
    /\ at \in {"write", "wclose"} =>
          Begins(disk.irx, Made) /\ Len(disk.irx) = got /\ disk.irx \in Seq(Block)
    /\ at = "wclose" => short = (got < Blocks)

FileInv ==
    /\ FileTypeOK
    /\ Input /\ Contents
    /\ at \notin {"grow", "read", "nul", "write", "wclose"} => ~fd

LEMMA ModuleFacts ==
    ASSUME NEW s \in BOOLEAN, NEW l \in BOOLEAN
    PROVE  Module(s, l) \in Seq(Block) /\ Len(Module(s, l)) = Blocks
<1>1. Blocks \in Nat
  BY FileAssumption
<1>2. Module(s, l) \in [1 .. Blocks -> Block]
  BY DEF Module, Block
<1> QED BY <1>1, <1>2

LEMMA GivenAndMade ==
    /\ Given \in Seq(Block) /\ Len(Given) = Blocks
    /\ Made \in Seq(Block) /\ Len(Made) = Blocks
  BY ModuleFacts DEF Given, Made

LEMMA Stripped ==
    /\ strip_module(Module(FALSE, FALSE)) = Module(TRUE, FALSE)
    /\ link_module(Module(TRUE, FALSE)) = Module(TRUE, TRUE)
<1>1. ASSUME NEW s \in BOOLEAN, NEW l \in BOOLEAN
      PROVE  /\ DOMAIN Module(s, l) = 1 .. Blocks
             /\ \A k \in 1 .. Blocks :
                   Module(s, l)[k] = [stripped |-> s, linked |-> l, k |-> k]
  BY DEF Module
<1>2. ASSUME NEW k \in 1 .. Blocks
      PROVE  /\ [[stripped |-> FALSE, linked |-> FALSE, k |-> k] EXCEPT !.stripped = TRUE]
                    = [stripped |-> TRUE, linked |-> FALSE, k |-> k]
             /\ [[stripped |-> TRUE, linked |-> FALSE, k |-> k] EXCEPT !.linked = TRUE]
                    = [stripped |-> TRUE, linked |-> TRUE, k |-> k]
  <2>1. ASSUME NEW x \in Block, NEW y \in Block,
               x.stripped = y.stripped, x.linked = y.linked, x.k = y.k
        PROVE  x = y
    BY <2>1 DEF Block
  <2>2. ASSUME NEW x \in Block
        PROVE  /\ [x EXCEPT !.stripped = TRUE] \in Block /\ [x EXCEPT !.linked = TRUE] \in Block
               /\ [x EXCEPT !.stripped = TRUE].stripped = TRUE
               /\ [x EXCEPT !.stripped = TRUE].linked = x.linked
               /\ [x EXCEPT !.stripped = TRUE].k = x.k
               /\ [x EXCEPT !.linked = TRUE].stripped = x.stripped
               /\ [x EXCEPT !.linked = TRUE].linked = TRUE
               /\ [x EXCEPT !.linked = TRUE].k = x.k
    BY DEF Block
  <2>3. \A s, l \in BOOLEAN : [stripped |-> s, linked |-> l, k |-> k] \in Block
    BY DEF Block
  <2>4. PICK x \in Block : x = [stripped |-> FALSE, linked |-> FALSE, k |-> k]
    BY <2>3
  <2>5. PICK y \in Block : y = [stripped |-> TRUE, linked |-> FALSE, k |-> k]
    BY <2>3
  <2>6. PICK z \in Block : z = [stripped |-> TRUE, linked |-> TRUE, k |-> k]
    BY <2>3
  <2>7. [x EXCEPT !.stripped = TRUE] = y
    BY <2>1, <2>2, <2>4, <2>5
  <2>8. [y EXCEPT !.linked = TRUE] = z
    <3>1. PICK w \in Block : w = [y EXCEPT !.linked = TRUE]
      BY <2>2
    <3>2. w.stripped = y.stripped /\ w.linked = TRUE /\ w.k = y.k
      BY <2>2, <3>1
    <3>3. w.stripped = z.stripped /\ w.linked = z.linked /\ w.k = z.k
      BY <2>5, <2>6, <3>2
    <3> QED BY <2>1, <3>1, <3>3
  <2> QED BY <2>4, <2>5, <2>6, <2>7, <2>8
<1>3. strip_module(Module(FALSE, FALSE)) = Module(TRUE, FALSE)
  <2>1. strip_module(Module(FALSE, FALSE))
            = [k \in 1 .. Blocks |-> [stripped |-> TRUE, linked |-> FALSE, k |-> k]]
    BY <1>1, <1>2 DEF strip_module
  <2> QED BY <2>1 DEF Module
<1>4. link_module(Module(TRUE, FALSE)) = Module(TRUE, TRUE)
  <2>1. link_module(Module(TRUE, FALSE))
            = [k \in 1 .. Blocks |-> [stripped |-> TRUE, linked |-> TRUE, k |-> k]]
    BY <1>1, <1>2 DEF link_module
  <2> QED BY <2>1 DEF Module
<1> QED BY <1>3, <1>4

LEMMA SameModules == rule' = rule => Given' = Given /\ Made' = Made
  BY DEF Given, Made

LEMMA EmptyBegins ==
    /\ <<>> \in Seq(Block) /\ Len(<<>>) = 0
    /\ Begins(<<>>, Given) /\ Begins(<<>>, Made)
<1>1. Len(Given) \in Nat /\ Len(Made) \in Nat
  BY GivenAndMade
<1> QED BY <1>1 DEF Begins

\* What iopmod-link makes of its command line in the rule.
LEMMA LinkOptions ==
    /\ link_option.status = "parsed" /\ link_option.output = "irx"
    /\ link_option.strip <=> rule = "strip"
    /\ link_option.input = IF rule = "strip" THEN "iop" ELSE "irx"
<1>1. CASE rule = "strip"
  <2>. DEFINE a == <<Opt("strip"), OptArg("output", "irx"), Arg("iop")>>
  <2>1. /\ DOMAIN a = 1 .. 3 /\ a[1].opt = "strip"
        /\ a[2].opt = "output" /\ a[2].arg = "irx" /\ a[3].opt = "file" /\ a[3].arg = "iop"
    BY DEF Opt, OptArg, Arg
  <2>2. Arguments = a
    BY <1>1 DEF Arguments
  <2>. HIDE DEF a
  <2>3. /\ PlacesOf(a, {"help", "version", "?"}) = {} /\ PlacesOf(a, {"strip"}) = {1}
        /\ PlacesOf(a, {"output"}) = {2} /\ PlacesOf(a, {"file"}) = {3}
    BY <2>1 DEF PlacesOf
  <2>4. Max({2}) = 2 /\ Max({3}) = 3
    BY DEF Max
  <2>5. Parsed(a) = "parsed" /\ OneInput(a) /\ Chosen(a, "strip")
    BY <2>1, <2>3 DEF Parsed, OneInput, Chosen
  <2>6. LastOf(a, "file", Absent) = "iop" /\ LastOf(a, "output", Absent) = "irx"
    BY <2>1, <2>3, <2>4 DEF LastOf, Chosen
  <2> QED BY <1>1, <2>2, <2>5, <2>6 DEF link_option, link_options
<1>2. CASE rule # "strip"
  <2>. DEFINE a == <<OptArg("output", "irx"), Arg("irx")>>
  <2>1. /\ DOMAIN a = 1 .. 2
        /\ a[1].opt = "output" /\ a[1].arg = "irx" /\ a[2].opt = "file" /\ a[2].arg = "irx"
    BY DEF OptArg, Arg
  <2>2. Arguments = a
    BY <1>2 DEF Arguments
  <2>. HIDE DEF a
  <2>3. /\ PlacesOf(a, {"help", "version", "?"}) = {} /\ PlacesOf(a, {"strip"}) = {}
        /\ PlacesOf(a, {"output"}) = {1} /\ PlacesOf(a, {"file"}) = {2}
    BY <2>1 DEF PlacesOf
  <2>4. Max({1}) = 1 /\ Max({2}) = 2
    BY DEF Max
  <2>5. Parsed(a) = "parsed" /\ OneInput(a) /\ ~Chosen(a, "strip")
    BY <2>1, <2>3 DEF Parsed, OneInput, Chosen
  <2>6. LastOf(a, "file", Absent) = "irx" /\ LastOf(a, "output", Absent) = "irx"
    BY <2>1, <2>3, <2>4 DEF LastOf, Chosen
  <2> QED BY <1>2, <2>2, <2>5, <2>6 DEF link_option, link_options
<1> QED BY <1>1, <1>2

LEMMA InputIsGiven ==
    ASSUME Input, at \notin {"exit", "write", "wclose"}
    PROVE  Source = Given
<1>1. CASE rule = "strip"
  BY <1>1, LinkOptions DEF Input, Source, Given
<1>2. CASE rule = "link"
  BY <1>2, LinkOptions DEF Input, Source, Given
<1> QED BY <1>1, <1>2 DEF Input

\* What is moved next, of what is moved in order.
LEMMA MoreBegins ==
    ASSUME NEW s \in Seq(Block), NEW d \in Seq(Block), Begins(d, s),
           NEW k, k \in 1 .. Len(s) - Len(d)
    PROVE  LET r == d \o SubSeq(s, Len(d) + 1, Len(d) + k)
           IN  r \in Seq(Block) /\ Len(r) = Len(d) + k /\ Begins(r, s)
<1>. DEFINE u == SubSeq(s, Len(d) + 1, Len(d) + k)
            r == d \o u
<1>1. u \in Seq(Block) /\ Len(u) = k /\ \A i \in 1 .. k : u[i] = s[Len(d) + i]
  OBVIOUS
<1>2. r \in Seq(Block) /\ Len(r) = Len(d) + k
  BY <1>1
<1>3. ASSUME NEW i \in 1 .. Len(r) PROVE r[i] = s[i]
  <2>1. CASE i <= Len(d)
    <3>1. i \in 1 .. Len(d) /\ r[i] = d[i]
      BY <1>1, <1>2, <2>1
    <3> QED BY <3>1 DEF Begins
  <2>2. CASE i > Len(d)
    <3>1. i - Len(d) \in 1 .. k /\ r[i] = u[i - Len(d)]
      BY <1>1, <1>2, <2>2
    <3> QED BY <1>1, <3>1
  <2> QED BY <1>2, <2>1, <2>2
<1> QED BY <1>2, <1>3 DEF Begins

LEMMA WholeBegins ==
    ASSUME NEW S, NEW s \in Seq(S), NEW d \in Seq(S), Begins(d, s), Len(d) = Len(s)
    PROVE  d = s
  BY DEF Begins

LEMMA MinMax ==
    ASSUME NEW a \in Int, NEW b \in Int
    PROVE  /\ Min({a, b}) \in {a, b} /\ Min({a, b}) <= a /\ Min({a, b}) <= b
           /\ Max({a, b}) \in {a, b} /\ Max({a, b}) >= b
<1>1. \E x \in {a, b} : \A y \in {a, b} : x <= y
  OBVIOUS
<1>2. \E x \in {a, b} : \A y \in {a, b} : x >= y
  OBVIOUS
<1> QED BY <1>1, <1>2 DEF Min, Max

\* The buffer has room for more than was read.
LEMMA Grows == ASSUME NEW n \in Nat PROVE Grown(n) \in Nat /\ Grown(n) > n
<1>1. MinGrow \in Nat \ {0} /\ MaxGrow \in Nat \ {0}
  BY FileAssumption
<1>. DEFINE m == Max({n, MinGrow})
<1>2. m \in Nat \ {0}
  <2>1. m \in {n, MinGrow} /\ m >= MinGrow
    <3>1. n \in Int /\ MinGrow \in Int
      BY <1>1
    <3> QED BY <3>1, MinMax
  <2>. HIDE DEF m
  <2> QED BY <1>1, <2>1
<1>. HIDE DEF m
<1>3. Min({m, MaxGrow}) \in Nat \ {0}
  <2>1. m \in Int /\ MaxGrow \in Int
    BY <1>1, <1>2
  <2> QED BY <1>1, <1>2, <2>1, MinMax
<1> QED BY <1>3 DEF Grown, clamp_val, m

\* The file is read to its end, which a read of nothing shows when there was
\* room for more.
LEMMA ReadsKeep ==
    ASSUME FileInv, file_read
    PROVE  FileInv'
<1>. USE DEF FileInv, FileTypeOK
<1>1. CASE OpenRead
  <2>1. /\ at = "ropen" /\ UNCHANGED <<disk, short>>
        /\ data' = <<>> /\ capacity' = 0 /\ got' = 0
    BY <1>1 DEF OpenRead
  <2>2. CASE at' = "grow" /\ fd' = TRUE /\ rule' = rule
    <3>1. Contents'
      BY <2>1, <2>2, EmptyBegins, SameModules DEF Contents
    <3>2. Input'
      BY <2>1, <2>2 DEF Input
    <3> QED BY <2>1, <2>2, <3>1, <3>2
  <2>3. CASE at' = "exit" /\ rule' = "failed" /\ fd' = FALSE
    <3>1. Contents'
      BY <2>3 DEF Contents
    <3>2. Input'
      BY <2>1, <2>3 DEF Input
    <3> QED BY <2>1, <2>3, <3>1, <3>2
  <2> QED BY <1>1, <2>2, <2>3 DEF OpenRead, Fatal, xopen
<1>2. CASE Grow
  <2>1. /\ at = "grow" /\ at' = "read" /\ capacity' = Grown(Len(data)) /\ got' = 0
        /\ UNCHANGED <<disk, rule, fd, data, short>>
    BY <1>2 DEF Grow
  <2>2. Len(data) \in Nat /\ Begins(data, Given) /\ data \in Seq(Block)
    BY <2>1 DEF Contents
  <2>3. capacity' \in Nat /\ Len(data) < capacity'
    BY <2>1, <2>2, Grows
  <2>4. Contents'
    BY <2>1, <2>2, <2>3, SameModules DEF Contents
  <2>5. Input'
    BY <2>1 DEF Input
  <2> QED BY <2>1, <2>3, <2>4, <2>5
<1>3. CASE ReadSome
  <2>1. /\ at = "read" /\ Len(data) < capacity
        /\ UNCHANGED <<disk, rule, at, fd, capacity, short>>
    BY <1>3 DEF ReadSome
  <2>2. Source = Given
    BY <2>1, InputIsGiven
  <2>3. PICK s \in Seq(Block), d \in Seq(Block), c \in Nat :
            s = Given /\ d = data /\ Begins(d, s) /\ c = capacity
    BY <2>1, GivenAndMade DEF Contents
  <2>4. PICK k \in 1 .. Min({c, Len(s)}) - Len(d) :
            data' = d \o SubSeq(s, Len(d) + 1, Len(d) + k) /\ got' = got + k
    BY <1>3, <2>2, <2>3 DEF ReadSome
  <2>5. k \in 1 .. Len(s) - Len(d) /\ Len(d) + k <= c /\ k \in Nat \ {0}
    <3>1. PICK n \in Nat, m \in Nat : n = Len(s) /\ m = Len(d)
      OBVIOUS
    <3>2. Min({c, n}) <= c /\ Min({c, n}) <= n /\ Min({c, n}) \in Int
      <4>1. c \in Int /\ n \in Int
        OBVIOUS
      <4>2. Min({c, n}) <= c /\ Min({c, n}) <= n /\ Min({c, n}) \in {c, n}
        BY <4>1, MinMax
      <4> QED BY <4>1, <4>2
    <3>3. k \in 1 .. Min({c, n}) - m
      BY <3>1
    <3> QED BY <3>1, <3>2, <3>3
  <2>6. PICK r : r = d \o SubSeq(s, Len(d) + 1, Len(d) + k)
    OBVIOUS
  <2>7. r \in Seq(Block) /\ Len(r) = Len(d) + k /\ Begins(r, s)
    <3>1. Begins(d, s) /\ k \in 1 .. Len(s) - Len(d)
      BY <2>3, <2>5
    <3> QED BY <3>1, <2>6, MoreBegins
  <2>8. /\ data' = r /\ Given' = s /\ Len(data') <= capacity' /\ got' \in Nat \ {0}
    BY <2>1, <2>3, <2>4, <2>5, <2>6, <2>7, SameModules
  <2>9. Contents'
    BY <2>1, <2>7, <2>8 DEF Contents
  <2>10. Input'
    BY <2>1 DEF Input
  <2> QED BY <2>1, <2>8, <2>9, <2>10
<1>4. CASE ReadDone
  <2>1. /\ at = "read" /\ Len(data) \in {capacity, Len(Source)}
        /\ at' = (IF got = 0 THEN "nul" ELSE "grow")
        /\ UNCHANGED <<disk, rule, fd, data, capacity, got, short>>
    BY <1>4 DEF ReadDone
  <2>2. /\ Begins(data, Given) /\ data \in Seq(Block) /\ Len(data) \in Nat
        /\ (got = 0 => Len(data) < capacity)
    BY <2>1 DEF Contents
  <2>3. Input'
    BY <2>1 DEF Input
  <2>4. CASE got = 0
    <3>1. Source = Given
      BY <2>1, InputIsGiven
    <3>2. Len(data) = Len(Given) /\ Len(data) < capacity
      BY <2>1, <2>2, <2>4, <3>1
    <3>3. data = Given
      BY <2>2, <3>2, WholeBegins, GivenAndMade
    <3>4. Contents'
      BY <2>1, <2>4, <3>2, <3>3, SameModules DEF Contents
    <3> QED BY <2>1, <2>3, <2>4, <3>4
  <2>5. CASE got # 0
    <3>1. Contents'
      BY <2>1, <2>2, <2>5, SameModules DEF Contents
    <3> QED BY <2>1, <2>3, <2>5, <3>1
  <2> QED BY <2>4, <2>5
<1>5. CASE CloseRead
  BY <1>5, SameModules DEF CloseRead, xclose, Contents, Input
<1>6. CASE FailRead
  BY <1>6 DEF FailRead, Fatal, xclose, Contents, Input
<1> QED BY <1>1, <1>2, <1>3, <1>4, <1>5, <1>6 DEF file_read

\* iopmod-link makes of what it was given what it is told to make.
LEMMA ChangesKeep ==
    ASSUME FileInv, Change \/ file_rename \/ objcopy
    PROVE  FileInv'
<1>. USE DEF FileInv, FileTypeOK
<1>1. CASE Change
  <2>1. /\ at = "last" /\ at' = "rename" /\ capacity' = Len(data) + 1
        /\ data' = (IF link_option.strip THEN strip_module(data) ELSE link_module(data))
        /\ UNCHANGED <<disk, rule, fd, got, short>>
    BY <1>1 DEF Change
  <2>2. data = Given /\ Len(data) = Blocks /\ Blocks \in Nat
    BY <2>1, GivenAndMade, FileAssumption DEF Contents
  <2>3. rule \in {"strip", "link"} /\ Made' = Made
    BY <2>1, SameModules DEF Input
  <2>4. data' = Made
    <3>1. CASE rule = "strip"
      <4>1. data' = strip_module(data) /\ data = Module(FALSE, FALSE) /\ Made = Module(TRUE, FALSE)
        BY <2>1, <2>2, <3>1, LinkOptions DEF Given, Made
      <4> QED BY <4>1, Stripped
    <3>2. CASE rule = "link"
      <4>1. data' = link_module(data) /\ data = Module(TRUE, FALSE) /\ Made = Module(TRUE, TRUE)
        BY <2>1, <2>2, <3>2, LinkOptions DEF Given, Made
      <4> QED BY <4>1, Stripped
    <3> QED BY <2>3, <3>1, <3>2
  <2>5. Contents'
    BY <2>1, <2>3, <2>4 DEF Contents
  <2>6. Input'
    BY <2>1 DEF Input
  <2> QED BY <2>1, <2>2, <2>5, <2>6
<1>2. CASE file_rename
  BY <1>2, SameModules DEF file_rename, Fatal, Contents, Input
<1>3. CASE objcopy
  BY <1>3 DEF objcopy, Fatal, Contents, Input
<1> QED BY <1>1, <1>2, <1>3

\* What is written is the beginning of what was made, and all of it when that
\* is the end.
LEMMA WritesKeep ==
    ASSUME FileInv, file_write
    PROVE  FileInv'
<1>. USE DEF FileInv, FileTypeOK
<1>0. link_option.output = "irx"
  BY LinkOptions
<1>1. CASE OpenWrite
  <2>1. at = "wopen" /\ got' = 0 /\ short' = FALSE /\ UNCHANGED <<data, capacity>>
    BY <1>1 DEF OpenWrite
  <2>2. CASE at' = "write" /\ fd' = TRUE /\ rule' = rule /\ disk' = [disk EXCEPT !["irx"] = <<>>]
    <3>1. disk'.irx = <<>> /\ disk'.iop = disk.iop /\ DOMAIN disk' = DOMAIN disk
      BY <2>2
    <3>2. Made' = Made /\ data = Made
      BY <2>1, <2>2, SameModules DEF Contents
    <3>3. Contents'
      BY <2>1, <2>2, <3>1, <3>2, EmptyBegins DEF Contents
    <3>4. Input'
      BY <2>1, <2>2, <3>1 DEF Input
    <3> QED BY <2>1, <2>2, <3>1, <3>3, <3>4
  <2>3. CASE at' = "exit" /\ rule' = "failed" /\ fd' = FALSE /\ disk' = disk
    <3>1. Contents' /\ Input'
      BY <2>1, <2>3 DEF Contents, Input
    <3> QED BY <2>1, <2>3, <3>1
  <2> QED BY <1>0, <1>1, <2>2, <2>3 DEF OpenWrite, Fatal, xopen
<1>2. CASE WriteSome
  <2>1. at = "write" /\ got < Len(data) /\ UNCHANGED <<rule, at, fd, data, capacity, short>>
    BY <1>2 DEF WriteSome
  <2>2. PICK s \in Seq(Block), d \in Seq(Block) :
            s = Made /\ s = data /\ d = disk.irx /\ Begins(d, s) /\ Len(d) = got /\ Len(s) = Blocks
    BY <2>1, GivenAndMade DEF Contents
  <2>3. PICK k \in 1 .. Len(s) - Len(d) :
            /\ disk' = [disk EXCEPT !["irx"] = @ \o SubSeq(s, Len(d) + 1, Len(d) + k)]
            /\ got' = got + k
    BY <1>0, <1>2, <2>2 DEF WriteSome
  <2>4. PICK r : r = d \o SubSeq(s, Len(d) + 1, Len(d) + k)
    OBVIOUS
  <2>5. r \in Seq(Block) /\ Len(r) = Len(d) + k /\ Begins(r, s)
    <3>1. Begins(d, s)
      BY <2>2
    <3> QED BY <3>1, <2>4, MoreBegins
  <2>6. disk'.irx = r /\ disk'.iop = disk.iop /\ DOMAIN disk' = DOMAIN disk
    BY <2>2, <2>3, <2>4
  <2>7. Made' = Made /\ got' \in Nat
    BY <2>1, <2>3, SameModules
  <2>8. Contents'
    BY <2>1, <2>2, <2>3, <2>5, <2>6, <2>7 DEF Contents
  <2>9. Input'
    BY <2>1, <2>6 DEF Input
  <2> QED BY <2>1, <2>6, <2>7, <2>8, <2>9
<1>3. CASE WriteDone
  <2>1. /\ at = "write" /\ at' = "wclose" /\ short' = (got < Len(data))
        /\ UNCHANGED <<disk, rule, fd, data, capacity, got>>
    BY <1>3 DEF WriteDone
  <2>2. Len(data) = Blocks /\ Blocks \in Nat
    BY <2>1, GivenAndMade, FileAssumption DEF Contents
  <2>3. Contents'
    BY <2>1, <2>2, SameModules DEF Contents
  <2>4. Input'
    BY <2>1 DEF Input
  <2> QED BY <2>1, <2>2, <2>3, <2>4
<1>4. CASE CloseWrite
  <2>1. at = "wclose" /\ fd' = FALSE /\ at' = "exit" /\ UNCHANGED <<disk, data, capacity, got, short>>
        /\ rule' = (IF short THEN "failed" ELSE IF rule = "strip" THEN "objcopy" ELSE "made")
    BY <1>4, LinkOptions DEF CloseWrite, Fatal, xclose
  <2>2. ~short => disk.irx = Made
    <3>. SUFFICES ASSUME ~short PROVE disk.irx = Made
      OBVIOUS
    <3>1. Len(disk.irx) = Len(Made) /\ Begins(disk.irx, Made) /\ disk.irx \in Seq(Block)
      <4>1. Len(disk.irx) = got /\ ~(got < Blocks) /\ Begins(disk.irx, Made) /\ disk.irx \in Seq(Block)
        BY <2>1 DEF Contents
      <4> QED BY <4>1, GivenAndMade, FileAssumption DEF Begins
    <3> QED BY <3>1, GivenAndMade, WholeBegins
  <2>3. Contents'
    BY <2>1 DEF Contents
  <2>4. Input'
    BY <2>1, <2>2 DEF Input, Made
  <2> QED BY <2>1, <2>3, <2>4
<1>5. CASE FailWrite
  BY <1>5 DEF FailWrite, Fatal, xclose, Contents, Input
<1> QED BY <1>1, <1>2, <1>3, <1>4, <1>5 DEF file_write

LEMMA FileInvStarts == FileInit => FileInv
<1>. SUFFICES ASSUME FileInit PROVE FileInv
  OBVIOUS
<1>1. disk.iop = Module(FALSE, FALSE) /\ DOMAIN disk = {"iop", "irx"}
  BY DEF FileInit
<1> QED BY <1>1 DEF FileInit, FileInv, FileTypeOK, Input, Contents

LEMMA FileInvStays == FileInv /\ [FileNext]_fileVars => FileInv'
<1>. SUFFICES ASSUME FileInv, [FileNext]_fileVars PROVE FileInv'
  OBVIOUS
<1>1. CASE UNCHANGED fileVars
  <2>1. UNCHANGED <<disk, rule, at, fd, data, capacity, got, short>>
    BY <1>1 DEF fileVars
  <2>2. Input'
    BY <2>1 DEF FileInv, Input
  <2>3. Contents'
    BY <2>1, SameModules DEF FileInv, Contents
  <2> QED BY <2>1, <2>2, <2>3 DEF FileInv, FileTypeOK
<1> QED BY <1>1, ReadsKeep, ChangesKeep, WritesKeep DEF FileNext

\* The invariant holds in every state.
THEOREM FileInvHolds == FileSpec => []FileInv
  BY FileInvStarts, FileInvStays, PTL DEF FileSpec

\* Make goes on with the whole module or not at all, for any number of blocks
\* and any growth of the buffer (file.c, iopmod-link.c).
THEOREM WhatIsMadeIsWhole == FileSpec => []MadeIsWhole
<1>1. FileInv => MadeIsWhole
  <2>. SUFFICES ASSUME FileInv PROVE MadeIsWhole
    OBVIOUS
  <2>1. at = "wopen" => Len(data) = Blocks
    BY GivenAndMade DEF FileInv, Contents
  <2>2. rule \in {"objcopy", "link"} /\ at \in {"exit", "ropen", "grow", "read"} =>
            disk.irx = Module(TRUE, FALSE)
    BY DEF FileInv, Input
  <2> QED BY <2>1, <2>2 DEF FileInv, Input, MadeIsWhole
<1> QED BY <1>1, FileInvHolds, PTL

\* The null after the contents is within the buffer (file.c, file_read).
THEOREM NullAlwaysFits == FileSpec => []NulFits
<1>1. FileInv => NulFits
  BY InputIsGiven DEF FileInv, Contents, NulFits
<1> QED BY <1>1, FileInvHolds, PTL

----------------------------------------------------------------------------
(* A symbol table that is written                                           *)

\* The output is what an earlier run left until the temporary file, complete by
\* then, takes its place.
SymcInv ==
    /\ phase \in {"read", "ordered", "open", "closed", "done", "exited", "failed", "killed"}
    /\ out = IF phase = "done" /\ option.outfile # NoName THEN Printed ELSE Earlier
    /\ phase \in {"open", "closed"} => option.outfile # NoName
    /\ phase = "closed" => tmp = Printed
    /\ phase \in {"read", "ordered", "done", "exited", "failed"} => tmp = Missing

LEMMA PrintedStays == UNCHANGED <<option, symtab>> => Printed' = Printed
  BY DEF Printed

LEMMA SymcInvStays == SymcInv /\ [Next]_vars => SymcInv'
<1>. SUFFICES ASSUME SymcInv, [Next]_vars PROVE SymcInv'
  OBVIOUS
<1>1. ASSUME NEW d \in Declarations, Read(d) PROVE SymcInv'
  BY <1>1 DEF Read, SymcInv
<1>2. CASE FillAndOrder
  BY <1>2 DEF FillAndOrder, SymcInv
<1>3. CASE Open
  BY <1>3 DEF Open, SymcInv
<1>4. CASE Close
  BY <1>4, PrintedStays DEF Close, SymcInv
<1>5. CASE Rename
  BY <1>5, PrintedStays DEF Rename, SymcInv
<1>6. CASE Stdout
  BY <1>6, PrintedStays DEF Stdout, SymcInv
<1>7. CASE Fail
  BY <1>7, PrintedStays DEF Fail, SymcInv
<1>8. CASE Kill
  BY <1>8, PrintedStays DEF Kill, SymcInv
<1>9. CASE UNCHANGED vars
  BY <1>9, PrintedStays DEF vars, SymcInv
<1> QED BY <1>1, <1>2, <1>3, <1>4, <1>5, <1>6, <1>7, <1>8, <1>9 DEF Next

\* Where the command line may take main.
LEMMA StartsOrEnds == Init => phase \in {"read", "exited", "failed"}
<1>. SUFFICES ASSUME Init PROVE phase \in {"read", "exited", "failed"}
  OBVIOUS
<1>1. PICK args \in CommandLines :
        phase = IF Parsed(args) = "parsed" THEN "read" ELSE Parsed(args)
  BY DEF Init
<1>2. Parsed(args) \in {"parsed", "failed", "exited"}
  BY DEF Parsed
<1> QED BY <1>1, <1>2

\* The symbol table is never a part of one, whatever is declared, whichever call
\* of write_symtab fails and wherever the program is killed (iopmod-symc.c).
THEOREM WrittenIsWhole == Spec => []OutputIsWhole
<1>1. Init => SymcInv
  BY StartsOrEnds DEF Init, SymcInv
<1>2. SymcInv => OutputIsWhole
  BY DEF SymcInv, OutputIsWhole
<1> QED BY <1>1, <1>2, SymcInvStays, PTL DEF Spec

----------------------------------------------------------------------------
(* Numbers                                                                  *)

\* A set of numbers that is not empty has a least one.
LEMMA Least ==
    ASSUME NEW T \in SUBSET Nat, T # {}
    PROVE  \E m \in T : \A k \in T : m <= k
<1>. DEFINE R == OpToRel(<, Nat)
<1>1. IsWellFoundedOn(R, Nat)
  BY NatLessThanWellFounded
<1>2. R = {ss \in Nat \X Nat : ss[1] < ss[2]}
  BY DEF OpToRel
<1>. HIDE DEF R
<1>3. PICK m \in T : \A k \in T : ~ (<<k, m>> \in R)
  BY <1>1, WFMin
<1>4. ASSUME NEW k \in T PROVE m <= k
  <2>1. m \in Nat /\ k \in Nat
    OBVIOUS
  <2>2. ~ (<<k, m>> \in {ss \in Nat \X Nat : ss[1] < ss[2]})
    BY <1>3, <1>2
  <2> QED BY <2>1, <2>2
<1> QED BY <1>4

\* Induction over the numbers of a set.
LEMMA Induction ==
    ASSUME NEW S, 0 \in S, \A i \in Nat : i \in S => i + 1 \in S
    PROVE  Nat \subseteq S
<1>. SUFFICES ASSUME Nat \ S # {} PROVE FALSE
  OBVIOUS
<1>1. PICK m \in Nat \ S : \A k \in Nat \ S : m <= k
  BY Least
<1>2. m - 1 \in Nat /\ m - 1 \in S
  BY <1>1
<1> QED BY <1>2

----------------------------------------------------------------------------
(* Sequences of sequences                                                   *)

\* Where each of the sequences begins when they are one after the other.
Offsets(off, ss) ==
    /\ off \in [0 .. Len(ss) -> Nat] /\ off[0] = 0
    /\ \A j \in 1 .. Len(ss) : off[j] = off[j - 1] + Len(ss[j])

Placed(F, ss, off) ==
    /\ Len(F) = off[Len(ss)]
    /\ \A j \in 1 .. Len(ss) : \A x \in 1 .. Len(ss[j]) : F[off[j - 1] + x] = ss[j][x]

\* FlattenSeq is defined by a recursive function.  There is one.
LEMMA FlattenExists ==
    ASSUME NEW ss
    PROVE  \A m \in Nat : \E g : g = [i \in 1 .. m |-> IF i = 1 THEN ss[i] ELSE g[i - 1] \o ss[i]]
<1>. DEFINE Is1(g, m) == g = [i \in 1 .. m |-> IF i = 1 THEN ss[i] ELSE g[i - 1] \o ss[i]]
            S == {m \in Nat : \E g : Is1(g, m)}
<1>1. 0 \in S
  <2>1. Is1([i \in 1 .. 0 |-> 0], 0)
    OBVIOUS
  <2> QED BY <2>1
<1>2. ASSUME NEW m \in Nat, m \in S PROVE m + 1 \in S
  <2>1. PICK g : Is1(g, m)
    BY <1>2
  <2>. DEFINE h == [i \in 1 .. m + 1 |-> IF i = m + 1 THEN (IF i = 1 THEN ss[i] ELSE g[m] \o ss[i])
                                         ELSE g[i]]
  <2>2. \A i \in 1 .. m : h[i] = g[i]
    OBVIOUS
  <2>3. ASSUME NEW i \in 1 .. m + 1
        PROVE  h[i] = IF i = 1 THEN ss[i] ELSE h[i - 1] \o ss[i]
    <3>1. CASE i = m + 1
      <4>1. CASE i = 1
        BY <3>1, <4>1
      <4>2. CASE i # 1
        <5>1. m \in 1 .. m /\ i - 1 = m
          BY <3>1, <4>2
        <5>2. h[i - 1] = g[m]
          BY <5>1, <2>2
        <5>3. h[i] = g[m] \o ss[i]
          BY <3>1, <4>2
        <5> QED BY <4>2, <5>2, <5>3
      <4> QED BY <4>1, <4>2
    <3>2. CASE i # m + 1
      <4>1. i \in 1 .. m /\ (i # 1 => i - 1 \in 1 .. m)
        BY <3>2
      <4>2. g[i] = IF i = 1 THEN ss[i] ELSE g[i - 1] \o ss[i]
        BY <2>1, <4>1
      <4>3. h[i] = g[i] /\ (i # 1 => h[i - 1] = g[i - 1])
        BY <4>1, <2>2
      <4> QED BY <4>2, <4>3
    <3> QED BY <3>1, <3>2
  <2>4. h = [i \in 1 .. m + 1 |-> h[i]]
    OBVIOUS
  <2>. HIDE DEF h
  <2>5. Is1(h, m + 1)
    BY <2>3, <2>4
  <2>6. m + 1 \in Nat
    OBVIOUS
  <2>. HIDE DEF Is1
  <2> QED BY <2>5, <2>6
<1>. HIDE DEF S
<1>3. Nat \subseteq S
  BY <1>1, <1>2, Induction
<1> QED BY <1>3 DEF S

LEMMA FlattenSeqIs ==
    ASSUME NEW A, NEW ss \in Seq(Seq(A)), ss # <<>>
    PROVE  \E g : /\ \A i \in 1 .. Len(ss) : g[i] = IF i = 1 THEN ss[i] ELSE g[i - 1] \o ss[i]
                  /\ FlattenSeq(ss) = g[Len(ss)]
<1>. DEFINE m == Len(ss)
            g == CHOOSE f : f = [i \in 1 .. m |-> IF i = 1 THEN ss[i] ELSE f[i - 1] \o ss[i]]
<1>1. m \in Nat /\ m # 0
  OBVIOUS
<1>2. g = [i \in 1 .. m |-> IF i = 1 THEN ss[i] ELSE g[i - 1] \o ss[i]]
  <2>1. \E f : f = [i \in 1 .. m |-> IF i = 1 THEN ss[i] ELSE f[i - 1] \o ss[i]]
    BY <1>1, FlattenExists
  <2> QED BY <2>1
<1>3. FlattenSeq(ss) = g[m]
  BY <1>1 DEF FlattenSeq
<1>. HIDE DEF g
<1>4. \A i \in 1 .. m : g[i] = IF i = 1 THEN ss[i] ELSE g[i - 1] \o ss[i]
  BY <1>2
<1> QED BY <1>3, <1>4

\* w has the elements of s, then those of t.
Concatenation(w, s, t) ==
    /\ Len(w) = Len(s) + Len(t) /\ Len(s) \in Nat /\ Len(t) \in Nat
    /\ \A y \in 1 .. Len(s) : w[y] = s[y]
    /\ \A y \in 1 .. Len(t) : w[Len(s) + y] = t[y]

LEMMA Concatenated ==
    ASSUME NEW A, NEW s \in Seq(A), NEW t \in Seq(A)
    PROVE  s \o t \in Seq(A) /\ Concatenation(s \o t, s, t)
  BY DEF Concatenation

\* Each sequence is found from its offset on.
LEMMA FlattenPlaces ==
    ASSUME NEW A, NEW ss \in Seq(Seq(A))
    PROVE  /\ FlattenSeq(ss) \in Seq(A)
           /\ \E off : Offsets(off, ss) /\ Placed(FlattenSeq(ss), ss, off)
<1>1. CASE ss = <<>>
  <2>1. FlattenSeq(ss) = <<>>
    BY <1>1 DEF FlattenSeq
  <2>2. <<>> \in Seq(A) /\ Len(ss) = 0
    BY <1>1
  <2>. DEFINE off == [j \in 0 .. 0 |-> 0]
  <2>3. Offsets(off, ss) /\ Placed(<<>>, ss, off)
    BY <2>2 DEF Offsets, Placed
  <2> QED BY <2>1, <2>2, <2>3
<1>2. CASE ss # <<>>
  <2>. DEFINE m == Len(ss)
  <2>1. m \in Nat /\ m # 0 /\ \A j \in 1 .. m : ss[j] \in Seq(A)
    BY <1>2
  <2>2. PICK g : /\ \A i \in 1 .. Len(ss) : g[i] = IF i = 1 THEN ss[i] ELSE g[i - 1] \o ss[i]
                 /\ FlattenSeq(ss) = g[Len(ss)]
    BY <1>2, FlattenSeqIs
  <2>. DEFINE off == [j \in 0 .. m |-> IF j = 0 THEN 0 ELSE Len(g[j])]
              Good(i) == /\ g[i] \in Seq(A)
                         /\ off[i] = off[i - 1] + Len(ss[i])
                         /\ off[i - 1] \in Nat
                         /\ \A j \in 1 .. i : off[j - 1] \in Nat /\ off[j - 1] + Len(ss[j]) <= Len(g[i])
                         /\ \A j \in 1 .. i : \A x \in 1 .. Len(ss[j]) : g[i][off[j - 1] + x] = ss[j][x]
              S == {i \in Nat : i \in 1 .. m => Good(i)}
  <2>3. 0 \in S
    OBVIOUS
  <2>4. off[0] = 0 /\ \A j \in 1 .. m : off[j] = Len(g[j])
    BY <2>1
  <2>. HIDE DEF off
  <2>5. ASSUME NEW i \in Nat, i \in S PROVE i + 1 \in S
    <3>. SUFFICES ASSUME i + 1 \in 1 .. m PROVE Good(i + 1)
      OBVIOUS
    <3>1. CASE i = 0
      <4>1. g[1] = ss[1] /\ ss[1] \in Seq(A) /\ 1 \in 1 .. m
        BY <2>1, <2>2
      <4>2. off[0] = 0 /\ off[1] = Len(ss[1])
        BY <4>1, <2>4
      <4>3. Len(ss[1]) \in Nat
        BY <4>1
      <4>4. Good(1)
        BY <4>1, <4>2, <4>3
      <4> QED BY <3>1, <4>4
    <3>2. CASE i # 0
      <4>1. i \in 1 .. m /\ Good(i)
        BY <3>2, <2>5
      <4>2. g[i + 1] = g[i] \o ss[i + 1]
        <5>1. i + 1 \in 1 .. Len(ss) /\ i + 1 # 1 /\ (i + 1) - 1 = i
          BY <3>2
        <5> QED BY <5>1, <2>2
      <4>3. g[i] \in Seq(A) /\ ss[i + 1] \in Seq(A) /\ off[i] = Len(g[i]) /\ off[i + 1] = Len(g[i + 1])
        BY <4>1, <2>1, <2>4
      <4>. HIDE DEF Good
      <4>4. /\ g[i + 1] \in Seq(A) /\ Len(g[i + 1]) = Len(g[i]) + Len(ss[i + 1])
            /\ \A y \in 1 .. Len(g[i]) : g[i + 1][y] = g[i][y]
            /\ \A y \in 1 .. Len(ss[i + 1]) : g[i + 1][Len(g[i]) + y] = ss[i + 1][y]
        <5>1. /\ g[i] \o ss[i + 1] \in Seq(A)
              /\ Len(g[i] \o ss[i + 1]) = Len(g[i]) + Len(ss[i + 1])
              /\ \A y \in 1 .. Len(g[i]) : (g[i] \o ss[i + 1])[y] = g[i][y]
              /\ \A y \in 1 .. Len(ss[i + 1]) : (g[i] \o ss[i + 1])[Len(g[i]) + y] = ss[i + 1][y]
          <6>. DEFINE u == g[i]
                      v == ss[i + 1]
          <6>1. u \in Seq(A) /\ v \in Seq(A)
            BY <4>3
          <6>. HIDE DEF u, v
          <6>2. u \o v \in Seq(A) /\ Concatenation(u \o v, u, v)
            BY <6>1, Concatenated
          <6> QED BY <6>2 DEF u, v, Concatenation
        <5>. DEFINE c == g[i] \o ss[i + 1]
        <5>2. g[i + 1] = c
          BY <4>2
        <5>3. /\ c \in Seq(A) /\ Len(c) = Len(g[i]) + Len(ss[i + 1])
              /\ \A y \in 1 .. Len(g[i]) : c[y] = g[i][y]
              /\ \A y \in 1 .. Len(ss[i + 1]) : c[Len(g[i]) + y] = ss[i + 1][y]
          BY <5>1
        <5>. HIDE DEF c
        <5> QED BY <5>2, <5>3
      <4>5. Len(g[i]) \in Nat /\ Len(ss[i + 1]) \in Nat
        BY <4>3
      <4>6. ASSUME NEW j \in 1 .. i + 1
            PROVE  /\ off[j - 1] \in Nat /\ off[j - 1] + Len(ss[j]) <= Len(g[i + 1])
                   /\ \A x \in 1 .. Len(ss[j]) : g[i + 1][off[j - 1] + x] = ss[j][x]
        <5>1. CASE j = i + 1
          <6>1. j - 1 = i
            BY <5>1
          <6>2. off[j - 1] = Len(g[i]) /\ ss[j] = ss[i + 1]
            BY <5>1, <6>1, <4>3
          <6>3. off[j - 1] \in Nat /\ off[j - 1] + Len(ss[j]) <= Len(g[i + 1])
            BY <6>2, <4>4, <4>5
          <6>4. \A x \in 1 .. Len(ss[i + 1]) : g[i + 1][Len(g[i]) + x] = ss[i + 1][x]
            BY <4>4
          <6> QED BY <6>2, <6>3, <6>4
        <5>2. CASE j # i + 1
          <6>1. j \in 1 .. i
            BY <5>2
          <6>2. /\ off[j - 1] \in Nat /\ off[j - 1] + Len(ss[j]) <= Len(g[i])
                /\ \A x \in 1 .. Len(ss[j]) : g[i][off[j - 1] + x] = ss[j][x]
            BY <6>1, <4>1 DEF Good
          <6>3. Len(ss[j]) \in Nat
            BY <2>1, <6>1
          <6>4. off[j - 1] + Len(ss[j]) <= Len(g[i + 1])
            <7>1. off[j - 1] \in Nat /\ off[j - 1] + Len(ss[j]) <= Len(g[i])
              BY <6>2
            <7>2. Len(g[i + 1]) = Len(g[i]) + Len(ss[i + 1])
              BY <4>4
            <7>3. off[j - 1] + Len(ss[j]) <= Len(g[i]) + Len(ss[i + 1])
              <8>1. \A a, b, c, d \in Nat : a + b <= c => a + b <= c + d
                OBVIOUS
              <8> QED BY <7>1, <6>3, <4>5, <8>1
            <7> QED BY <7>2, <7>3
          <6>5. ASSUME NEW x \in 1 .. Len(ss[j]) PROVE g[i + 1][off[j - 1] + x] = ss[j][x]
            <7>1. off[j - 1] + x \in 1 .. Len(g[i])
              <8>1. off[j - 1] \in Nat /\ off[j - 1] + Len(ss[j]) <= Len(g[i])
                BY <6>2
              <8> QED BY <8>1, <6>3, <4>5
            <7>2. g[i][off[j - 1] + x] = ss[j][x]
              BY <6>2
            <7>3. g[i + 1][off[j - 1] + x] = g[i][off[j - 1] + x]
              BY <7>1, <4>4
            <7> QED BY <7>2, <7>3
          <6> QED BY <6>2, <6>4, <6>5
        <5> QED BY <5>1, <5>2
      <4>7. off[i + 1] = off[(i + 1) - 1] + Len(ss[i + 1]) /\ off[(i + 1) - 1] \in Nat
        <5>1. (i + 1) - 1 = i
          OBVIOUS
        <5> QED BY <5>1, <4>3, <4>4, <4>5
      <4> QED BY <4>4, <4>6, <4>7 DEF Good
    <3> QED BY <3>1, <3>2
  <2>6. Nat \subseteq S
    <3>. HIDE DEF S
    <3> QED BY <2>3, <2>5, Induction
  <2>7. ASSUME NEW i \in 1 .. m PROVE Good(i)
    <3>. HIDE DEF Good
    <3>1. i \in S
      <4>. HIDE DEF S
      <4>1. i \in Nat
        BY <2>1
      <4> QED BY <4>1, <2>6
    <3> QED BY <3>1
  <2>8. FlattenSeq(ss) \in Seq(A)
    BY <2>1, <2>2, <2>7
  <2>9. Offsets(off, ss)
    <3>1. off = [j \in 0 .. m |-> off[j]]
      BY DEF off
    <3>2. \A j \in 0 .. m : off[j] \in Nat
      <4>1. ASSUME NEW j \in 1 .. m PROVE off[j] \in Nat
        <5>1. g[j] \in Seq(A)
          BY <2>7
        <5> QED BY <5>1, <2>4
      <4> QED BY <4>1, <2>4
    <3>3. off \in [0 .. m -> Nat]
      BY <3>1, <3>2
    <3> QED BY <3>3, <2>4, <2>7 DEF Offsets
  <2>10. Placed(FlattenSeq(ss), ss, off)
    <3>1. m \in 1 .. m
      BY <2>1
    <3>2. Good(m) /\ off[m] = Len(g[m])
      BY <3>1, <2>7, <2>4
    <3> QED BY <3>2, <2>2 DEF Placed
  <2> QED BY <2>8, <2>9, <2>10
<1> QED BY <1>1, <1>2

LEMMA OffsetsAre ==
    ASSUME NEW A, NEW ss \in Seq(Seq(A)), NEW off, Offsets(off, ss)
    PROVE  /\ Len(ss) \in Nat /\ \A j \in 1 .. Len(ss) : Len(ss[j]) \in Nat
           /\ off[0] = 0 /\ off[Len(ss)] \in Nat /\ \A j \in 0 .. Len(ss) : off[j] \in Nat
<1>1. Len(ss) \in Nat /\ \A j \in 1 .. Len(ss) : ss[j] \in Seq(A)
  OBVIOUS
<1>2. \A j \in 0 .. Len(ss) : off[j] \in Nat
  BY DEF Offsets
<1>3. Len(ss) \in 0 .. Len(ss)
  BY <1>1
<1> QED BY <1>1, <1>2, <1>3 DEF Offsets

LEMMA OffsetsAscend ==
    ASSUME NEW A, NEW ss \in Seq(Seq(A)), NEW off, Offsets(off, ss),
           NEW i \in 0 .. Len(ss), NEW j \in 0 .. Len(ss), i <= j
    PROVE  off[i] <= off[j]
<1>. DEFINE S == {k \in Nat : i + k <= Len(ss) => off[i] <= off[i + k]}
<1>1. Len(ss) \in Nat /\ \A k \in 1 .. Len(ss) : Len(ss[k]) \in Nat
  <2>1. \A k \in 1 .. Len(ss) : ss[k] \in Seq(A)
    OBVIOUS
  <2> QED BY <2>1
<1>2. 0 \in S
  <2>1. off[i] \in Nat /\ i + 0 = i
    BY OffsetsAre
  <2> QED BY <2>1
<1>3. ASSUME NEW k \in Nat, k \in S PROVE k + 1 \in S
  <2>. SUFFICES ASSUME i + (k + 1) <= Len(ss) PROVE off[i] <= off[i + (k + 1)]
    OBVIOUS
  <2>1. i + (k + 1) \in 1 .. Len(ss) /\ (i + (k + 1)) - 1 = i + k /\ i + k \in 0 .. Len(ss)
    BY <1>1
  <2>2. off[i + (k + 1)] = off[i + k] + Len(ss[i + (k + 1)])
    BY <2>1 DEF Offsets
  <2>3. off[i] <= off[i + k]
    BY <1>3, <2>1
  <2>4. off[i] \in Nat /\ off[i + k] \in Nat /\ Len(ss[i + (k + 1)]) \in Nat
    BY <1>1, <2>1 DEF Offsets
  <2>5. \A a, b, c \in Nat : a <= b => a <= b + c
    OBVIOUS
  <2>6. off[i] <= off[i + k] + Len(ss[i + (k + 1)])
    BY <2>3, <2>4, <2>5
  <2> QED BY <2>2, <2>6
<1>. HIDE DEF S
<1>4. j - i \in S
  <2>1. j - i \in Nat
    OBVIOUS
  <2> QED BY <2>1, <1>2, <1>3, Induction
<1>5. i + (j - i) = j /\ j <= Len(ss)
  OBVIOUS
<1> QED BY <1>4, <1>5 DEF S

Covered(ss, off, a) == \E j \in 1 .. Len(ss) : \E x \in 1 .. Len(ss[j]) : a = off[j - 1] + x

\* Every place is in one of the sequences.
LEMMA OffsetsCover ==
    ASSUME NEW A, NEW ss \in Seq(Seq(A)), NEW off, Offsets(off, ss), NEW a \in 1 .. off[Len(ss)]
    PROVE  Covered(ss, off, a)
<1>1. Len(ss) \in Nat
  OBVIOUS
<1>. DEFINE T == {k \in 1 .. Len(ss) : a <= off[k]}
<1>2. Len(ss) \in T
  <2>1. Len(ss) # 0
    BY DEF Offsets
  <2>2. off[Len(ss)] \in Nat
    BY OffsetsAre
  <2>3. a <= off[Len(ss)] /\ Len(ss) \in 1 .. Len(ss)
    BY <1>1, <2>1, <2>2
  <2> QED BY <2>3
<1>3. PICK j \in T : \A k \in T : j <= k
  <2>1. T \in SUBSET Nat
    OBVIOUS
  <2>. HIDE DEF T
  <2> QED BY <1>2, <2>1, Least
<1>4. j \in 1 .. Len(ss) /\ a <= off[j] /\ j - 1 \in 0 .. Len(ss)
  BY <1>1
<1>5. off[j - 1] \in Nat /\ off[j - 1] < a
  <2>1. off[j - 1] \in Nat
    BY <1>4 DEF Offsets
  <2>2. CASE j = 1
    <3>1. off[j - 1] = 0
      BY <2>2 DEF Offsets
    <3>2. off[Len(ss)] \in Nat
      BY OffsetsAre
    <3>3. a >= 1
      BY <3>2
    <3> QED BY <2>1, <3>1, <3>3
  <2>3. CASE j # 1
    <3>1. j - 1 \in 1 .. Len(ss) /\ ~(j <= j - 1)
      BY <1>4, <2>3
    <3>2. ~(j - 1 \in T)
      <4>. HIDE DEF T
      <4> QED BY <1>3, <3>1
    <3>3. ~(a <= off[j - 1])
      BY <3>1, <3>2
    <3>4. off[Len(ss)] \in Nat
      BY OffsetsAre
    <3>5. a \in Int
      BY <3>4
    <3> QED BY <2>1, <3>3, <3>5
  <2> QED BY <2>2, <2>3
<1>6. off[j] = off[j - 1] + Len(ss[j]) /\ Len(ss[j]) \in Nat
  <2>1. ss[j] \in Seq(A)
    BY <1>4
  <2> QED BY <2>1, <1>4 DEF Offsets
<1>7. a \in Int
  <2>1. off[Len(ss)] \in Nat
    BY OffsetsAre
  <2> QED BY <2>1
<1>8. a <= off[j - 1] + Len(ss[j])
  BY <1>4, <1>6
<1>9. a - off[j - 1] \in 1 .. Len(ss[j]) /\ a = off[j - 1] + (a - off[j - 1])
  BY <1>5, <1>6, <1>7, <1>8
<1> QED BY <1>4, <1>9 DEF Covered

\* The places of two elements, of which one is before the other.
Follow(ss, j, x, k, y) ==
    /\ j \in 1 .. Len(ss) /\ x \in 1 .. Len(ss[j])
    /\ k \in 1 .. Len(ss) /\ y \in 1 .. Len(ss[k])
    /\ j < k \/ (j = k /\ x < y)

\* F has the elements of all sequences, in their order.
Joins(F, ss) ==
    /\ \A a \in 1 .. Len(F) : \E j \in 1 .. Len(ss) : \E x \in 1 .. Len(ss[j]) : F[a] = ss[j][x]
    /\ \A j \in 1 .. Len(ss) : \A x \in 1 .. Len(ss[j]) : \E a \in 1 .. Len(F) : F[a] = ss[j][x]
    /\ \A a, b \in 1 .. Len(F) : a < b =>
          \E j, x, k, y : Follow(ss, j, x, k, y) /\ F[a] = ss[j][x] /\ F[b] = ss[k][y]
    /\ \A j, x, k, y : Follow(ss, j, x, k, y) =>
          \E a, b \in 1 .. Len(F) : a < b /\ F[a] = ss[j][x] /\ F[b] = ss[k][y]

LEMMA Flattened ==
    ASSUME NEW A, NEW ss \in Seq(Seq(A)), NEW F, F = FlattenSeq(ss)
    PROVE  F \in Seq(A) /\ Joins(F, ss)
<1>1. F \in Seq(A)
  BY FlattenPlaces
<1>2. PICK off : Offsets(off, ss) /\ Placed(F, ss, off)
  BY FlattenPlaces
<1>3. Len(ss) \in Nat /\ \A j \in 1 .. Len(ss) : Len(ss[j]) \in Nat
  <2>1. \A k \in 1 .. Len(ss) : ss[k] \in Seq(A)
    OBVIOUS
  <2> QED BY <2>1
<1>4. /\ Len(F) = off[Len(ss)] /\ Len(F) \in Nat
      /\ \A j \in 1 .. Len(ss) : \A x \in 1 .. Len(ss[j]) : F[off[j - 1] + x] = ss[j][x]
  <2>1. Len(F) = off[Len(ss)] /\ off[Len(ss)] \in Nat
    BY <1>2, OffsetsAre DEF Placed
  <2> QED BY <2>1, <1>2 DEF Placed
<1>5. ASSUME NEW j \in 1 .. Len(ss)
      PROVE  /\ off[j - 1] \in Nat /\ off[j] \in Nat /\ off[j] = off[j - 1] + Len(ss[j])
             /\ off[j] <= Len(F)
  <2>1. j \in 0 .. Len(ss) /\ j - 1 \in 0 .. Len(ss) /\ Len(ss) \in 0 .. Len(ss) /\ j <= Len(ss)
    BY <1>3
  <2>2. off[j] <= off[Len(ss)]
    BY <2>1, <1>2, OffsetsAscend
  <2>3. off[j - 1] \in Nat /\ off[j] \in Nat /\ off[j] = off[j - 1] + Len(ss[j])
    BY <2>1, <1>2 DEF Offsets
  <2> QED BY <2>2, <2>3, <1>4
<1>6. ASSUME NEW a \in 1 .. Len(F) PROVE Covered(ss, off, a)
  <2>1. a \in 1 .. off[Len(ss)] /\ Offsets(off, ss)
    BY <1>2, <1>4
  <2> QED BY <2>1, OffsetsCover
<1>7. ASSUME NEW j \in 1 .. Len(ss), NEW x \in 1 .. Len(ss[j])
      PROVE  off[j - 1] + x \in 1 .. Len(F) /\ off[j - 1] + x <= off[j]
  <2>1. off[j - 1] \in Nat /\ off[j] = off[j - 1] + Len(ss[j]) /\ off[j] <= Len(F) /\ Len(ss[j]) \in Nat
    BY <1>3, <1>5
  <2>2. off[j - 1] + Len(ss[j]) <= Len(F)
    BY <2>1
  <2>3. off[j - 1] + x <= off[j - 1] + Len(ss[j]) /\ off[j - 1] + x \in Nat \ {0}
    BY <2>1
  <2> QED BY <2>1, <2>2, <2>3, <1>4
<1>8. ASSUME NEW a \in 1 .. Len(F), NEW b \in 1 .. Len(F), a < b
      PROVE  \E j, x, k, y : Follow(ss, j, x, k, y) /\ F[a] = ss[j][x] /\ F[b] = ss[k][y]
  <2>1. PICK j \in 1 .. Len(ss) : \E x \in 1 .. Len(ss[j]) : a = off[j - 1] + x
    BY <1>6 DEF Covered
  <2>2. PICK x \in 1 .. Len(ss[j]) : a = off[j - 1] + x
    BY <2>1
  <2>3. PICK k \in 1 .. Len(ss) : \E y \in 1 .. Len(ss[k]) : b = off[k - 1] + y
    BY <1>6 DEF Covered
  <2>4. PICK y \in 1 .. Len(ss[k]) : b = off[k - 1] + y
    BY <2>3
  <2>5. F[a] = ss[j][x] /\ F[b] = ss[k][y]
    BY <2>2, <2>4, <1>4
  <2>6. ~(k < j)
    <3>. SUFFICES ASSUME k < j PROVE FALSE
      OBVIOUS
    <3>1. k \in 0 .. Len(ss) /\ j - 1 \in 0 .. Len(ss) /\ k <= j - 1
      BY <1>3
    <3>2. off[k] <= off[j - 1]
      BY <3>1, <1>2, OffsetsAscend
    <3>3. b <= off[k]
      BY <2>4, <1>7
    <3>4. off[k] \in Nat /\ off[j - 1] \in Nat
      BY <1>5
    <3>5. x \in Nat \ {0} /\ b \in Int /\ a \in Int
      BY <1>3, <1>4
    <3> QED BY <3>2, <3>3, <3>4, <3>5, <2>2, <1>8
  <2>7. j = k => x < y
    <3>. SUFFICES ASSUME j = k PROVE x < y
      OBVIOUS
    <3>1. off[j - 1] + x < off[j - 1] + y
      BY <2>2, <2>4, <1>8
    <3>2. x \in Int /\ y \in Int /\ off[j - 1] \in Nat
      BY <1>3, <1>5
    <3> QED BY <3>1, <3>2
  <2>8. Follow(ss, j, x, k, y)
    <3>1. j \in Int /\ k \in Int
      BY <1>3
    <3> QED BY <3>1, <2>6, <2>7 DEF Follow
  <2> QED BY <2>5, <2>8
<1>9. ASSUME NEW j, NEW x, NEW k, NEW y, Follow(ss, j, x, k, y)
      PROVE  \E a, b \in 1 .. Len(F) : a < b /\ F[a] = ss[j][x] /\ F[b] = ss[k][y]
  <2>1. /\ j \in 1 .. Len(ss) /\ x \in 1 .. Len(ss[j])
        /\ k \in 1 .. Len(ss) /\ y \in 1 .. Len(ss[k])
        /\ j < k \/ (j = k /\ x < y)
    BY <1>9 DEF Follow
  <2>2. off[j - 1] + x \in 1 .. Len(F) /\ off[k - 1] + y \in 1 .. Len(F) /\ off[j - 1] + x <= off[j]
    BY <2>1, <1>7
  <2>3. off[j - 1] \in Nat /\ off[k - 1] \in Nat /\ off[j] \in Nat
    BY <2>1, <1>5
  <2>4. x \in Nat \ {0} /\ y \in Nat \ {0}
    BY <2>1, <1>3
  <2>5. off[j - 1] + x < off[k - 1] + y
    <3>1. CASE j < k
      <4>1. j \in 0 .. Len(ss) /\ k - 1 \in 0 .. Len(ss) /\ j <= k - 1
        BY <2>1, <1>3, <3>1
      <4>2. off[j] <= off[k - 1]
        BY <4>1, <1>2, OffsetsAscend
      <4> QED BY <4>2, <2>2, <2>3, <2>4
    <3>2. CASE j = k /\ x < y
      BY <3>2, <2>3, <2>4
    <3> QED BY <2>1, <3>1, <3>2
  <2>6. F[off[j - 1] + x] = ss[j][x] /\ F[off[k - 1] + y] = ss[k][y]
    BY <2>1, <1>4
  <2> QED BY <2>2, <2>5, <2>6
<1>10. ASSUME NEW a \in 1 .. Len(F)
       PROVE  \E j \in 1 .. Len(ss) : \E x \in 1 .. Len(ss[j]) : F[a] = ss[j][x]
  <2>1. PICK j \in 1 .. Len(ss) : \E x \in 1 .. Len(ss[j]) : a = off[j - 1] + x
    BY <1>6 DEF Covered
  <2>2. PICK x \in 1 .. Len(ss[j]) : a = off[j - 1] + x
    BY <2>1
  <2> QED BY <2>2, <1>4
<1>11. \A j \in 1 .. Len(ss) : \A x \in 1 .. Len(ss[j]) : \E a \in 1 .. Len(F) : F[a] = ss[j][x]
  BY <1>4, <1>7
<1> QED BY <1>1, <1>8, <1>9, <1>10, <1>11 DEF Joins

\* G has those of a sequence that are in a set, in their order.
Filters(G, s, T) ==
    /\ \A a \in 1 .. Len(G) : G[a] \in T /\ \E i \in 1 .. Len(s) : G[a] = s[i]
    /\ \A i \in 1 .. Len(s) : s[i] \in T => \E a \in 1 .. Len(G) : G[a] = s[i]
    /\ \A a, b \in 1 .. Len(G) : a < b =>
          \E i, j \in 1 .. Len(s) : i < j /\ G[a] = s[i] /\ G[b] = s[j]
    /\ \A i, j \in 1 .. Len(s) : i < j /\ s[i] \in T /\ s[j] \in T => Len(G) >= 2

LEMMA Selected ==
    ASSUME NEW A, NEW s \in Seq(A), NEW T, NEW G,
           G = FlattenSeq([k \in DOMAIN s |-> IF s[k] \in T THEN <<s[k]>> ELSE <<>>])
    PROVE  G \in Seq(A) /\ Filters(G, s, T)
<1>. DEFINE ss == [k \in DOMAIN s |-> IF s[k] \in T THEN <<s[k]>> ELSE <<>>]
<1>1. Len(s) \in Nat /\ DOMAIN s = 1 .. Len(s) /\ \A k \in 1 .. Len(s) : s[k] \in A
  OBVIOUS
<1>2. ss \in Seq(Seq(A)) /\ Len(ss) = Len(s)
  <2>1. \A k \in 1 .. Len(s) : (IF s[k] \in T THEN <<s[k]>> ELSE <<>>) \in Seq(A)
    BY <1>1
  <2>2. ss \in [1 .. Len(s) -> Seq(A)]
    BY <1>1, <2>1
  <2>. HIDE DEF ss
  <2> QED BY <1>1, <2>2
<1>3. \A k \in 1 .. Len(s) : /\ s[k] \in T => ss[k] = <<s[k]>>
                             /\ ~(s[k] \in T) => ss[k] = <<>>
  BY <1>1
<1>4. G = FlattenSeq(ss)
  OBVIOUS
<1>. HIDE DEF ss
<1>5. ASSUME NEW k \in 1 .. Len(ss), NEW x \in 1 .. Len(ss[k])
      PROVE  k \in 1 .. Len(s) /\ s[k] \in T /\ x = 1 /\ ss[k][x] = s[k]
  <2>1. k \in 1 .. Len(s)
    BY <1>2
  <2>2. s[k] \in T
    <3>. SUFFICES ASSUME ~(s[k] \in T) PROVE FALSE
      OBVIOUS
    <3>1. ss[k] = <<>>
      BY <1>3, <2>1
    <3>2. Len(ss[k]) = 0
      BY <3>1
    <3> QED BY <3>2
  <2>3. ss[k] = <<s[k]>>
    BY <1>3, <2>1, <2>2
  <2>4. Len(ss[k]) = 1 /\ ss[k][1] = s[k]
    BY <2>3
  <2>5. x = 1
    BY <2>4
  <2> QED BY <2>1, <2>2, <2>4, <2>5
<1>6. ASSUME NEW k \in 1 .. Len(s), s[k] \in T
      PROVE  k \in 1 .. Len(ss) /\ 1 \in 1 .. Len(ss[k]) /\ ss[k][1] = s[k]
  <2>1. ss[k] = <<s[k]>>
    BY <1>3, <1>6
  <2>2. Len(ss[k]) = 1 /\ ss[k][1] = s[k]
    BY <2>1
  <2> QED BY <2>2, <1>2
<1>7. G \in Seq(A) /\ Joins(G, ss)
  BY <1>2, <1>4, Flattened
<1>8. ASSUME NEW a \in 1 .. Len(G)
      PROVE  G[a] \in T /\ \E i \in 1 .. Len(s) : G[a] = s[i]
  <2>1. PICK j \in 1 .. Len(ss) : \E x \in 1 .. Len(ss[j]) : G[a] = ss[j][x]
    BY <1>7 DEF Joins
  <2>2. PICK x \in 1 .. Len(ss[j]) : G[a] = ss[j][x]
    BY <2>1
  <2>3. j \in 1 .. Len(s) /\ s[j] \in T /\ ss[j][x] = s[j]
    BY <1>5
  <2> QED BY <2>2, <2>3
<1>9. ASSUME NEW i \in 1 .. Len(s), s[i] \in T PROVE \E a \in 1 .. Len(G) : G[a] = s[i]
  <2>1. i \in 1 .. Len(ss) /\ 1 \in 1 .. Len(ss[i]) /\ ss[i][1] = s[i]
    BY <1>6, <1>9
  <2>2. \E a \in 1 .. Len(G) : G[a] = ss[i][1]
    BY <1>7, <2>1 DEF Joins
  <2> QED BY <2>1, <2>2
<1>10. ASSUME NEW a \in 1 .. Len(G), NEW b \in 1 .. Len(G), a < b
       PROVE  \E i, j \in 1 .. Len(s) : i < j /\ G[a] = s[i] /\ G[b] = s[j]
  <2>1. PICK j, x, k, y : Follow(ss, j, x, k, y) /\ G[a] = ss[j][x] /\ G[b] = ss[k][y]
    BY <1>7, <1>10 DEF Joins
  <2>2. /\ j \in 1 .. Len(ss) /\ x \in 1 .. Len(ss[j]) /\ k \in 1 .. Len(ss) /\ y \in 1 .. Len(ss[k])
        /\ j < k \/ (j = k /\ x < y)
    BY <2>1 DEF Follow
  <2>3. j \in 1 .. Len(s) /\ x = 1 /\ ss[j][x] = s[j]
    BY <2>2, <1>5
  <2>4. k \in 1 .. Len(s) /\ y = 1 /\ ss[k][y] = s[k]
    BY <2>2, <1>5
  <2>5. j < k
    BY <2>2, <2>3, <2>4
  <2>6. G[a] = s[j] /\ G[b] = s[k]
    BY <2>1, <2>3, <2>4
  <2> QED BY <2>3, <2>4, <2>5, <2>6
<1>11. ASSUME NEW i \in 1 .. Len(s), NEW j \in 1 .. Len(s), i < j, s[i] \in T, s[j] \in T
       PROVE  Len(G) >= 2
  <2>1. i \in 1 .. Len(ss) /\ 1 \in 1 .. Len(ss[i])
    BY <1>6, <1>11
  <2>2. j \in 1 .. Len(ss) /\ 1 \in 1 .. Len(ss[j])
    BY <1>6, <1>11
  <2>3. Follow(ss, i, 1, j, 1)
    BY <2>1, <2>2, <1>11 DEF Follow
  <2>4. PICK a, b \in 1 .. Len(G) : a < b
    BY <2>3, <1>7 DEF Joins
  <2>5. Len(G) \in Nat
    BY <1>7
  <2> QED BY <2>4, <2>5
<1> QED BY <1>7, <1>8, <1>9, <1>10, <1>11 DEF Filters

\* Numbers that have a bound have a largest one.
LEMMA Largest ==
    ASSUME NEW S \in SUBSET Nat, S # {}, NEW b \in Nat, \A x \in S : x <= b
    PROVE  Max(S) \in S /\ \A x \in S : x <= Max(S)
<1>. DEFINE T == {c \in Nat : \A x \in S : x <= c}
<1>1. PICK m \in T : \A c \in T : m <= c
  <2>1. T \in SUBSET Nat /\ b \in T
    OBVIOUS
  <2>. HIDE DEF T
  <2> QED BY <2>1, Least
<1>2. m \in Nat /\ \A x \in S : x <= m
  OBVIOUS
<1>3. m \in S
  <2>. SUFFICES ASSUME ~(m \in S) PROVE FALSE
    OBVIOUS
  <2>1. \A x \in S : x <= m - 1 /\ x \in Nat
    BY <1>2
  <2>2. m - 1 \in Nat
    <3>1. PICK x \in S : TRUE
      OBVIOUS
    <3>2. x \in Nat /\ x <= m - 1
      BY <2>1
    <3> QED BY <3>2, <1>2
  <2>3. m - 1 \in T
    BY <2>1, <2>2
  <2>4. m <= m - 1
    <3>. HIDE DEF T
    <3> QED BY <1>1, <2>3
  <2> QED BY <1>2, <2>4
<1>4. Max(S) = m
  <2>1. m \in S /\ \A y \in S : m >= y
    BY <1>2, <1>3
  <2>2. ASSUME NEW x \in S, \A y \in S : x >= y PROVE x = m
    <3>1. x >= m /\ x <= m /\ x \in Nat
      BY <1>2, <1>3, <2>2
    <3> QED BY <1>2, <3>1
  <2>3. Max(S) = CHOOSE x \in S : \A y \in S : x >= y
    BY DEF Max
  <2>. DEFINE P(x) == \A y \in S : x >= y
  <2>4. P(m) /\ \A x \in S : P(x) => x = m
    BY <2>1, <2>2
  <2>5. Max(S) = CHOOSE x \in S : P(x)
    BY <2>3
  <2>. HIDE DEF P
  <2> QED BY <1>3, <2>4, <2>5
<1> QED BY <1>2, <1>3, <1>4

\* Finitely many numbers have a bound.
LEMMA Bounded ==
    ASSUME NEW m \in Nat, NEW f \in [1 .. m -> Nat]
    PROVE  \E b \in Nat : \A k \in 1 .. m : f[k] <= b
<1>. DEFINE P(i, b) == \A k \in 1 .. i : k <= m => f[k] <= b
            S == {i \in Nat : \E b \in Nat : P(i, b)}
<1>1. 0 \in S
  <2>1. P(0, 0)
    OBVIOUS
  <2>. HIDE DEF P
  <2> QED BY <2>1
<1>2. ASSUME NEW i \in Nat, i \in S PROVE i + 1 \in S
  <2>1. PICK b \in Nat : P(i, b)
    BY <1>2
  <2>2. PICK c \in Nat : b <= c /\ (i + 1 <= m => f[i + 1] <= c)
    <3>1. CASE i + 1 <= m
      <4>1. f[i + 1] \in Nat
        BY <3>1
      <4>2. b <= b + f[i + 1] /\ f[i + 1] <= b + f[i + 1] /\ b + f[i + 1] \in Nat
        BY <4>1
      <4> QED BY <4>2
    <3>2. CASE ~(i + 1 <= m)
      <4>1. b <= b
        OBVIOUS
      <4> QED BY <3>2, <4>1
    <3> QED BY <3>1, <3>2
  <2>3. ASSUME NEW k \in 1 .. i + 1, k <= m PROVE f[k] <= c
    <3>1. CASE k = i + 1
      BY <3>1, <2>2, <2>3
    <3>2. CASE k # i + 1
      <4>1. k \in 1 .. i /\ k \in 1 .. m
        BY <3>2, <2>3
      <4>2. f[k] <= b /\ f[k] \in Nat
        BY <4>1, <2>1
      <4> QED BY <4>2, <2>2
    <3> QED BY <3>1, <3>2
  <2>4. P(i + 1, c)
    BY <2>3
  <2>. HIDE DEF P
  <2> QED BY <2>4
<1>3. m \in S
  <2>. HIDE DEF S
  <2> QED BY <1>1, <1>2, Induction
<1>4. PICK b \in Nat : P(m, b)
  <2>. HIDE DEF P
  <2> QED BY <1>3
<1>5. \A k \in 1 .. m : f[k] <= b
  BY <1>4
<1> QED BY <1>5

----------------------------------------------------------------------------
(* The tree of modules                                                      *)

Labels      == Names \cup {NoName, Other}
SymFunction == [name : Labels, index : Nat, alias : Seq(Names)]
SymLibrary  == [name : Names, function : Seq(SymFunction)]
SymModule   == [name : Names, library : Seq(SymLibrary)]

Ascending(s) == \A a, b \in 1 .. Len(s) : a < b => s[a].index <= s[b].index

Ordered(s) ==
    \A m \in 1 .. Len(s) : \A l \in 1 .. Len(s[m].library) : Ascending(s[m].library[l].function)

\* Once the functions are ordered, those of every library are by their index.
SymInv ==
    /\ symtab \in Seq(SymModule)
    /\ phase \in {"ordered", "open", "closed", "done"} => Ordered(symtab)

----------------------------------------------------------------------------
(* Reading, filling and ordering                                            *)

LEMMA Smallest ==
    ASSUME NEW S \in SUBSET Nat, S # {}
    PROVE  Min(S) \in S
<1>1. PICK m \in S : \A y \in S : m <= y
  BY Least
<1>. DEFINE P(x) == \A y \in S : x =< y
<1>2. Min(S) = CHOOSE x \in S : P(x)
  BY DEF Min
<1>3. P(m)
  BY <1>1
<1>. HIDE DEF P
<1> QED BY <1>2, <1>3

\* What is found in a declaration has an integer or a name.
LEMMA PhrasesAre ==
    ASSUME NEW d \in Declarations, NEW what
    PROVE  /\ d \in Seq(Phrase)
           /\ Phrases(d, what) \in Seq(Phrase)
           /\ \A k \in 1 .. Len(Phrases(d, what)) : Phrases(d, what)[k].what = what
<1>1. d \in Seq(Phrase)
  BY SymcAssumption
<1>. DEFINE T == {q \in Phrase : q.what = what}
            G == FlattenSeq([k \in DOMAIN d |-> IF d[k] \in T THEN <<d[k]>> ELSE <<>>])
<1>2. Phrases(d, what) = G
  <2>1. \A k \in DOMAIN d : d[k].what = what <=> d[k] \in T
    BY <1>1
  <2>. HIDE DEF T
  <2>2. [k \in DOMAIN d |-> IF d[k].what = what THEN <<d[k]>> ELSE <<>>]
            = [k \in DOMAIN d |-> IF d[k] \in T THEN <<d[k]>> ELSE <<>>]
    BY <2>1
  <2> QED BY <2>2 DEF Phrases, Select
<1>3. G \in Seq(Phrase) /\ Filters(G, d, T)
  <2>. HIDE DEF T
  <2> QED BY <1>1, Selected
<1>4. \A k \in 1 .. Len(G) : G[k] \in T
  BY <1>3 DEF Filters
<1>. HIDE DEF G
<1> QED BY <1>1, <1>2, <1>3, <1>4

LEMMA IdsAre ==
    ASSUME NEW d \in Declarations
    PROVE  /\ ids(d, "id_") \in Seq(Nat)
           /\ ids(d, "call") \in Seq(Names)
           /\ ids(d, "alias_") \in Seq(Names)
<1>1. ASSUME NEW what, NEW A, \A q \in Phrase : q.what = what => q.id \in A
      PROVE  ids(d, what) \in Seq(A)
  <2>. DEFINE G == Phrases(d, what)
  <2>1. G \in Seq(Phrase) /\ \A k \in 1 .. Len(G) : G[k].what = what
    BY PhrasesAre
  <2>2. ids(d, what) = [k \in DOMAIN G |-> G[k].id]
    BY DEF ids
  <2>. HIDE DEF G
  <2>3. Len(G) \in Nat /\ DOMAIN G = 1 .. Len(G) /\ \A k \in 1 .. Len(G) : G[k] \in Phrase
    BY <2>1
  <2>4. \A k \in 1 .. Len(G) : G[k].id \in A
    BY <1>1, <2>1, <2>3
  <2>5. ids(d, what) \in [1 .. Len(G) -> A]
    BY <2>2, <2>3, <2>4
  <2> QED BY <2>3, <2>5
<1>2. \A q \in Phrase : q.what = "id_" => q.id \in Nat
  BY DEF Phrase
<1>3. \A q \in Phrase : q.what \in {"call", "alias_"} => q.id \in Names
  BY DEF Phrase
<1> QED BY <1>1, <1>2, <1>3

LEMMA ReadFunction ==
    ASSUME NEW d \in Declarations, NEW s \in Seq(SymFunction)
    PROVE  read_function(s, d) \in Seq(SymFunction)
<1>1. CASE ids(d, "id_") = <<>>
  BY <1>1 DEF read_function
<1>2. CASE ids(d, "id_") # <<>>
  <2>. DEFINE f == [name |-> FunctionName(d), index |-> Head(ids(d, "id_")), alias |-> Aliases(d)]
  <2>1. Head(ids(d, "id_")) \in Nat
    BY <1>2, IdsAre
  <2>2. FunctionName(d) \in Labels
    <3>1. ids(d, "call") # <<>> => Head(ids(d, "call")) \in Names
      BY IdsAre
    <3> QED BY <3>1 DEF FunctionName, Labels
  <2>3. Aliases(d) \in Seq(Names)
    BY IdsAre DEF Aliases
  <2>4. f \in SymFunction
    BY <2>1, <2>2, <2>3 DEF SymFunction
  <2>5. read_function(s, d) = Append(s, f)
    BY <1>2 DEF read_function
  <2>. HIDE DEF f
  <2> QED BY <2>4, <2>5
<1> QED BY <1>1, <1>2

LEMMA ReadDeclaration ==
    ASSUME NEW d \in Declarations, NEW s \in Seq(SymModule)
    PROVE  read_declaration(s, d) \in Seq(SymModule)
<1>. DEFINE heads == {k \in DOMAIN d : \/ d[k].what = "MODULE_ID"
                                       \/ d[k].what = "LIBRARY_ID" /\ s # <<>>}
            head  == d[Min(heads)]
            m     == Len(s)
<1>1. d \in Seq(Phrase)
  BY SymcAssumption
<1>2. heads # {} => head.id \in Names /\ (head.what = "MODULE_ID" \/ s # <<>>)
  <2>. SUFFICES ASSUME heads # {} PROVE head.id \in Names /\ (head.what = "MODULE_ID" \/ s # <<>>)
    OBVIOUS
  <2>1. heads \in SUBSET Nat
    BY <1>1
  <2>2. Min(heads) \in heads
    <3>. HIDE DEF heads
    <3> QED BY <2>1, Smallest
  <2>3. head \in Phrase /\ head.what \in {"MODULE_ID", "LIBRARY_ID"}
    BY <1>1, <2>2
  <2>4. head.id \in Names
    <3>1. \A q \in Phrase : q.what \in {"MODULE_ID", "LIBRARY_ID"} => q.id \in Names
      BY DEF Phrase
    <3>. HIDE DEF head
    <3> QED BY <2>3, <3>1
  <2> QED BY <2>2, <2>4
<1>3. read_declaration(s, d) =
          IF heads # {} /\ head.what = "MODULE_ID"
          THEN Append(s, [name |-> head.id, library |-> <<>>])
          ELSE IF heads # {}
          THEN [s EXCEPT ![m].library = Append(@, [name |-> head.id, function |-> <<>>])]
          ELSE IF s = <<>> \/ s[m].library = <<>> THEN s
          ELSE [s EXCEPT ![m].library[Len(s[m].library)].function = read_function(@, d)]
  BY DEF read_declaration
<1>. HIDE DEF heads, head
<1>4. ASSUME s # <<>> PROVE m \in DOMAIN s /\ s[m] \in SymModule /\ s[m].library \in Seq(SymLibrary)
  <2>1. m \in DOMAIN s /\ s[m] \in SymModule
    BY <1>4
  <2> QED BY <2>1 DEF SymModule
<1>5. ASSUME NEW L \in Seq(SymLibrary), s # <<>>
      PROVE  [s EXCEPT ![m].library = L] \in Seq(SymModule)
  <2>1. [s[m] EXCEPT !.library = L] \in SymModule
    BY <1>4, <1>5 DEF SymModule
  <2>. DEFINE w == [s[m] EXCEPT !.library = L]
  <2>2. [s EXCEPT ![m].library = L] = [s EXCEPT ![m] = w]
    OBVIOUS
  <2>. HIDE DEF w
  <2>3. w \in SymModule
    BY <2>1 DEF w
  <2>4. [s EXCEPT ![m] = w] \in Seq(SymModule)
    BY <2>3, <1>4, <1>5
  <2> QED BY <2>2, <2>4
<1>6. CASE heads # {} /\ head.what = "MODULE_ID"
  <2>1. [name |-> head.id, library |-> <<>>] \in SymModule
    BY <1>2, <1>6 DEF SymModule
  <2>2. read_declaration(s, d) = Append(s, [name |-> head.id, library |-> <<>>])
    BY <1>3, <1>6
  <2> QED BY <2>1, <2>2
<1>7. CASE heads # {} /\ head.what # "MODULE_ID"
  <2>1. s # <<>> /\ [name |-> head.id, function |-> <<>>] \in SymLibrary
    BY <1>2, <1>7 DEF SymLibrary
  <2>2. Append(s[m].library, [name |-> head.id, function |-> <<>>]) \in Seq(SymLibrary)
    BY <2>1, <1>4
  <2>3. read_declaration(s, d) =
            [s EXCEPT ![m].library = Append(s[m].library, [name |-> head.id, function |-> <<>>])]
    BY <1>3, <1>7
  <2> QED BY <2>1, <2>2, <2>3, <1>5
<1>8. CASE heads = {} /\ (s = <<>> \/ s[m].library = <<>>)
  BY <1>3, <1>8
<1>9. CASE heads = {} /\ ~(s = <<>> \/ s[m].library = <<>>)
  <2>. DEFINE L == s[m].library
              j == Len(L)
              w == [L[j] EXCEPT !.function = read_function(L[j].function, d)]
  <2>1. s # <<>> /\ L \in Seq(SymLibrary) /\ L # <<>>
    BY <1>4, <1>9
  <2>2. j \in DOMAIN L /\ L[j] \in SymLibrary
    <3>. HIDE DEF L
    <3> QED BY <2>1
  <2>3. read_function(L[j].function, d) \in Seq(SymFunction)
    <3>1. L[j].function \in Seq(SymFunction)
      <4>. HIDE DEF L, j
      <4> QED BY <2>2 DEF SymLibrary
    <3>. HIDE DEF L, j
    <3> QED BY <3>1, ReadFunction
  <2>4. w \in SymLibrary
    <3>. HIDE DEF L, j
    <3> QED BY <2>2, <2>3 DEF SymLibrary
  <2>5. [L EXCEPT ![j] = w] \in Seq(SymLibrary)
    <3>. HIDE DEF L, j, w
    <3> QED BY <2>1, <2>2, <2>4
  <2>6. read_declaration(s, d) = [s EXCEPT ![m].library = [L EXCEPT ![j] = w]]
    BY <1>3, <1>9
  <2>. HIDE DEF L, j, w
  <2> QED BY <2>1, <2>5, <2>6, <1>5
<1> QED BY <1>6, <1>7, <1>8, <1>9

LEMMA LargestIndex ==
    ASSUME NEW s \in Seq(SymFunction)
    PROVE  /\ Max(Indices(s) \cup {0}) \in Nat
           /\ \A k \in 1 .. Len(s) : s[k].index \in Nat /\ s[k].index <= Max(Indices(s) \cup {0})
<1>. DEFINE S == Indices(s) \cup {0}
<1>1. Len(s) \in Nat /\ DOMAIN s = 1 .. Len(s) /\ \A k \in 1 .. Len(s) : s[k].index \in Nat
  <2>1. \A k \in 1 .. Len(s) : s[k] \in SymFunction
    OBVIOUS
  <2>2. \A f \in SymFunction : f.index \in Nat
    BY DEF SymFunction
  <2> QED BY <2>1, <2>2
<1>2. PICK b \in Nat : \A k \in 1 .. Len(s) : s[k].index <= b
  <2>. DEFINE f == [k \in 1 .. Len(s) |-> s[k].index]
  <2>1. f \in [1 .. Len(s) -> Nat] /\ \A k \in 1 .. Len(s) : f[k] = s[k].index
    BY <1>1
  <2>. HIDE DEF f
  <2>2. PICK b \in Nat : \A k \in 1 .. Len(s) : f[k] <= b
    BY <2>1, <1>1, Bounded
  <2> QED BY <2>1, <2>2
<1>3. S \in SUBSET Nat /\ S # {} /\ \A x \in S : x <= b
  BY <1>1, <1>2 DEF Indices
<1>4. \A k \in 1 .. Len(s) : s[k].index \in S
  BY <1>1 DEF Indices
<1>. HIDE DEF S
<1>5. Max(S) \in S /\ \A x \in S : x <= Max(S)
  BY <1>3, <1>2, Largest
<1>6. Max(S) \in Nat
  BY <1>3, <1>5
<1> QED BY <1>1, <1>4, <1>5, <1>6 DEF S

LEMMA FillLibrary ==
    ASSUME NEW s \in Seq(SymFunction)
    PROVE  fill_library(s) \in Seq(SymFunction)
<1>. DEFINE most == Max(Indices(s) \cup {0})
            T    == {i \in Nat : i \notin Indices(s)}
            Nums == [i \in 1 .. most |-> i - 1]
            gaps == FlattenSeq([k \in DOMAIN Nums |-> IF Nums[k] \in T THEN <<Nums[k]>> ELSE <<>>])
<1>1. most \in Nat
  BY LargestIndex
<1>2. Nums \in Seq(Nat)
  <2>. HIDE DEF most
  <2>1. Nums \in [1 .. most -> Nat]
    BY <1>1
  <2> QED BY <1>1, <2>1
<1>3. gaps = Select(Nums, LAMBDA i : i \notin Indices(s))
  <2>1. \A k \in DOMAIN Nums : Nums[k] \in Nat
    <3>. HIDE DEF Nums
    <3> QED BY <1>2
  <2>. HIDE DEF Nums
  <2>2. \A k \in DOMAIN Nums : Nums[k] \notin Indices(s) <=> Nums[k] \in T
    BY <2>1
  <2>. HIDE DEF T
  <2>3. [k \in DOMAIN Nums |-> IF Nums[k] \notin Indices(s) THEN <<Nums[k]>> ELSE <<>>]
            = [k \in DOMAIN Nums |-> IF Nums[k] \in T THEN <<Nums[k]>> ELSE <<>>]
    BY <2>2
  <2> QED BY <2>3 DEF Select
<1>4. gaps \in Seq(Nat)
  <2>. HIDE DEF Nums, T
  <2> QED BY <1>2, Selected
<1>5. fill_library(s) = s \o [k \in DOMAIN gaps |-> [name |-> NoName, index |-> gaps[k], alias |-> <<>>]]
  <2>. HIDE DEF gaps
  <2> QED BY <1>3 DEF fill_library, Each
<1>. HIDE DEF gaps
<1>6. [k \in DOMAIN gaps |-> [name |-> NoName, index |-> gaps[k], alias |-> <<>>]] \in Seq(SymFunction)
  <2>1. \A i \in Nat : [name |-> NoName, index |-> i, alias |-> <<>>] \in SymFunction
    BY DEF SymFunction, Labels
  <2>2. Len(gaps) \in Nat /\ DOMAIN gaps = 1 .. Len(gaps) /\ \A k \in 1 .. Len(gaps) : gaps[k] \in Nat
    BY <1>4
  <2>. DEFINE e == [k \in DOMAIN gaps |-> [name |-> NoName, index |-> gaps[k], alias |-> <<>>]]
  <2>3. e \in [1 .. Len(gaps) -> SymFunction]
    BY <2>1, <2>2
  <2>. HIDE DEF e
  <2>4. e \in Seq(SymFunction)
    BY <2>2, <2>3
  <2> QED BY <2>4 DEF e
<1>. HIDE DEF most, T, Nums
<1> QED BY <1>5, <1>6

LEMMA OrderLibrary ==
    ASSUME NEW s \in Seq(SymFunction)
    PROVE  order_library(s) \in Seq(SymFunction) /\ Ascending(order_library(s))
<1>. DEFINE most   == Max(Indices(s) \cup {0})
            T(i)   == {f \in SymFunction : f.index = i - 1}
            Got(i) == FlattenSeq([k \in DOMAIN s |-> IF s[k] \in T(i) THEN <<s[k]>> ELSE <<>>])
            ss     == [i \in 1 .. most + 1 |-> Got(i)]
<1>1. most \in Nat
  BY LargestIndex
<1>2. \A k \in DOMAIN s : s[k] \in SymFunction
  OBVIOUS
<1>3. order_library(s) = FlattenSeq(ss)
  <2>1. ASSUME NEW i \in 1 .. most + 1
        PROVE  Select(s, LAMBDA f : f.index = i - 1) = Got(i)
    <3>1. \A k \in DOMAIN s : s[k].index = i - 1 <=> s[k] \in T(i)
      BY <1>2
    <3>. HIDE DEF T
    <3>2. [k \in DOMAIN s |-> IF s[k].index = i - 1 THEN <<s[k]>> ELSE <<>>]
              = [k \in DOMAIN s |-> IF s[k] \in T(i) THEN <<s[k]>> ELSE <<>>]
      BY <3>1
    <3> QED BY <3>2 DEF Select
  <2>2. order_library(s) = FlattenSeq([i \in 1 .. most + 1 |-> Select(s, LAMBDA f : f.index = i - 1)])
    BY DEF order_library
  <2>. HIDE DEF Got, most
  <2>3. [i \in 1 .. most + 1 |-> Select(s, LAMBDA f : f.index = i - 1)] = ss
    BY <2>1
  <2> QED BY <2>2, <2>3
<1>. HIDE DEF most
<1>4. ASSUME NEW i \in 1 .. most + 1
      PROVE  /\ Got(i) \in Seq(SymFunction)
             /\ \A k \in 1 .. Len(Got(i)) : Got(i)[k].index = i - 1
  <2>. DEFINE U == T(i)
              G == FlattenSeq([k \in DOMAIN s |-> IF s[k] \in U THEN <<s[k]>> ELSE <<>>])
  <2>1. G = Got(i)
    OBVIOUS
  <2>. HIDE DEF U, Got
  <2>2. G \in Seq(SymFunction) /\ Filters(G, s, U)
    BY Selected
  <2>. HIDE DEF G
  <2>3. \A k \in 1 .. Len(G) : G[k] \in U
    BY <2>2 DEF Filters
  <2>4. \A f \in U : f.index = i - 1
    BY DEF U
  <2>5. \A k \in 1 .. Len(G) : G[k].index = i - 1
    BY <2>3, <2>4
  <2> QED BY <2>1, <2>2, <2>5
<1>. HIDE DEF Got
<1>5. ss \in Seq(Seq(SymFunction)) /\ Len(ss) = most + 1 /\ \A i \in 1 .. most + 1 : ss[i] = Got(i)
  <2>1. ss \in [1 .. most + 1 -> Seq(SymFunction)]
    BY <1>4
  <2>2. most + 1 \in Nat
    BY <1>1
  <2> QED BY <2>1, <2>2
<1>. HIDE DEF ss
<1>. DEFINE F == FlattenSeq(ss)
<1>6. F \in Seq(SymFunction) /\ Joins(F, ss)
  BY <1>5, Flattened
<1>. HIDE DEF F
<1>7. ASSUME NEW a \in 1 .. Len(F), NEW b \in 1 .. Len(F), a < b
      PROVE  F[a].index <= F[b].index
  <2>1. PICK j, x, k, y : Follow(ss, j, x, k, y) /\ F[a] = ss[j][x] /\ F[b] = ss[k][y]
    BY <1>6, <1>7 DEF Joins
  <2>2. /\ j \in 1 .. Len(ss) /\ x \in 1 .. Len(ss[j])
        /\ k \in 1 .. Len(ss) /\ y \in 1 .. Len(ss[k])
        /\ j < k \/ j = k
    BY <2>1 DEF Follow
  <2>3. j \in 1 .. most + 1 /\ ss[j] = Got(j)
    BY <2>2, <1>5
  <2>4. k \in 1 .. most + 1 /\ ss[k] = Got(k)
    BY <2>2, <1>5
  <2>5. x \in 1 .. Len(Got(j)) /\ y \in 1 .. Len(Got(k))
    BY <2>2, <2>3, <2>4
  <2>6. Got(j)[x].index = j - 1 /\ Got(k)[y].index = k - 1
    BY <1>4, <2>3, <2>4, <2>5
  <2>7. F[a].index = j - 1 /\ F[b].index = k - 1
    BY <2>1, <2>3, <2>4, <2>6
  <2>8. j - 1 <= k - 1
    BY <1>1, <2>2, <2>3, <2>4
  <2> QED BY <2>7, <2>8
<1>8. Ascending(F)
  BY <1>7 DEF Ascending
<1>9. order_library(s) = F
  BY <1>3 DEF F
<1> QED BY <1>6, <1>8, <1>9

\* The tree with op of the functions of every library.
Lib(x, op) == [x EXCEPT !.function = op[x.function]]
Mod(x, op) == [x EXCEPT !.library = [j \in DOMAIN x.library |-> Lib(x.library[j], op)]]
Tree(t, op) == [k \in DOMAIN t |-> Mod(t[k], op)]

LEMMA LibIs ==
    ASSUME NEW op, \A f \in Seq(SymFunction) : op[f] \in Seq(SymFunction), NEW x \in SymLibrary
    PROVE  /\ x.function \in Seq(SymFunction)
           /\ Lib(x, op) \in SymLibrary /\ Lib(x, op).function = op[x.function]
<1>1. x.function \in Seq(SymFunction)
  BY DEF SymLibrary
<1>2. op[x.function] \in Seq(SymFunction)
  BY <1>1
<1> QED BY <1>1, <1>2 DEF SymLibrary, Lib

LEMMA ModIs ==
    ASSUME NEW op, \A f \in Seq(SymFunction) : op[f] \in Seq(SymFunction), NEW x \in SymModule
    PROVE  /\ Mod(x, op) \in SymModule /\ Len(Mod(x, op).library) = Len(x.library)
           /\ x.library \in Seq(SymLibrary)
           /\ \A j \in 1 .. Len(x.library) : Mod(x, op).library[j] = Lib(x.library[j], op)
<1>. DEFINE L == x.library
            M == [j \in DOMAIN L |-> Lib(L[j], op)]
<1>1. L \in Seq(SymLibrary)
  BY DEF SymModule
<1>2. Mod(x, op) = [x EXCEPT !.library = M]
  BY DEF Mod
<1>. HIDE DEF L
<1>3. Len(L) \in Nat /\ DOMAIN L = 1 .. Len(L) /\ \A j \in 1 .. Len(L) : L[j] \in SymLibrary
  BY <1>1
<1>4. \A j \in 1 .. Len(L) : M[j] = Lib(L[j], op) /\ M[j] \in SymLibrary
  BY <1>3, LibIs
<1>5. M \in [1 .. Len(L) -> SymLibrary]
  BY <1>3, <1>4
<1>. HIDE DEF M
<1>6. M \in Seq(SymLibrary) /\ Len(M) = Len(L)
  BY <1>3, <1>5
<1>7. [x EXCEPT !.library = M] \in SymModule /\ [x EXCEPT !.library = M].library = M
  BY <1>6 DEF SymModule
<1> QED BY <1>1, <1>2, <1>4, <1>6, <1>7 DEF L

LEMMA TreeIs ==
    ASSUME NEW op, \A f \in Seq(SymFunction) : op[f] \in Seq(SymFunction), NEW t \in Seq(SymModule)
    PROVE  /\ Tree(t, op) \in Seq(SymModule) /\ Len(Tree(t, op)) = Len(t)
           /\ \A k \in 1 .. Len(t) : Tree(t, op)[k] = Mod(t[k], op)
<1>. DEFINE U == Tree(t, op)
<1>1. Len(t) \in Nat /\ DOMAIN t = 1 .. Len(t) /\ \A k \in 1 .. Len(t) : t[k] \in SymModule
  OBVIOUS
<1>2. \A k \in 1 .. Len(t) : U[k] = Mod(t[k], op) /\ Mod(t[k], op) \in SymModule
  BY <1>1, ModIs DEF Tree
<1>3. U = [k \in 1 .. Len(t) |-> U[k]]
  BY <1>1 DEF Tree
<1>. HIDE DEF U
<1>4. U \in [1 .. Len(t) -> SymModule]
  BY <1>2, <1>3
<1>5. U \in Seq(SymModule) /\ Len(U) = Len(t)
  BY <1>1, <1>4
<1> QED BY <1>2, <1>5 DEF U

\* Each library is filled and ordered; all else of the tree stays.
LEMMA OrderTree ==
    ASSUME NEW s \in Seq(SymModule)
    PROVE  /\ order_symtab(fill_symtab(s)) \in Seq(SymModule)
           /\ Ordered(order_symtab(fill_symtab(s)))
<1>. DEFINE fill  == [f \in Seq(SymFunction) |-> fill_library(f)]
            order == [f \in Seq(SymFunction) |-> order_library(f)]
<1>1. \A f \in Seq(SymFunction) : fill[f] \in Seq(SymFunction) /\ fill[f] = fill_library(f)
  BY FillLibrary
<1>2. \A f \in Seq(SymFunction) : /\ order[f] \in Seq(SymFunction) /\ order[f] = order_library(f)
                                  /\ Ascending(order[f])
  BY OrderLibrary
<1>. HIDE DEF fill, order
<1>3. ASSUME NEW t \in Seq(SymModule), NEW k \in DOMAIN t, NEW j \in DOMAIN t[k].library
      PROVE  t[k].library[j].function \in Seq(SymFunction)
  <2>1. t[k] \in SymModule
    OBVIOUS
  <2>2. t[k].library \in Seq(SymLibrary)
    BY <2>1 DEF SymModule
  <2>3. t[k].library[j] \in SymLibrary
    BY <2>2
  <2> QED BY <2>3 DEF SymLibrary
<1>4. ASSUME NEW t \in Seq(SymModule) PROVE fill_symtab(t) = Tree(t, fill)
  <2>1. ASSUME NEW k \in DOMAIN t
        PROVE  [t[k] EXCEPT !.library = [j \in DOMAIN t[k].library |->
                    [t[k].library[j] EXCEPT !.function = fill_library(t[k].library[j].function)]]]
                   = Mod(t[k], fill)
    <3>1. \A j \in DOMAIN t[k].library :
              [t[k].library[j] EXCEPT !.function = fill_library(t[k].library[j].function)]
                  = Lib(t[k].library[j], fill)
      BY <1>1, <1>3 DEF Lib
    <3> QED BY <3>1 DEF Mod
  <2>2. fill_symtab(t) = [k \in DOMAIN t |-> [t[k] EXCEPT !.library = [j \in DOMAIN t[k].library |->
                    [t[k].library[j] EXCEPT !.function = fill_library(t[k].library[j].function)]]]]
    BY DEF fill_symtab, EachLibrary, Each
  <2>3. [k \in DOMAIN t |-> [t[k] EXCEPT !.library = [j \in DOMAIN t[k].library |->
                    [t[k].library[j] EXCEPT !.function = fill_library(t[k].library[j].function)]]]]
            = [k \in DOMAIN t |-> Mod(t[k], fill)]
    BY <2>1, Zenon
  <2> QED BY <2>2, <2>3 DEF Tree
<1>5. ASSUME NEW t \in Seq(SymModule) PROVE order_symtab(t) = Tree(t, order)
  <2>1. ASSUME NEW k \in DOMAIN t
        PROVE  [t[k] EXCEPT !.library = [j \in DOMAIN t[k].library |->
                    [t[k].library[j] EXCEPT !.function = order_library(t[k].library[j].function)]]]
                   = Mod(t[k], order)
    <3>1. \A j \in DOMAIN t[k].library :
              [t[k].library[j] EXCEPT !.function = order_library(t[k].library[j].function)]
                  = Lib(t[k].library[j], order)
      BY <1>2, <1>3 DEF Lib
    <3> QED BY <3>1 DEF Mod
  <2>2. order_symtab(t) = [k \in DOMAIN t |-> [t[k] EXCEPT !.library = [j \in DOMAIN t[k].library |->
                    [t[k].library[j] EXCEPT !.function = order_library(t[k].library[j].function)]]]]
    BY DEF order_symtab, EachLibrary, Each
  <2>3. [k \in DOMAIN t |-> [t[k] EXCEPT !.library = [j \in DOMAIN t[k].library |->
                    [t[k].library[j] EXCEPT !.function = order_library(t[k].library[j].function)]]]]
            = [k \in DOMAIN t |-> Mod(t[k], order)]
    BY <2>1, Zenon
  <2> QED BY <2>2, <2>3 DEF Tree
<1>. DEFINE t == fill_symtab(s)
            u == order_symtab(t)
<1>6. t \in Seq(SymModule)
  BY <1>1, <1>4, TreeIs
<1>. HIDE DEF t
<1>7. u = Tree(t, order)
  BY <1>5, <1>6
<1>. HIDE DEF u
<1>8. /\ u \in Seq(SymModule) /\ Len(u) = Len(t)
      /\ \A k \in 1 .. Len(t) : u[k] = Mod(t[k], order)
  BY <1>2, <1>6, <1>7, TreeIs
<1>9. ASSUME NEW k \in 1 .. Len(u), NEW j \in 1 .. Len(u[k].library)
      PROVE  Ascending(u[k].library[j].function)
  <2>1. k \in 1 .. Len(t) /\ t[k] \in SymModule
    BY <1>6, <1>8
  <2>2. u[k] = Mod(t[k], order)
    BY <2>1, <1>8
  <2>3. /\ Len(u[k].library) = Len(t[k].library) /\ t[k].library \in Seq(SymLibrary)
        /\ \A i \in 1 .. Len(t[k].library) : u[k].library[i] = Lib(t[k].library[i], order)
    BY <2>1, <2>2, <1>2, ModIs
  <2>4. j \in 1 .. Len(t[k].library) /\ t[k].library[j] \in SymLibrary
    BY <2>3
  <2>5. u[k].library[j] = Lib(t[k].library[j], order)
    BY <2>3, <2>4
  <2>6. /\ t[k].library[j].function \in Seq(SymFunction)
        /\ Lib(t[k].library[j], order).function = order[t[k].library[j].function]
    BY <2>4, <1>2, LibIs
  <2> QED BY <2>5, <2>6, <1>2
<1>10. Ordered(u)
  BY <1>9 DEF Ordered
<1> QED BY <1>8, <1>10 DEF t, u

----------------------------------------------------------------------------
(* Statements                                                               *)

Statements == [st : {"MP", "ME", "LP", "LE", "FU", "FP", "FE", "FA"}, module : Names,
               library : Names \cup {NoName}, index : Nat, name : Labels]

\* The words of an export table are in the order of their indices.
Ranked(s) ==
    \A a, b \in 1 .. Len(s) :
        a < b /\ s[a].st = "FP" /\ s[b].st = "FP" => s[a].index <= s[b].index

Enclosed(w, x, s, y) ==
    /\ Len(w) = Len(s) + 2 /\ w[1] = x /\ w[Len(s) + 2] = y
    /\ \A k \in 1 .. Len(s) : w[k + 1] = s[k]

LEMMA EnclosedIs ==
    ASSUME NEW A, NEW s \in Seq(A), NEW x \in A, NEW y \in A
    PROVE  /\ <<x>> \o s \o <<y>> \in Seq(A)
           /\ Enclosed(<<x>> \o s \o <<y>>, x, s, y)
<1>1. Len(s) \in Nat
  OBVIOUS
<1>2. <<x>> \in Seq(A) /\ Len(<<x>>) = 1 /\ <<x>>[1] = x
  OBVIOUS
<1>3. <<y>> \in Seq(A) /\ Len(<<y>>) = 1 /\ <<y>>[1] = y
  OBVIOUS
<1>. DEFINE v == <<x>> \o s
            w == v \o <<y>>
<1>4. /\ v \in Seq(A) /\ Len(v) = 1 + Len(s) /\ v[1] = x
      /\ \A k \in 1 .. Len(s) : v[1 + k] = s[k]
  <2>. DEFINE h == <<x>>
  <2>1. h \in Seq(A) /\ Len(h) = 1 /\ h[1] = x
    BY <1>2
  <2>. HIDE DEF h
  <2>2. h \o s \in Seq(A) /\ Concatenation(h \o s, h, s)
    BY <2>1, Concatenated
  <2>3. 1 \in 1 .. Len(h)
    BY <2>1
  <2>4. v = h \o s
    BY DEF h
  <2>. HIDE DEF v
  <2> QED BY <2>1, <2>2, <2>3, <2>4 DEF Concatenation
<1>. HIDE DEF v
<1>5. /\ w \in Seq(A) /\ Len(w) = Len(v) + 1 /\ w[Len(v) + 1] = y
      /\ \A k \in 1 .. Len(v) : w[k] = v[k]
  <2>. DEFINE e == <<y>>
  <2>1. e \in Seq(A) /\ Len(e) = 1 /\ e[1] = y
    BY <1>3
  <2>. HIDE DEF e
  <2>2. v \o e \in Seq(A) /\ Concatenation(v \o e, v, e)
    BY <1>4, <2>1, Concatenated
  <2>3. 1 \in 1 .. Len(e)
    BY <2>1
  <2>4. w = v \o e
    BY DEF e
  <2>. HIDE DEF w
  <2> QED BY <2>1, <2>2, <2>3, <2>4 DEF Concatenation
<1>. HIDE DEF w
<1>6. Len(w) = Len(s) + 2 /\ w[Len(s) + 2] = y
  <2>1. Len(v) + 1 = Len(s) + 2
    BY <1>1, <1>4
  <2> QED BY <2>1, <1>5
<1>7. w[1] = x
  <2>1. 1 \in 1 .. Len(v)
    BY <1>1, <1>4
  <2> QED BY <2>1, <1>4, <1>5
<1>8. ASSUME NEW k \in 1 .. Len(s) PROVE w[k + 1] = s[k]
  <2>1. k + 1 \in 1 .. Len(v) /\ k + 1 = 1 + k
    BY <1>1, <1>4
  <2>2. w[k + 1] = v[k + 1]
    BY <2>1, <1>5
  <2> QED BY <2>1, <2>2, <1>4
<1>9. Enclosed(w, x, s, y)
  BY <1>6, <1>7, <1>8 DEF Enclosed
<1> QED BY <1>5, <1>9 DEF w, v

LEMMA EnclosedIsRanked ==
    ASSUME NEW s \in Seq(Statements), NEW x, NEW y, NEW w, Enclosed(w, x, s, y),
           x.st # "FP", y.st # "FP", Ranked(s)
    PROVE  Ranked(w)
<1>. SUFFICES ASSUME NEW a \in 1 .. Len(w), NEW b \in 1 .. Len(w),
                     a < b, w[a].st = "FP", w[b].st = "FP"
              PROVE  w[a].index <= w[b].index
  BY DEF Ranked
<1>1. /\ Len(s) \in Nat /\ Len(w) = Len(s) + 2 /\ w[1] = x /\ w[Len(s) + 2] = y
      /\ \A k \in 1 .. Len(s) : w[k + 1] = s[k]
  BY DEF Enclosed
<1>2. a # 1 /\ a # Len(s) + 2 /\ b # 1 /\ b # Len(s) + 2
  BY <1>1
<1>3. a - 1 \in 1 .. Len(s) /\ b - 1 \in 1 .. Len(s) /\ a - 1 < b - 1 /\ (a - 1) + 1 = a /\ (b - 1) + 1 = b
  BY <1>1, <1>2
<1>4. w[a] = s[a - 1] /\ w[b] = s[b - 1]
  BY <1>1, <1>3
<1> QED BY <1>3, <1>4 DEF Ranked

\* The statements of a function have its index.
LEMMA PrintFunction ==
    ASSUME NEW f \in SymFunction, NEW l \in Names, NEW m \in Names
    PROVE  /\ print_function(f, l, m) \in Seq(Statements)
           /\ \A x \in 1 .. Len(print_function(f, l, m)) :
                 print_function(f, l, m)[x].index = f.index
<1>. DEFINE A == {s \in Statements : s.index = f.index}
<1>1. f.name \in Labels /\ f.index \in Nat /\ f.alias \in Seq(Names)
  BY DEF SymFunction
<1>2. ASSUME NEW st \in {"FU", "FP", "FE", "FA"}, NEW x \in Labels
      PROVE  Statement(st, m, l, f.index, x) \in A
  BY <1>1 DEF Statement, Statements
<1>3. print_function(f, l, m) \in Seq(A)
  <2>1. CASE f.name = NoName
    <3>1. NoName \in Labels
      BY DEF Labels
    <3>2. print_function(f, l, m) = <<Statement("FU", m, l, f.index, NoName)>>
      BY <2>1 DEF print_function
    <3>3. Statement("FU", m, l, f.index, NoName) \in A
      BY <3>1, <1>2
    <3>. HIDE DEF A
    <3> QED BY <3>2, <3>3
  <2>2. CASE f.name # NoName
    <3>. DEFINE e == [k \in DOMAIN f.alias |-> Statement("FA", m, l, f.index, f.alias[k])]
                x == Statement("FP", m, l, f.index, f.name)
                y == Statement("FE", m, l, f.index, f.name)
    <3>1. print_function(f, l, m) = <<x>> \o e \o <<y>>
      BY <2>2 DEF print_function, Each
    <3>2. x \in A /\ y \in A
      BY <1>1, <1>2
    <3>3. e \in Seq(A)
      <4>. HIDE DEF A
      <4>1. /\ Len(f.alias) \in Nat /\ DOMAIN f.alias = 1 .. Len(f.alias)
            /\ \A k \in 1 .. Len(f.alias) : f.alias[k] \in Labels
        BY <1>1 DEF Labels
      <4>2. e \in [1 .. Len(f.alias) -> A]
        BY <4>1, <1>2
      <4>. HIDE DEF e
      <4> QED BY <4>1, <4>2
    <3>. HIDE DEF A, e, x, y
    <3> QED BY <3>1, <3>2, <3>3, EnclosedIs
  <2> QED BY <2>1, <2>2
<1>. DEFINE P == print_function(f, l, m)
<1>4. P \in Seq(A)
  BY <1>3
<1>. HIDE DEF P
<1>5. A \subseteq Statements /\ \A s \in A : s.index = f.index
  OBVIOUS
<1>. HIDE DEF A
<1>6. P \in Seq(Statements)
  BY <1>4, <1>5
<1>7. ASSUME NEW x \in 1 .. Len(P) PROVE P[x].index = f.index
  <2>1. P[x] \in A
    BY <1>4
  <2> QED BY <2>1, <1>5
<1> QED BY <1>6, <1>7 DEF P

\* A library whose functions are in order has statements in order.
LEMMA PrintLibrary ==
    ASSUME NEW lib \in SymLibrary, Ascending(lib.function), NEW m \in Names
    PROVE  /\ print_library(lib, m) \in Seq(Statements)
           /\ 1 \in 1 .. Len(print_library(lib, m)) /\ print_library(lib, m)[1].st = "LP"
           /\ Ranked(print_library(lib, m))
<1>. DEFINE fs == lib.function
            ss == [k \in DOMAIN fs |-> print_function(fs[k], lib.name, m)]
            F  == FlattenSeq(ss)
            x  == Statement("LP", m, lib.name, 0, NoName)
            y  == Statement("LE", m, lib.name, 0, NoName)
            P  == print_library(lib, m)
<1>1. lib.name \in Names /\ fs \in Seq(SymFunction)
  BY DEF SymLibrary
<1>2. P = <<x>> \o F \o <<y>>
  BY DEF print_library, Each
<1>3. x \in Statements /\ y \in Statements /\ x.st = "LP" /\ y.st = "LE"
  BY <1>1 DEF Statement, Statements, Labels
<1>. HIDE DEF fs
<1>4. Len(fs) \in Nat /\ DOMAIN fs = 1 .. Len(fs) /\ \A k \in 1 .. Len(fs) : fs[k] \in SymFunction
  BY <1>1
<1>5. \A k \in 1 .. Len(fs) : /\ ss[k] \in Seq(Statements)
                              /\ \A z \in 1 .. Len(ss[k]) : ss[k][z].index = fs[k].index
  <2>1. TAKE k \in 1 .. Len(fs)
  <2>2. fs[k] \in SymFunction /\ k \in DOMAIN fs
    BY <1>4
  <2>3. ss[k] = print_function(fs[k], lib.name, m)
    BY <2>2
  <2>. HIDE DEF ss
  <2>4. /\ print_function(fs[k], lib.name, m) \in Seq(Statements)
        /\ \A z \in 1 .. Len(print_function(fs[k], lib.name, m)) :
               print_function(fs[k], lib.name, m)[z].index = fs[k].index
    BY <1>1, <2>2, PrintFunction
  <2> QED BY <2>3, <2>4
<1>6. ss \in Seq(Seq(Statements)) /\ Len(ss) = Len(fs)
  <2>1. ss = [k \in 1 .. Len(fs) |-> ss[k]]
    BY <1>4
  <2>. HIDE DEF ss
  <2>2. ss \in [1 .. Len(fs) -> Seq(Statements)]
    BY <2>1, <1>5
  <2> QED BY <2>2, <1>4
<1>. HIDE DEF ss
<1>7. F \in Seq(Statements) /\ Joins(F, ss)
  BY <1>6, Flattened
<1>. HIDE DEF F
<1>8. ASSUME NEW a \in 1 .. Len(F), NEW b \in 1 .. Len(F), a < b
      PROVE  F[a].index <= F[b].index
  <2>1. PICK j, u, k, v : Follow(ss, j, u, k, v) /\ F[a] = ss[j][u] /\ F[b] = ss[k][v]
    BY <1>7, <1>8 DEF Joins
  <2>2. /\ j \in 1 .. Len(fs) /\ u \in 1 .. Len(ss[j])
        /\ k \in 1 .. Len(fs) /\ v \in 1 .. Len(ss[k])
        /\ j < k \/ j = k
    BY <2>1, <1>6 DEF Follow
  <2>3. F[a].index = fs[j].index /\ F[b].index = fs[k].index
    <3>1. ss[j][u].index = fs[j].index
      BY <2>2, <1>5
    <3>2. ss[k][v].index = fs[k].index
      BY <2>2, <1>5
    <3> QED BY <3>1, <3>2, <2>1
  <2>4. fs[j].index <= fs[k].index
    <3>1. CASE j < k
      BY <3>1, <2>2 DEF Ascending, fs
    <3>2. CASE j = k
      <4>1. fs[j] \in SymFunction
        BY <2>2, <1>4
      <4>2. fs[j].index \in Nat
        BY <4>1 DEF SymFunction
      <4> QED BY <4>2, <3>2
    <3> QED BY <2>2, <3>1, <3>2
  <2> QED BY <2>3, <2>4
<1>9. Ranked(F)
  BY <1>8 DEF Ranked
<1>. HIDE DEF x, y
<1>10. P \in Seq(Statements) /\ Enclosed(P, x, F, y)
  BY <1>2, <1>3, <1>7, EnclosedIs
<1>. HIDE DEF P
<1>11. Ranked(P)
  BY <1>3, <1>7, <1>9, <1>10, EnclosedIsRanked
<1>12. 1 \in 1 .. Len(P) /\ P[1] = x
  <2>1. Len(F) \in Nat /\ Len(P) = Len(F) + 2 /\ P[1] = x
    BY <1>7, <1>10 DEF Enclosed
  <2> QED BY <2>1
<1> QED BY <1>3, <1>10, <1>11, <1>12 DEF P

\* A module has as many statements LP as libraries.  With one, its statements
\* are in order.
LEMMA PrintModule ==
    ASSUME NEW m \in SymModule, \A l \in 1 .. Len(m.library) : Ascending(m.library[l].function),
           m.library # <<>>
    PROVE  /\ print_module(m) \in Seq(Statements)
           /\ \/ Ranked(print_module(m))
              \/ \E a, b \in 1 .. Len(print_module(m)) :
                    a < b /\ print_module(m)[a].st = "LP" /\ print_module(m)[b].st = "LP"
<1>. DEFINE ls == m.library
            ss == [k \in DOMAIN ls |-> print_library(ls[k], m.name)]
            F  == FlattenSeq(ss)
            x  == Statement("MP", m.name, NoName, 0, NoName)
            y  == Statement("ME", m.name, NoName, 0, NoName)
            P  == print_module(m)
<1>1. m.name \in Names /\ ls \in Seq(SymLibrary)
  BY DEF SymModule
<1>2. P = <<x>> \o F \o <<y>>
  BY DEF print_module, Each
<1>3. x \in Statements /\ y \in Statements /\ x.st = "MP" /\ y.st = "ME"
  BY <1>1 DEF Statement, Statements, Labels
<1>4. /\ Len(ls) \in Nat \ {0} /\ DOMAIN ls = 1 .. Len(ls) /\ \A k \in 1 .. Len(ls) : ls[k] \in SymLibrary
      /\ \A k \in 1 .. Len(ls) : Ascending(ls[k].function)
  <2>1. \A k \in 1 .. Len(ls) : Ascending(ls[k].function)
    OBVIOUS
  <2>2. ls # <<>>
    OBVIOUS
  <2>. HIDE DEF ls
  <2> QED BY <1>1, <2>1, <2>2
<1>. HIDE DEF ls
<1>5. \A k \in 1 .. Len(ls) : /\ ss[k] \in Seq(Statements)
                              /\ 1 \in 1 .. Len(ss[k]) /\ ss[k][1].st = "LP"
                              /\ Ranked(ss[k])
  BY <1>1, <1>4, PrintLibrary
<1>6. ss \in Seq(Seq(Statements)) /\ Len(ss) = Len(ls)
  <2>1. ss = [k \in 1 .. Len(ls) |-> ss[k]]
    BY <1>4
  <2>. HIDE DEF ss
  <2>2. ss \in [1 .. Len(ls) -> Seq(Statements)]
    BY <2>1, <1>5
  <2> QED BY <2>2, <1>4
<1>. HIDE DEF ss
<1>7. F \in Seq(Statements) /\ Joins(F, ss)
  BY <1>6, Flattened
<1>. HIDE DEF F, x, y
<1>8. P \in Seq(Statements) /\ Enclosed(P, x, F, y)
  BY <1>2, <1>3, <1>7, EnclosedIs
<1>. HIDE DEF P
<1>9. CASE Len(ls) = 1
  <2>1. ASSUME NEW a \in 1 .. Len(F), NEW b \in 1 .. Len(F), a < b, F[a].st = "FP", F[b].st = "FP"
        PROVE  F[a].index <= F[b].index
    <3>1. PICK j, u, k, v : Follow(ss, j, u, k, v) /\ F[a] = ss[j][u] /\ F[b] = ss[k][v]
      BY <1>7, <2>1 DEF Joins
    <3>2. /\ j \in 1 .. 1 /\ u \in 1 .. Len(ss[j])
          /\ k \in 1 .. 1 /\ v \in 1 .. Len(ss[k])
          /\ j < k \/ (j = k /\ u < v)
      BY <3>1, <1>6, <1>9 DEF Follow
    <3>3. j = 1 /\ k = 1 /\ u < v
      BY <3>2
    <3>4. Ranked(ss[1]) /\ u \in 1 .. Len(ss[1]) /\ v \in 1 .. Len(ss[1])
      BY <3>2, <3>3, <1>5, <1>9
    <3> QED BY <3>1, <3>3, <3>4, <2>1 DEF Ranked
  <2>2. Ranked(F)
    BY <2>1 DEF Ranked
  <2>3. Ranked(P)
    BY <1>3, <1>7, <1>8, <2>2, EnclosedIsRanked
  <2> QED BY <2>3, <1>8 DEF P
<1>10. CASE Len(ls) # 1
  <2>1. 1 \in 1 .. Len(ls) /\ 2 \in 1 .. Len(ls)
    BY <1>4, <1>10
  <2>2. Follow(ss, 1, 1, 2, 1) /\ ss[1][1].st = "LP" /\ ss[2][1].st = "LP"
    BY <2>1, <1>5, <1>6 DEF Follow
  <2>3. PICK a, b \in 1 .. Len(F) : a < b /\ F[a] = ss[1][1] /\ F[b] = ss[2][1]
    BY <2>2, <1>7 DEF Joins
  <2>4. Len(F) \in Nat
    BY <1>7
  <2>5. P[a + 1] = F[a] /\ P[b + 1] = F[b] /\ Len(P) = Len(F) + 2
    BY <1>8, <2>3 DEF Enclosed
  <2>6. a + 1 \in 1 .. Len(P) /\ b + 1 \in 1 .. Len(P) /\ a + 1 < b + 1
    BY <2>3, <2>4, <2>5
  <2>7. P[a + 1].st = "LP" /\ P[b + 1].st = "LP"
    BY <2>2, <2>3, <2>5
  <2> QED BY <2>6, <2>7, <1>8 DEF P
<1> QED BY <1>9, <1>10

----------------------------------------------------------------------------
(* Export tables                                                            *)

\* Numbers in order, and those from 0 on without a gap, are counted from 0.
LEMMA CountedFromZero ==
    ASSUME NEW m \in Nat, NEW f \in [1 .. m -> Nat],
           \A a, b \in 1 .. m : a < b => f[a] <= f[b],
           \A i \in 0 .. m - 1 : \E k \in 1 .. m : f[k] = i
    PROVE  \A k \in 1 .. m : f[k] = k - 1
<1>. DEFINE Below == {i \in Nat : i + 1 <= m => f[i + 1] <= i}
            Above == {i \in Nat : i < m => f[m - i] >= m - i - 1}
<1>1. ASSUME NEW a \in 1 .. m, NEW b \in 1 .. m, a <= b PROVE f[a] <= f[b]
  <2>1. f[a] \in Nat
    OBVIOUS
  <2> QED BY <2>1, <1>1
<1>2. 0 \in Below
  <2>. SUFFICES ASSUME 1 <= m PROVE f[1] <= 0
    OBVIOUS
  <2>1. PICK k \in 1 .. m : f[k] = 0
    OBVIOUS
  <2> QED BY <2>1, <1>1
<1>3. ASSUME NEW i \in Nat, i \in Below PROVE i + 1 \in Below
  <2>. SUFFICES ASSUME (i + 1) + 1 <= m PROVE f[(i + 1) + 1] <= i + 1
    OBVIOUS
  <2>1. f[i + 1] <= i /\ i + 1 \in 1 .. m /\ (i + 1) + 1 \in 1 .. m
    BY <1>3
  <2>2. PICK k \in 1 .. m : f[k] = i + 1
    <3>1. i + 1 \in 0 .. m - 1
      OBVIOUS
    <3> QED BY <3>1
  <2>3. ~(k <= i + 1)
    <3>. SUFFICES ASSUME k <= i + 1 PROVE FALSE
      OBVIOUS
    <3>1. f[k] <= f[i + 1] /\ f[i + 1] \in Nat
      BY <1>1, <2>1
    <3> QED BY <3>1, <2>1, <2>2
  <2>4. (i + 1) + 1 <= k
    BY <2>3
  <2> QED BY <2>1, <2>2, <2>4, <1>1
<1>4. 0 \in Above
  <2>. SUFFICES ASSUME 0 < m PROVE f[m] >= m - 1
    OBVIOUS
  <2>1. PICK k \in 1 .. m : f[k] = m - 1
    <3>1. m - 1 \in 0 .. m - 1
      OBVIOUS
    <3> QED BY <3>1
  <2>2. m \in 1 .. m /\ k <= m /\ f[m] \in Nat
    OBVIOUS
  <2>3. f[k] <= f[m]
    BY <2>2, <1>1
  <2> QED BY <2>1, <2>2, <2>3
<1>5. ASSUME NEW i \in Nat, i \in Above PROVE i + 1 \in Above
  <2>. SUFFICES ASSUME i + 1 < m PROVE f[m - (i + 1)] >= m - (i + 1) - 1
    OBVIOUS
  <2>. DEFINE j == m - (i + 1)
  <2>1. j \in 1 .. m /\ j + 1 \in 1 .. m /\ j + 1 = m - i /\ f[j] \in Nat /\ f[j + 1] \in Nat
    OBVIOUS
  <2>2. f[j + 1] >= j
    BY <1>5, <2>1
  <2>3. PICK k \in 1 .. m : f[k] = j - 1
    <3>1. j - 1 \in 0 .. m - 1
      BY <2>1
    <3> QED BY <3>1
  <2>. HIDE DEF j
  <2>4. ~(j + 1 <= k)
    <3>. SUFFICES ASSUME j + 1 <= k PROVE FALSE
      OBVIOUS
    <3>1. f[j + 1] <= f[k]
      BY <1>1, <2>1
    <3> QED BY <3>1, <2>1, <2>2, <2>3
  <2>5. k <= j
    BY <2>1, <2>4
  <2>6. f[k] <= f[j]
    BY <2>1, <2>5, <1>1
  <2>7. f[j] >= j - 1
    BY <2>1, <2>3, <2>6
  <2> QED BY <2>7 DEF j
<1>6. Nat \subseteq Below
  <2>. HIDE DEF Below
  <2> QED BY <1>2, <1>3, Induction
<1>7. Nat \subseteq Above
  <2>. HIDE DEF Above
  <2> QED BY <1>4, <1>5, Induction
<1>8. ASSUME NEW k \in 1 .. m PROVE f[k] = k - 1
  <2>1. k - 1 \in Below /\ m - k \in Above
    <3>1. k - 1 \in Nat /\ m - k \in Nat
      OBVIOUS
    <3>. HIDE DEF Below, Above
    <3> QED BY <3>1, <1>6, <1>7
  <2>2. (k - 1) + 1 = k /\ m - (m - k) = k /\ m - k < m /\ f[k] \in Nat
    OBVIOUS
  <2>3. f[k] <= k - 1
    BY <2>1, <2>2
  <2>4. f[k] >= k - 1
    BY <2>1, <2>2
  <2> QED BY <2>2, <2>3, <2>4
<1> QED BY <1>8

\* Those of some statements that a test picks.
LEMMA StatementsSelected ==
    ASSUME NEW s \in Seq(Statements), NEW st
    PROVE  LET G == Select(s, LAMBDA x : x.st = st)
           IN  G \in Seq(Statements) /\ Filters(G, s, {x \in Statements : x.st = st})
<1>. DEFINE T == {x \in Statements : x.st = st}
            G == FlattenSeq([k \in DOMAIN s |-> IF s[k] \in T THEN <<s[k]>> ELSE <<>>])
<1>1. Select(s, LAMBDA x : x.st = st) = G
  <2>1. \A k \in DOMAIN s : s[k].st = st <=> s[k] \in T
    OBVIOUS
  <2>. HIDE DEF T
  <2>2. [k \in DOMAIN s |-> IF s[k].st = st THEN <<s[k]>> ELSE <<>>]
            = [k \in DOMAIN s |-> IF s[k] \in T THEN <<s[k]>> ELSE <<>>]
    BY <2>1
  <2> QED BY <2>2 DEF Select
<1>2. G \in Seq(Statements) /\ Filters(G, s, T)
  <2>. HIDE DEF T
  <2> QED BY Selected
<1> QED BY <1>1, <1>2

\* What is exported are the statements of one of the modules, or nothing.
LEMMA ExportIs ==
    ASSUME symtab \in Seq(SymModule)
    PROVE  \/ Printed.export = <<>>
           \/ \E i \in 1 .. Len(symtab) : /\ symtab[i].library # <<>>
                                          /\ Printed.export = print_module(symtab[i])
<1>. DEFINE T == {m \in SymModule : m.name = option.outfile}
            same == FlattenSeq([k \in DOMAIN symtab |-> IF symtab[k] \in T THEN <<symtab[k]>> ELSE <<>>])
<1>1. same = Select(symtab, LAMBDA m : m.name = option.outfile)
  <2>1. \A k \in DOMAIN symtab : symtab[k].name = option.outfile <=> symtab[k] \in T
    OBVIOUS
  <2>. HIDE DEF T
  <2>2. [k \in DOMAIN symtab |-> IF symtab[k].name = option.outfile THEN <<symtab[k]>> ELSE <<>>]
            = [k \in DOMAIN symtab |-> IF symtab[k] \in T THEN <<symtab[k]>> ELSE <<>>]
    BY <2>1
  <2> QED BY <2>2 DEF Select
<1>2. same \in Seq(SymModule) /\ Filters(same, symtab, T)
  <2>. HIDE DEF T
  <2> QED BY Selected
<1>. HIDE DEF same, T
<1>3. Printed.export = <<>> \/ (same # <<>> /\ Head(same).library # <<>>
                                /\ Printed.export = print_module(Head(same)))
  <2>1. CASE option.module
    <3>. DEFINE e == IF same = <<>> \/ Head(same).library = <<>> THEN <<>>
                     ELSE print_module(Head(same))
    <3>1. print_symtab_module(symtab, option.outfile).export = e
      BY <1>1 DEF print_symtab_module, Empty
    <3> QED BY <2>1, <3>1 DEF Printed
  <2>2. CASE ~option.module
    BY <2>2 DEF Printed, print_symtab, Empty
  <2> QED BY <2>1, <2>2
<1>4. ASSUME same # <<>> PROVE \E i \in 1 .. Len(symtab) : Head(same) = symtab[i]
  <2>1. 1 \in 1 .. Len(same) /\ Head(same) = same[1]
    BY <1>2, <1>4
  <2> QED BY <2>1, <1>2 DEF Filters
<1> QED BY <1>3, <1>4

\* The words of an export table of one library are in the order of their
\* indices, and if these have no gap, each is its own place.
LEMMA SlotsAreIndices ==
    ASSUME symtab \in Seq(SymModule), Ordered(symtab),
           Len(Select(Printed.export, LAMBDA s : s.st = "LP")) = 1, Gapless(ExportTable(Printed))
    PROVE  \A k \in DOMAIN ExportTable(Printed) : ExportTable(Printed)[k].index = k - 1
<1>. DEFINE E == Printed.export
            S == ExportTable(Printed)
            L == Select(E, LAMBDA s : s.st = "LP")
<1>1. E \in Seq(Statements) /\ Ranked(E)
  <2>1. CASE E = <<>>
    <3>1. Len(<<>>) = 0
      OBVIOUS
    <3>2. Ranked(<<>>)
      BY <3>1 DEF Ranked
    <3> QED BY <2>1, <3>2
  <2>2. CASE E # <<>>
    <3>1. PICK i \in 1 .. Len(symtab) : symtab[i].library # <<>> /\ E = print_module(symtab[i])
      BY <2>2, ExportIs
    <3>2. symtab[i] \in SymModule /\ \A l \in 1 .. Len(symtab[i].library) : Ascending(symtab[i].library[l].function)
      BY DEF Ordered
    <3>3. E \in Seq(Statements) /\ (Ranked(E) \/ \E a, b \in 1 .. Len(E) : a < b /\ E[a].st = "LP" /\ E[b].st = "LP")
      BY <3>1, <3>2, PrintModule
    <3>4. Len(L) = 1
      OBVIOUS
    <3>. HIDE DEF E
    <3>5. ASSUME NEW a \in 1 .. Len(E), NEW b \in 1 .. Len(E), a < b, E[a].st = "LP", E[b].st = "LP"
          PROVE  FALSE
      <4>1. L \in Seq(Statements) /\ Filters(L, E, {x \in Statements : x.st = "LP"})
        BY <3>3, StatementsSelected
      <4>2. E[a] \in {x \in Statements : x.st = "LP"} /\ E[b] \in {x \in Statements : x.st = "LP"}
        BY <3>3, <3>5
      <4>. HIDE DEF L
      <4>3. Len(L) >= 2
        BY <3>5, <4>1, <4>2 DEF Filters
      <4> QED BY <3>4, <4>3
    <3> QED BY <3>3, <3>5
  <2> QED BY <2>1, <2>2
<1>2. S \in Seq(Statements) /\ Filters(S, E, {x \in Statements : x.st = "FP"})
  <2>1. S = Select(E, LAMBDA s : s.st = "FP")
    BY DEF ExportTable
  <2>. DEFINE G == Select(E, LAMBDA s : s.st = "FP")
  <2>. HIDE DEF S, E
  <2>2. G \in Seq(Statements) /\ Filters(G, E, {x \in Statements : x.st = "FP"})
    BY <1>1, StatementsSelected
  <2>. HIDE DEF G
  <2>3. S = G
    BY <2>1 DEF G
  <2> QED BY <2>2, <2>3
<1>3. {S[k].index : k \in DOMAIN S} = 0 .. Len(S) - 1
  BY DEF Gapless
<1>. HIDE DEF E, S
<1>4. Len(S) \in Nat /\ DOMAIN S = 1 .. Len(S) /\ \A k \in 1 .. Len(S) : S[k] \in Statements
  BY <1>2
<1>5. ASSUME NEW a \in 1 .. Len(S), NEW b \in 1 .. Len(S), a < b
      PROVE  S[a].index <= S[b].index
  <2>1. PICK i, j \in 1 .. Len(E) : i < j /\ S[a] = E[i] /\ S[b] = E[j]
    BY <1>2, <1>5 DEF Filters
  <2>2. S[a].st = "FP" /\ S[b].st = "FP"
    BY <1>2 DEF Filters
  <2> QED BY <1>1, <2>1, <2>2 DEF Ranked
<1>. DEFINE f == [k \in 1 .. Len(S) |-> S[k].index]
<1>6. f \in [1 .. Len(S) -> Nat]
  <2>1. \A x \in Statements : x.index \in Nat
    BY DEF Statements
  <2> QED BY <1>4, <2>1
<1>7. \A k \in 1 .. Len(S) : f[k] = S[k].index
  OBVIOUS
<1>. HIDE DEF f
<1>8. \A a, b \in 1 .. Len(S) : a < b => f[a] <= f[b]
  BY <1>5, <1>7
<1>9. \A i \in 0 .. Len(S) - 1 : \E k \in 1 .. Len(S) : f[k] = i
  BY <1>3, <1>4, <1>7
<1>10. \A k \in 1 .. Len(S) : f[k] = k - 1
  BY <1>4, <1>6, <1>8, <1>9, CountedFromZero
<1>11. \A k \in DOMAIN S : S[k].index = k - 1
  BY <1>4, <1>7, <1>10
<1> QED BY <1>11 DEF S

LEMMA SymInvStarts == Init => SymInv
  BY StartsOrEnds DEF Init, SymInv

LEMMA SymInvStays == SymInv /\ [Next]_vars => SymInv'
<1>. SUFFICES ASSUME SymInv, [Next]_vars PROVE SymInv'
  OBVIOUS
<1>1. ASSUME NEW d \in Declarations, Read(d) PROVE SymInv'
  <2>1. symtab' = read_declaration(symtab, d) /\ phase' = "read"
    BY <1>1 DEF Read
  <2> QED BY <2>1, ReadDeclaration DEF SymInv
<1>2. CASE FillAndOrder
  <2>1. symtab' = order_symtab(fill_symtab(symtab))
    BY <1>2 DEF FillAndOrder
  <2>2. symtab' \in Seq(SymModule) /\ Ordered(symtab')
    BY <2>1, OrderTree DEF SymInv
  <2> QED BY <2>2 DEF SymInv
<1>3. CASE Open \/ Close \/ Rename \/ Stdout
  <2>1. symtab' = symtab /\ phase \in {"ordered", "open", "closed"}
    BY <1>3 DEF Open, Close, Rename, Stdout
  <2> QED BY <2>1 DEF SymInv
<1>4. CASE Fail \/ Kill
  <2>1. symtab' = symtab /\ phase' \in {"failed", "killed"}
    BY <1>4 DEF Fail, Kill
  <2> QED BY <2>1 DEF SymInv
<1>5. CASE UNCHANGED vars
  BY <1>5 DEF vars, SymInv
<1> QED BY <1>1, <1>2, <1>3, <1>4, <1>5 DEF Next

\* The inductive invariant of the tree, for any declarations.
THEOREM SymInvHolds == Spec => []SymInv
<1> QED BY SymInvStarts, SymInvStays, PTL DEF Spec

\* "index of function in library export table, starting from 0" (symtab.h), for
\* any declarations of a library without gaps.
THEOREM SlotIsIndex == Spec => []ExportSlotIsIndex
<1>1. SymInv => ExportSlotIsIndex
  BY SlotsAreIndices DEF SymInv, ExportSlotIsIndex
<1> QED BY <1>1, SymInvHolds, PTL
=============================================================================
