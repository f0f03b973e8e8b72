------------------------------- MODULE Getopt -------------------------------
(***************************************************************************)
(* Command lines, as getopt_long of the C library tells them to             *)
(* parse_options of the tools.  A word of a command line is an option with   *)
(* its argument, in the long or the short form, or a file; "?" stands for    *)
(* one that getopt_long rejects.  Files may come before options, since       *)
(* getopt_long moves them to the end.                                       *)
(***************************************************************************)
EXTENDS Integers, SequencesExt

Opt(name)         == [opt |-> name]
OptArg(name, arg) == [opt |-> name, arg |-> arg]
Arg(file)         == [opt |-> "file", arg |-> file]

PlacesOf(args, names) == {k \in DOMAIN args : args[k].opt \in names}

Chosen(args, name) == PlacesOf(args, {name}) # {}

\* The argument of the last option of a name: each one replaces that of the
\* one before.
LastOf(args, name, default) ==
    IF Chosen(args, name) THEN args[Max(PlacesOf(args, {name}))].arg ELSE default

\* The first of these three ends the program within the loop over options,
\* whatever else is on the command line.
Parsed(args) ==
    LET ends == PlacesOf(args, {"help", "version", "?"})
    IN  IF ends = {} THEN "parsed"
        ELSE IF args[Min(ends)].opt = "?" THEN "failed"
        ELSE "exited"

\* "no input file" and "too many input files" are fatal.
OneInput(args) == \E k \in DOMAIN args : PlacesOf(args, {"file"}) = {k}
=============================================================================
