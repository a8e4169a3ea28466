------------------------------- MODULE Dropt --------------------------------
(***************************************************************************)
(* dropt.c and dropt_handlers.c: dropt_parse() reads the words of a        *)
(* command line from left to right.  Every option on the way is looked up  *)
(* in the table of its caller, and its handler stores a value where the    *)
(* entry says.  The table of ag sets none of dropt's attributes (optional  *)
(* arguments, halting options) and allows no concatenated arguments, so    *)
(* these are left out.                                                     *)
(*                                                                         *)
(* A word is a string; what its characters make of it for dropt is looked  *)
(* up in Reading, and the number it spells, if any, in Numerals.           *)
(***************************************************************************)
EXTENDS Integers, Sequences

CONSTANTS
    Entries,     \* sequence of [names, handler, field, value]: the table
    Reading,     \* word |-> [names, equals, arg, option]: see Option and Plain
    Numerals,    \* word |-> number, of the words strtol() reads to the end
    Dashed,      \* words that begin with "-", which are no unsigned number
    IntBits,     \* the width of an int
    NULL

VARIABLES
    pc,          \* "parse" in dropt_parse(), "parsed" when it has returned
    argv,        \* the words behind the name of the program
    argNext,     \* the word that is read
    letter,      \* the option of that word that is next: "-lv" has two
    opts,        \* field |-> value: what the handlers write to
    errorDetails \* [err, optionName, optionArgument] or NULL

Handlers == {"const", "bool", "int", "string"}

Errors == {"invalid_option", "insufficient_arguments", "mismatch", "overflow"}

(* A name that stands in two entries means the same in both.               *)
ASSUME EntriesAssumption ==
    /\ \A k \in DOMAIN Entries :
        /\ Entries[k].names \subseteq STRING
        /\ Entries[k].handler \in Handlers
    /\ \A k, l \in DOMAIN Entries :
        Entries[k].names \cap Entries[l].names # {} =>
            /\ Entries[k].handler = Entries[l].handler
            /\ Entries[k].field = Entries[l].field
            /\ Entries[k].value = Entries[l].value

ASSUME ReadingAssumption ==
    \A word \in DOMAIN Reading :
        /\ word \in STRING
        /\ Reading[word] \in [option : BOOLEAN, names : Seq(STRING), equals : BOOLEAN,
                              arg : STRING \cup {NULL}]

ASSUME NumeralsAssumption == \A word \in DOMAIN Numerals : Numerals[word] \in Int

ASSUME NullAssumption ==
    /\ NULL \notin STRING
    /\ NULL \notin [err : Errors, optionName : STRING, optionArgument : STRING \cup {NULL}]

-----------------------------------------------------------------------------
(* The forms of a word: options with their names ("-lv" is <<"-l", "-v">>, *)
(* and "--=" has none), and what is no option ("--" among them).           *)
Option(names, equals, arg) ==
    [option |-> TRUE, names |-> names, equals |-> equals, arg |-> arg]

Plain == [option |-> FALSE, names |-> <<>>, equals |-> FALSE, arg |-> NULL]

(* The tables sorted by name: which entries a name finds.                  *)
Lookup ==
    [name \in UNION {Entries[k].names : k \in DOMAIN Entries} |->
        {k \in DOMAIN Entries : name \in Entries[k].names}]

Find(name) == IF name \in DOMAIN Lookup THEN Lookup[name] ELSE {}

TakesArg(k) == Entries[k].handler \in {"int", "string"}

InInt(n) == -(2 ^ (IntBits - 1)) <= n /\ n < 2 ^ (IntBits - 1)

-----------------------------------------------------------------------------
(* What the handler of entry k says to an argument, and what it stores.    *)
IsNumber(arg, Numbers) == arg \in DOMAIN Numerals \ Dashed /\ Numerals[arg] \in Numbers

dropt_handle_const(k, arg) == IF arg = NULL THEN "none" ELSE "mismatch"

dropt_handle_bool(k, arg) ==
    IF arg = NULL \/ IsNumber(arg, {0, 1}) THEN "none" ELSE "mismatch"

dropt_handle_int(k, arg) ==
    CASE arg \in {NULL, ""} -> "insufficient_arguments"
      [] arg \notin DOMAIN Numerals \cup {NULL, ""} -> "mismatch"
      [] OTHER -> IF InInt(Numerals[arg]) THEN "none" ELSE "overflow"

dropt_handle_string(k, arg) == IF arg = NULL THEN "insufficient_arguments" ELSE "none"

Handle(k, arg) ==
    CASE Entries[k].handler = "const" -> dropt_handle_const(k, arg)
      [] Entries[k].handler = "bool" -> dropt_handle_bool(k, arg)
      [] Entries[k].handler = "int" -> dropt_handle_int(k, arg)
      [] Entries[k].handler = "string" -> dropt_handle_string(k, arg)

Stored(k, arg) ==
    CASE Entries[k].handler = "const" -> Entries[k].value
      [] Entries[k].handler = "bool" -> arg = NULL \/ Numerals[arg] = 1
      [] Entries[k].handler = "int" -> Numerals[arg]
      [] Entries[k].handler = "string" -> arg

-----------------------------------------------------------------------------
(* The argument of the option that is next: only the last of its word has  *)
(* one, behind "=" or, if it must have one, in the next word.              *)
Here == Reading[argv[argNext]]

IsLast == letter = Len(Here.names)

ConsumeNextArg(k) == IsLast /\ TakesArg(k) /\ ~Here.equals /\ argNext < Len(argv)

ArgumentOf(k) ==
    CASE IsLast /\ Here.equals -> Here.arg
      [] ConsumeNextArg(k) -> argv[argNext + 1]
      [] OTHER -> NULL

(* There is an option to read.                                             *)
AtOption == pc = "parse" /\ argNext <= Len(argv) /\ Here.option

set_error_details(err, name, arg) ==
    /\ pc' = "parsed"
    /\ errorDetails' = [err |-> err, optionName |-> name, optionArgument |-> arg]
    /\ UNCHANGED <<argv, argNext, letter, opts>>

(* "--=" and "-=" name no option.                                          *)
Nameless ==
    /\ AtOption /\ Here.names = <<>>
    /\ set_error_details("invalid_option", argv[argNext], NULL)

UnknownOption ==
    /\ AtOption /\ Here.names # <<>>
    /\ Find(Here.names[letter]) = {}
    /\ set_error_details("invalid_option", Here.names[letter], NULL)

BadArgument ==
    /\ AtOption /\ Here.names # <<>>
    /\ \E k \in Find(Here.names[letter]) :
        /\ Handle(k, ArgumentOf(k)) # "none"
        /\ set_error_details(Handle(k, ArgumentOf(k)), Here.names[letter], ArgumentOf(k))

(* Mutant: an argument is also read as the next word.                      *)
SetOption_KeepsArgument ==
    /\ AtOption /\ Here.names # <<>>
    /\ \E k \in Find(Here.names[letter]) :
        /\ Handle(k, ArgumentOf(k)) = "none"
        /\ opts' = [opts EXCEPT ![Entries[k].field] = Stored(k, ArgumentOf(k))]
        /\ argNext' = argNext + (IF IsLast THEN 1 ELSE 0)
    /\ letter' = IF IsLast THEN 1 ELSE letter + 1
    /\ UNCHANGED <<pc, argv, errorDetails>>

(* The option is stored; behind the last of a word the next word is read,  *)
(* or the one behind it if that was the argument.                          *)
SetOption ==
    /\ AtOption /\ Here.names # <<>>
    /\ \E k \in Find(Here.names[letter]) :
        /\ Handle(k, ArgumentOf(k)) = "none"
        /\ opts' = [opts EXCEPT ![Entries[k].field] = Stored(k, ArgumentOf(k))]
        /\ argNext' = argNext + (IF ConsumeNextArg(k) THEN 2 ELSE IF IsLast THEN 1 ELSE 0)
    /\ letter' = IF IsLast THEN 1 ELSE letter + 1
    /\ UNCHANGED <<pc, argv, errorDetails>>

(* The first word that is no option ends the options, and so does "--",    *)
(* which is not passed on.                                                 *)
EndOfOptions ==
    /\ pc = "parse" /\ ~AtOption
    /\ pc' = "parsed"
    /\ argNext' = argNext + (IF argNext <= Len(argv) /\ argv[argNext] = "--" THEN 1 ELSE 0)
    /\ UNCHANGED <<argv, letter, opts, errorDetails>>

dropt_parse == Nameless \/ UnknownOption \/ BadArgument \/ SetOption \/ EndOfOptions

=============================================================================
