----------------------------- MODULE MCOptions ------------------------------
(* Options with the words TLC puts command lines together from.            *)
EXTENDS Options

TwoLangs == <<"--css", "--js">>

(* Every name of the table by itself, and words with an argument or with   *)
(* several options, right and wrong.                                       *)
Names == UNION {base_options[k].names : k \in DOMAIN base_options} \cup ToSet(TwoLangs)

Longer ==
    "-A=2" :> Option(<<"-A">>, TRUE, "2") @@ "--context=-1" :> Option(<<"--context">>, TRUE, "-1")
    @@ "--depth=" :> Option(<<"--depth">>, TRUE, "") @@ "-g=a" :> Option(<<"-g">>, TRUE, "a")
    @@ "-m=big" :> Option(<<"-m">>, TRUE, "big") @@ "--count=0" :> Option(<<"--count">>, TRUE, "0")
    @@ "--count=-0" :> Option(<<"--count">>, TRUE, "-0")
    @@ "--count=2" :> Option(<<"--count">>, TRUE, "2") @@ "--color=1" :> Option(<<"--color">>, TRUE, "1")
    @@ "-lv" :> Option(<<"-l", "-v">>, FALSE, NULL) @@ "-Al" :> Option(<<"-A", "-l">>, FALSE, NULL)
    @@ "-lA" :> Option(<<"-l", "-A">>, FALSE, NULL) @@ "-iG=(" :> Option(<<"-i", "-G">>, TRUE, "(")
    @@ "-lq" :> Option(<<"-l", "-q">>, FALSE, NULL) @@ "--no" :> Option(<<"--no">>, FALSE, NULL)
    @@ "-1" :> Option(<<"-1">>, FALSE, NULL) @@ "--=" :> Option(<<>>, FALSE, NULL)

PlainWords == {"a", "B", "a.", "(", "a/", "2", "big", "", "-", "--"}

Words == Names \cup DOMAIN Longer \cup PlainWords

UsualReading ==
    Longer @@ [n \in Names |-> Option(<<n>>, FALSE, NULL)] @@ [p \in PlainWords |-> Plain]

UsualNumerals == "0" :> 0 @@ "-0" :> 0 @@ "2" :> 2 @@ "-1" :> -1 @@ "big" :> 99999

(* Words that act on each other.                                           *)
Interacting ==
    {"a", "B", "", "2", "--", "-A", "-lA", "-l", "-g", "-G", "-v", "--color", "--nogroup",
     "--group", "--nobreak", "-H", "--filename", "--nofilename", "--numbers", "--parallel",
     "--vimgrep", "--ackmate", "--js", "--css", "-u", "-s"}

UsualCommandLines ==
    {<<>>} \cup {<<v>> : v \in Words} \cup {<<v, w>> : v \in Words, w \in {"a", "(", "-i"}}
    \cup {<<u, v, w>> : u, v \in Interacting, w \in {"a", ""}}
    \cup {<<"-l", "-A", v, "a">> : v \in Words}

(* Enough for what the code does not do.                                   *)
FewCommandLines == {<<v, "a">> : v \in Words}

Environment(stdin_pipe, tty, home, xdg, excludes, forks, cores) ==
    [stdin_pipe |-> stdin_pipe, tty |-> tty, dumb |-> FALSE, closed |-> FALSE, home |-> home,
     xdg |-> xdg, excludes |-> excludes, forks |-> forks, cores |-> cores]

DumbTerminal == [Environment(FALSE, TRUE, TRUE, FALSE, TRUE, TRUE, 4) EXCEPT !.dumb = TRUE]
ClosedOutput == [Environment(FALSE, FALSE, TRUE, FALSE, TRUE, TRUE, 4) EXCEPT !.closed = TRUE]

UsualEnvironments ==
    {Environment(FALSE, TRUE, TRUE, FALSE, TRUE, TRUE, 4),
     Environment(FALSE, FALSE, TRUE, TRUE, FALSE, TRUE, 16),
     Environment(TRUE, TRUE, TRUE, FALSE, FALSE, TRUE, 1),
     Environment(TRUE, FALSE, FALSE, FALSE, FALSE, TRUE, 4),
     Environment(FALSE, TRUE, FALSE, TRUE, FALSE, FALSE, 1),
     DumbTerminal, ClosedOutput}

(* What malloc() returns has been nothing but zeros, or has not.           *)
Zeroed == {{}}
Reused == {{}, {"--css"}}

UsualUnslashed == "a/" :> "a"

-----------------------------------------------------------------------------
(* What the documents say and the code does not do; no run expects it to   *)
(* hold, and README.md says what breaks it.                                *)

(* "If not provided, LINES defaults to 2": -A, -B and -C are not refused   *)
(* for want of a number.                                                   *)
LinesAreOptional ==
    pc = "parsed" /\ errorDetails # NULL =>
        \/ errorDetails.optionName \notin {"-A", "--after", "-B", "--before", "-C", "--context"}
        \/ errorDetails.err = "overflow" \/ Here.equals

(* "Default is to omit line numbers when searching streams", and else to   *)
(* print them.                                                             *)
NumbersUnlessStream ==
    pc = "search" /\ ~Given("print_line_numbers") /\ ~On("opt_nofilename") =>
        (opts.print_line_numbers # 0 <=> ~opts.search_stream)

(* The search is restricted to files of a type that was passed, if any.    *)
OnlyTypesAsked ==
    pc = "search" => \A i \in DOMAIN Langs : opts.file_search_regex = [type |-> Langs[i]] => i \in Types

=============================================================================
