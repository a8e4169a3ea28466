------------------------------ MODULE Options -------------------------------
(***************************************************************************)
(* options.c: parse_options() sets the defaults, adapts them to what       *)
(* standard input and output are, lets dropt_parse() store what the        *)
(* command line says, and then works out what that means together, stage   *)
(* by stage; main() draws the last conclusions before the search begins.   *)
(* Every stage can end the program.                                        *)
(*                                                                         *)
(* opts holds the fields of the global record opts and the local variables *)
(* the options are stored in.  Flags are BOOLEAN.                          *)
(***************************************************************************)
EXTENDS Dropt, SequencesExt, FiniteSetsExt

CONSTANTS
    CommandLines, \* the words a user may type behind "ag"
    Langs,        \* the names of the file types, in the order of langs[]
    Environments, \* see EnvironmentsAssumption
    Heaps,        \* what malloc() may leave in opt_langs: sets of names
    Regexes,      \* words with a character that is special in one,
    Broken,       \* those of them that do not compile,
    Capitals,     \* words with a capital letter,
    Unslashed     \* and, of a word that ends in "/", what is before it

VARIABLES
    env,          \* what the program finds
    asked,        \* what the command line asks for (history): see Reads
    status        \* its exit status, if it ends before the search

vars == <<pc, argv, argNext, letter, opts, errorDetails, env, asked, status>>

-----------------------------------------------------------------------------
(***************************************************************************)
(* The table of the options.                                               *)
(***************************************************************************)
Const(names, field, value) ==
    [names |-> names, handler |-> "const", field |-> field, value |-> value]

Flag(names, field) == Const(names, field, TRUE)

Negation(names, field) == Const(names, field, FALSE)

Entry(names, handler, field) ==
    [names |-> names, handler |-> handler, field |-> field, value |-> FALSE]

Bool(names, field) == Entry(names, "bool", field)
Number(names, field) == Entry(names, "int", field)
String(names, field) == Entry(names, "string", field)

base_options == <<
    Bool({"-h", "--help"}, "show_help"),
    Number({"-A", "--after"}, "after"), Number({"-B", "--before"}, "before"),
    Number({"-C", "--context"}, "context"), Number({"--depth"}, "max_search_depth"),
    Number({"--workers"}, "workers"), Number({"-W", "--width"}, "width"),
    Number({"-m", "--max-count"}, "max_matches_per_file"),
    Flag({"-t", "--all-text"}, "search_all_files"), Bool({"-a", "--all-types"}, "opt_all_types"),
    Flag({"--search-binary"}, "search_binary_files"), Flag({"--hidden"}, "search_hidden_files"),
    Bool({"-u", "--unrestricted"}, "opt_unrestricted"),
    Flag({"-U", "--skip-vcs-ignores"}, "skip_vcs_ignores"),
    Flag({"--break"}, "print_break"), Negation({"--no-break", "--nobreak"}, "print_break"),
    Flag({"--color"}, "color"), Negation({"--no-color", "--nocolor"}, "color"),
    Flag({"--group"}, "group"), Negation({"--no-group", "--nogroup"}, "group"),
    Flag({"--mmap"}, "mmap"), Negation({"--no-mmap", "--nommap"}, "mmap"),
    Flag({"--multiline"}, "multiline"), Negation({"--no-multiline", "--nomultiline"}, "multiline"),
    Flag({"-f", "--follow"}, "follow_symlinks"),
    Negation({"--no-follow", "--nofollow"}, "follow_symlinks"),
    Flag({"--affinity"}, "use_thread_affinity"),
    Negation({"--no-affinity", "--noaffinity"}, "use_thread_affinity"),
    Flag({"-r", "-R", "--recurse"}, "recurse_dirs"),
    Negation({"-n", "--no-recurse"}, "recurse_dirs"), Negation({"-n", "--norecurse"}, "recurse_dirs"),
    Const({"--line-numbers", "--numbers"}, "print_line_numbers", 2),
    Const({"--no-numbers", "--nonumbers"}, "print_line_numbers", 0),
    Const({"-H", "--heading"}, "print_path", "TOP"),
    Const({"--no-heading", "--noheading"}, "print_path", "EACH_LINE"),
    Const({"-s", "--case-sensitive"}, "casing", "SENSITIVE"),
    Const({"-S", "--smart-case"}, "casing", "SMART"),
    Const({"-i", "--ignore-case"}, "casing", "INSENSITIVE"),
    Const({"-0", "--null", "--print0"}, "path_sep", "NUL"),
    Flag({"--search-files"}, "search_stream"), Flag({"--parallel"}, "parallel"),
    Flag({"-z", "--search-zip"}, "search_zip_files"),
    Flag({"--print-long-lines"}, "print_long_lines"),
    Flag({"--passthrough", "--passthru"}, "passthrough"), Flag({"--column"}, "column"),
    Flag({"--one-device"}, "one_dev"), Flag({"-o", "--only-matching"}, "only_matching"),
    Flag({"--print-all-files"}, "print_all_paths"), Flag({"--stats"}, "stats"),
    Flag({"-w", "--word-regexp"}, "word_regexp"),
    Flag({"-Q", "-F", "--literal", "--fixed-strings"}, "literal"),
    Flag({"--vimgrep"}, "vimgrep"), Flag({"--ackmate"}, "ackmate"),
    Flag({"-V", "--version"}, "version"), Flag({"--list-file-types"}, "list_file_types"),
    Bool({"-c", "--count"}, "opt_count"), Bool({"--stats-only"}, "opt_stats_only"),
    Bool({"-l", "--files-with-matches"}, "opt_files_with_matches"),
    Bool({"-L", "--files-without-matches"}, "opt_files_without_matches"),
    Bool({"--filename"}, "opt_filename"),
    Bool({"--no-filename", "--nofilename"}, "opt_nofilename"),
    Bool({"-v", "--invert-match"}, "opt_invert_match"),
    Bool({"-D", "--debug"}, "opt_debug"), Bool({"--silent"}, "opt_silent"),
    Bool({"--match"}, "useless"), Bool({"--no-pager", "--nopager"}, "opt_nopager"),
    String({"--pager"}, "pager"), String({"-p", "--path-to-ignore"}, "path_ignore_str"),
    String({"--ignore"}, "ignore_str"), String({"--ignore-dir"}, "ignore_dir_str"),
    String({"-g", "--filename-pattern"}, "file_search_regex_g"),
    String({"-G", "--file-search-regex"}, "file_search_regex_G"),
    String({"--ackmate-dir-filter"}, "ackmate_dir_filter_str"),
    String({"--color-line-number"}, "color_line_number_str"),
    String({"--color-match"}, "color_match_str"), String({"--color-path"}, "color_path_str") >>

(* A file type is an option that stores into its cell of opt_langs.        *)
all_options == base_options \o [i \in DOMAIN Langs |-> Bool({Langs[i]}, Langs[i])]

ASSUME TableOfAg == Entries = all_options

ASSUME CommandLinesAssumption == CommandLines \subseteq Seq(DOMAIN Reading)

(* Standard input and output (a terminal, a "dumb" one, or nothing fstat() *)
(* knows of), what is set for ignore files, whether a program can be run,  *)
(* and the number of cores.                                                *)
ASSUME EnvironmentsAssumption ==
    Environments \subseteq
        [stdin_pipe : BOOLEAN, tty : BOOLEAN, dumb : BOOLEAN, closed : BOOLEAN, home : BOOLEAN,
         xdg : BOOLEAN, excludes : BOOLEAN, forks : BOOLEAN, cores : Nat \ {0}]

(* The query where none is accepted is one, too.                           *)
ASSUME DotAssumption == "." # NULL

(* What f says and, where it says nothing, what g says.                    *)
Over(f, g) == [x \in DOMAIN f \cup DOMAIN g |-> IF x \in DOMAIN f THEN f[x] ELSE g[x]]

-----------------------------------------------------------------------------
(***************************************************************************)
(* What a command line asks for, read as a whole.                          *)
(***************************************************************************)
Wants(word) ==
    LET r == Reading[word]
    IN  r.option /\ r.names # <<>> /\ ~r.equals /\ \E k \in Find(Last(r.names)) : TakesArg(k)

(* The words in V are those that are arguments of the word before them.    *)
AreTaken(V) ==
    \A i \in DOMAIN argv : i \in V <=> i > 1 /\ i - 1 \notin V /\ Wants(argv[i - 1])

FirstPlain(V) == Min({Len(argv) + 1} \cup {i \in DOMAIN argv \ V : ~Reading[argv[i]].option})

LeftOver(V) ==
    LET tail == SubSeq(argv, FirstPlain(V), Len(argv))
    IN  IF tail # <<>> /\ tail[1] = "--" THEN Tail(tail) ELSE tail

(* The uses of options: name j of word i, with its argument.               *)
ArgumentAt(i, j, V) ==
    LET r == Reading[argv[i]]
    IN  CASE j = Len(r.names) /\ r.equals -> r.arg
          [] j = Len(r.names) /\ i + 1 \in V -> argv[i + 1]
          [] OTHER -> NULL

UsesOf(i, V) ==
    {[at |-> <<i, j>>, entries |-> Find(Reading[argv[i]].names[j]), arg |-> ArgumentAt(i, j, V)] :
        j \in DOMAIN Reading[argv[i]].names}

Uses(V) == UNION {UsesOf(i, V) : i \in (1 .. FirstPlain(V) - 1) \ V}

WellFormed(V, uses) ==
    /\ \A i \in (1 .. FirstPlain(V) - 1) \ V : Reading[argv[i]].names # <<>>
    /\ \A u \in uses : \E k \in u.entries : Handle(k, u.arg) = "none"

Before(u, v) == u.at[1] < v.at[1] \/ (u.at[1] = v.at[1] /\ u.at[2] < v.at[2])

SetBy(u) == {all_options[k].field : k \in u.entries}

LastUse(f, uses) ==
    CHOOSE u \in uses : f \in SetBy(u) /\ \A v \in uses : Before(u, v) => f \notin SetBy(v)

ValueOf(u) == Stored(CHOOSE k \in u.entries : TRUE, u.arg)

(* field |-> what the last use of an option for it says.                   *)
Settings(uses) == [f \in UNION {SetBy(u) : u \in uses} |-> ValueOf(LastUse(f, uses))]

(* -A, -B or -C without a number, for which the manual knows a default.    *)
LinesLeftOut(uses) ==
    \E u \in uses : SetBy(u) \cap {"after", "before", "context"} # {} /\ u.arg \notin DOMAIN Numerals

Reads(V, uses) ==
    IF WellFormed(V, uses)
    THEN [wellFormed |-> TRUE, linesLeftOut |-> FALSE, settings |-> Settings(uses),
          words |-> LeftOver(V)]
    ELSE [wellFormed |-> FALSE, linesLeftOut |-> LinesLeftOut(uses), settings |-> <<>>,
          words |-> <<>>]

Given(field) == field \in DOMAIN asked.settings

(* What is asked for a field, or else the default.                         *)
Get(field, default) == IF Given(field) THEN asked.settings[field] ELSE default

On(field) == Get(field, FALSE)

-----------------------------------------------------------------------------
(***************************************************************************)
(* The defaults, and what the program finds when it starts.                *)
(***************************************************************************)
Fields(handlers) ==
    {all_options[k].field : k \in {j \in DOMAIN all_options : all_options[j].handler \in handlers}}

(* What init_options() and the declarations of parse_options() set: these  *)
(* fields, and every other one to nothing.                                 *)
Initialised ==
    Over([print_path |-> "DEFAULT", print_line_numbers |-> 1, casing |-> "DEFAULT",
          path_sep |-> "newline", max_search_depth |-> 25, root_ignores |-> <<>>,
          paths |-> <<>>, log_level |-> "WARN", workers_len |-> 0],
         [f \in {"color", "group", "print_break", "mmap", "multiline", "recurse_dirs",
                 "use_thread_affinity"} |-> TRUE])

Nothing(f) ==
    CASE f \in Fields({"string"}) \cup {"query", "re", "file_search_regex", "ackmate_dir_filter"} -> NULL
      [] f \in Fields({"int"}) -> 0
      [] OTHER -> FALSE

(* The fields no option stores into.                                       *)
Derived ==
    {"query", "re", "file_search_regex", "ackmate_dir_filter", "print_filename_only", "print_count",
     "print_nonmatching_files", "match_files", "invert_match", "path_to_ignore"}

init_options == Over(Initialised, [f \in Fields(Handlers) \cup Derived |-> Nothing(f)])

(* The cells of the file types are no other fields.                        *)
ASSUME LangsAssumption ==
    /\ Langs \in Seq(STRING)
    /\ \A lang \in ToSet(Langs) :
        /\ lang \notin DOMAIN Initialised \cup Derived
        /\ \A k \in DOMAIN base_options : base_options[k].field # lang

ColorByDefault == env.tty /\ ~env.dumb

(* Input from a pipe or a file is searched; output to anything but a       *)
(* terminal has no colour and no groups - unless an option says otherwise. *)
Defaults ==
    [init_options EXCEPT !.search_stream = env.stdin_pipe, !.color = ColorByDefault,
                         !.group = env.tty]

(* opt_langs is not initialised: a type is off only where the memory says  *)
(* so.                                                                     *)
Init ==
    /\ pc = "start" /\ argv \in CommandLines /\ argNext = 1 /\ letter = 1
    /\ errorDetails = NULL /\ status = NULL
    /\ env \in Environments
    /\ \E V \in SUBSET DOMAIN argv :
        AreTaken(V) /\ \E uses \in {Uses(V)} : asked = Reads(V, uses)
    /\ \E heap \in Heaps : opts = Over([l \in ToSet(Langs) |-> l \in heap], Defaults)

Exit(code) ==
    /\ pc' = "exit" /\ status' = code
    /\ UNCHANGED <<argv, argNext, letter, opts, errorDetails, env, asked>>

Goto(next, o) ==
    /\ pc' = next /\ opts' = o
    /\ UNCHANGED <<argv, argNext, letter, errorDetails, env, asked, status>>

Rest == SubSeq(argv, argNext, Len(argv))

Usage == pc = "start" /\ argv = <<>> /\ Exit(1)

(* "Error fstat()ing stdout".                                              *)
HasOutput == env.tty \/ ~env.closed

NoOutput == pc = "start" /\ argv # <<>> /\ ~HasOutput /\ Exit(2)

Begin == pc = "start" /\ argv # <<>> /\ HasOutput /\ Goto("parse", opts)

Parse == dropt_parse /\ UNCHANGED <<env, asked, status>>

-----------------------------------------------------------------------------
(***************************************************************************)
(* What the options mean one by one.                                       *)
(***************************************************************************)
ParseError == pc = "parsed" /\ errorDetails # NULL /\ Exit(1)

Parsed == pc = "parsed" /\ errorDetails = NULL

ShowHelp == Parsed /\ opts.show_help /\ Exit(0)

BadDirFilter == Parsed /\ ~opts.show_help /\ opts.ackmate_dir_filter_str \in Broken /\ Exit(2)

PrintPath(o) ==
    IF o.opt_files_with_matches \/ o.opt_files_without_matches THEN "TOP"
    ELSE IF o.opt_nofilename \/ o.opt_stats_only THEN "NOTHING"
    ELSE IF o.opt_filename THEN "DEFAULT" ELSE o.print_path

LineNumbers(o) ==
    IF o.opt_nofilename THEN 0 ELSE IF o.opt_filename THEN 1 ELSE o.print_line_numbers

(* Where the patterns of root_ignores are from: an option, a file of ag or *)
(* one of git.                                                             *)
Ignores(from, name) == <<[from |-> from, name |-> name]>>

GivenIgnore(arg) == IF arg = NULL THEN <<>> ELSE Ignores("option", arg)

HandleOptions(o) ==
    [o EXCEPT
        !.search_all_files = @ \/ o.opt_all_types \/ o.opt_unrestricted,
        !.search_binary_files = @ \/ o.opt_all_types \/ o.opt_unrestricted,
        !.search_hidden_files = @ \/ o.opt_unrestricted,
        !.print_count = o.opt_count,
        !.print_filename_only = o.opt_count \/ o.opt_stats_only \/ o.opt_files_with_matches,
        !.print_nonmatching_files = o.opt_files_without_matches,
        !.log_level = IF o.opt_silent THEN "NONE" ELSE IF o.opt_debug THEN "DEBUG" ELSE @,
        !.ackmate_dir_filter = o.ackmate_dir_filter_str,
        !.root_ignores =
            GivenIgnore(o.ignore_dir_str) \o GivenIgnore(o.ignore_str) \o GivenIgnore(o.path_ignore_str),
        !.path_to_ignore = o.path_ignore_str # NULL,
        !.print_path = PrintPath(o),
        !.print_line_numbers = LineNumbers(o),
        !.pager = IF o.opt_nopager THEN NULL ELSE @,
        !.stats = @ \/ o.opt_stats_only,
        !.invert_match = o.opt_invert_match,
        !.color = @ /\ ~o.opt_invert_match,
        !.match_files = o.file_search_regex_g # NULL]

Handled ==
    /\ Parsed /\ ~opts.show_help /\ opts.ackmate_dir_filter_str \notin Broken
    /\ Goto("handled", HandleOptions(opts))

(* The options decide whether there must be a query, and may be one.       *)
accepts_query == opts.file_search_regex_g = NULL

needs_query == accepts_query /\ ~opts.opt_files_with_matches

-----------------------------------------------------------------------------
(***************************************************************************)
(* The files that are searched.                                            *)
(***************************************************************************)
Version == pc = "handled" /\ opts.version /\ Exit(0)

(* -g takes the place of -G.                                               *)
FileRegex == IF accepts_query THEN opts.file_search_regex_G ELSE opts.file_search_regex_g

BadFileRegex == pc = "handled" /\ ~opts.version /\ FileRegex \in Broken /\ Exit(2)

Casing(o) == IF o.casing = "DEFAULT" THEN "SMART" ELSE o.casing

IgnoresCase(casing, word) ==
    casing = "INSENSITIVE" \/ (casing = "SMART" /\ word \notin Capitals)

(* The loop over opt_langs stops at the first that is set, and its regular *)
(* expression takes the place of the one given.                            *)
LangsSet == {i \in DOMAIN Langs : opts[Langs[i]]}

FileFilter ==
    CASE LangsSet # {} -> [type |-> Langs[Min(LangsSet)]]
      [] LangsSet = {} /\ FileRegex # NULL ->
            [pattern |-> FileRegex, word |-> opts.word_regexp,
             icase |-> IgnoresCase(Casing(opts), FileRegex)]
      [] OTHER -> NULL

Filtered ==
    /\ pc = "handled" /\ ~opts.version /\ FileRegex \notin Broken
    /\ Goto("filtered", [opts EXCEPT !.casing = Casing(opts), !.file_search_regex = FileFilter])

NoPager == pc = "filtered" /\ opts.pager # NULL /\ ~env.forks /\ Exit(1)

Paged == pc = "filtered" /\ (opts.pager = NULL \/ env.forks)

ListFileTypes == Paged /\ opts.list_file_types /\ Exit(0)

WhatFor == Paged /\ ~opts.list_file_types /\ needs_query /\ Rest = <<>> /\ Exit(1)

(* The global ignore file of git is asked for by running git.              *)
GitIgnores ==
    CASE env.excludes -> Ignores("git", "core.excludesfile")
      [] ~env.excludes /\ env.xdg -> Ignores("git", "$XDG_CONFIG_HOME/git/ignore")
      [] ~env.excludes /\ ~env.xdg /\ env.home -> Ignores("git", "$HOME/.config/git/ignore")
      [] OTHER -> Ignores("git", "")

LoadIgnores ==
    /\ Paged /\ ~opts.list_file_types /\ ~(needs_query /\ Rest = <<>>)
    /\ Goto("ignores", [opts EXCEPT !.root_ignores =
            @ \o (IF env.home /\ ~opts.search_all_files THEN Ignores("ag", "$HOME/.agignore")
                  ELSE <<>>)
              \o (IF ~opts.skip_vcs_ignores /\ env.forks THEN GitIgnores ELSE <<>>)])

-----------------------------------------------------------------------------
(***************************************************************************)
(* The form of the output, the query and the paths.                        *)
(***************************************************************************)
(* dropt stores an int into the lower half of a size_t.                    *)
SizeOf(n) == n % 2 ^ IntBits

Sized(o) ==
    [o EXCEPT !.after = SizeOf(IF o.context # 0 THEN o.context ELSE @),
              !.before = SizeOf(IF o.context # 0 THEN o.context ELSE @),
              !.context = SizeOf(@), !.width = SizeOf(@), !.max_matches_per_file = SizeOf(@)]

Ackmate(o) ==
    IF o.ackmate
    THEN [o EXCEPT !.color = FALSE, !.print_break = TRUE, !.group = TRUE, !.search_stream = FALSE]
    ELSE o

Vimgrep(o) ==
    IF o.vimgrep
    THEN [o EXCEPT !.color = FALSE, !.print_break = FALSE, !.group = TRUE,
                   !.search_stream = FALSE, !.print_path = "NOTHING"]
    ELSE o

Parallel(o) == IF o.parallel THEN [o EXCEPT !.search_stream = FALSE] ELSE o

Grouped(o) ==
    IF o.print_path = "DEFAULT" /\ o.print_break /\ ~o.group
    THEN [o EXCEPT !.print_path = "DEFAULT_EACH_LINE", !.print_break = FALSE]
    ELSE o

(* Mutant: --numbers does not hold for a stream.                           *)
Streamed_NoNumbers(o) ==
    IF o.search_stream
    THEN [o EXCEPT !.print_break = FALSE, !.print_path = "NOTHING", !.print_line_numbers = 0]
    ELSE o

(* Whether paths follow is not known yet.                                  *)
Streamed(o) ==
    IF o.search_stream
    THEN [o EXCEPT !.print_break = FALSE, !.print_path = "NOTHING",
                   !.print_line_numbers = IF @ = 2 THEN 2 ELSE 0]
    ELSE o

Output ==
    /\ pc = "ignores"
    /\ Goto("output", Streamed(Grouped(Parallel(Vimgrep(Ackmate(Sized(opts)))))))

(* The first word left over is the query, if one is accepted; with -l and  *)
(* -g there need not be one.                                               *)
Query ==
    CASE accepts_query /\ Rest # <<>> /\ (needs_query \/ Rest[1] # "") -> Rest[1]
      [] ~needs_query /\ (~accepts_query \/ Rest = <<>> \/ Rest[1] = "") -> "."
      [] OTHER -> NULL

NamedPaths == IF accepts_query /\ Rest # <<>> THEN Tail(Rest) ELSE Rest

NoTrailingSlash(word) == IF word \in DOMAIN Unslashed THEN Unslashed[word] ELSE word

NoQuery == pc = "output" /\ Query = "" /\ Exit(1)

(* Mutant: standard input is searched although there are paths.            *)
SetTarget_KeepsStream ==
    /\ pc = "output" /\ Query # ""
    /\ Goto("main", [opts EXCEPT
            !.query = Query, !.literal = @ \/ Query \notin Regexes,
            !.paths = IF NamedPaths = <<>> THEN <<".">>
                      ELSE [i \in DOMAIN NamedPaths |-> NoTrailingSlash(NamedPaths[i])]])

SetTarget ==
    /\ pc = "output" /\ Query # ""
    /\ Goto("main", [opts EXCEPT
            !.query = Query, !.literal = @ \/ Query \notin Regexes,
            !.paths = IF NamedPaths = <<>> THEN <<".">>
                      ELSE [i \in DOMAIN NamedPaths |-> NoTrailingSlash(NamedPaths[i])],
            !.search_stream = @ /\ NamedPaths = <<>>])

-----------------------------------------------------------------------------
(***************************************************************************)
(* main(): the case, the regular expression and the workers.               *)
(***************************************************************************)
BadRegex == pc = "main" /\ ~opts.literal /\ opts.query \in Broken /\ Exit(2)

(* Mutant: the main thread counts as a worker on a single core, too.       *)
Workers_NoFloor(o) ==
    IF o.workers # 0 THEN o.workers ELSE Min({env.cores, 8}) - (IF o.literal THEN 1 ELSE 0)

Workers(o) ==
    LET usual == Min({env.cores, 8}) - (IF o.literal THEN 1 ELSE 0)
    IN  Max({1, IF o.workers # 0 THEN o.workers ELSE usual})

FinalCasing(o) ==
    CASE o.casing = "SMART" /\ o.query \notin Capitals -> "INSENSITIVE"
      [] o.casing = "SMART" /\ o.query \in Capitals -> "SENSITIVE"
      [] OTHER -> o.casing

Regex(o) ==
    IF o.literal THEN NULL
    ELSE [pattern |-> o.query, word |-> o.word_regexp, newline |-> o.multiline,
          icase |-> FinalCasing(o) = "INSENSITIVE"]

Search ==
    /\ pc = "main" /\ (opts.literal \/ opts.query \notin Broken)
    /\ Goto("search", [opts EXCEPT !.casing = FinalCasing(opts), !.re = Regex(opts),
                                   !.workers_len = Workers(opts)])

Next ==
    \/ Usage \/ NoOutput \/ Begin \/ Parse
    \/ ParseError \/ ShowHelp \/ BadDirFilter \/ Handled
    \/ Version \/ BadFileRegex \/ Filtered
    \/ NoPager \/ ListFileTypes \/ WhatFor \/ LoadIgnores
    \/ Output \/ NoQuery \/ SetTarget
    \/ BadRegex \/ Search

Spec == Init /\ [][Next]_vars /\ WF_vars(Next)

-----------------------------------------------------------------------------
(***************************************************************************)
(* Properties.                                                             *)
(***************************************************************************)
(* Every variable has the values the stage allows, and a search has a      *)
(* query, a path and a worker.                                             *)
TypeOK ==
    /\ pc \in {"start", "parse", "parsed", "handled", "filtered", "ignores", "output", "main",
               "search", "exit"}
    /\ argNext \in 1 .. Len(argv) + 1
    /\ letter = 1 \/ (argNext <= Len(argv) /\ letter \in DOMAIN Here.names)
    /\ status \in IF pc = "exit" THEN {0, 1, 2} ELSE {NULL}
    /\ opts.print_line_numbers \in 0 .. 2
    /\ pc = "search" => opts.query \notin {NULL, ""} /\ opts.paths # <<>> /\ opts.workers_len > 0

(* dropt_parse() accepts a command line exactly if no option in it is      *)
(* wrong, leaves the words behind the options, and every field has what    *)
(* the last option for it says, or its default.                            *)
LastSettingWins ==
    pc = "parsed" =>
        /\ errorDetails = NULL <=> asked.wellFormed
        /\ errorDetails = NULL => Rest = asked.words /\ opts = Over(asked.settings, Defaults)

(* What the words left over are.                                           *)
Paths ==
    IF Given("file_search_regex_g") \/ asked.words = <<>> THEN asked.words ELSE Tail(asked.words)

(* Standard input is searched if it has something and nothing else is      *)
(* asked for.                                                              *)
AsksForStream ==
    /\ Get("search_stream", env.stdin_pipe)
    /\ ~On("ackmate") /\ ~On("vimgrep") /\ ~On("parallel")

Form ==
    IF On("vimgrep") THEN "NOTHING"
    ELSE IF On("opt_files_with_matches") \/ On("opt_files_without_matches") THEN "TOP"
    ELSE IF On("opt_nofilename") \/ On("opt_stats_only") THEN "NOTHING"
    ELSE IF Given("print_path") /\ ~On("opt_filename") THEN asked.settings.print_path
    ELSE IF On("ackmate") \/ Get("group", env.tty) THEN "DEFAULT" ELSE "DEFAULT_EACH_LINE"

(* Three kinds of command lines for which the code's answer is not the     *)
(* manual's, or is settled by the order of its tests and not by the last   *)
(* word.  The output has the form of a stream if standard input is a pipe, *)
(* also when paths are named.                                              *)
PathsAndPipe == AsksForStream /\ Paths # <<>>

(* Several options speak of names and blank lines: --[no]group of both.    *)
OnlyNames == On("opt_files_with_matches") \/ On("opt_files_without_matches")

FormInDoubt ==
    /\ ~AsksForStream /\ ~On("vimgrep")
    /\ \/ On("opt_nofilename") /\ (On("opt_filename") \/ Given("print_path") \/ OnlyNames)
       \/ On("opt_filename") /\ Given("print_path")
       \/ On("opt_stats_only") /\ OnlyNames
       \/ Given("group") /\ (Given("print_break") \/ Form \notin {"DEFAULT", "DEFAULT_EACH_LINE"})
       \/ Given("print_break") /\ Form = "DEFAULT_EACH_LINE"

(* --[no]filename overrules what is said of line numbers.                  *)
NumbersWanted == Get("print_line_numbers", IF AsksForStream THEN 0 ELSE 1) # 0

NumbersInDoubt ==
    (On("opt_nofilename") /\ NumbersWanted) \/ (On("opt_filename") /\ Given("print_line_numbers"))

(* Colours, line numbers, headings and blank lines of the output follow    *)
(* the last word of the options on each, the terminal where they are       *)
(* silent, and the modes that fix them.                                    *)
FormatAsDocumented ==
    pc = "search" =>
    LET stream == AsksForStream
        fixed == On("ackmate") \/ On("vimgrep")
    IN  PathsAndPipe \/
        /\ opts.color <=> Get("color", ColorByDefault) /\ ~On("opt_invert_match") /\ ~fixed
        /\ NumbersInDoubt \/ (opts.print_line_numbers # 0 <=> NumbersWanted)
        /\ FormInDoubt \/
            /\ opts.print_path = IF stream THEN "NOTHING" ELSE Form
            /\ opts.print_break <=>
                    /\ ~stream /\ ~On("vimgrep")
                    /\ On("ackmate") \/ (Get("print_break", TRUE) /\ Form # "DEFAULT_EACH_LINE")

(* The search is for the first word left over in the files below the       *)
(* others, or in standard input only if there are none; of the file type   *)
(* or with the names asked for.  With -g there is no query, with -l there  *)
(* need not be one.  The program ends without a search, and with success,  *)
(* only if it was asked for information.  What -A, -B or -C without a      *)
(* number stands for is left open.                                         *)
Types == {i \in DOMAIN Langs : On(Langs[i])}

Pattern == Get("file_search_regex_g", Get("file_search_regex_G", NULL))

QueryAsked ==
    IF \/ Given("file_search_regex_g")
       \/ On("opt_files_with_matches") /\ Head(asked.words \o <<"">>) = ""
    THEN "." ELSE Head(asked.words)

FilesAsked ==
    /\ Types = {} =>
        IF Pattern = NULL THEN opts.file_search_regex = NULL
        ELSE opts.file_search_regex.pattern = Pattern
    /\ Cardinality(Types) = 1 /\ Pattern = NULL =>
        opts.file_search_regex = [type |-> Langs[Min(Types)]]
    /\ On("search_all_files") \/ On("opt_all_types") \/ On("opt_unrestricted") =>
        \A k \in DOMAIN opts.root_ignores : opts.root_ignores[k].from # "ag"

AsksForInformation ==
    /\ HasOutput
    /\ \/ On("show_help")
       \/ /\ Get("ackmate_dir_filter_str", NULL) \notin Broken
          /\ \/ On("version")
             \/ /\ On("list_file_types") /\ Pattern \notin Broken
                /\ env.forks \/ ~Given("pager") \/ On("opt_nopager")

TargetAsDocumented == asked.linesLeftOut \/
    /\ pc = "search" =>
        /\ asked.wellFormed /\ ~AsksForInformation
        /\ opts.query = QueryAsked
        /\ Len(opts.paths) = Max({1, Len(Paths)})
        /\ opts.search_stream <=> AsksForStream /\ Paths = <<>>
        /\ opts.casing = IF Get("casing", "SMART") # "SMART" THEN asked.settings.casing
                         ELSE IF opts.query \in Capitals THEN "SENSITIVE" ELSE "INSENSITIVE"
        /\ FilesAsked
    /\ pc = "exit" => (status = 0 <=> argv # <<>> /\ asked.wellFormed /\ AsksForInformation)

(* main() starts the search that the whole command line asks for, with the *)
(* output it asks for.                                                     *)
SearchAsDocumented == FormatAsDocumented /\ TargetAsDocumented

=============================================================================
