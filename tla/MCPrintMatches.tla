--------------------------- MODULE MCPrintMatches ---------------------------
(* PrintMatches for files of a few short lines.                            *)
EXTENDS PrintMatches

x == 120

(* A file is given by its lines: for each the length and the matches in    *)
(* it, as pairs of offsets; all but perhaps the last end with a newline.   *)
LineKinds == {<<0, <<>>>>, <<2, <<>>>>, <<2, <<<<0, 1>>>>>>, <<3, <<<<0, 1>>, <<1, 2>>>>>>,
              <<2, <<<<1, 2>>>>>>}
FewKinds == {<<1, <<>>>>, <<2, <<<<0, 2>>>>>>}

Start(lines, k) == FoldLeft(LAMBDA n, l : n + l[1] + 1, 0, SubSeq(lines, 1, k - 1))

Chars(lines) ==
    FlattenSeq([k \in DOMAIN lines |-> [j \in 1 .. lines[k][1] |-> x] \o <<NewLine>>])

MatchesOf(lines) ==
    FlattenSeq([k \in DOMAIN lines |->
        [j \in DOMAIN lines[k][2] |->
            [start |-> Start(lines, k) + lines[k][2][j][1],
             end   |-> Start(lines, k) + lines[k][2][j][2]]]])

File(lines, terminated, o) ==
    LET c == Chars(lines)
        n == IF terminated THEN Len(c) ELSE Len(c) - 1
    IN  [buf |-> [k \in 0 .. n - 1 |-> c[k + 1]], matches |-> MatchesOf(lines), opts |-> o]

Default ==
    [before |-> 0, after |-> 0, print_path |-> "nothing", numbers |-> TRUE, column |-> FALSE,
     only_matching |-> FALSE, width |-> 0, color |-> FALSE, format |-> "default",
     stream |-> "no", break |-> FALSE, first |-> TRUE, binary |-> FALSE,
     print_filename_only |-> FALSE, print_count |-> FALSE, print_all_paths |-> FALSE,
     passthrough |-> FALSE]

HasMatch(lines) == \E k \in DOMAIN lines : lines[k][2] # <<>>

FilesOf(kinds, n) == UNION {[1 .. k -> kinds] : k \in 1 .. n}

Files(kinds, n, ends, options) ==
    {File(lines, t, o) : lines \in {s \in FilesOf(kinds, n) : HasMatch(s)},
                         t \in ends, o \in options}

AllFiles(kinds, n, options) ==
    {File(lines, TRUE, o) : lines \in FilesOf(kinds, n), o \in options}

With(before, after) == [Default EXCEPT !.before = before, !.after = after]

(* Contexts of every size, around matches at every distance.               *)
Contexts == Files(FewKinds, 6, {TRUE}, {With(b, a) : b \in 0 .. 2, a \in 0 .. 2})
(* Highlights, columns and paths.                                          *)
Highlights ==
    Files(LineKinds, 2, {TRUE, FALSE},
          {[Default EXCEPT !.color = c, !.column = n, !.print_path = p, !.numbers = m] :
              c \in BOOLEAN, n \in BOOLEAN, p \in {"nothing", "each_line"}, m \in BOOLEAN})
(* Lines of standard input.                                                *)
Streams ==
    Files(FewKinds, 5, {TRUE, FALSE},
          {[With(b, a) EXCEPT !.stream = "stdin"] : b \in 0 .. 2, a \in 0 .. 2})

Passthrough ==
    {File(lines, t, [Default EXCEPT !.stream = "stdin", !.passthrough = TRUE, !.numbers = n]) :
        lines \in FilesOf(FewKinds, 3), t \in BOOLEAN, n \in BOOLEAN}

(* The break, the heading and the path on each line, for the first file    *)
(* and a later one; only the name, the count or that a file is binary.     *)
Headings ==
    {[Default EXCEPT !.print_path = p, !.break = b, !.first = f, !.after = a] :
        p \in {"default", "top", "default_each_line", "each_line"}, b \in BOOLEAN,
        f \in BOOLEAN, a \in 0 .. 1}
Names ==
    {[Default EXCEPT !.print_path = "default", !.print_filename_only = n, !.print_count = c,
                     !.binary = b, !.print_all_paths = a, !.break = TRUE, !.first = FALSE] :
        n \in BOOLEAN, c \in BOOLEAN, b \in BOOLEAN, a \in BOOLEAN}

Ordinary ==
    Contexts \cup Highlights \cup Streams \cup Passthrough
        \cup AllFiles(FewKinds, 2, Headings \cup {o \in Names : o.print_count => o.print_filename_only})

OnlyMatching == Files(LineKinds, 3, {TRUE}, {[Default EXCEPT !.only_matching = TRUE]})

(* The other formats, for files that end with a newline.                   *)
Formats ==
    Files(LineKinds, 3, {TRUE}, {[Default EXCEPT !.format = f] : f \in {"ackmate", "vimgrep"}})
    \cup Files(LineKinds, 2, {TRUE}, {[Default EXCEPT !.width = w] : w \in 1 .. 2})

All == Ordinary \cup OnlyMatching \cup Formats

(* Where the code deviates from what its documents say.                    *)
Unterminated == Files(FewKinds, 2, {FALSE}, {[Default EXCEPT !.only_matching = TRUE]})
AfterLast    == Files(FewKinds, 2, {TRUE}, {With(0, 1)})
Vimgrep      == Files(FewKinds, 2, {FALSE}, {[Default EXCEPT !.format = "vimgrep"]})
Zips         == Files(FewKinds, 2, {TRUE}, {[With(1, 0) EXCEPT !.stream = "zip"]})
Empty        == {[buf |-> <<>>, matches |-> <<[start |-> 0, end |-> 0]>>, opts |-> Default]}
PassContext  == {File(l, TRUE, [With(b, 1 - b) EXCEPT !.stream = "stdin", !.passthrough = TRUE]) :
                    l \in FilesOf(FewKinds, 3), b \in 0 .. 1}
StreamCounts == Files(FewKinds, 3, {TRUE},
                      {[Default EXCEPT !.stream = "stdin", !.print_filename_only = TRUE,
                                       !.print_count = TRUE]})
VimgrepWidth == Files(FewKinds, 2, {TRUE}, {[Default EXCEPT !.format = "vimgrep", !.width = 1]})
Widths       == Files(LineKinds, 2, {TRUE}, {[Default EXCEPT !.width = 2, !.column = TRUE]})

-----------------------------------------------------------------------------
(* What the documents say and the code does not do; no run expects it to   *)
(* hold, and README.md says what breaks it.                                *)

(* Only lines of the file are printed.                                     *)
NoPhantom == \A k \in DOMAIN Output : ~Phantom(Output[k])

(* --count shows one number, the number of all the matches.                *)
OneCount ==
    pc = "done" /\ opts.print_count =>
        Output = <<Tok(opts.stream # "stdin", "path", 0) \o Tok(TRUE, "count", Len(input.matches))>>
=============================================================================
