---------------------------- MODULE PrintMatches ----------------------------
(***************************************************************************)
(* print.c: the lines of a buffer that have matches, and their context.    *)
(* print_file_matches() is called once for a file, or once for each line   *)
(* of a stream, and keeps a context between the calls.                     *)
(*                                                                         *)
(* What is printed is a sequence of lines of tokens: a path, a line number *)
(* with ":" or "-", a column, the color on and off, and characters, each   *)
(* given by its offset in the file.  SearchLine is the end of search_buf(),*)
(* which chooses what is printed.  The loop over the bytes is Iterate,     *)
(* the composition of the parts of its body, each a function of the state  *)
(* of the call.                                                            *)
(***************************************************************************)
EXTENDS Integers, Sequences, FiniteSets, SequencesExt, FiniteSetsExt

CONSTANT Inputs           \* the files, their matches and the options

VARIABLES
    input,                \* the member of Inputs
    pc,
    base, len,            \* the buffer of the call: its place in the file, its length
    st                    \* ctx, the variables of the loop and the output

vars == <<input, pc, base, len, st>>

opts == input.opts
buf  == input.buf         \* a function on 0 .. size - 1
size == Cardinality(DOMAIN buf)

NewLine == 10

(* The matches in the buffer of the call, as offsets in it.                *)
matches ==
    LET here == SelectSeq(input.matches, LAMBDA m :
                    base <= m.start /\ (m.start < base + len \/ base + len = size))
    IN  [k \in DOMAIN here |-> [start |-> here[k].start - base,
                                end   |-> here[k].end - base]]
matches_len == Len(matches)

IsEnd(i) == i = len \/ buf[base + i] = NewLine

(* ctx->lines_since_last_match begins as INT_MAX and is only compared with *)
(* before + after + 1 and less.                                            *)
Far == opts.before + opts.after + 2

(* No line of context is saved.                                            *)
NoLine == <<-1, -1>>

print_init_context ==
    [context_prev_lines |-> [k \in 0 .. opts.before |-> NoLine],
     line |-> 1, last_prev_line |-> 0, prev_line_offset |-> 0,
     lines_since_last_match |-> Far, last_printed_match |-> 0,
     in_a_match |-> FALSE, printing_a_match |-> FALSE,
     i |-> 0, cur_match |-> 0, cut |-> FALSE, printed_match |-> FALSE,
     line_preceding_current_match_offset |-> 0,
     print_path |-> opts.print_path, first_file_match |-> opts.first,
     open |-> <<>>, out |-> <<>>, inside |-> TRUE]

Init ==
    /\ input \in Inputs
    /\ pc = IF opts.stream = "no" THEN "search" ELSE "getline"
    /\ base = 0
    /\ len = IF opts.stream = "no" THEN size ELSE 0
    /\ st = print_init_context

-----------------------------------------------------------------------------
(***************************************************************************)
(* Output.  inside tells that nothing outside the buffer has been read.    *)
(***************************************************************************)
Put(s, t, n) == [s EXCEPT !.open = Append(@, [t |-> t, n |-> n])]
EndLine(s)   == [s EXCEPT !.out = Append(@, s.open), !.open = <<>>]
If(s, b, t, n) == IF b THEN Put(s, t, n) ELSE s

PutChar(s, k) ==
    IF k \notin DOMAIN buf THEN [s EXCEPT !.inside = FALSE]
    ELSE IF buf[k] = NewLine THEN EndLine(s) ELSE Put(s, "char", k)

(* A length is a size_t: from behind to it is no length of the buffer.     *)
PutText(s, from, to) ==
    IF to < from THEN [s EXCEPT !.inside = FALSE]
    ELSE FoldLeft(PutChar, s, [k \in 1 .. to - from |-> from + k - 1])

PathPrinted(s) == s.print_path # "nothing" \/ opts.format = "vimgrep"

print_path(s) == If(s, PathPrinted(s), "path", 0)

LinePath(s) == IF s.print_path = "each_line" THEN print_path(s) ELSE s

(* A path that stands on a line of its own; standard input has none.       *)
PathLine(s) == IF PathPrinted(s) THEN EndLine(print_path(s)) ELSE s

print_path_count(s) ==
    EndLine(Put(IF opts.stream = "stdin" THEN s ELSE print_path(s), "count", matches_len))

print_file_separator(s) ==
    [(IF opts.break /\ ~s.first_file_match THEN EndLine(s) ELSE s)
        EXCEPT !.first_file_match = FALSE]

print_binary_file_matches(s) == EndLine(Put(print_file_separator(s), "binary", 0))

(* The separator of what is only context.                                  *)
Sep == IF opts.format \in {"ackmate", "vimgrep"} THEN ":" ELSE "-"

print_line_number(s, n, sep) == If(s, opts.numbers, sep, n)

(* The column of a match, 0 if it begins on an earlier line.               *)
print_column_number(s, k) ==
    IF k >= matches_len THEN [s EXCEPT !.inside = FALSE]
    ELSE Put(s, "column", Max({0, matches[k + 1].start - s.prev_line_offset + 1}))

print_line(s, i) ==
    LET chars == i - s.prev_line_offset + 1
    IN  PutText(s, base + s.prev_line_offset,
                base + s.prev_line_offset +
                    (IF opts.width > 0 THEN Min({opts.width, chars}) ELSE chars))

(* One more line in the ring of the lines before.                          *)
print_context_append(s, from, to) ==
    IF opts.before = 0 THEN s
    ELSE IF to < from THEN [s EXCEPT !.inside = FALSE]
    ELSE [s EXCEPT !.context_prev_lines[s.last_prev_line] = <<from, to>>,
                   !.last_prev_line = (@ + 1) % opts.before]

(* Mutant: the lines since the last match are counted without end.         *)
print_trailing_context_CountsAll(s, from, to) ==
    LET due == s.lines_since_last_match \in 1 .. opts.after
        printed == EndLine(PutText(print_line_number(LinePath(s), s.line, Sep), from, to))
    IN  [(IF due THEN printed ELSE s) EXCEPT
            !.line = @ + 1,
            !.lines_since_last_match = IF s.in_a_match THEN @ ELSE @ + 1]

print_trailing_context(s, from, to) ==
    LET due == s.lines_since_last_match \in 1 .. opts.after
        printed == EndLine(PutText(print_line_number(LinePath(s), s.line, Sep), from, to))
    IN  [(IF due THEN printed ELSE s) EXCEPT
            !.line = @ + 1,
            !.lines_since_last_match = IF s.in_a_match THEN @ ELSE Min({@ + 1, Far})]

-----------------------------------------------------------------------------
(***************************************************************************)
(* The body of the loop of print_file_matches(), part by part.             *)
(***************************************************************************)
More(s)   == s.cur_match < matches_len
blanks_between_matches == opts.after > 0 \/ opts.before > 0

(* The lines before a match that have not been printed as lines after one. *)
PreviousLines(s) ==
    LET n == Min({opts.before, Max({0, s.lines_since_last_match - (opts.after + 1)})})
        print(t, j) ==
            LET saved == t.context_prev_lines[(t.last_prev_line + j) % opts.before]
            IN  IF saved = NoLine THEN t
                ELSE EndLine(PutText(
                        print_line_number(LinePath(t), t.line - (opts.before - j), Sep),
                        saved[1], saved[2]))
    IN  IF s.lines_since_last_match = 0 \/ opts.before = 0 THEN s
        ELSE FoldLeft(print, s, [k \in 1 .. n |-> opts.before - n + k - 1])

(* Mutant: as if the lines after a match did not count.                    *)
Separator_Early(s) ==
    IF /\ s.cur_match > 0 /\ blanks_between_matches
       /\ s.lines_since_last_match > opts.before + 1
    THEN EndLine(Put(s, "--", 0)) ELSE s

Separator(s) ==
    IF /\ s.cur_match > 0 /\ blanks_between_matches
       /\ s.lines_since_last_match > opts.before + opts.after + 1
    THEN EndLine(Put(s, "--", 0)) ELSE s

StartOfMatch(s) ==
    IF More(s) /\ s.i = matches[s.cur_match + 1].start
    THEN [PreviousLines(Separator(s)) EXCEPT !.in_a_match = TRUE,
                                             !.lines_since_last_match = 0]
    ELSE s

EndOfMatch(s) ==
    IF More(s) /\ s.i = matches[s.cur_match + 1].end
    THEN [s EXCEPT !.cur_match = @ + 1, !.in_a_match = FALSE]
    ELSE s

(* The part of the loop over the characters of a line that closes the      *)
(* highlight of a match,                                                   *)
CloseMatch(s, j) ==
    IF s.last_printed_match < matches_len /\ j = matches[s.last_printed_match + 1].end
    THEN LET t == [If(s, opts.color, "off", 0) EXCEPT
                      !.printing_a_match = FALSE, !.last_printed_match = @ + 1,
                      !.printed_match = TRUE]
         IN  IF opts.only_matching THEN EndLine(t) ELSE t
    ELSE s

TooWide(s, j) == opts.width > 0 /\ j - s.prev_line_offset >= opts.width

(* that cuts off what is wider than --width,                               *)
Truncate(s, j, i) ==
    IF j < len /\ TooWide(s, j)
    THEN [EndLine(If(s, j < i, "[...]", 0)) EXCEPT
             !.cut = TRUE, !.last_printed_match = matches_len]
    ELSE s

(* that opens the highlight of a match,                                    *)
OpenMatch(s, j) ==
    IF s.last_printed_match < matches_len /\ j = matches[s.last_printed_match + 1].start
    THEN LET n == print_line_number(LinePath(s), s.line, ":")
             c == IF opts.column THEN print_column_number(n, s.last_printed_match) ELSE n
             t == IF opts.only_matching /\ s.printed_match THEN c ELSE s
         IN  [If(t, opts.color, "on", 0) EXCEPT !.printing_a_match = TRUE]
    ELSE s

(* Mutant: what is behind the buffer is printed, too.                      *)
PrintChar_BehindEnd(s, j) ==
    IF (~opts.only_matching \/ s.printing_a_match) /\ ~TooWide(s, j)
    THEN PutChar(s, base + j) ELSE s

(* and that prints the character.                                          *)
PrintChar(s, j) ==
    IF j < len /\ (~opts.only_matching \/ s.printing_a_match) /\ ~TooWide(s, j)
    THEN PutChar(s, base + j) ELSE s

DefaultLine(s) ==
    LET i    == s.i
        n    == print_line_number(s, s.line, ":")
        c    == IF opts.column THEN print_column_number(n, s.last_printed_match) ELSE n
        on   == If(c, s.printing_a_match /\ opts.color, "on", 0)
        step(t, j) == IF t.cut THEN t
                      ELSE PrintChar(OpenMatch(Truncate(CloseMatch(t, j), j, i), j), j)
        all  == FoldLeft(step, [on EXCEPT !.cut = FALSE, !.printed_match = FALSE],
                         [k \in 1 .. i - s.prev_line_offset + 1 |->
                             s.prev_line_offset + k - 1])
    IN  If(all, all.printing_a_match /\ opts.color, "off", 0)

(* --vimgrep: the line once for each match that has ended by its end.      *)
VimgrepLine(s) ==
    LET print(t, k) ==
            print_line(print_column_number(
                print_line_number(print_path(t), s.line, ":"), k), s.i)
    IN  [FoldLeft(print, s, [k \in 1 .. s.cur_match - s.last_printed_match |->
                                s.last_printed_match + k - 1])
            EXCEPT !.last_printed_match = Max({@, s.cur_match})]

(* --ackmate: the offsets and lengths of those matches, then the line.     *)
AckmateLine(s) ==
    LET print(t, k) ==
            Put(Put(t, "start", matches[k + 1].start - s.line_preceding_current_match_offset),
                "length", matches[k + 1].end - matches[k + 1].start)
        all == FoldLeft(print, print_line_number(s, s.line, ";"),
                        [k \in 1 .. s.cur_match - s.last_printed_match |->
                            s.last_printed_match + k - 1])
    IN  print_line([all EXCEPT !.last_printed_match = Max({@, s.cur_match})], s.i)

MatchingLine(s) ==
    LET t == IF opts.stream = "stdin" THEN s ELSE LinePath(s)
    IN  IF s.lines_since_last_match # 0 THEN s
        ELSE CASE opts.format = "ackmate" -> AckmateLine(t)
               [] opts.format = "vimgrep" -> VimgrepLine(t)
               [] opts.format = "default" -> DefaultLine(t)

(* A newline behind a file that does not end with one.                     *)
FinalNewline(s, i) ==
    IF i # len THEN s
    ELSE IF i = 0 THEN [s EXCEPT !.inside = FALSE]
    ELSE IF buf[base + i - 1] # NewLine THEN EndLine(s) ELSE s

(* The end of a line; for a line of standard input the loop ends with it.  *)
EndOfLine(s) ==
    LET i == s.i
        from == base + s.prev_line_offset
        t == MatchingLine(print_context_append(s, from, base + i))
        u == print_trailing_context(t, from, base + i)
    IN  IF ~IsEnd(i) THEN [s EXCEPT !.i = @ + 1]
        ELSE IF opts.stream = "stdin"
        THEN [t EXCEPT !.last_printed_match = 0, !.i = len + 1]
        ELSE FinalNewline([u EXCEPT !.prev_line_offset = i + 1, !.i = @ + 1,
                                    !.line_preceding_current_match_offset =
                                        IF u.in_a_match THEN @ ELSE i + 1], i)

Iterate(s) == EndOfLine(EndOfMatch(StartOfMatch(s)))

Looping == st.i <= len /\ (More(st) \/ st.lines_since_last_match <= opts.after)

-----------------------------------------------------------------------------
(***************************************************************************)
(* The calls.                                                              *)
(***************************************************************************)
Heading(s) ==
    IF s.print_path # "top" THEN s
    ELSE IF opts.print_count THEN print_path_count(s) ELSE PathLine(s)

PrintFileMatches ==
    /\ pc = "call"
    /\ LET t == [print_file_separator(st) EXCEPT
                    !.i = 0, !.cur_match = 0,
                    !.print_path = CASE @ = "default" -> "top"
                                     [] @ = "default_each_line" -> "each_line"
                                     [] OTHER -> @]
       IN  st' = Heading(t)
    /\ pc' = "loop"
    /\ UNCHANGED <<input, base, len>>

Byte ==
    /\ pc = "loop" /\ Looping
    /\ st' = Iterate(st)
    /\ UNCHANGED <<input, pc, base, len>>

EndOfCall ==
    /\ pc = "loop" /\ ~Looping
    /\ pc' = IF opts.stream = "no" THEN "done" ELSE "trailing"
    /\ UNCHANGED <<input, base, len, st>>

NextLine == base + len

LineLength == Min({size} \cup {k + 1 : k \in {k \in NextLine .. size - 1 : buf[k] = NewLine}}) - NextLine

(* search_stream(): the next line.                                         *)
GetLine ==
    /\ pc = "getline" /\ NextLine < size
    /\ base' = NextLine /\ len' = LineLength
    /\ pc' = "search"
    /\ UNCHANGED <<input, st>>

(* The end of search_buf(): how the matches in the buffer are shown.       *)
Found == matches_len > 0 \/ opts.print_all_paths

ShowsLines == Found /\ ~opts.print_filename_only /\ ~opts.binary

SearchLine ==
    /\ pc = "search"
    /\ pc' = CASE ShowsLines -> "call"
              [] ~ShowsLines /\ opts.stream = "no" -> "done"
              [] OTHER -> "trailing"
    /\ st' = CASE Found /\ opts.print_filename_only ->
                      IF opts.print_count THEN print_path_count(st) ELSE PathLine(st)
              [] Found /\ ~opts.print_filename_only /\ opts.binary ->
                      print_binary_file_matches(st)
              [] ~Found /\ opts.stream = "stdin" /\ opts.passthrough ->
                      PutText(st, base, base + len)
              [] OTHER -> st
    /\ UNCHANGED <<input, base, len>>

(* A line of standard input without a match is kept as a line before.      *)
KeepLine(s) ==
    IF matches_len = 0 /\ opts.stream = "stdin"
    THEN print_context_append(s, base, base + len - 1) ELSE s

TrailingContext ==
    /\ pc = "trailing"
    /\ LET n == IF buf[base + len - 1] = NewLine THEN len - 1 ELSE len
       IN  st' = print_trailing_context(KeepLine(st), base, base + n)
    /\ pc' = "getline"
    /\ UNCHANGED <<input, base, len>>

EndOfStream ==
    /\ pc = "getline" /\ NextLine >= size
    /\ pc' = "done"
    /\ UNCHANGED <<input, base, len, st>>

Done == pc = "done" /\ UNCHANGED vars

Next ==
    \/ PrintFileMatches \/ Byte \/ EndOfCall
    \/ GetLine \/ SearchLine \/ TrailingContext \/ EndOfStream
    \/ Done

Spec == Init /\ [][Next]_vars

-----------------------------------------------------------------------------
(***************************************************************************)
(* Correctness.                                                            *)
(***************************************************************************)

(* Every variable holds a value of its type.                               *)
TypeOK ==
    /\ pc \in {"call", "loop", "getline", "search", "trailing", "done"}
    /\ base \in 0 .. size /\ len \in 0 .. size
    /\ st.cur_match \in 0 .. Len(input.matches)
    /\ st.last_printed_match \in 0 .. Len(input.matches)
    /\ st.lines_since_last_match \in 0 .. Far
    /\ st.i \in 0 .. size + 1
    /\ st.prev_line_offset \in 0 .. size + 1

(* Nothing outside the buffer and the matches is read or printed.          *)
ReadsInside == st.inside

LineStarts == {s \in 0 .. size - 1 : s = 0 \/ buf[s - 1] = NewLine}

Number(s) == Cardinality({l \in LineStarts : l <= s})

EndOf(s) == Min({size} \cup {k \in s .. size - 1 : buf[k] = NewLine})

Matched(s) == \E k \in DOMAIN input.matches : input.matches[k].start \in s .. EndOf(s)

(* A line within the context of a matching line.                           *)
InContext(s) ==
    \E m \in LineStarts :
        Matched(m) /\ Number(s) \in Number(m) - opts.before .. Number(m) + opts.after

MatchAt(field, j) == \E k \in DOMAIN input.matches : input.matches[k][field] = j

Tok(b, t, n) == IF b THEN <<[t |-> t, n |-> n]>> ELSE <<>>

(* The tokens of the characters from s to e, colored if it has matches.    *)
Text(s, e, colored) ==
    FlattenSeq([k \in 1 .. e - s + 1 |->
        LET j == s + k - 1
        IN  Tok(colored /\ j > s /\ MatchAt("end", j), "off", 0)
            \o Tok(colored /\ j < e /\ MatchAt("start", j), "on", 0)
            \o Tok(j < e, "char", j)])

Line(s) == Text(s, EndOf(s), FALSE)

MatchesIn(s) == SelectSeq(input.matches, LAMBDA m : m.start \in s .. EndOf(s))

LineTokens(s) ==
    LET wide == Matched(s) /\ opts.width > 0 /\ EndOf(s) - s > opts.width
    IN  Tok(opts.print_path \in {"each_line", "default_each_line"}, "path", 0)
        \o Tok(opts.numbers, IF Matched(s) THEN ":" ELSE "-", Number(s))
        \o (IF opts.column /\ Matched(s)
            THEN Tok(TRUE, "column", Head(MatchesIn(s)).start - s + 1) ELSE <<>>)
        \o Text(s, IF wide THEN s + opts.width ELSE EndOf(s), opts.color /\ Matched(s))
        \o Tok(wide, "[...]", 0)

(* --vimgrep: each match with its path, line and column.                   *)
VimgrepLines(s) ==
    LET found == MatchesIn(s)
    IN  [k \in DOMAIN found |->
            Tok(TRUE, "path", 0) \o Tok(opts.numbers, ":", Number(s))
                \o Tok(TRUE, "column", found[k].start - s + 1) \o Line(s)]

(* --ackmate: where the matches of the line are and how long, and the line.*)
AckmateTokens(s) ==
    LET found == MatchesIn(s)
    IN  Tok(opts.numbers, ";", Number(s))
        \o FlattenSeq([k \in DOMAIN found |->
                Tok(TRUE, "start", found[k].start - s)
                    \o Tok(TRUE, "length", found[k].end - found[k].start)])
        \o Line(s)

Shown == {s \in LineStarts : Matched(s) \/ InContext(s)}

(* "--" stands before a line if there is a gap before it (in a file).      *)
AfterGap(s) ==
    /\ opts.stream = "no" /\ blanks_between_matches
    /\ \E r \in Shown : r < s
    /\ \A r \in Shown : Number(r) # Number(s) - 1

(* What stands for a line of the file; --passthrough adds the lines that   *)
(* would not be shown.                                                     *)
LinesOf(s) ==
    IF s \notin Shown THEN <<Line(s)>>
    ELSE CASE opts.format = "vimgrep" -> VimgrepLines(s)
           [] opts.format = "ackmate" -> <<AckmateTokens(s)>>
           [] opts.format = "default" ->
                (IF AfterGap(s) THEN <<Tok(TRUE, "--", 0)>> ELSE <<>>) \o <<LineTokens(s)>>

(* An empty line sets the file off from the one before, and its path       *)
(* stands above its lines.                                                 *)
ExpectedBreak == IF opts.break /\ ~opts.first THEN << <<>> >> ELSE <<>>

ExpectedHeading ==
    IF opts.print_path \in {"top", "default"} THEN <<Tok(TRUE, "path", 0)>> ELSE <<>>

ExpectedOutput ==
    LET lines == IF opts.passthrough THEN LineStarts ELSE Shown
        body  == FlattenSeq([k \in 1 .. Cardinality(lines) |->
                                LinesOf(SetToSortSeq(lines, <)[k])])
    IN  CASE input.matches = <<>> /\ ~opts.print_all_paths -> IF opts.passthrough THEN body ELSE <<>>
          [] opts.print_filename_only ->
                <<Tok(TRUE, "path", 0) \o
                    (IF opts.print_count THEN Tok(TRUE, "count", Len(input.matches)) ELSE <<>>)>>
          [] opts.binary -> ExpectedBreak \o <<Tok(TRUE, "binary", 0)>>
          [] OTHER -> ExpectedBreak \o ExpectedHeading \o body

(* An empty line numbered behind the end of the file.                      *)
Phantom(line) == line # <<>> /\ Last(line).t = "-" /\ Last(line).n > Cardinality(LineStarts)

(* What has been printed; the last line of standard input may lack its     *)
(* newline.                                                                *)
Output == IF st.open = <<>> THEN st.out ELSE Append(st.out, st.open)

LinesRight ==
    \/ Output = ExpectedOutput
    \/ Output # <<>> /\ Front(Output) = ExpectedOutput /\ Phantom(Last(Output))

(* --only-matching: the text of each match on a line of its own.           *)
OnlyMatches ==
    [k \in DOMAIN Output |-> SelectSeq(Output[k], LAMBDA t : t.t = "char")] =
    [k \in DOMAIN input.matches |->
        Text(input.matches[k].start, input.matches[k].end, FALSE)]

(* In every format the output is what the options ask for: the break, the  *)
(* heading, then each matching line, the lines of context around it and no *)
(* others, once and in order, with their numbers, columns, separators and  *)
(* highlights; a line that is not in the file is printed at most last.     *)
(* With --only-matching each line printed is one match; a file of which    *)
(* only the name, the count or that it is binary is shown has one line.    *)
OutputRight == pc = "done" => IF opts.only_matching THEN OnlyMatches ELSE LinesRight
=============================================================================
