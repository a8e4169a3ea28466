----------------------------- MODULE SearchBuf ------------------------------
(***************************************************************************)
(* search_buf(): the matches of the query in one buffer.  It looks for     *)
(* them with one of four loops (a literal, a regular expression over the   *)
(* buffer or over each of its lines, or the query "." that matches all)    *)
(* and turns them over for --invert-match.                                 *)
(*                                                                         *)
(* A match is a record [start, end] of offsets.  A regular expression is   *)
(* the set of the strings it matches and whether it begins with "^";       *)
(* tre_regnexec() finds the longest of its leftmost matches in the bytes   *)
(* it is given.                                                            *)
(***************************************************************************)
EXTENDS Strstr

CONSTANTS
    Inputs,               \* the buffers and options: see Init
    Initial               \* the size of the first array of matches (100)

ASSUME InitialAssumption == Initial \in Nat \ {0}

Byte == 0 .. 255

(* The bytes of a char array, which begins at 0.                           *)
Chars(array) == /\ IsFiniteSet(DOMAIN array)
                /\ array \in [0 .. Cardinality(DOMAIN array) - 1 -> Byte]

(* A buffer is empty only for the query ".", and the pairs of a literal    *)
(* find room in the hash table, which otherwise is never built.            *)
ASSUME InputsAssumption ==
    \A in \in Inputs :
        LET n == Cardinality(DOMAIN in.opts.query)
        IN  /\ Chars(in.buf)
            /\ in.opts.mode \in {"all", "literal", "multiline", "lines"}
            /\ in.opts.mode # "all" => DOMAIN in.buf # {}
            /\ in.opts.mode = "literal" =>
                   Chars(in.opts.query) /\ n > 0 /\ 4 * (n - 1) < H_SIZE
            /\ \A w \in in.opts.re.strings : w \in Seq(Byte)
            /\ {in.opts.case_sensitive, in.opts.word_regexp,
                in.opts.invert_match} \subseteq BOOLEAN
            /\ in.opts.max_matches \in Nat

VARIABLES
    opts, buf,
    alpha_skip_lookup, find_skip_lookup, h_table,
    pc,
    buf_offset,
    line_offset,          \* within the line at buf_offset
    matches, matches_size,
    inv                   \* the local variables of invert_matches()

tables == <<alpha_skip_lookup, find_skip_lookup, h_table>>
vars == <<opts, buf, tables, pc, buf_offset, line_offset, matches, matches_size, inv>>

NewLine == 10

buf_len     == Cardinality(DOMAIN buf)
matches_len == Len(matches)
query_len   == Cardinality(DOMAIN opts.query)

(* What main() builds for a literal before the search.                     *)
Init ==
    /\ \E in \in Inputs : buf = in.buf /\ opts = in.opts
    /\ IF opts.mode = "literal"
       THEN /\ alpha_skip_lookup =
                   generate_alpha_skip(opts.query, query_len, opts.case_sensitive, Byte)
            /\ find_skip_lookup =
                   generate_find_skip(opts.query, query_len, opts.case_sensitive)
            /\ h_table = generate_hash(opts.query, query_len, opts.case_sensitive)
       ELSE alpha_skip_lookup = <<>> /\ find_skip_lookup = <<>> /\ h_table = <<>>
    /\ pc = "alloc"
    /\ buf_offset = 0 /\ line_offset = 0
    /\ matches = <<>> /\ matches_size = 0
    /\ inv = [i |-> 0, read |-> 0, next |-> [start |-> 0, end |-> 0],
              count |-> 0, start |-> 0, last_line_end |-> 0, inverted |-> TRUE]

spare == IF opts.invert_match THEN 1 ELSE 0

Alloc ==
    /\ pc = "alloc"
    /\ pc' = opts.mode
    /\ matches_size' = IF opts.mode = "all" THEN 1
                       ELSE IF opts.invert_match THEN Initial ELSE 0
    /\ UNCHANGED <<opts, buf, tables, buf_offset, line_offset, matches, inv>>

(* The query "." without --literal: the whole buffer.                      *)
MatchAll ==
    /\ pc = "all"
    /\ matches' = <<[start |-> 0, end |-> buf_len]>>
    /\ pc' = "found"
    /\ UNCHANGED <<opts, buf, tables, buf_offset, line_offset, matches_size, inv>>

(* realloc_matches(), for one match more.                                  *)
realloc_matches ==
    matches_size' =
        IF matches_len + spare < matches_size THEN matches_size
        ELSE IF matches_size = 0 THEN Initial ELSE 2 * matches_size

(* Mutant: no room is left for the match that inverting may add.           *)
AddMatch_NoSpare(start, end) ==
    /\ matches_size' = IF matches_len < matches_size THEN matches_size
                       ELSE IF matches_size = 0 THEN Initial ELSE 2 * matches_size
    /\ matches' = Append(matches, [start |-> start, end |-> end])

AddMatch(start, end) ==
    /\ realloc_matches
    /\ matches' = Append(matches, [start |-> start, end |-> end])

(* --max-count: this match, the next one, is the last.                     *)
Enough == opts.max_matches > 0 /\ matches_len + 1 >= opts.max_matches

-----------------------------------------------------------------------------
(***************************************************************************)
(* The literal.                                                            *)
(***************************************************************************)
BoyerMoore ==
    boyer_moore_strnstr(buf, buf_offset, buf_len, opts.query, query_len,
        alpha_skip_lookup, find_skip_lookup, opts.case_sensitive)

Hash ==
    hash_strnstr(buf, buf_offset, buf_len, opts.query, query_len, h_table,
        opts.case_sensitive)

match_ptr == IF query_len < 3 \/ query_len >= CellValues - 1 THEN BoyerMoore ELSE Hash

is_wordchar(c) == c \in (48 .. 57) \cup (65 .. 90) \cup (97 .. 122) \cup {95}

(* --word-regexp: both ends lie on a word boundary, the ends of the buffer *)
(* being boundaries.                                                       *)
OnBoundaries(p) ==
    /\ \A i \in {p - 1} \cap DOMAIN buf :
           is_wordchar(buf[i]) # is_wordchar(opts.query[0])
    /\ \A i \in {p + query_len} \cap DOMAIN buf :
           is_wordchar(buf[i]) # is_wordchar(opts.query[query_len - 1])

Accepted(p) == opts.word_regexp => OnBoundaries(p)

LiteralMatch ==
    /\ pc = "literal" /\ buf_offset < buf_len
    /\ match_ptr # NULL /\ Accepted(match_ptr)
    /\ AddMatch(match_ptr, match_ptr + query_len)
    /\ buf_offset' = match_ptr + query_len
    /\ pc' = IF Enough THEN "found" ELSE "literal"
    /\ UNCHANGED <<opts, buf, tables, line_offset, inv>>

(* Mutant: the search goes on behind the whole occurrence.                 *)
LiteralNoWord_WholeQuery ==
    /\ pc = "literal" /\ buf_offset < buf_len
    /\ match_ptr # NULL /\ ~Accepted(match_ptr)
    /\ buf_offset' = match_ptr + query_len
    /\ UNCHANGED <<opts, buf, tables, pc, line_offset, matches, matches_size, inv>>

(* Not a word: the search goes on where the next occurrence can begin.     *)
LiteralNoWord ==
    /\ pc = "literal" /\ buf_offset < buf_len
    /\ match_ptr # NULL /\ ~Accepted(match_ptr)
    /\ buf_offset' = match_ptr + find_skip_lookup[0] - query_len + 1
    /\ UNCHANGED <<opts, buf, tables, pc, line_offset, matches, matches_size, inv>>

LiteralEnd ==
    /\ pc = "literal"
    /\ buf_offset >= buf_len \/ match_ptr = NULL
    /\ pc' = "found"
    /\ UNCHANGED <<opts, buf, tables, buf_offset, line_offset, matches, matches_size, inv>>

-----------------------------------------------------------------------------
(***************************************************************************)
(* Regular expressions.                                                    *)
(***************************************************************************)
EndsAt(s, to) ==
    {e \in s .. to :
        \E w \in opts.re.strings :
            e = s + Len(w) /\ \A k \in 1 .. Len(w) : w[k] = buf[s + k - 1]}

NoMatch == [start |-> -1, end |-> -1]

(* The bytes given begin a line, whatever is before them; "^" also matches *)
(* behind a newline with REG_NEWLINE, that is, with --multiline.           *)
tre_regnexec(from, to) ==
    LET starts == {s \in from .. to :
                      /\ EndsAt(s, to) # {}
                      /\ opts.re.bol =>
                            \/ s = from
                            \/ opts.mode = "multiline" /\ buf[s - 1] = NewLine}
    IN  IF starts = {} THEN NoMatch
        ELSE [start |-> Min(starts), end |-> Max(EndsAt(Min(starts), to))]

(* Mutant: an empty match is not stepped over.                             *)
Behind_EmptyStays(m) == m.end

(* The next search begins behind the match, and behind one byte if it is   *)
(* empty.                                                                  *)
Behind(m) == IF m.start = m.end THEN m.end + 1 ELSE m.end

MultilineMatch ==
    /\ pc = "multiline" /\ buf_offset < buf_len
    /\ LET m == tre_regnexec(buf_offset, buf_len)
       IN  /\ m # NoMatch
           /\ AddMatch(m.start, m.end)
           /\ buf_offset' = Behind(m)
    /\ pc' = IF Enough THEN "found" ELSE "multiline"
    /\ UNCHANGED <<opts, buf, tables, line_offset, inv>>

MultilineEnd ==
    /\ pc = "multiline"
    /\ buf_offset >= buf_len \/ tre_regnexec(buf_offset, buf_len) = NoMatch
    /\ pc' = "found"
    /\ UNCHANGED <<opts, buf, tables, buf_offset, line_offset, matches, matches_size, inv>>

(* The end of the line at buf_offset, its newline excluded.                *)
buf_getline ==
    Min({buf_len} \cup {i \in buf_offset .. buf_len - 1 : buf[i] = NewLine})

LineMatched(m) == [start |-> m.start - buf_offset, end |-> m.end - buf_offset]

(* start and end are offsets in the line, to which line_to_buf is added,   *)
(* where the search of the line had begun.                                 *)
LineMatch ==
    /\ pc = "lines" /\ buf_offset < buf_len
    /\ buf_offset + line_offset < buf_getline
    /\ LET m == tre_regnexec(buf_offset + line_offset, buf_getline)
           in_line == LineMatched(m)
           line_to_buf == buf_offset + line_offset
       IN  /\ m # NoMatch
           /\ AddMatch(in_line.start + line_to_buf, in_line.end + line_to_buf)
           /\ line_offset' = Behind(in_line)
    /\ pc' = IF Enough THEN "found" ELSE "lines"
    /\ UNCHANGED <<opts, buf, tables, buf_offset, inv>>

LineEnd ==
    /\ pc = "lines" /\ buf_offset < buf_len
    /\ \/ buf_offset + line_offset >= buf_getline
       \/ tre_regnexec(buf_offset + line_offset, buf_getline) = NoMatch
    /\ buf_offset' = buf_getline + 1
    /\ line_offset' = 0
    /\ UNCHANGED <<opts, buf, tables, pc, matches, matches_size, inv>>

LinesEnd ==
    /\ pc = "lines" /\ buf_offset >= buf_len
    /\ pc' = "found"
    /\ UNCHANGED <<opts, buf, tables, buf_offset, line_offset, matches, matches_size, inv>>

-----------------------------------------------------------------------------
(***************************************************************************)
(* invert_matches().                                                       *)
(***************************************************************************)
Found ==
    /\ pc = "found"
    /\ IF ~opts.invert_match
       THEN pc' = "done" /\ UNCHANGED <<matches, inv>>
       ELSE IF matches = <<>>
       THEN /\ matches' = <<[start |-> 0, end |-> buf_len - 1]>>
            /\ pc' = "done" /\ UNCHANGED inv
       ELSE /\ inv' = [inv EXCEPT !.next = matches[1]]
            /\ pc' = "invert" /\ UNCHANGED matches
    /\ UNCHANGED <<opts, buf, tables, buf_offset, line_offset, matches_size>>

(* The array is overwritten from its beginning.                            *)
PutInverted(start, end) ==
    LET m == [start |-> start, end |-> end]
    IN  matches' = IF inv.count < matches_len
                   THEN [matches EXCEPT ![inv.count + 1] = m]
                   ELSE Append(matches, m)

Inverting == pc = "invert" /\ inv.i < buf_len

NextMatch == IF inv.read + 1 < matches_len THEN matches[inv.read + 2] ELSE inv.next

(* A match begins: what is before it, up to the last newline, is inverted. *)
InvertMatch ==
    LET whole == inv.inverted /\ inv.last_line_end > inv.start
    IN  /\ Inverting /\ inv.i = inv.next.start
        /\ inv' = [inv EXCEPT !.i = inv.next.end, !.read = @ + 1,
                              !.next = NextMatch, !.inverted = FALSE,
                              !.count = IF whole THEN @ + 1 ELSE @]
        /\ IF whole THEN PutInverted(inv.start, inv.last_line_end - 1)
           ELSE UNCHANGED matches
        /\ UNCHANGED <<opts, buf, tables, pc, buf_offset, line_offset, matches_size>>

(* Mutant: the last line is inverted only if it ends with a newline.       *)
InvertLast_NeedsNewline ==
    /\ Inverting /\ inv.i # inv.next.start
    /\ inv.i = buf_len - 1 /\ inv.inverted
    /\ IF buf[inv.i] = NewLine
       THEN /\ PutInverted(inv.start, inv.i)
            /\ inv' = [inv EXCEPT !.i = @ + 1, !.count = @ + 1]
       ELSE inv' = [inv EXCEPT !.i = @ + 1] /\ UNCHANGED matches
    /\ UNCHANGED <<opts, buf, tables, pc, buf_offset, line_offset, matches_size>>

(* The end of the buffer.                                                  *)
InvertLast ==
    /\ Inverting /\ inv.i # inv.next.start
    /\ inv.i = buf_len - 1 /\ inv.inverted
    /\ PutInverted(inv.start, inv.i)
    /\ inv' = [inv EXCEPT !.i = @ + 1, !.count = @ + 1]
    /\ UNCHANGED <<opts, buf, tables, pc, buf_offset, line_offset, matches_size>>

(* Any other byte; a newline ends a line with a match.                     *)
InvertByte ==
    /\ Inverting /\ inv.i # inv.next.start
    /\ ~(inv.i = buf_len - 1 /\ inv.inverted)
    /\ inv' = IF buf[inv.i] = NewLine
              THEN [inv EXCEPT !.i = @ + 1, !.last_line_end = inv.i + 1,
                               !.start = IF inv.inverted THEN @ ELSE inv.i + 1,
                               !.inverted = TRUE]
              ELSE [inv EXCEPT !.i = @ + 1]
    /\ UNCHANGED <<opts, buf, tables, pc, buf_offset, line_offset, matches, matches_size>>

InvertEnd ==
    /\ pc = "invert" /\ inv.i >= buf_len
    /\ matches' = SubSeq(matches, 1, inv.count)
    /\ pc' = "done"
    /\ UNCHANGED <<opts, buf, tables, buf_offset, line_offset, matches_size, inv>>

Done == pc = "done" /\ UNCHANGED vars

Step == \/ Alloc \/ MatchAll
        \/ LiteralMatch \/ LiteralNoWord \/ LiteralEnd
        \/ MultilineMatch \/ MultilineEnd
        \/ LineMatch \/ LineEnd \/ LinesEnd
        \/ Found \/ InvertMatch \/ InvertLast \/ InvertByte \/ InvertEnd

Next == Step \/ Done

Spec == Init /\ [][Next]_vars

-----------------------------------------------------------------------------
(***************************************************************************)
(* Correctness.                                                            *)
(***************************************************************************)
Match == [start : Nat, end : Nat]

(* Every variable holds a value of its type; the array of matches has room *)
(* for those found and, when it is inverted, for one more, and what is     *)
(* written to it there was read before.                                    *)
TypeOK ==
    /\ pc \in {"alloc", "all", "literal", "multiline", "lines", "found", "invert", "done"}
    /\ buf_offset \in 0 .. buf_len + 1
    /\ line_offset \in 0 .. buf_len + 1
    /\ matches \in Seq(Match)
    /\ matches_size \in Nat
    /\ pc \in {"found", "invert", "done"} => matches_len <= matches_size
    /\ pc = "invert" => inv.count <= inv.read + spare
    /\ inv \in [i : 0 .. buf_len, read : Nat, next : Match, count : Nat,
                start : Nat, last_line_end : Nat, inverted : BOOLEAN]

Searching == pc = "literal" /\ buf_offset < buf_len

FirstHere ==
    FirstOccurrence(buf, buf_offset, buf_len, opts.query, query_len, opts.case_sensitive)

(* boyer_moore_strnstr() never skips an occurrence, from wherever          *)
(* search_buf() calls it; nor does hash_strnstr(), with all the pairs that *)
(* share a cell.                                                           *)
LiteralFindsFirst ==
    Searching => /\ BoyerMoore = FirstHere
                 /\ query_len \in 3 .. CellValues - 2 => Hash = FirstHere

(* The reference: the first match at or behind an offset, the whole of the *)
(* buffer (or of a line) being known.                                      *)
BeginsLine(s) == s = 0 \/ buf[s - 1] = NewLine

WordAt(s, e) ==
    /\ OccursAt(buf, opts.query, query_len, s, opts.case_sensitive)
    /\ e = s + query_len /\ Accepted(s)

MatchFrom(from, to) ==
    LET ends(s) == IF opts.mode = "literal"
                   THEN {e \in {s + query_len} : e <= to /\ WordAt(s, e)}
                   ELSE IF opts.re.bol => BeginsLine(s) THEN EndsAt(s, to) ELSE {}
        starts  == {s \in from .. to : ends(s) # {}}
    IN  IF starts = {} THEN NoMatch
        ELSE [start |-> Min(starts), end |-> Max(ends(Min(starts)))]

(* All the matches from an offset on and up to another, none within        *)
(* another.                                                                *)
MatchesUpTo(to) ==
    LET all[from \in 0 .. buf_len + 1] ==
            IF from >= to \/ MatchFrom(from, to) = NoMatch THEN <<>>
            ELSE LET m == MatchFrom(from, to)
                 IN  <<m>> \o all[Max({m.start + 1, m.end})]
    IN  all

LineStarts == {s \in 0 .. buf_len - 1 : BeginsLine(s)}

EndOfLine(s) == Min({buf_len} \cup {i \in s .. buf_len - 1 : buf[i] = NewLine})

(* All the matches of the lines from s on, each within its line.           *)
LineMatches ==
    LET all[s \in 0 .. buf_len + 1] ==
            IF s >= buf_len THEN <<>>
            ELSE MatchesUpTo(EndOfLine(s))[s] \o all[EndOfLine(s) + 1]
    IN  all

Expected ==
    CASE opts.mode = "all" -> <<[start |-> 0, end |-> buf_len]>>
      [] opts.mode = "lines" -> LineMatches[0]
      [] OTHER -> MatchesUpTo(buf_len)[0]

(* search_buf() finds every match of the query, in order, and no other;    *)
(* with --max-count as many of them as it allows.                          *)
MatchesRight ==
    pc = "found" =>
        matches = IF opts.max_matches = 0 \/ opts.mode = "all" THEN Expected
                  ELSE SubSeq(Expected, 1, Min({opts.max_matches, Len(Expected)}))

LinesOf(s, e) ==
    {l \in LineStarts : l <= e /\ EndOfLine(l) >= s}

Touched(ms) == UNION {LinesOf(ms[k].start, ms[k].end) : k \in DOMAIN ms}

(* --invert-match: the lines that are left are those that do not contain   *)
(* the pattern.                                                            *)
InvertRight ==
    pc = "done" /\ opts.invert_match /\ opts.max_matches = 0 =>
        Touched(matches) = LineStarts \ Touched(Expected)

(* So what search_buf() gives to the printer is right, inverted or not.    *)
ResultRight == MatchesRight /\ InvertRight

(* Each round of a loop of search_buf() goes on in the buffer, or in the   *)
(* line it is at, and each of invert_matches() in the buffer or in the     *)
(* matches it reads, of which it reads each once; nothing ever goes back.  *)
(* As all these are bounded, no loop goes on for ever.                     *)
Advances ==
    [][ /\ buf_offset' >= buf_offset /\ inv'.i >= inv.i
        /\ inv'.read >= inv.read /\ (pc' = "invert" => inv'.read <= matches_len')
        /\ pc' = pc =>
               \/ buf_offset' > buf_offset
               \/ buf_offset' = buf_offset /\ line_offset' > line_offset
               \/ inv'.i > inv.i
               \/ inv'.read > inv.read ]_vars

=============================================================================
