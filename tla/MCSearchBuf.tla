---------------------------- MODULE MCSearchBuf -----------------------------
(* SearchBuf over all the short buffers of a few alphabets: "a" and "b",   *)
(* "A" for the other case, a space for what is no word and a newline.      *)
EXTENDS SearchBuf

a == 97
b == 98
A == 65
space == 32

Arrays(chars, n) == UNION {[0 .. k - 1 -> chars] : k \in 1 .. n}

NoRegex == [strings |-> {}, bol |-> FALSE]

Options(mode, query, re, sensitive, word, invert, max) ==
    [mode |-> mode, query |-> query, re |-> re, case_sensitive |-> sensitive,
     word_regexp |-> word, invert_match |-> invert, max_matches |-> max]

LiteralInputs(chars, textlen, queries, words, sensitives, inverts, maxes) ==
    [buf : Arrays(chars, textlen),
     opts : {Options("literal", q, NoRegex, cs, w, v, m) :
                q \in queries, cs \in sensitives, w \in words,
                v \in inverts, m \in maxes}]

Literals ==
    LiteralInputs({a, b}, 7, Arrays({a, b}, 4), {FALSE}, {TRUE}, {FALSE}, {0})
    \cup LiteralInputs({a, space}, 7, Arrays({a, space}, 3), {TRUE}, {TRUE}, {FALSE}, {0})
    \cup LiteralInputs({a, b, A}, 4, Arrays({a, b}, 3), {FALSE}, {FALSE}, {FALSE}, {0, 1})
    \cup LiteralInputs({a, b, NewLine}, 5, {[i \in {0} |-> a], [i \in {0, 1} |-> a]},
                      {FALSE}, {TRUE}, {TRUE}, {0, 2})

Regex(strings, bol) == [strings |-> strings, bol |-> bol]

(* "a|b", "ab?", "a\nb", "a*"                                              *)
AorB   == Regex({<<a>>, <<b>>}, FALSE)
ABopt  == Regex({<<a>>, <<a, b>>}, FALSE)
AcrossLines == Regex({<<a, NewLine, b>>}, FALSE)
AStar  == Regex({<<>>, <<a>>, <<a, a>>, <<a, a, a>>, <<a, a, a, a>>}, FALSE)
CaretA == Regex({<<a>>}, TRUE)

RegexInputs(mode, n, res, inverts, maxes) ==
    [buf : Arrays({a, b, NewLine}, n),
     opts : {Options(mode, <<>>, re, TRUE, FALSE, v, m) :
                re \in res, v \in inverts, m \in maxes}]

Regexes ==
    RegexInputs("multiline", 4, {AorB, ABopt, AcrossLines, AStar}, {FALSE}, {0, 2})
    \cup RegexInputs("multiline", 4, {ABopt}, {TRUE}, {0})
    \cup RegexInputs("lines", 4, {ABopt, AStar, CaretA}, {FALSE}, {1})
    \cup RegexInputs("all", 3, {NoRegex}, BOOLEAN, {0})

Queries      == Literals \cup Regexes
ByLines      == RegexInputs("lines", 3, {AorB}, {FALSE}, {0})
Carets       == RegexInputs("multiline", 3, {CaretA}, {FALSE}, {0})
InvertedStar == RegexInputs("multiline", 2, {AStar}, {TRUE}, {0})

-----------------------------------------------------------------------------
(* What the documents say and the code does not do; no run expects it to   *)
(* hold, and README.md says what breaks it.                                *)

(* What is recorded as a match is one, in the buffer.                      *)
OffsetsInBuffer ==
    pc = "found" =>
        \A k \in DOMAIN matches :
            /\ matches[k].end <= buf_len
            /\ matches[k].end \in EndsAt(matches[k].start, buf_len)
=============================================================================
