------------------------------- MODULE MCTre -------------------------------
(***************************************************************************)
(* Small instances of Tre: expressions that are written from a tree, for     *)
(* which Regex says what is to be found, and plain strings for the parser.   *)
(***************************************************************************)
EXTENDS Tre
R == INSTANCE Regex

Blank == 32
UpperA == 65
UpperB == 66
a == R!Chr(97)
b == R!Chr(98)
NotB == R!List(TRUE, <<<<98, 98>>>>, <<>>)
Bol == R!At(ASSERT_AT_BOL)
Eol == R!At(ASSERT_AT_EOL)

Cats(S, T) == {R!Cat(l, r) : l \in S, r \in T}
Alts(S, T) == {R!Alt(l, r) : l \in S, r \in T}
Groups(n, S) == {R!Grp(n, r) : r \in S}
Repeated(S, bounds, lazy) == {R!Rep(r, q[1], q[2], lazy) : r \in S, q \in bounds}
Stars == {<<0, -1>>, <<1, -1>>, <<0, 1>>}
Counts == {<<2, 2>>, <<1, 3>>, <<2, -1>>, <<0, 2>>}
Greedy(S) == Repeated(S, Stars \cup Counts, FALSE)

-----------------------------------------------------------------------------
(* The texts.                                                                  *)

Bytes == {<<c>> : c \in {0, 9, 10, 32, 47, 48, 57, 64, 65, 70, 90, 95, 97, 102, 122,
                         126, 127, 128, 255}}
\* A boundary is taken to be at both ends of a text.
EdgeTexts == {s \in BoundedSeq({97, Blank}, 4) : Len(s) > 0 /\ s[1] = 97 /\ Last(s) = 97}
MCTexts ==
  [ab2     |-> BoundedSeq({97, 98}, 2),
   ab3     |-> BoundedSeq({97, 98}, 3),
   lines2  |-> BoundedSeq({97, Newline}, 2),
   lines3  |-> BoundedSeq({97, Newline}, 3),
   words   |-> BoundedSeq({97, Blank}, 3),
   edges   |-> EdgeTexts,
   bytes   |-> Bytes,
   cases   |-> BoundedSeq({97, UpperA, UpperB}, 2),
   spelled |-> BoundedSeq({97, 98, CHAR_STAR, UpperA}, 3) \cup Bytes
                 \cup {<<97, 10>>, <<97, 98, 10>>},
   one     |-> {<<97, 97>>}]

-----------------------------------------------------------------------------
(* The expressions.  want tells which match is to be found.                    *)

Family(trees, flags, texts, want) ==
  {[regex |-> R!Written(t), cflags |-> flags, tree |-> t, texts |-> texts,
    want |-> want] : t \in trees}
Flags == {"NEWLINE"}

Atoms == {a, R!Dot, R!Alt(a, b), R!Cat(a, b), R!Alt(a, R!Cat(a, b)), R!Star(a)}
Pieces == Atoms \cup Groups(1, Atoms)
Repetitions ==
  Cats(Greedy(Pieces), {b, R!Star(b), Eol}) \cup Cats({a, Bol}, Greedy(Pieces))
    \cup Repeated(Greedy(Groups(1, {a, R!Alt(a, b)})), Stars, FALSE)
\* Groups side by side, inside one another, and on both sides of a '|'.
Sides == Alts({a, R!Cat(a, b)}, {b, R!Cat(b, a)})
Unions ==
  Cats(Groups(1, Sides), Groups(2, Sides \cup {R!Star(b)}))
    \cup Alts(Groups(1, Sides), Groups(2, {R!Star(b), R!Cat(b, b)}))
    \cup {R!Star(R!Grp(1, R!Alt(R!Grp(2, l), R!Grp(3, r)))) : l, r \in Atoms}
    \cup {R!Cat(R!Alt(R!Grp(1, l), R!Cat(b, R!Grp(2, r))), b) : l, r \in Atoms}
Lines == LET line == {a, R!Dot, NotB, Bol, Eol}
         IN Cats(line, line) \cup Cats(line, Cats(line, line))
              \cup Repeated({R!Dot, NotB}, Stars, FALSE)
              \cup Repeated({R!Alt(a, Bol), R!Alt(Eol, a)}, {<<1, -1>>}, FALSE)
Edges == LET edge == {R!At(ASSERT_AT_BOW), R!At(ASSERT_AT_EOW)}
         IN Cats(edge, {a, R!Star(a), R!Dot}) \cup Cats({a, R!Star(a), R!Dot}, edge)
Boundaries == LET edge == {R!At(ASSERT_AT_WB), R!At(ASSERT_AT_WB_NEG)}
              IN Cats(edge, {a, R!Star(a), R!Dot}) \cup Cats({a, R!Star(a), R!Dot}, edge)
Spans == {<<<<97, 98>>>>, <<<<97, 97>>, <<98, 98>>>>, <<<<98, 98>>, <<97, 97>>>>,
          <<<<65, 97>>>>, <<<<97, 122>>, <<65, 65>>, <<48, 57>>>>}
Lists == {R!List(n, ranges, <<>>) : n \in BOOLEAN, ranges \in Spans}
           \cup {R!List(FALSE, <<<<97, 109>>, <<98, 122>>>>, <<>>)}
Named == {R!List(n, <<>>, <<t>>) : n \in BOOLEAN, t \in tre_ctype_map}
           \cup {R!List(n, <<<<95, 95>>>>, <<t>>) : n \in BOOLEAN, t \in tre_ctype_map}

\* Other ways to write an expression: quoted, with flags of its own, by the code
\* of a character, with the macros, with a comment, with empty parts.
Spelled(text, tree) == [regex |-> text, tree |-> tree]
AnyCase(lower, upper) == R!Alt(R!Chr(lower), R!Chr(upper))
Bs == CHAR_BACKSLASH
Ext(flags) == <<CHAR_LPAREN, CHAR_QUESTIONMARK>> \o flags
Cp == CHAR_RPAREN
ClassOf(n) == CHOOSE t \in tre_ctype_map : t.name = n
DigitClass == ClassOf(<<100, 105, 103, 105, 116>>)
AlnumClass == ClassOf(<<97, 108, 110, 117, 109>>)
SpaceClass == ClassOf(<<115, 112, 97, 99, 101>>)
Spellings == {
  Spelled(<<Bs, 81, 97, CHAR_STAR, Bs, 69, 98>>, R!Cat(R!Cat(a, R!Chr(CHAR_STAR)), b)),
  Spelled(<<Bs, 81, 97, CHAR_STAR>>, R!Cat(a, R!Chr(CHAR_STAR))),
  Spelled(Ext(<<105, Cp, 97, 98>>), R!Cat(AnyCase(97, 65), AnyCase(98, 66))),
  Spelled(Ext(<<105, CHAR_COLON, 97, Cp, 98>>), R!Cat(AnyCase(97, 65), b)),
  Spelled(<<97>> \o Ext(<<CHAR_HASH, 98, Cp, 98>>), R!Cat(a, b)),
  Spelled(<<97>> \o Ext(<<CHAR_MINUS, 110, Cp, CHAR_PERIOD>>),
          R!Cat(a, R!Alt(R!Dot, R!Chr(Newline)))),
  Spelled(Ext(<<85, CHAR_COLON, 97, CHAR_STAR, CHAR_QUESTIONMARK, Cp, 98>>),
          R!Cat(R!Star(a), b)),
  Spelled(Ext(<<114, Cp, 97, 98, 97>>), R!Cat(a, R!Cat(b, a))),
  Spelled(<<Bs, 120, 54, 49, 98>>, R!Cat(a, b)),
  Spelled(<<Bs, 120, CHAR_LBRACE, 54, 49, CHAR_RBRACE, 98>>, R!Cat(a, b)),
  Spelled(<<Bs, 100>>, R!List(FALSE, <<>>, <<DigitClass>>)),
  Spelled(<<Bs, 68>>, R!List(TRUE, <<>>, <<DigitClass>>)),
  Spelled(<<Bs, 119>>, R!List(FALSE, <<<<95, 95>>>>, <<AlnumClass>>)),
  Spelled(<<Bs, 87>>, R!List(TRUE, <<<<95, 95>>>>, <<AlnumClass>>)),
  Spelled(<<Bs, 115>>, R!List(FALSE, <<>>, <<SpaceClass>>)),
  Spelled(<<Bs, 116>>, R!Chr(9)), Spelled(<<Bs, CHAR_STAR>>, R!Chr(CHAR_STAR)),
  Spelled(<<97, CHAR_PIPE, CHAR_PIPE, 98>>, R!Alt(R!Alt(a, R!Rep(a, 0, 0, FALSE)), b)),
  Spelled(<<97, CHAR_LPAREN, Cp, 98>>, R!Cat(a, b)),
  Spelled(<<97, CHAR_LBRACE, 48, CHAR_RBRACE, 98>>, b),
  Spelled(<<97, CHAR_LBRACE, CHAR_COMMA, 50, CHAR_RBRACE, 98>>,
          R!Cat(R!Rep(a, 0, 2, FALSE), b))}
Rewritten ==
  {[regex |-> s.regex, cflags |-> Flags, tree |-> s.tree, texts |-> "spelled",
    want |-> "longest"] : s \in Spellings}

Plain ==
  Family(Repetitions \cup Unions, Flags, "ab3", "longest")
    \cup Family(Lines, Flags, "lines3", "longest")
    \cup Family(Lines, {}, "lines2", "longest")
    \cup Family(Edges, Flags, "words", "longest")
    \cup Family(Boundaries, Flags, "edges", "longest")
    \cup Family(Lists \cup Named, Flags, "bytes", "longest")
    \cup Family(Lists \cup {a, R!Chr(UpperB), R!Cat(R!Chr(UpperA), b)},
                Flags \cup {"ICASE"}, "cases", "longest")
    \cup Family(Named, Flags \cup {"ICASE"}, "bytes", "longest")
    \cup Rewritten

\* A lazy repetition at the very start of an expression is left out: the place
\* where it begins is then the tag that is to be as large as can be.
Few == Repeated({a, R!Dot, R!Alt(a, b), R!Cat(a, b)}, Stars \cup Counts, TRUE)
Later == Repeated({a, R!Dot}, Stars, TRUE)
Lazy == Family(Cats({a, Bol}, Few \cup Cats(Few, {b, Eol} \cup Later)), Flags,
               "ab3", "shortest")

Held == {a, R!Dot, R!Alt(a, b), R!Cat(a, b), R!Alt(a, R!Cat(a, b)),
         R!Rep(a, 1, -1, FALSE)}
Back == {R!Ref(1)} \cup Greedy({R!Ref(1)})
Again ==
  LET held == Groups(1, Held)
  IN Cats(held \cup Repeated(held, Stars \cup {<<2, 2>>}, FALSE), Back)
       \cup Cats(held, Cats(Back, {b, Eol, R!Ref(1)}))
       \cup Cats({R!Star(b)}, Cats(held, Back))
       \cup {R!Star(r) : r \in Cats(held, {R!Ref(1)})}
       \cup Cats(held, Greedy({R!Grp(2, R!Ref(1)), R!Alt(b, R!Ref(1)),
                               R!Cat(R!Ref(1), b), R!Star(R!Ref(1))}))
AgainEmpty ==
  LET held == Groups(1, {R!Star(a), R!Alt(a, R!Star(b))})
  IN Cats(held, Greedy(Back \cup {R!Grp(2, R!Ref(1)), R!Alt(b, R!Ref(1)), R!Cat(R!Ref(1), R!Ref(1))}))
Backrefs ==
  Family(Cats({Bol}, Again), Flags, "ab3", "longest")
    \cup Family(AgainEmpty, Flags, "ab2", "a match")
Unanchored ==
  Family(Again, Flags, "ab3", "longest")

Meant == Plain \cup Lazy \cup Backrefs

-----------------------------------------------------------------------------
(* Plain strings, of which only the parsing is looked at.                      *)

Strings ==
  BoundedSeq({97, CHAR_LPAREN, CHAR_RPAREN, CHAR_STAR, CHAR_PLUS, CHAR_PIPE}, 4)
    \cup {<<97, CHAR_BACKSLASH>>, <<CHAR_LPAREN, 97, CHAR_BACKSLASH>>}
Nested(d) == [i \in 1..d |-> CHAR_LPAREN] \o <<97>> \o [i \in 1..d |-> CHAR_RPAREN]
Parsing == {[regex |-> s, cflags |-> {}, texts |-> "one", want |-> "parsed"] :
              s \in Strings \cup {Nested(d) : d \in 5..9}}

MCPatterns == Meant \cup Parsing

-----------------------------------------------------------------------------
(* Properties *)

Looked == pmatch # NotYet /\ given.want # "parsed"
FoundEnds == R!EndsFrom(given.tree, str, pmatch.rm_so, cflags)
Found ==
  LET meant == R!Meant(given.tree, str, cflags)
  IN CASE given.want = "longest" -> pmatch = meant
       [] given.want = "shortest" ->
            /\ pmatch.status = meant.status /\ pmatch.rm_so = meant.rm_so
            /\ pmatch.status = "REG_OK" => pmatch.rm_eo = Min(FoundEnds)
       [] OTHER -> pmatch.status = "REG_OK" => pmatch.rm_eo \in FoundEnds

\* Of all the matches the expression has in the text, the parallel matcher finds
\* the leftmost, and of these the longest, or the shortest if the repetitions are
\* lazy; and none only if there is none.  So does the backtracking matcher, for
\* expressions with back references, whatever it has tried before; with groups
\* that may be empty it finds a match if it says so.
MatchRight == Looked => Found

\* A pattern is refused if two repetitions follow one another, or else if a
\* group stays open, or if the stack cannot hold the groups that are open (five
\* objects each, and six), or if nothing follows a backslash; a ')' too many is a
\* character.  Otherwise every '('
\* has numbered a group.
Repeats2 == \E i \in 1..Len(regex) - 1 :
              {regex[i], regex[i + 1]} \subseteq {CHAR_STAR, CHAR_PLUS}
Opens == FoldLeft(LAMBDA n, c : CASE c = CHAR_LPAREN -> n + 1
                                  [] c = CHAR_RPAREN -> Max({0, n - 1})
                                  [] OTHER -> n, 0, regex)
Parens == Cardinality({i \in DOMAIN regex : regex[i] = CHAR_LPAREN})
ParseRight ==
  (given.want = "parsed" /\ phase \in {"failed", "compiled"}) =>
    /\ status = CASE Len(regex) > 4 /\ 6 + 5 * Parens > StackMax -> "REG_ESPACE"
                  [] Repeats2 -> "REG_BADRPT"
                  [] regex # <<>> /\ Last(regex) = CHAR_BACKSLASH -> "REG_EESCAPE"
                  [] Opens > 0 -> "REG_EPAREN"
                  [] OTHER -> "REG_OK"
    /\ status = "REG_OK" => submatch_id = Parens + 1
=============================================================================
