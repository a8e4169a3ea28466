------------------------------- MODULE Regex -------------------------------
(***************************************************************************)
(* What the documentation of the regular expression library (tre-syntax)    *)
(* says an expression means, apart from how it is parsed or run: trees of    *)
(* expressions, how they are written, and where they match.                 *)
(***************************************************************************)
EXTENDS TreAst, SequencesExt, FiniteSetsExt

Chr(c) == [op |-> "chr", c |-> c]
Dot == [op |-> "any"]
\* A bracket: ranges <<first, last>>, and the classes that are named in it.
List(negated, ranges, classes) ==
  [op |-> "list", negated |-> negated, ranges |-> ranges, classes |-> classes]
At(assertion) == [op |-> "at", assertion |-> assertion]
Cat(l, r) == [op |-> "cat", l |-> l, r |-> r]
Alt(l, r) == [op |-> "alt", l |-> l, r |-> r]
Rep(arg, min, max, lazy) ==
  [op |-> "rep", arg |-> arg, min |-> min, max |-> max, lazy |-> lazy]
Grp(n, arg) == [op |-> "grp", n |-> n, arg |-> arg]
Ref(n) == [op |-> "ref", n |-> n]
Star(arg) == Rep(arg, 0, -1, FALSE)

Parts(r) == CASE r.op \in {"cat", "alt"} -> {r.l, r.r}
              [] r.op \in {"rep", "grp"} -> {r.arg}
              [] OTHER -> {}
RECURSIVE All(_)
All(r) == {r} \cup UNION {All(p) : p \in Parts(r)}
Referred(r) == {p.n : p \in {q \in All(r) : q.op = "ref"}}

-----------------------------------------------------------------------------
(* How an expression is written *)

Special == {CHAR_PIPE, CHAR_LPAREN, CHAR_RPAREN, CHAR_LBRACE, CHAR_LBRACKET,
            CHAR_STAR, CHAR_QUESTIONMARK, CHAR_PLUS, CHAR_PERIOD, CHAR_CARET,
            CHAR_DOLLAR, CHAR_BACKSLASH}
Escaped(c) == IF c \in Special THEN <<CHAR_BACKSLASH, c>> ELSE <<c>>
Inside(text) == <<CHAR_LPAREN, CHAR_QUESTIONMARK, CHAR_COLON>> \o text
                  \o <<CHAR_RPAREN>>
WrittenAssertion == (ASSERT_AT_BOL :> <<CHAR_CARET>>) @@ (ASSERT_AT_EOL :> <<CHAR_DOLLAR>>)
  @@ (ASSERT_AT_BOW :> <<CHAR_BACKSLASH, 60>>)
  @@ (ASSERT_AT_EOW :> <<CHAR_BACKSLASH, 62>>)
  @@ (ASSERT_AT_WB :> <<CHAR_BACKSLASH, 98>>)
  @@ (ASSERT_AT_WB_NEG :> <<CHAR_BACKSLASH, 66>>)
Digits1(n) == IF n < 0 THEN <<>> ELSE <<48 + n>>
Suffix(min, max) ==
  CASE min = 0 /\ max = -1 -> <<CHAR_STAR>>
    [] min = 1 /\ max = -1 -> <<CHAR_PLUS>>
    [] min = 0 /\ max = 1 -> <<CHAR_QUESTIONMARK>>
    [] min = max -> <<CHAR_LBRACE>> \o Digits1(min) \o <<CHAR_RBRACE>>
    [] OTHER -> <<CHAR_LBRACE>> \o Digits1(min) \o <<CHAR_COMMA>>
                  \o Digits1(max) \o <<CHAR_RBRACE>>
Range2(r) == IF r[1] = r[2] THEN <<r[1]>> ELSE <<r[1], CHAR_MINUS, r[2]>>
Class(t) == <<CHAR_LBRACKET, CHAR_COLON>> \o t.name \o <<CHAR_COLON, CHAR_RBRACKET>>

RECURSIVE Written(_)
Written(r) ==
  LET Tight(p) == IF p.op = "alt" THEN Inside(Written(p)) ELSE Written(p)
      Atomic(p) == IF p.op \in {"alt", "cat", "rep"} THEN Inside(Written(p))
                   ELSE Written(p)
  IN CASE r.op = "chr" -> Escaped(r.c)
       [] r.op = "any" -> <<CHAR_PERIOD>>
       [] r.op = "list" ->
            <<CHAR_LBRACKET>> \o (IF r.negated THEN <<CHAR_CARET>> ELSE <<>>)
              \o FlattenSeq([i \in DOMAIN r.ranges |-> Range2(r.ranges[i])])
              \o FlattenSeq([i \in DOMAIN r.classes |-> Class(r.classes[i])])
              \o <<CHAR_RBRACKET>>
       [] r.op = "at" -> WrittenAssertion[r.assertion]
       [] r.op = "cat" -> Tight(r.l) \o Tight(r.r)
       [] r.op = "alt" -> Written(r.l) \o <<CHAR_PIPE>> \o Written(r.r)
       [] r.op = "rep" -> Atomic(r.arg) \o Suffix(r.min, r.max)
                            \o IF r.lazy THEN <<CHAR_QUESTIONMARK>> ELSE <<>>
       [] r.op = "grp" -> <<CHAR_LPAREN>> \o Written(r.arg) \o <<CHAR_RPAREN>>
       [] OTHER -> <<CHAR_BACKSLASH, 48 + r.n>>

-----------------------------------------------------------------------------
(* Where an expression matches *)

Cases(c, flags) == IF "ICASE" \in flags THEN {c, ToUpper(c), ToLower(c)} ELSE {c}
Listed(r, c) == (\E i \in DOMAIN r.ranges : c \in r.ranges[i][1]..r.ranges[i][2])
                \/ \E i \in DOMAIN r.classes : c \in r.classes[i].class

\* Does a character match an expression of one character?
Accepts(r, c, flags) ==
  CASE r.op = "chr" -> c \in Cases(r.c, flags)
    [] r.op = "any" -> ~("NEWLINE" \in flags /\ c = Newline)
    [] OTHER -> (\E d \in Cases(c, flags) : Listed(r, d)) # r.negated

\* The character in front of place i of s, and the one behind it; 0 is none.
Before(s, i) == IF i = 0 THEN 0 ELSE s[i]
Behind(s, i) == IF i = Len(s) THEN 0 ELSE s[i + 1]
Holds(assertion, s, i, flags) ==
  LET before == IsWord(Before(s, i))
      behind == IsWord(Behind(s, i))
  IN CASE assertion = ASSERT_AT_BOL ->
            i = 0 \/ ("NEWLINE" \in flags /\ Before(s, i) = Newline)
       [] assertion = ASSERT_AT_EOL ->
            i = Len(s) \/ ("NEWLINE" \in flags /\ Behind(s, i) = Newline)
       [] assertion = ASSERT_AT_BOW -> ~before /\ behind
       [] assertion = ASSERT_AT_EOW -> before /\ ~behind
       [] assertion = ASSERT_AT_WB -> before # behind
       [] OTHER -> before = behind

\* A place, and what the groups that are referred to hold there.
Mark(at, groups) == [at |-> at, groups |-> groups]

RECURSIVE Matches(_, _, _, _)
Matches(r, s, m, flags) ==
  LET From(S, p) == UNION {Matches(p, s, n, flags) : n \in S}
      Again(S, k) == FoldLeft(LAMBDA acc, i : From(acc, r.arg), S,
                              [i \in 1..k |-> i])
      UpTo(S, k) == FoldLeft(LAMBDA acc, i : acc \cup From(acc, r.arg), S,
                             [i \in 1..k |-> i])
      held == m.groups[r.n]
      len == held[2] - held[1]
  IN CASE r.op \in {"chr", "any", "list"} ->
            IF m.at < Len(s) /\ Accepts(r, s[m.at + 1], flags)
            THEN {Mark(m.at + 1, m.groups)} ELSE {}
       [] r.op = "at" -> IF Holds(r.assertion, s, m.at, flags) THEN {m} ELSE {}
       [] r.op = "cat" -> From(Matches(r.l, s, m, flags), r.r)
       [] r.op = "alt" -> Matches(r.l, s, m, flags) \cup Matches(r.r, s, m, flags)
       [] r.op = "rep" -> UpTo(Again({m}, r.min), IF r.max = -1 THEN Len(s) + 1
                                                  ELSE r.max - r.min)
       [] r.op = "grp" ->
            {IF r.n \in DOMAIN n.groups
             THEN [n EXCEPT !.groups[r.n] = <<m.at, n.at>>] ELSE n :
               n \in Matches(r.arg, s, m, flags)}
       [] OTHER -> IF /\ m.at + len <= Len(s)
                      /\ \A k \in 1..len : s[held[1] + k] = s[m.at + k]
                   THEN {Mark(m.at + len, m.groups)} ELSE {}

\* The ends of the matches that begin at i.  A group that has not matched is as
\* good as one that is empty.
EndsFrom(r, s, i, flags) ==
  {m.at : m \in Matches(r, s, Mark(i, [n \in Referred(r) |-> <<0, 0>>]), flags)}

Starts(r, s, flags) == {i \in 0..Len(s) : EndsFrom(r, s, i, flags) # {}}

Reps(r) == {p \in All(r) : p.op = "rep"}
Greedy(r) == \A p \in Reps(r) : ~p.lazy

\* The match that is to be found: the leftmost, and of these the longest one.
Meant(r, s, flags) ==
  LET starts == Starts(r, s, flags)
  IN IF starts = {} THEN [status |-> "REG_NOMATCH", rm_so |-> -1, rm_eo |-> -1]
     ELSE [status |-> "REG_OK", rm_so |-> Min(starts),
           rm_eo |-> Max(EndsFrom(r, s, Min(starts), flags))]
=============================================================================
