------------------------------ MODULE TreParse ------------------------------
(***************************************************************************)
(* tre_parse() (tre-parse.c): a recursive descent parser that keeps what it *)
(* has still to do on a stack of its own.  There is one action per symbol   *)
(* of the stack, and for PARSE_ATOM one per kind of atom.  ag always gives  *)
(* REG_EXTENDED, so what is done for basic regular expressions is left out, *)
(* and so is running out of memory.                                        *)
(***************************************************************************)
EXTENDS TreAst, SequencesExt, FiniteSetsExt

CONSTANTS StackMax,     \* the objects a stack may hold (10240 in tre_compile())
          RE_DUP_MAX    \* the largest count in a bound

ASSUME ParseAssumption == StackMax \in Nat /\ RE_DUP_MAX \in Nat

VARIABLES regex,              \* the bytes of the pattern, without the NUL
          cflags,             \* the flags that hold at this place
          re,                 \* offset of the next character
          submatch_id,        \* the number of the next group
          max_backref,        \* the largest back reference, or -1
          have_approx,        \* has a bound asked for approximate matching?
          stack,              \* symbols with their arguments, the top last
          result,             \* the tree of the expression read last
          depth,              \* how many groups are open
          temporary_cflags,   \* is \Q in force?
          status

place == <<regex, cflags, re>>
ids == <<submatch_id, max_backref, have_approx>>
parse_vars == <<regex, cflags, re, submatch_id, max_backref, have_approx,
                stack, result, depth, temporary_cflags, status>>

\* The character at offset i; the byte at re_end is NUL.
CharAt(s, i) == IF i < Len(s) THEN s[i + 1] ELSE 0
Here == CharAt(regex, re)
Ahead(n) == CharAt(regex, re + n)
AtEnd == re >= Len(regex)

-----------------------------------------------------------------------------
(* Bracket expressions *)

\* The maximal runs of neighbours in a set of characters, in their order.
Runs(S) ==
  LET firsts == SelectSeq([c \in 1..TRE_CHAR_MAX + 1 |-> c - 1],
                          LAMBDA c : c \in S /\ c - 1 \notin S)
  IN [i \in DOMAIN firsts |-> tre_ast_new_literal(firsts[i],
        Min({d \in S : d >= firsts[i] /\ d + 1 \notin S}))]

tre_expand_ctype(class, icase) ==
  Runs({c \in Byte : \/ c \in class
                     \/ icase /\ {ToLower(c), ToUpper(c)} \cap class # {}})

\* The opposite-case counterparts of min..max.
Counterparts(min, max) ==
  Runs({ToUpper(c) : c \in {d \in min..max : IsLower(d)}})
    \o Runs({ToLower(c) : c \in {d \in min..max : IsUpper(d)}})

BracketError(e) == [status |-> e, re |-> 0, items |-> <<>>]

\* tre_parse_bracket_items(): start is where the items begin, r the next one.
\* "[[:alpha:" is read on behind its end (OUTSIDE).
RECURSIVE BracketItems(_, _, _, _, _)
BracketItems(s, start, r, icase, items) ==
  LET end == Len(s)
      Single(min, max, next) ==
        BracketItems(s, start, next, icase,
                     items \o <<tre_ast_new_literal(min, max)>>
                       \o IF icase THEN Counterparts(min, max) ELSE <<>>)
      Marked(c) == r + 1 < end /\ CharAt(s, r) = CHAR_LBRACKET
                               /\ CharAt(s, r + 1) = c
      Colons == {i \in r + 2..end - 1 : CharAt(s, i) = CHAR_COLON}
      endptr == Min(Colons)
      named == {t \in tre_ctype_map : t.name = SubSeq(s, r + 3, endptr)}
  IN CASE r = end -> BracketError("REG_EBRACK")
       [] r > end -> BracketError("OUTSIDE")
       [] CharAt(s, r) = CHAR_RBRACKET /\ r > start ->
            [status |-> "REG_OK", re |-> r + 1, items |-> items]
       [] r + 2 < end /\ CharAt(s, r + 1) = CHAR_MINUS
                      /\ CharAt(s, r + 2) # CHAR_RBRACKET ->
            IF CharAt(s, r) > CharAt(s, r + 2) THEN BracketError("REG_ERANGE")
            ELSE Single(CharAt(s, r), CharAt(s, r + 2), r + 3)
       [] Marked(CHAR_PERIOD) \/ Marked(CHAR_EQUAL) ->
            BracketError("REG_ECOLLATE")
       [] Marked(CHAR_COLON) ->
            IF Colons = {} \/ named = {} THEN BracketError("REG_ECTYPE")
            ELSE BracketItems(s, start, endptr + 2, icase, items \o
                   tre_expand_ctype((CHOOSE t \in named : TRUE).class, icase))
       [] CharAt(s, r) = CHAR_MINUS /\ CharAt(s, r + 1) # CHAR_RBRACKET
                                    /\ r # start -> BracketError("REG_ERANGE")
       [] OTHER -> Single(CharAt(s, r), CharAt(s, r), r + 1)

\* What the items of a negated bracket leave: the gaps between them, found by
\* going over the items in the order of their first characters.
Negated(items) ==
  LET sorted == SortSeq(items, LAMBDA a, b : a.code_min < b.code_min)
      Step(acc, item) ==
        IF item.code_min < acc.curr_max
        THEN [acc EXCEPT !.curr_max = Max({item.code_max + 1, @})]
        ELSE [gaps |-> IF item.code_min - 1 >= acc.curr_min
                       THEN Append(acc.gaps, tre_ast_new_literal(
                                     acc.curr_min, item.code_min - 1))
                       ELSE acc.gaps,
              curr_min |-> item.code_max + 1, curr_max |-> item.code_max + 1]
      end == FoldLeft(Step, [gaps |-> <<>>, curr_min |-> 0, curr_max |-> 0],
                      sorted)
  IN Append(end.gaps, tre_ast_new_literal(end.curr_min, TRE_CHAR_MAX))

\* tre_parse_bracket(): r is behind the '['.
tre_parse_bracket(s, r, icase) ==
  LET negate == CharAt(s, r) = CHAR_CARET
      start == IF negate THEN r + 1 ELSE r
      b == BracketItems(s, start, start, icase, <<>>)
      parts == IF negate THEN Negated(b.items) ELSE b.items
  IN [status |-> b.status, re |-> b.re,
      node |-> IF b.status # "REG_OK" THEN NULL
               ELSE FoldLeft(tre_ast_new_union, parts[1], Tail(parts))]

-----------------------------------------------------------------------------
(* Bounds, with the parameters of approximate matching *)

INT_MAX == 2147483647
UNSET == -1     \* TRE_PARAM_UNSET

\* tre_parse_int(): the number at r, or -1, and where it ends.
Number(r) ==
  LET stop == Min({i \in r..Len(regex) : ~IsDigit(CharAt(regex, i))})
      Add(n, c) == IF n > 1000 THEN n ELSE 10 * n + (c - 48)
  IN [re |-> stop,
      n |-> IF stop = r THEN -1
            ELSE FoldLeft(Add, 0, SubSeq(regex, r + 1, stop))]

\* A limit that is missing means that there is none.
Limit(n) == IF n < 0 THEN INT_MAX ELSE n

\* The two loops of tre_parse_bound(): each of their steps gets on in the
\* pattern, or ends the loop and changes nothing more.
Ended(b) == b.done \/ b.re + 1 >= Len(regex)

\* The first loop: the limits of the kinds of errors, until something else.
KindOfLimit == (CHAR_PLUS :> "ins") @@ (CHAR_MINUS :> "del")
                 @@ (CHAR_HASH :> "subst") @@ (CHAR_TILDE :> "err")
Limits(b) ==
  LET c == CharAt(regex, b.re)
      num == Number(b.re + 1)
  IN IF c \in DOMAIN KindOfLimit
     THEN [b EXCEPT !.re = num.re, !.limits[KindOfLimit[c]] = Limit(num.n),
                    !.counts_set = @ \/ c # CHAR_TILDE,
                    !.approx = @ \/ c = CHAR_TILDE]
     ELSE IF c \in {CHAR_COMMA, 32} THEN [b EXCEPT !.re = @ + 1]
     ELSE [b EXCEPT !.done = TRUE]

\* The second loop: the equation of the costs.
KindOfCost == (105 :> "ins") @@ (100 :> "del") @@ (115 :> "subst")
Costs(b) ==
  LET c == CharAt(regex, b.re)
      num == Number(b.re)
      unit == CharAt(regex, num.re)
      bound == Min({i \in b.re + 1..Len(regex) : CharAt(regex, i) # 32})
      most == Number(bound)
  IN CASE c \in {CHAR_PLUS, 32} -> [b EXCEPT !.re = @ + 1]
       [] c = 60 -> [b EXCEPT !.re = most.re, !.approx = TRUE,
              !.costs["max"] = IF most.n < 0 THEN INT_MAX ELSE most.n - 1]
       [] c = CHAR_COMMA -> [b EXCEPT !.re = @ + 1, !.done = TRUE]
       [] IsDigit(c) /\ unit \in DOMAIN KindOfCost ->
            [b EXCEPT !.re = num.re + 1, !.costs[KindOfCost[unit]] = num.n,
                      !.costs_set = TRUE]
       [] IsDigit(c) /\ unit \notin DOMAIN KindOfCost ->
            [b EXCEPT !.status = "REG_BADBR", !.done = TRUE]
       [] OTHER -> [b EXCEPT !.done = TRUE]

\* The loop around the two, until neither of them gets on.
Restarted(b) == [b EXCEPT !.done = FALSE]
AllLimits(b) ==
  IF b.counts_set THEN b
  ELSE FoldLeft(LAMBDA x, i : IF Ended(x) THEN x ELSE Limits(x), Restarted(b), regex)
AllCosts(b) ==
  IF b.costs_set THEN b
  ELSE FoldLeft(LAMBDA x, i : IF Ended(x) THEN x ELSE Costs(x), Restarted(b), regex)
Parameters(b) == IF b.status # "REG_OK" THEN b ELSE AllCosts(AllLimits(b))
AllParameters(r) ==
  FoldLeft(LAMBDA b, i : Parameters(b),
           [re |-> r, status |-> "REG_OK", approx |-> FALSE, done |-> FALSE,
            counts_set |-> FALSE, costs_set |-> FALSE,
            limits |-> [k \in {"ins", "del", "subst", "err"} |-> UNSET],
            costs |-> [k \in {"ins", "del", "subst", "max"} |-> UNSET]],
           regex)

\* What is not limited by a count is limited by its cost, if it has one.
Params(b) ==
  LET Filled(k) == IF b.limits[k] # UNSET \/ ~(b.costs_set \/ b.counts_set)
                   THEN b.limits[k]
                   ELSE IF b.costs[k] = UNSET THEN 0 ELSE INT_MAX
  IN [costs |-> [b.costs EXCEPT !["max"] = Limit(@)],
      limits |-> [k \in DOMAIN b.limits |->
                    IF k = "err" THEN Limit(b.limits[k]) ELSE Filled(k)]]

\* The repetition that is asked for between the braces.
Bound(r, arg, min, max, b) ==
  LET lazy == CharAt(regex, b.re + 1) = CHAR_QUESTIONMARK
      once == min < 0 /\ max < 0
      iter == tre_ast_new_iter(arg, IF once THEN 1 ELSE min,
                               IF once THEN 1 ELSE max,
                               lazy # ("UNGREEDY" \in cflags))
      approx == b.approx \/ b.costs_set \/ b.counts_set
      Error(e) == [status |-> e, re |-> b.re, approx |-> FALSE, node |-> NULL]
  IN CASE max >= 0 /\ min > max -> Error("REG_BADBR")
       [] min > RE_DUP_MAX \/ max > RE_DUP_MAX -> Error("REG_BADMAX")
       [] b.status # "REG_OK" -> Error(b.status)
       [] b.re >= Len(regex) -> Error("REG_EBRACE")
       [] b.re = r \/ CharAt(regex, b.re) # CHAR_RBRACE -> Error("REG_BADBR")
       [] CharAt(regex, b.re + 1) \in {CHAR_STAR, CHAR_PLUS} ->
            Error("REG_BADRPT")
       [] OTHER -> [status |-> "REG_OK", re |-> b.re + IF lazy THEN 2 ELSE 1,
                    approx |-> approx /\ ~(min = 0 /\ max = 0),
                    node |-> IF min = 0 /\ max = 0
                             THEN tre_ast_new_literal(EMPTY, -1)
                             ELSE IF approx THEN iter @@ [params |-> Params(b)]
                             ELSE iter]

\* r is behind the '{', arg is what is repeated.
Counted(r, arg, first) ==
  IF CharAt(regex, first.re) = CHAR_COMMA
  THEN LET second == Number(first.re + 1)
       IN Bound(r, arg, Max({0, first.n}), second.n, AllParameters(second.re))
  ELSE Bound(r, arg, first.n, first.n, AllParameters(first.re))
tre_parse_bound(r, arg) == Counted(r, arg, Number(r))

-----------------------------------------------------------------------------
(* The parser *)

Frame(sym, arg) == <<sym, arg>>
Sym(sym) == <<sym>>

\* STACK_PUSHX: the objects a frame takes are its symbol and its argument.
Objects(s) == FoldLeft(LAMBDA n, f : n + Len(f), 0, s)
\* Mutant: the stack grows without end.
Push_Unbounded(base, frames) == stack' = base \o frames /\ UNCHANGED status
Push(base, frames) ==
  IF Objects(base \o frames) > StackMax
  THEN stack' = base /\ status' = "REG_ESPACE"
  ELSE stack' = base \o frames /\ UNCHANGED status

\* A nofirstsub of zero: the whole expression is group 0.
ParseInit(pattern, flags) ==
  /\ regex = pattern
  /\ cflags = flags
  /\ re = 0
  /\ submatch_id = 1
  /\ max_backref = -1
  /\ have_approx = FALSE
  /\ stack = <<Frame("PARSE_MARK_FOR_SUBMATCH", 0), Sym("PARSE_RE")>>
  /\ result = NULL
  /\ depth = 0
  /\ temporary_cflags = FALSE
  /\ status = "REG_OK"

Pop(sym) ==
  /\ status = "REG_OK"
  /\ stack # <<>>
  /\ Last(stack)[1] = sym
Rest == Front(stack)
Argument == Last(stack)[2]
Literal == "LITERAL" \in cflags

ParseRe ==
  /\ Pop("PARSE_RE")
  /\ Push(Rest, IF Literal THEN <<Sym("PARSE_BRANCH")>>
                ELSE <<Sym("PARSE_UNION"), Sym("PARSE_BRANCH")>>)
  /\ UNCHANGED <<place, ids, result, depth, temporary_cflags>>

ParseBranch ==
  /\ Pop("PARSE_BRANCH")
  /\ Push(Rest, <<Sym("PARSE_CATENATION"), Sym("PARSE_PIECE")>>)
  /\ UNCHANGED <<place, ids, result, depth, temporary_cflags>>

ParsePiece ==
  /\ Pop("PARSE_PIECE")
  /\ Push(Rest, IF Literal THEN <<Sym("PARSE_ATOM")>>
                ELSE <<Sym("PARSE_POSTFIX"), Sym("PARSE_ATOM")>>)
  /\ UNCHANGED <<place, ids, result, depth, temporary_cflags>>

GroupEnds == ~Literal /\ Here = CHAR_RPAREN /\ depth > 0
BranchEnds == AtEnd \/ GroupEnds \/ (~Literal /\ Here = CHAR_PIPE)

\* Mutant: the end of a group does not count.
ParseCatenation_StaysInGroup ==
  /\ Pop("PARSE_CATENATION")
  /\ IF BranchEnds THEN stack' = Rest /\ UNCHANGED status
     ELSE IF "RIGHT_ASSOC" \in cflags
     THEN Push(Rest, <<Frame("PARSE_POST_CATENATION", result),
                       Sym("PARSE_CATENATION"), Sym("PARSE_PIECE")>>)
     ELSE Push(Rest, <<Sym("PARSE_CATENATION"),
                       Frame("PARSE_POST_CATENATION", result),
                       Sym("PARSE_PIECE")>>)
  /\ UNCHANGED <<place, ids, result, depth, temporary_cflags>>

ParseCatenation ==
  /\ Pop("PARSE_CATENATION")
  /\ depth' = IF ~AtEnd /\ GroupEnds THEN depth - 1 ELSE depth
  /\ IF BranchEnds THEN stack' = Rest /\ UNCHANGED status
     ELSE IF "RIGHT_ASSOC" \in cflags
     THEN Push(Rest, <<Frame("PARSE_POST_CATENATION", result),
                       Sym("PARSE_CATENATION"), Sym("PARSE_PIECE")>>)
     ELSE Push(Rest, <<Sym("PARSE_CATENATION"),
                       Frame("PARSE_POST_CATENATION", result),
                       Sym("PARSE_PIECE")>>)
  /\ UNCHANGED <<place, ids, result, temporary_cflags>>

ParsePostCatenation ==
  /\ Pop("PARSE_POST_CATENATION")
  /\ result' = tre_ast_new_catenation(Argument, result)
  /\ stack' = Rest
  /\ UNCHANGED <<place, ids, depth, temporary_cflags, status>>

ParseUnion ==
  /\ Pop("PARSE_UNION")
  /\ re' = IF ~Literal /\ Here \in {CHAR_PIPE, CHAR_RPAREN} THEN re + 1 ELSE re
  /\ IF ~Literal /\ Here = CHAR_PIPE
     THEN Push(Rest, <<Sym("PARSE_UNION"), Frame("PARSE_POST_UNION", result),
                       Sym("PARSE_BRANCH")>>)
     ELSE stack' = Rest /\ UNCHANGED status
  /\ UNCHANGED <<regex, cflags, ids, result, depth, temporary_cflags>>

ParsePostUnion ==
  /\ Pop("PARSE_POST_UNION")
  /\ result' = tre_ast_new_union(Argument, result)
  /\ stack' = Rest
  /\ UNCHANGED <<place, ids, depth, temporary_cflags, status>>

Repeats == ~Literal /\ Here \in {CHAR_PLUS, CHAR_QUESTIONMARK, CHAR_STAR}
Bounded == ~Literal /\ Here = CHAR_LBRACE

PostfixNone ==
  /\ Pop("PARSE_POSTFIX") /\ ~Repeats /\ ~Bounded
  /\ stack' = Rest
  /\ UNCHANGED <<place, ids, result, depth, temporary_cflags, status>>

PostfixRepeat ==
  /\ Pop("PARSE_POSTFIX") /\ Repeats
  /\ LET lazy == Ahead(1) = CHAR_QUESTIONMARK
         ungreedy == "UNGREEDY" \in cflags
     IN IF Ahead(1) \in {CHAR_STAR, CHAR_PLUS}
        THEN status' = "REG_BADRPT" /\ UNCHANGED <<stack, re, result>>
        ELSE /\ Push(Rest, <<Sym("PARSE_POSTFIX")>>)
             /\ re' = re + IF lazy THEN 2 ELSE 1
             /\ result' = tre_ast_new_iter(result,
                            IF Here = CHAR_PLUS THEN 1 ELSE 0,
                            IF Here = CHAR_QUESTIONMARK THEN 1 ELSE -1,
                            IF lazy THEN ~ungreedy ELSE ungreedy)
  /\ UNCHANGED <<regex, cflags, ids, depth, temporary_cflags>>

PostfixBound ==
  /\ Pop("PARSE_POSTFIX") /\ Bounded
  /\ LET b == tre_parse_bound(re + 1, result)
     IN IF b.status # "REG_OK"
        THEN status' = b.status /\ UNCHANGED <<stack, re, result, have_approx>>
        ELSE /\ Push(Rest, <<Sym("PARSE_POSTFIX")>>)
             /\ re' = b.re
             /\ result' = b.node
             /\ have_approx' = (have_approx \/ b.approx)
  /\ UNCHANGED <<regex, cflags, submatch_id, max_backref, depth,
                 temporary_cflags>>

ParseMarkForSubmatch ==
  /\ Pop("PARSE_MARK_FOR_SUBMATCH")
  /\ result' = LET empty == tre_ast_new_literal(EMPTY, -1)
                   node == IF result.submatch_id >= 0
                           THEN tre_ast_new_catenation(empty, result)
                           ELSE result
               IN [node EXCEPT !.submatch_id = Argument,
                               !.num_submatches = @ + 1]
  /\ stack' = Rest
  /\ UNCHANGED <<place, ids, depth, temporary_cflags, status>>

ParseRestoreCflags ==
  /\ Pop("PARSE_RESTORE_CFLAGS")
  /\ cflags' = Argument
  /\ stack' = Rest
  /\ UNCHANGED <<regex, re, ids, result, depth, temporary_cflags, status>>

-----------------------------------------------------------------------------
(* PARSE_ATOM *)

Atom(c) == Pop("PARSE_ATOM") /\ ~AtEnd /\ ~Literal /\ Here = c
Escape(S) == Atom(CHAR_BACKSLASH) /\ Ahead(1) \in S

\* The result of an atom that is one node of the tree.
Becomes(node, next) ==
  /\ result' = node
  /\ re' = next
  /\ stack' = Rest
  /\ UNCHANGED status

FlagOf == [c \in {105, 110, 114, 85} |->      \* i n r U
  CASE c = 105 -> "ICASE" [] c = 110 -> "NEWLINE"
    [] c = 114 -> "RIGHT_ASSOC" [] OTHER -> "UNGREEDY"]

\* The loop over what is behind "(?".
RECURSIVE Extension(_, _, _)
Extension(r, flags, bit) ==
  LET c == CharAt(regex, r)
      Ok(next, colon) == [status |-> "REG_OK", re |-> next, flags |-> flags,
                          colon |-> colon]
      Parens == {i \in r..Len(regex) - 1 : CharAt(regex, i) = CHAR_RPAREN}
      Bad == [status |-> "REG_BADPAT", re |-> r, flags |-> flags,
              colon |-> FALSE]
  IN CASE c \in DOMAIN FlagOf ->
            Extension(r + 1, IF bit THEN flags \cup {FlagOf[c]}
                             ELSE flags \ {FlagOf[c]}, bit)
       [] c = CHAR_MINUS -> Extension(r + 1, flags, FALSE)
       [] c = CHAR_COLON -> Ok(r + 1, TRUE)
       [] c = CHAR_HASH -> IF Parens = {} THEN Bad ELSE Ok(Min(Parens) + 1, FALSE)
       [] c = CHAR_RPAREN -> Ok(r + 1, FALSE)
       [] OTHER -> Bad

\* "(?i-n)" and the like hold for the rest of the enclosing group, which is
\* parsed as an expression of its own.
AtomExtension ==
  /\ Atom(CHAR_LPAREN) /\ Ahead(1) = CHAR_QUESTIONMARK
  /\ LET x == Extension(re + 2, cflags, TRUE)
     IN IF x.status # "REG_OK"
        THEN status' = x.status /\ UNCHANGED <<stack, re, cflags, depth>>
        ELSE /\ Push(Rest, <<Frame("PARSE_RESTORE_CFLAGS", cflags),
                             Sym("PARSE_RE")>>)
             /\ re' = x.re
             /\ cflags' = x.flags
             /\ depth' = IF x.colon THEN depth + 1 ELSE depth
  /\ UNCHANGED <<regex, ids, result, temporary_cflags>>

AtomGroup ==
  /\ Atom(CHAR_LPAREN) /\ Ahead(1) # CHAR_QUESTIONMARK
  /\ Push(Rest, <<Frame("PARSE_MARK_FOR_SUBMATCH", submatch_id),
                  Sym("PARSE_RE")>>)
  /\ re' = re + 1
  /\ depth' = depth + 1
  /\ submatch_id' = submatch_id + 1
  /\ UNCHANGED <<regex, cflags, max_backref, have_approx, result,
                 temporary_cflags>>

\* An empty subexpression matches the empty string.
AtomGroupEnd ==
  /\ Atom(CHAR_RPAREN) /\ depth > 0
  /\ Becomes(tre_ast_new_literal(EMPTY, -1), re)
  /\ UNCHANGED <<regex, cflags, ids, depth, temporary_cflags>>

AtomBracket ==
  /\ Atom(CHAR_LBRACKET)
  /\ LET b == tre_parse_bracket(regex, re + 1, "ICASE" \in cflags)
     IN IF b.status # "REG_OK"
        THEN status' = b.status /\ UNCHANGED <<stack, re, result>>
        ELSE Becomes(b.node, b.re)
  /\ UNCHANGED <<regex, cflags, ids, depth, temporary_cflags>>

\* What the macros stand for: a character, or a bracket behind its '['.
Alnum_ == <<91, 58, 97, 108, 110, 117, 109, 58, 93, 95, 93>>
Space == <<91, 58, 115, 112, 97, 99, 101, 58, 93, 93>>
Digits == <<91, 58, 100, 105, 103, 105, 116, 58, 93, 93>>
tre_macros == (116 :> <<9>>) @@ (110 :> <<10>>) @@ (114 :> <<13>>)
  @@ (102 :> <<12>>) @@ (97 :> <<7>>) @@ (101 :> <<27>>)
  @@ (119 :> Alnum_) @@ (87 :> <<CHAR_CARET>> \o Alnum_)
  @@ (115 :> Space) @@ (83 :> <<CHAR_CARET>> \o Space)
  @@ (100 :> Digits) @@ (68 :> <<CHAR_CARET>> \o Digits)

\* The nested tre_parse() of an expansion, which is a single atom.
AtomMacro ==
  /\ Escape(DOMAIN tre_macros)
  /\ LET text == tre_macros[Ahead(1)]
     IN Becomes(IF Len(text) = 1 THEN tre_ast_new_literal(text[1], text[1])
                ELSE tre_parse_bracket(text, 0, "ICASE" \in cflags).node, re + 2)
  /\ UNCHANGED <<regex, cflags, ids, depth, temporary_cflags>>

AtomTrailingBackslash ==
  /\ Atom(CHAR_BACKSLASH) /\ re + 1 >= Len(regex)
  /\ status' = "REG_EESCAPE"
  /\ UNCHANGED <<place, ids, stack, result, depth, temporary_cflags>>

\* \Q
AtomQuote ==
  /\ Escape({81})
  /\ Push(Rest, <<Sym("PARSE_ATOM")>>)
  /\ re' = re + 2
  /\ cflags' = cflags \cup {"LITERAL"}
  /\ temporary_cflags' = TRUE
  /\ UNCHANGED <<regex, ids, result, depth>>

WordAssertions == (98 :> ASSERT_AT_WB) @@ (66 :> ASSERT_AT_WB_NEG)
  @@ (60 :> ASSERT_AT_BOW) @@ (62 :> ASSERT_AT_EOW)

AtomWordAssertion ==
  /\ Escape(DOMAIN WordAssertions)
  /\ Becomes(tre_ast_new_literal(ASSERTION, WordAssertions[Ahead(1)]), re + 2)
  /\ UNCHANGED <<regex, cflags, ids, depth, temporary_cflags>>

HexValue(c) == IF IsDigit(c) THEN c - 48 ELSE ToUpper(c) - 55

\* \x with up to two digits, or with any number of them in braces.
AtomHex ==
  /\ Escape({120}) /\ re + 2 < Len(regex)
  /\ LET wide == Ahead(2) = CHAR_LBRACE
         from == IF wide THEN re + 3 ELSE re + 2
         stop == Min({i \in from..Len(regex) : ~IsXDigit(CharAt(regex, i))}
                       \cup IF wide THEN {} ELSE {from + 2})
         val == FoldLeft(LAMBDA n, c : 16 * n + HexValue(c), 0,
                         SubSeq(regex, from + 1, stop))
     IN IF wide /\ (CharAt(regex, stop) # CHAR_RBRACE \/ stop - from > 8)
        THEN status' = "REG_EBRACE" /\ UNCHANGED <<stack, re, result>>
        ELSE Becomes(tre_ast_new_literal(val, val),
                     IF wide THEN stop + 1 ELSE stop)
  /\ UNCHANGED <<regex, cflags, ids, depth, temporary_cflags>>

AtomBackref ==
  /\ Escape(48..57)
  /\ LET val == Ahead(1) - 48
     IN /\ Becomes(tre_ast_new_literal(BACKREF, val), re + 2)
        /\ max_backref' = Max({val, max_backref})
  /\ UNCHANGED <<regex, cflags, submatch_id, have_approx, depth,
                 temporary_cflags>>

\* Any other character; of a trailing \x the NUL behind the pattern.
AtomEscaped ==
  /\ Atom(CHAR_BACKSLASH) /\ re + 1 < Len(regex)
  /\ LET x == Ahead(1) = 120
         c == IF x THEN Ahead(2) ELSE Ahead(1)
     IN /\ x => re + 2 >= Len(regex)
        /\ Ahead(1) \notin DOMAIN tre_macros \cup DOMAIN WordAssertions
                             \cup {81} \cup 48..57
        /\ Becomes(tre_ast_new_literal(c, c), re + IF x THEN 3 ELSE 2)
  /\ UNCHANGED <<regex, cflags, ids, depth, temporary_cflags>>

AtomPeriod ==
  /\ Atom(CHAR_PERIOD)
  /\ Becomes(IF "NEWLINE" \in cflags
             THEN tre_ast_new_union(
                    tre_ast_new_literal(0, Newline - 1),
                    tre_ast_new_literal(Newline + 1, TRE_CHAR_MAX))
             ELSE tre_ast_new_literal(0, TRE_CHAR_MAX), re + 1)
  /\ UNCHANGED <<regex, cflags, ids, depth, temporary_cflags>>

AtomLineAssertion ==
  /\ Atom(CHAR_CARET) \/ Atom(CHAR_DOLLAR)
  /\ Becomes(tre_ast_new_literal(ASSERTION,
       IF Here = CHAR_CARET THEN ASSERT_AT_BOL ELSE ASSERT_AT_EOL), re + 1)
  /\ UNCHANGED <<regex, cflags, ids, depth, temporary_cflags>>

\* The label parse_literal: what is no other atom, everything behind \Q, and
\* the end of the expression.
AtLiteral ==
  /\ Pop("PARSE_ATOM")
  /\ \/ AtEnd
     \/ Literal
     \/ Here \notin {CHAR_LPAREN, CHAR_LBRACKET, CHAR_BACKSLASH, CHAR_PERIOD,
                     CHAR_CARET, CHAR_DOLLAR, CHAR_RPAREN}
     \/ (Here = CHAR_RPAREN /\ depth <= 0)
EndOfQuote == temporary_cflags /\ Here = CHAR_BACKSLASH /\ Ahead(1) = 69
Nothing == ~Literal /\ (AtEnd \/ Here \in {CHAR_STAR, CHAR_PIPE, CHAR_LBRACE,
                                           CHAR_PLUS, CHAR_QUESTIONMARK})

AtomEndOfQuote ==
  /\ AtLiteral /\ EndOfQuote
  /\ Push(Rest, <<Sym("PARSE_PIECE")>>)
  /\ re' = re + 2
  /\ cflags' = cflags \ {"LITERAL"}
  /\ temporary_cflags' = FALSE
  /\ UNCHANGED <<regex, ids, result, depth>>

AtomLiteral ==
  /\ AtLiteral /\ ~EndOfQuote
  /\ LET either == tre_ast_new_union(
           tre_ast_new_literal(ToUpper(Here), ToUpper(Here)),
           tre_ast_new_literal(ToLower(Here), ToLower(Here)))
         letter == IsUpper(Here) \/ IsLower(Here)
     IN IF Nothing THEN Becomes(tre_ast_new_literal(EMPTY, -1), re)
        ELSE Becomes(IF "ICASE" \in cflags /\ letter THEN either
                     ELSE tre_ast_new_literal(Here, Here), re + 1)
  /\ UNCHANGED <<regex, cflags, ids, depth, temporary_cflags>>

\* A group that is still open when the stack is empty.
ParseUnclosed ==
  /\ status = "REG_OK" /\ stack = <<>> /\ depth > 0
  /\ status' = "REG_EPAREN"
  /\ UNCHANGED <<place, ids, stack, result, depth, temporary_cflags>>

tre_parse ==
  \/ ParseRe \/ ParseBranch \/ ParsePiece \/ ParseCatenation
  \/ ParsePostCatenation \/ ParseUnion \/ ParsePostUnion
  \/ PostfixNone \/ PostfixRepeat \/ PostfixBound
  \/ ParseMarkForSubmatch \/ ParseRestoreCflags
  \/ AtomExtension \/ AtomGroup \/ AtomGroupEnd \/ AtomBracket \/ AtomMacro
  \/ AtomTrailingBackslash \/ AtomQuote \/ AtomWordAssertion \/ AtomHex
  \/ AtomBackref \/ AtomEscaped \/ AtomPeriod \/ AtomLineAssertion
  \/ AtomEndOfQuote \/ AtomLiteral \/ ParseUnclosed

Parsed == stack = <<>> /\ depth <= 0 /\ status = "REG_OK"
=============================================================================
