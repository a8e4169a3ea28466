------------------------------- MODULE TreAst -------------------------------
(***************************************************************************)
(* Characters, syntax trees and classes of the regular expression library  *)
(* (tre-ast.c, tre-ast.h and the head of tre-parse.c), as ag builds it: no  *)
(* wide and no multibyte characters, so a character is a byte.             *)
(***************************************************************************)
EXTENDS Integers, Sequences, FiniteSets

CHAR_PIPE == 124
CHAR_LPAREN == 40
CHAR_RPAREN == 41
CHAR_LBRACE == 123
CHAR_RBRACE == 125
CHAR_LBRACKET == 91
CHAR_RBRACKET == 93
CHAR_MINUS == 45
CHAR_STAR == 42
CHAR_QUESTIONMARK == 63
CHAR_PLUS == 43
CHAR_PERIOD == 46
CHAR_COLON == 58
CHAR_EQUAL == 61
CHAR_COMMA == 44
CHAR_CARET == 94
CHAR_DOLLAR == 36
CHAR_BACKSLASH == 92
CHAR_HASH == 35
CHAR_TILDE == 126

TRE_CHAR_MAX == 255
Newline == 10
Byte == 0..TRE_CHAR_MAX

IsLower(c) == c \in 97..122
IsUpper(c) == c \in 65..90
IsDigit(c) == c \in 48..57
IsAlnum(c) == IsLower(c) \/ IsUpper(c) \/ IsDigit(c)
IsXDigit(c) == IsDigit(c) \/ c \in 65..70 \/ c \in 97..102
IsWord(c) == IsAlnum(c) \/ c = 95
ToUpper(c) == IF IsLower(c) THEN c - 32 ELSE c
ToLower(c) == IF IsUpper(c) THEN c + 32 ELSE c

\* The name of each class, spelled, and the characters in it.  The Jamfile defines
\* neither HAVE_ISASCII nor HAVE_ISBLANK, so these two classes do not exist.
tre_ctype_map == {
  [name |-> <<97, 108, 110, 117, 109>>, class |-> {c \in Byte : IsAlnum(c)}],
  [name |-> <<97, 108, 112, 104, 97>>, class |-> (65..90) \cup (97..122)],
  [name |-> <<99, 110, 116, 114, 108>>, class |-> (0..31) \cup {127}],
  [name |-> <<100, 105, 103, 105, 116>>, class |-> 48..57],
  [name |-> <<103, 114, 97, 112, 104>>, class |-> 33..126],
  [name |-> <<108, 111, 119, 101, 114>>, class |-> 97..122],
  [name |-> <<112, 114, 105, 110, 116>>, class |-> 32..126],
  [name |-> <<112, 117, 110, 99, 116>>,
   class |-> {c \in 33..126 : ~IsAlnum(c)}],
  [name |-> <<115, 112, 97, 99, 101>>, class |-> (9..13) \cup {32}],
  [name |-> <<117, 112, 112, 101, 114>>, class |-> 65..90],
  [name |-> <<120, 100, 105, 103, 105, 116>>,
   class |-> {c \in Byte : IsXDigit(c)}]}

-----------------------------------------------------------------------------
\* Codes below zero in code_min mark the literals that match no character.
EMPTY == -1
ASSERTION == -2
TAG == -3
BACKREF == -4

ASSERT_AT_BOL == 1
ASSERT_AT_EOL == 2
ASSERT_AT_BOW == 16
ASSERT_AT_EOW == 32
ASSERT_AT_WB == 64
ASSERT_AT_WB_NEG == 128

NULL == [type |-> "NULL"]

tre_ast_new_literal(min, max) ==
  [type |-> "LITERAL", code_min |-> min, code_max |-> max,
   submatch_id |-> -1, num_submatches |-> 0, num_tags |-> 0]

tre_ast_new_iter(arg, min, max, minimal) ==
  [type |-> "ITERATION", arg |-> arg, min |-> min, max |-> max,
   minimal |-> minimal, submatch_id |-> -1,
   num_submatches |-> arg.num_submatches, num_tags |-> 0]

\* tre_ast_new_union() and tre_ast_new_catenation().
Pair(type, left, right) ==
  [type |-> type, left |-> left, right |-> right, submatch_id |-> -1,
   num_submatches |-> left.num_submatches + right.num_submatches,
   num_tags |-> 0]
tre_ast_new_union(left, right) == Pair("UNION", left, right)
tre_ast_new_catenation(left, right) == Pair("CATENATION", left, right)

IS_BACKREF(lit) == lit.code_min = BACKREF
IS_SPECIAL(lit) == lit.code_min < 0
IS_TAG(lit) == lit.code_min = TAG
=============================================================================
