-------------------------------- MODULE Tre --------------------------------
(***************************************************************************)
(* The life of a regular expression in ag: tre_compile() parses the pattern *)
(* and builds the automaton, which tre_regnexec() then runs over a text.    *)
(***************************************************************************)
EXTENDS TreParse, TreMatch

CONSTANTS Patterns,   \* records: a pattern, its flags, the texts it is run over
          Texts       \* the sets of texts, by name

VARIABLES given,      \* the pattern that was chosen
          phase       \* "parse", "compiled", "match", or "failed"

vars == <<parse_vars, match_vars, tnfa, given, phase>>

NoTnfa == [num_tags |-> 0]

Init ==
  /\ given \in Patterns
  /\ ParseInit(given.regex, given.cflags)
  /\ MatchInit
  /\ tnfa = NoTnfa
  /\ phase = "parse"

Parse ==
  /\ phase = "parse"
  /\ tre_parse
  /\ UNCHANGED <<match_vars, tnfa, given, phase>>

\* The tests between the parser and the rest, and error_exit.  The tree and the
\* stack are gone afterwards.
CompileStatus ==
  CASE status # "REG_OK" -> status
    [] max_backref >= 0 /\ have_approx -> "REG_BADPAT"
    [] max_backref > submatch_id - 1 -> "REG_ESUBREG"
    [] OTHER -> "REG_OK"

Compile ==
  /\ phase = "parse" /\ (Parsed \/ status # "REG_OK")
  /\ status' = CompileStatus
  /\ IF CompileStatus = "REG_OK"
     THEN /\ tnfa' = tre_compile(result, submatch_id, cflags, max_backref >= 0)
          /\ phase' = "compiled"
     ELSE tnfa' = NoTnfa /\ phase' = "failed"
  /\ result' = NULL /\ stack' = <<>>
  /\ UNCHANGED <<place, ids, depth, temporary_cflags, given, match_vars>>

\* An expression with approximate parts goes to a matcher that is not modelled.
Regnexec ==
  /\ phase = "compiled" /\ ~have_approx
  /\ \E text \in Texts[given.texts] : tre_match(text)
  /\ phase' = "match"
  /\ UNCHANGED <<parse_vars, given>>

Match ==
  /\ phase = "match"
  /\ tre_tnfa_run_parallel \/ tre_tnfa_run_backtrack
  /\ UNCHANGED <<parse_vars, given, phase>>

Next == Parse \/ Compile \/ Regnexec \/ Match

\* A matcher goes on as long as it can.  The parallel one always reads a
\* character or returns: its fairness is stated of that, so that it need not be
\* worked out what it is left with.
Backtracks ==
  /\ phase = "match" /\ tre_tnfa_run_backtrack
  /\ UNCHANGED <<parse_vars, given, phase>>
Reads ==
  /\ phase = "match" /\ matcher = "parallel"
  /\ \/ pos' = pos + 1 /\ matcher' = matcher
     \/ pos' = -1 /\ matcher' = "none"

Spec == Init /\ [][Next]_vars /\ WF_vars(Backtracks) /\ WF_<<pos, matcher>>(Reads)

-----------------------------------------------------------------------------
(* Properties *)

Statuses == {"REG_OK", "REG_BADPAT", "REG_BADBR", "REG_BADMAX", "REG_BADRPT",
             "REG_EBRACE", "REG_EBRACK", "REG_ECTYPE", "REG_ECOLLATE",
             "REG_EESCAPE", "REG_EPAREN", "REG_ERANGE", "REG_ESPACE",
             "REG_ESUBREG", "OUTSIDE"}

\* The parser's stack never holds more than it may, its place stays inside the
\* pattern, and the matchers stay inside the text and the automaton.
TypeOK ==
  /\ phase \in {"parse", "compiled", "match", "failed"}
  /\ status \in Statuses
  /\ Objects(stack) <= StackMax
  /\ re \in 0..Len(regex) + 1
  /\ depth \in 0..Len(regex) /\ submatch_id \in 1..Len(regex) + 1
  /\ {pos, pos_start, match_eo} \subseteq -1..Len(str)
  /\ {prev_c, next_c} \subseteq Byte
  /\ matcher \in {"parallel", "backtrack", "none"}
  /\ matcher # "none" =>
       /\ states_seen \cup {reach_next[i].state : i \in DOMAIN reach_next}
            \subseteq DOMAIN tnfa.transitions
       /\ state \in DOMAIN tnfa.transitions \cup {-1}
       /\ DOMAIN match_tags \subseteq TagNumbers

\* The two passes of tre_add_tags() agree (an assertion of tre_compile()): the
\* tags that were counted are those that are set, and the automaton is made for
\* no others.
TagsAgree ==
  phase = "compiled" =>
    /\ tnfa.counted_tags = tnfa.num_tags
    /\ \A i \in DOMAIN tnfa.initial : tnfa.initial[i].tags \subseteq TagNumbers
    /\ \A s \in DOMAIN tnfa.transitions : \A i \in DOMAIN tnfa.transitions[s] :
         tnfa.transitions[s][i].tags \subseteq TagNumbers
    /\ \A i \in DOMAIN tnfa.submatch_data :
         {tnfa.submatch_data[i].so_tag, tnfa.submatch_data[i].eo_tag}
           \subseteq 0..tnfa.end_tag
    /\ \A t \in TagNumbers : tnfa.tag_directions[t] # "UNSET"

\* When a group is read again, it and all groups before it begin before they end
\* (an assertion of tre_fill_pmatch(), which holds before the groups outside their
\* parents are reset), and the group that is read lies in the part of the text
\* this attempt has read.
GroupsForward ==
  (matcher = "backtrack" /\ state >= 0 /\ state # tnfa.final /\ IsBackref(state))
    => LET held == Leaving(state)[1].backref
           m == tre_fill_pmatch(held, tags, pos)
       IN /\ \A id \in 0..held :
               LET g == Ends(id, tags, pos) IN g.rm_so <= g.rm_eo
          /\ m.rm_so = -1 \/ (pos_start <= m.rm_so /\ m.rm_eo <= pos)

\* Every search ends: an empty back reference is not followed for ever, and no
\* way is tried again and again.
Termination == (matcher # "none") ~> (pmatch # NotYet)
=============================================================================
