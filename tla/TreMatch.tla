------------------------------ MODULE TreMatch ------------------------------
(***************************************************************************)
(* tre_regnexec() (regexec.c) with the two exact matchers: the parallel one *)
(* (tre-match-parallel.c), a step for each character, and the backtracking   *)
(* one for back references (tre-match-backtrack.c), a step for each turn of  *)
(* its loop.  ag asks for one group, the whole match, and sets no flag.      *)
(***************************************************************************)
EXTENDS TreCompile

VARIABLES tnfa,          \* the automaton, as tre_compile() returns it
          str,           \* the text
          pos, prev_c, next_c,   \* how far it is read, and the characters there
          match_eo,      \* the end of the best match, or -1
          match_tags,    \* the tags of the best match
          reach_next,    \* parallel: the states reached, with their tags
          new_match,     \* parallel: is the best match a new one?
          state,         \* backtracking: the state, or -1 (the label backtrack)
          tags,          \*   its tags
          bt_stack,      \*   what is left to try, the top last
          states_seen,   \*   the states with an empty back reference behind them
          pos_start,     \*   where this attempt begins
          matcher,       \* "parallel", "backtrack", or "none" when nothing runs
          pmatch         \* the result

parallel_vars == <<reach_next, new_match>>
backtrack_vars == <<state, tags, bt_stack, states_seen, pos_start>>
match_vars == <<str, pos, prev_c, next_c, match_eo, match_tags,
                reach_next, new_match, state, tags, bt_stack, states_seen,
                pos_start, matcher, pmatch>>

\* The character at a position, which is NUL behind the text.
StrAt(p) == IF p < Len(str) THEN str[p + 1] ELSE 0

-----------------------------------------------------------------------------
(* tre-match-utils.h *)

\* Does assertion a fail at p, between prev and next?
Fails(a, p, prev, next) ==
  CASE a = ASSERT_AT_BOL -> p > 0 /\ (prev # Newline \/ ~tnfa.newline)
    [] a = ASSERT_AT_EOL -> next # 0 /\ (next # Newline \/ ~tnfa.newline)
    [] a = ASSERT_AT_BOW -> IsWord(prev) \/ ~IsWord(next)
    [] a = ASSERT_AT_EOW -> ~IsWord(prev) \/ IsWord(next)
    [] a = ASSERT_AT_WB -> p # 0 /\ next # 0 /\ (IsWord(prev) <=> IsWord(next))
    [] OTHER -> p = 0 \/ next = 0 \/ (IsWord(prev) <=> ~IsWord(next))
CHECK_ASSERTIONS(assertions, p, prev, next) ==
  \E a \in assertions : Fails(a, p, prev, next)

TagNumbers == 0..tnfa.num_tags - 1
NoTags == [t \in TagNumbers |-> -1]
\* The tags on a transition are set to where it ends.
SetTags(t1, set, p) == [t \in TagNumbers |-> IF t \in set THEN p ELSE t1[t]]

\* Does t1 win over t2?  The first tag that differs tells.
tre_tag_order(t1, t2) ==
  \E i \in TagNumbers :
    /\ \A j \in 0..i - 1 : t1[j] = t2[j]
    /\ IF tnfa.tag_directions[i] = "MINIMIZE" THEN t1[i] < t2[i]
       ELSE t1[i] > t2[i]

\* Does a transition leave on c, and hold at p?
Leaves(t, c) == t.code_min <= c /\ c <= t.code_max
Follows(t, p, prev, next) ==
  Leaves(t, prev) /\ ~CHECK_ASSERTIONS(t.assertions, p, prev, next)

-----------------------------------------------------------------------------
(* tre_fill_pmatch() *)

TagValue(tag, t, eo) == IF tag = tnfa.end_tag THEN eo ELSE t[tag]
Ends(id, t, eo) ==
  LET so == TagValue(tnfa.submatch_data[id].so_tag, t, eo)
      end == TagValue(tnfa.submatch_data[id].eo_tag, t, eo)
  IN IF so = -1 \/ end = -1 THEN [rm_so |-> -1, rm_eo |-> -1]
     ELSE [rm_so |-> so, rm_eo |-> end]

\* A group is reset when it is not within all of its parents, whose own ends
\* have been reset before.
RECURSIVE tre_fill_pmatch(_, _, _)
tre_fill_pmatch(id, t, eo) ==
  LET m == Ends(id, t, eo)
      within(p) == LET o == tre_fill_pmatch(p, t, eo)
                   IN ~(m.rm_so < o.rm_so \/ m.rm_eo > o.rm_eo)
  IN IF \A p \in tnfa.submatch_data[id].parents : within(p) THEN m
     ELSE [rm_so |-> -1, rm_eo |-> -1]

-----------------------------------------------------------------------------
(* tre_match() *)

Offsets(m) == [status |-> "REG_OK", rm_so |-> m.rm_so, rm_eo |-> m.rm_eo]
NoMatch == [status |-> "REG_NOMATCH", rm_so |-> -1, rm_eo |-> -1]
NotYet == [status |-> "running", rm_so |-> -1, rm_eo |-> -1]

MatchInit ==
  /\ str = <<>> /\ pos = -1 /\ prev_c = 0 /\ next_c = 0
  /\ match_eo = -1 /\ match_tags = <<>>
  /\ reach_next = <<>> /\ new_match = FALSE
  /\ state = -1 /\ tags = <<>> /\ bt_stack = <<>> /\ states_seen = {}
  /\ pos_start = -1
  /\ matcher = "none" /\ pmatch = NotYet

\* The matcher is left, and the local variables of it are gone.
Return(m) ==
  /\ pmatch' = m
  /\ matcher' = "none"
  /\ pos' = -1 /\ prev_c' = 0 /\ next_c' = 0
  /\ match_eo' = -1 /\ match_tags' = <<>>
  /\ reach_next' = <<>> /\ new_match' = FALSE
  /\ state' = -1 /\ tags' = <<>> /\ bt_stack' = <<>> /\ states_seen' = {}
  /\ pos_start' = -1
  /\ UNCHANGED str

Finish(eo, t) ==
  Return(IF eo < 0 THEN NoMatch ELSE Offsets(tre_fill_pmatch(0, t, eo)))

\* The initial states that can be entered at p.
InitialStates(p, prev, next) ==
  SelectSeq(tnfa.initial,
            LAMBDA t : ~CHECK_ASSERTIONS(t.assertions, p, prev, next))

-----------------------------------------------------------------------------
(* tre_tnfa_run_parallel() *)

Best(eo, t, new) == [eo |-> eo, tags |-> t, new |-> new]
Position(reach, s) == {i \in DOMAIN reach : reach[i].state = s}

\* The initial states that are not in reach yet, and an empty match.
AddInitial(reach, best, p, prev, next) ==
  LET Add(acc, t) ==
        LET set == SetTags(NoTags, t.tags, p)
        IN IF Position(acc.reach, t.position) # {} THEN acc
           ELSE [reach |-> Append(acc.reach, [state |-> t.position, tags |-> set]),
                 best |-> IF t.position = tnfa.final THEN Best(p, set, TRUE)
                          ELSE acc.best]
  IN IF best.eo >= 0 THEN [reach |-> reach, best |-> best]
     ELSE FoldLeft(Add, [reach |-> reach, best |-> best],
                   InitialStates(p, prev, next))

\* The states that a minimal repetition does not rule out.
Weed(reach, best) ==
  SelectSeq(reach, LAMBDA r : \A i \in DOMAIN tnfa.minimal_tags :
    LET m == tnfa.minimal_tags[i]
    IN /\ m.end < tnfa.num_tags
       /\ ~(r.tags[m.start] = best.tags[m.start]
            /\ r.tags[m.end] < best.tags[m.end]))

\* Mutant: a match that begins later may replace one that is found.
Take_AnyStart(acc, t, from_tags, p) ==
  LET set == SetTags(from_tags, t.tags, p)
      there == Position(acc.reach, t.to)
      best == IF t.to = tnfa.final THEN Best(p, set, TRUE) ELSE acc.best
  IN IF there = {}
     THEN [reach |-> Append(acc.reach, [state |-> t.to, tags |-> set]), best |-> best]
     ELSE IF tre_tag_order(set, acc.reach[Min(there)].tags)
     THEN [reach |-> [acc.reach EXCEPT ![Min(there)].tags = set], best |-> best]
     ELSE acc

\* One transition: into a state not reached before, or by a better way.
Take(acc, t, from_tags, p) ==
  LET set == SetTags(from_tags, t.tags, p)
      there == Position(acc.reach, t.to)
      first == \/ acc.best.eo = -1
               \/ tnfa.num_tags > 0 /\ set[0] <= acc.best.tags[0]
      Won(cond) == IF t.to = tnfa.final /\ cond THEN Best(p, set, TRUE)
                   ELSE acc.best
  IN IF there = {}
     THEN [reach |-> Append(acc.reach, [state |-> t.to, tags |-> set]),
           best |-> Won(first)]
     ELSE IF tre_tag_order(set, acc.reach[Min(there)].tags)
     THEN [reach |-> [acc.reach EXCEPT ![Min(there)].tags = set],
           best |-> Won(TRUE)]
     ELSE acc

\* All transitions of the states in reach, in order.
Transitions(reach, best, p, prev, next) ==
  FoldLeft(LAMBDA acc, r :
             FoldLeft(LAMBDA acc2, t : Take(acc2, t, r.tags, p), acc,
                      SelectSeq(tnfa.transitions[r.state],
                                LAMBDA t : Follows(t, p, prev, next))),
           [reach |-> <<>>, best |-> best], reach)

\* If a match can only begin with one character, that is looked for first.
ParallelStart(text) ==
  LET found == {i \in 1..Len(text) : text[i] = tnfa.first_char}
      at == IF tnfa.first_char < 0 THEN 0 ELSE Min(found) - 1
  IN /\ str' = text
     /\ IF tnfa.first_char >= 0 /\ found = {}
        THEN /\ pmatch' = NoMatch
             /\ UNCHANGED <<pos, prev_c, next_c, match_eo, match_tags,
                            parallel_vars, backtrack_vars, matcher>>
        ELSE /\ pos' = at
             /\ prev_c' = IF at = 0 THEN 0 ELSE text[at]
             /\ next_c' = IF at = Len(text) THEN 0 ELSE text[at + 1]
             /\ match_eo' = -1 /\ match_tags' = NoTags
             /\ reach_next' = <<>> /\ new_match' = FALSE
             /\ matcher' = "parallel"
             /\ UNCHANGED <<backtrack_vars, pmatch>>

\* Once there is a match it is followed as long as it can grow.
tre_tnfa_run_parallel ==
  /\ matcher = "parallel"
  /\ LET grown == match_eo >= 0 /\ (tnfa.num_tags = 0 \/ reach_next = <<>>)
         now == AddInitial(reach_next, Best(match_eo, match_tags, new_match),
                           pos, prev_c, next_c)
         weeds == tnfa.minimal_tags # <<>> /\ now.best.new
         next == StrAt(pos + 1)
         then == Transitions(IF weeds THEN Weed(now.reach, now.best) ELSE now.reach,
                             [now.best EXCEPT !.new = @ /\ ~weeds],
                             pos + 1, next_c, next)
     IN IF grown \/ pos >= Len(str) THEN Finish(now.best.eo, now.best.tags)
        ELSE /\ pos' = pos + 1 /\ prev_c' = next_c /\ next_c' = next
             /\ reach_next' = then.reach
             /\ match_eo' = then.best.eo
             /\ match_tags' = then.best.tags
             /\ new_match' = then.best.new
             /\ UNCHANGED <<str, backtrack_vars, matcher, pmatch>>
  /\ UNCHANGED tnfa

-----------------------------------------------------------------------------
(* tre_tnfa_run_backtrack() *)

\* The label retry: from the initial states that can be entered at p, the
\* first is taken and the others are kept.
Retry(text, p, prev) ==
  LET next == IF p < Len(text) THEN text[p + 1] ELSE 0
      from == InitialStates(p, prev, next)
      items == [i \in DOMAIN from |->
                 [pos |-> p, state |-> from[i].position, next_c |-> next,
                  tags |-> SetTags(NoTags, from[i].tags, p)]]
  IN /\ pos' = p /\ pos_start' = p /\ prev_c' = prev /\ next_c' = next
     /\ match_tags' = NoTags
     /\ states_seen' = {}
     /\ state' = IF from = <<>> THEN -1 ELSE items[1].state
     /\ tags' = IF from = <<>> THEN NoTags ELSE items[1].tags
     /\ bt_stack' = IF from = <<>> THEN <<>> ELSE Tail(items)

BacktrackStart(text) ==
  /\ str' = text
  /\ Retry(text, 0, 0)
  /\ match_eo' = -1
  /\ matcher' = "backtrack"
  /\ UNCHANGED <<parallel_vars, pmatch>>

Leaving(s) == tnfa.transitions[s]
IsBackref(s) == Leaving(s) # <<>> /\ Leaving(s)[1].backref >= 0

\* The final state is reached, by a longer way or by a better one.
MatchFound ==
  /\ matcher = "backtrack" /\ state = tnfa.final
  /\ LET wins == match_eo < pos
                 \/ (match_eo = pos /\ tre_tag_order(tags, match_tags))
     IN /\ match_eo' = IF wins THEN pos ELSE match_eo
        /\ match_tags' = IF wins THEN tags ELSE match_tags
  /\ state' = -1
  /\ UNCHANGED <<tnfa, str, pos, prev_c, next_c, parallel_vars, tags, bt_stack,
                 states_seen, pos_start, matcher, pmatch>>

\* The transitions that follow: the first is taken, the others are kept.
Follow(p, prev) ==
  LET next == StrAt(p)
      ways == SelectSeq(Leaving(state), LAMBDA t : Follows(t, p, prev, next))
      items == [i \in DOMAIN ways |->
                 [pos |-> p, state |-> ways[i].to, next_c |-> next,
                  tags |-> SetTags(tags, ways[i].tags, p)]]
  IN /\ pos' = p /\ prev_c' = prev /\ next_c' = next
     /\ state' = IF ways = <<>> THEN -1 ELSE items[1].state
     /\ tags' = IF ways = <<>> THEN tags ELSE items[1].tags
     /\ bt_stack' = IF ways = <<>> THEN bt_stack ELSE bt_stack \o Tail(items)

Backtrack_ ==
  /\ state' = -1
  /\ UNCHANGED <<pos, prev_c, next_c, tags, bt_stack, states_seen>>

ReadCharacter ==
  /\ matcher = "backtrack" /\ state >= 0 /\ state # tnfa.final
  /\ ~IsBackref(state)
  /\ IF pos >= Len(str) THEN Backtrack_
     ELSE Follow(pos + 1, next_c) /\ UNCHANGED states_seen
  /\ UNCHANGED <<tnfa, str, match_eo, match_tags, parallel_vars, pos_start,
                 matcher, pmatch>>

\* What group m holds is at p again.
SameAgain(m, p) ==
  LET bt_len == m.rm_eo - m.rm_so
  IN /\ Len(str) - p >= bt_len
     /\ \A k \in 0..bt_len - 1 : str[m.rm_so + k + 1] = str[p + k + 1]

\* Mutant: an empty group is read again and again.
ReadBackref_Again ==
  /\ matcher = "backtrack" /\ state >= 0 /\ state # tnfa.final
  /\ IsBackref(state)
  /\ LET m == tre_fill_pmatch(Leaving(state)[1].backref, tags, pos)
     IN IF ~SameAgain(m, pos) THEN Backtrack_
        ELSE Follow(pos + m.rm_eo - m.rm_so, next_c) /\ UNCHANGED states_seen
  /\ UNCHANGED <<tnfa, str, match_eo, match_tags, parallel_vars, pos_start,
                 matcher, pmatch>>

\* Instead of a character the text of a group is read.  An empty one is not
\* read twice in a row.
ReadBackref ==
  /\ matcher = "backtrack" /\ state >= 0 /\ state # tnfa.final
  /\ IsBackref(state)
  /\ LET m == tre_fill_pmatch(Leaving(state)[1].backref, tags, pos)
         bt_len == m.rm_eo - m.rm_so
         id == Leaving(state)[1].to
     IN IF ~SameAgain(m, pos) \/ (bt_len = 0 /\ id \in states_seen)
        THEN Backtrack_
        ELSE /\ states_seen' = IF bt_len = 0 THEN states_seen \cup {id}
                               ELSE states_seen \ {id}
             /\ Follow(pos + bt_len, next_c)
  /\ UNCHANGED <<tnfa, str, match_eo, match_tags, parallel_vars, pos_start,
                 matcher, pmatch>>

\* Mutant: the tags of the way that failed are kept.
Backtrack_KeepsTags ==
  /\ matcher = "backtrack" /\ state = -1
  /\ IF bt_stack # <<>>
     THEN LET item == Last(bt_stack)
          IN /\ states_seen' = IF IsBackref(item.state)
                               THEN states_seen \ {item.state} ELSE states_seen
             /\ pos' = item.pos /\ next_c' = item.next_c
             /\ state' = item.state
             /\ bt_stack' = Front(bt_stack)
             /\ UNCHANGED <<str, prev_c, tags, match_eo, match_tags, parallel_vars,
                            pos_start, matcher, pmatch>>
     ELSE IF match_eo < 0 /\ pos < Len(str)
     THEN /\ Retry(str, pos_start + 1, StrAt(pos_start))
          /\ UNCHANGED <<str, match_eo, parallel_vars, matcher, pmatch>>
     ELSE Finish(match_eo, match_tags)
  /\ UNCHANGED tnfa

\* The label backtrack: the last item that was kept, or a later start.
Backtrack ==
  /\ matcher = "backtrack" /\ state = -1
  /\ IF bt_stack # <<>>
     THEN LET item == Last(bt_stack)
          IN /\ states_seen' = IF IsBackref(item.state)
                               THEN states_seen \ {item.state} ELSE states_seen
             /\ pos' = item.pos /\ next_c' = item.next_c
             /\ state' = item.state /\ tags' = item.tags
             /\ bt_stack' = Front(bt_stack)
             /\ UNCHANGED <<str, prev_c, match_eo, match_tags, parallel_vars,
                            pos_start, matcher, pmatch>>
     ELSE IF match_eo < 0 /\ pos < Len(str)
     THEN /\ Retry(str, pos_start + 1, StrAt(pos_start))
          /\ UNCHANGED <<str, match_eo, parallel_vars, matcher, pmatch>>
     ELSE Finish(match_eo, match_tags)
  /\ UNCHANGED tnfa

tre_tnfa_run_backtrack ==
  MatchFound \/ ReadCharacter \/ ReadBackref \/ Backtrack

-----------------------------------------------------------------------------
tre_match(text) ==
  /\ matcher = "none" /\ pmatch = NotYet
  /\ IF tnfa.have_backrefs THEN BacktrackStart(text) ELSE ParallelStart(text)
  /\ UNCHANGED tnfa
=============================================================================
