----------------------------- MODULE TreCompile -----------------------------
(***************************************************************************)
(* tre_compile() behind the parser (tre-compile.c): tags are added to the   *)
(* tree so that the ends of the groups can be found, counted repetitions    *)
(* are written out, and the tree becomes an automaton with tags and no      *)
(* empty transitions.  The loops over a stack of symbols are recursive      *)
(* operators here; only the parser's use of the stack is bounded.           *)
(* Parameters of approximate matching are left out.                         *)
(***************************************************************************)
EXTENDS TreAst, SequencesExt, FiniteSetsExt

-----------------------------------------------------------------------------
(* tre_add_tags().  regset holds the ends of groups that wait for a tag, 2*id  *)
(* for a start and 2*id + 1 for an end; what is below base cannot be seen.     *)

TagInit(groups, dirs) ==
  [tag |-> 0, next_tag |-> 1, num_tags |-> 0, direction |-> "MINIMIZE",
   minimal_tag |-> -1, minimal_tags |-> <<>>, regset |-> <<>>, base |-> 0,
   parents |-> <<>>, tag_directions |-> dirs,
   submatch_data |-> [i \in groups |->
                       [so_tag |-> 0, eo_tag |-> 0, parents |-> {}]]]

Visible(st) == Range(SubSeq(st.regset, st.base + 1, Len(st.regset)))
Opened(st) == Visible(st) # {}

tre_purge_regset(st, tag) ==
  [st EXCEPT !.regset = SubSeq(@, 1, st.base),
             !.submatch_data = [i \in DOMAIN @ |->
               [@[i] EXCEPT !.so_tag = IF 2 * i \in Visible(st) THEN tag ELSE @,
                            !.eo_tag = IF 2 * i + 1 \in Visible(st) THEN tag
                                       ELSE @]]]

\* The tag that ends a minimal repetition.
EndMinimal(st) ==
  IF st.minimal_tag < 0 THEN st
  ELSE [st EXCEPT !.minimal_tags = Append(@, [end |-> st.tag,
                                              start |-> st.minimal_tag]),
                  !.minimal_tag = -1]

\* "Regset is not empty, so add a tag here."
UseTag(st, dir) ==
  LET used == tre_purge_regset(EndMinimal(st), st.tag)
  IN [used EXCEPT !.tag_directions = (st.tag :> dir) @@ @,
                  !.tag = st.next_tag, !.next_tag = @ + 1, !.num_tags = @ + 1]

TagLiteral(tag) == tre_ast_new_literal(TAG, tag)
tre_add_tag_left(node, tag) ==
  [tre_ast_new_catenation(TagLiteral(tag), node) EXCEPT !.num_tags = node.num_tags]
tre_add_tag_right(node, tag) ==
  [tre_ast_new_catenation(node, TagLiteral(tag)) EXCEPT !.num_tags = node.num_tags]

\* ADDTAGS_RECURSE and ADDTAGS_SET_SUBMATCH_END, around what is inside.
GroupStart(node, st) ==
  IF node.submatch_id < 0 THEN st
  ELSE [st EXCEPT !.regset = Append(@, 2 * node.submatch_id),
                  !.submatch_data[node.submatch_id].parents = Range(st.parents)]
GroupInside(node, st) ==
  IF node.submatch_id < 0 THEN st
  ELSE [st EXCEPT !.parents = Append(@, node.submatch_id)]
GroupEnd(node, st) ==
  IF node.submatch_id < 0 THEN st
  ELSE [st EXCEPT !.regset = Append(@, 2 * node.submatch_id + 1),
                  !.parents = Front(@)]

Numbered(node, n) == [node EXCEPT !.num_tags = n]
WithTag(here, first_pass, node, tag) ==
  IF here /\ ~first_pass THEN tre_add_tag_left(node, tag) ELSE node

\* A literal or a back reference is given a tag if a group waits for one.
AddToLiteral(node, st, first_pass) ==
  LET here == Opened(st) /\ (IS_SPECIAL(node) => IS_BACKREF(node))
  IN [node |-> WithTag(here, first_pass,
                       IF here THEN Numbered(node, 1) ELSE node, st.tag),
      st |-> GroupInside(node, IF here THEN UseTag(st, st.direction) ELSE st)]

RECURSIVE tre_add_tags(_, _, _)

\* If both sides need tags, the next one is kept for the right side.
Reserves(node) == node.left.num_tags > 0 /\ node.right.num_tags > 0
\* Mutant: the numbers that the left side is due are not skipped.
AfterLeft_Reuses(node, begun, st) ==
  [st EXCEPT !.tag = IF Reserves(node) THEN begun.next_tag ELSE @]
AfterLeft(node, begun, st) ==
  [st EXCEPT !.next_tag = begun.next_tag + node.left.num_tags,
             !.tag = IF Reserves(node) THEN begun.next_tag ELSE @]
AddToCatenation(node, st, first_pass) ==
  LET l == tre_add_tags(node.left, [GroupInside(node, st) EXCEPT
             !.next_tag = IF Reserves(node) THEN @ + 1 ELSE @], first_pass)
      r == tre_add_tags(node.right, AfterLeft(node, st, l.st), first_pass)
  IN [node |-> [Numbered(node, l.node.num_tags + r.node.num_tags) EXCEPT
                  !.left = l.node, !.right = r.node],
      st |-> r.st]

\* The tag behind a minimal repetition is to be as small, and behind another one
\* as large, as it can be.
AfterIteration(node, enter_tag, st, first_pass) ==
  [st EXCEPT !.minimal_tag = IF first_pass THEN -1
                             ELSE IF node.minimal THEN enter_tag ELSE @,
             !.direction = IF node.minimal THEN "MINIMIZE" ELSE "MAXIMIZE"]

\* A minimal repetition begins at a tag of its own.
AddToIteration(node, st, first_pass) ==
  LET here == Opened(st) \/ node.minimal
      tagged == IF here THEN UseTag(st, IF node.minimal THEN "MAXIMIZE"
                                        ELSE st.direction)
                ELSE st
      a == tre_add_tags(node.arg, GroupInside(node,
             [tagged EXCEPT !.direction = "MINIMIZE"]), first_pass)
      n == a.node.num_tags + IF here THEN 1 ELSE 0
  IN [node |-> WithTag(here, first_pass,
                       [Numbered(node, n) EXCEPT !.arg = a.node], st.tag),
      st |-> AfterIteration(node, st.tag, a.st, first_pass)]

\* Two more tags tell which side of a union with groups was taken.
Marked(node) == node.num_submatches > 0
ReserveMarkers(node, st) ==
  IF Marked(node) THEN [st EXCEPT !.tag = st.next_tag + 1, !.next_tag = @ + 2]
  ELSE st
\* The ends that wait on the left side are not seen on the right side.
LiftBase(st) == [st EXCEPT !.base = Len(st.regset)]
AfterUnion(node, begun, left_tag, right_tag, st) ==
  LET lowered == [st EXCEPT !.base = begun.base, !.direction = "MAXIMIZE"]
  IN IF Marked(node)
     THEN [lowered EXCEPT !.num_tags = @ + 2,
             !.tag_directions = (left_tag :> "MAXIMIZE")
                                  @@ (right_tag :> "MAXIMIZE") @@ @]
     ELSE lowered
AddToUnion(node, st, first_pass) ==
  LET here == Opened(st)
      left_tag == IF here THEN st.next_tag ELSE st.tag
      right_tag == IF here THEN st.next_tag + 1 ELSE st.next_tag
      tagged == IF here THEN UseTag(st, st.direction) ELSE st
      l == tre_add_tags(node.left, GroupInside(node, ReserveMarkers(node, tagged)),
                        first_pass)
      r == tre_add_tags(node.right, LiftBase(l.st), first_pass)
      Side(side, tag) == IF Marked(node) /\ ~first_pass
                         THEN tre_add_tag_right(side, tag) ELSE side
      n == l.node.num_tags + r.node.num_tags
             + (IF here THEN 1 ELSE 0) + (IF Marked(node) THEN 2 ELSE 0)
  IN [node |-> WithTag(here, first_pass,
                 [Numbered(node, n) EXCEPT !.left = Side(l.node, left_tag),
                                           !.right = Side(r.node, right_tag)],
                 st.tag),
      st |-> AfterUnion(node, st, left_tag, right_tag, r.st)]

tre_add_tags(node, st, first_pass) ==
  LET begun == GroupStart(node, st)
      done == CASE node.type = "LITERAL" -> AddToLiteral(node, begun, first_pass)
                [] node.type = "CATENATION" ->
                     AddToCatenation(node, begun, first_pass)
                [] node.type = "ITERATION" ->
                     AddToIteration(node, begun, first_pass)
                [] OTHER -> AddToUnion(node, begun, first_pass)
  IN [node |-> done.node, st |-> GroupEnd(node, done.st)]

-----------------------------------------------------------------------------
(* tre_expand_ast() and tre_copy_ast() *)

\* COPY_REMOVE_TAGS
RECURSIVE WithoutTags(_)
WithoutTags(node) ==
  CASE node.type = "LITERAL" ->
         IF IS_TAG(node) THEN tre_ast_new_literal(EMPTY, -1) ELSE node
    [] node.type = "ITERATION" -> [node EXCEPT !.arg = WithoutTags(@)]
    [] OTHER -> [node EXCEPT !.left = WithoutTags(@), !.right = WithoutTags(@)]

\* The tags in a tree, in the order of a copy.
RECURSIVE TagsIn(_)
TagsIn(node) ==
  CASE node.type = "LITERAL" -> IF IS_TAG(node) THEN <<node.code_max>> ELSE <<>>
    [] node.type = "ITERATION" -> TagsIn(node.arg)
    [] OTHER -> TagsIn(node.left) \o TagsIn(node.right)

\* COPY_MAXIMIZE_FIRST_TAG
MaximizeFirst(node, dirs) ==
  IF TagsIn(node) = <<>> THEN dirs ELSE (TagsIn(node)[1] :> "MAXIMIZE") @@ dirs

\* min copies of arg, of which the last keeps its tags.
Required(arg, min) ==
  FoldLeft(tre_ast_new_catenation,
           IF min > 1 THEN WithoutTags(arg) ELSE arg,
           [j \in 1..min - 1 |-> IF j + 1 < min THEN WithoutTags(arg) ELSE arg])

\* The repetitions that may be left out, each inside the one before it.
Optional(arg, min, max) ==
  IF max = -1 THEN tre_ast_new_iter(arg, 0, -1, FALSE)
  ELSE FoldLeft(LAMBDA seq2, j : tre_ast_new_iter(
                  IF seq2 = NULL THEN arg ELSE tre_ast_new_catenation(arg, seq2),
                  0, 1, FALSE),
                NULL, [j \in 1..max - min |-> j])

RECURSIVE tre_expand_ast(_, _)
tre_expand_ast(node, dirs) ==
  CASE node.type = "LITERAL" -> [node |-> node, dirs |-> dirs]
    [] node.type = "ITERATION" ->
         LET a == tre_expand_ast(node.arg, dirs)
             seq2 == Optional(a.node, node.min, node.max)
         IN IF node.min <= 1 /\ node.max <= 1
            THEN [node |-> [node EXCEPT !.arg = a.node], dirs |-> a.dirs]
            ELSE IF node.min = 0 THEN [node |-> seq2, dirs |-> a.dirs]
            ELSE [node |-> IF seq2 = NULL THEN Required(a.node, node.min)
                           ELSE tre_ast_new_catenation(
                                  Required(a.node, node.min), seq2),
                  dirs |-> MaximizeFirst(a.node, a.dirs)]
    [] OTHER ->
         LET l == tre_expand_ast(node.left, dirs)
             r == tre_expand_ast(node.right, l.dirs)
         IN [node |-> [node EXCEPT !.left = l.node, !.right = r.node],
             dirs |-> r.dirs]

-----------------------------------------------------------------------------
(* tre_compute_npfl() and tre_ast_to_tnfa(): what can be first and last in a   *)
(* tree, whether it can be empty, and the transitions inside it.               *)

tre_set_one(position, min, max, backref) ==
  <<[position |-> position, code_min |-> min, code_max |-> max,
     backref |-> backref, tags |-> {}, assertions |-> {}]>>

\* The tags and assertions of a side that is passed over.
Over(set, empty) ==
  [i \in DOMAIN set |-> [set[i] EXCEPT !.tags = @ \cup empty.tags,
                                       !.assertions = @ \cup empty.assertions]]
tre_set_union(set1, set2, empty) == Over(set1, empty) \o set2

Nowhere == [tags |-> {}, assertions |-> {}]

\* The empty way through a node whose parts are l and r.
tre_match_empty(node, l, r) ==
  CASE node.type = "LITERAL" ->
         [tags |-> IF IS_TAG(node) THEN {node.code_max} ELSE {},
          assertions |-> IF node.code_min = ASSERTION THEN {node.code_max}
                         ELSE {}]
    [] node.type = "UNION" -> IF l.nullable THEN l.empty ELSE r.empty
    [] node.type = "CATENATION" ->
         [tags |-> l.empty.tags \cup r.empty.tags,
          assertions |-> l.empty.assertions \cup r.empty.assertions]
    [] OTHER -> IF l.nullable THEN l.empty ELSE Nowhere

tre_make_trans(p1, p2) ==
  LET order == SelectSeq([j \in DOMAIN p2 |-> j], LAMBDA j :
                 j > 1 => p2[j].position # p2[j - 1].position)
  IN FlattenSeq([i \in DOMAIN p1 |-> [j \in DOMAIN order |->
       LET q == p2[order[j]]
       IN [from |-> p1[i].position, to |-> q.position,
           code_min |-> p1[i].code_min, code_max |-> p1[i].code_max,
           backref |-> p1[i].backref, tags |-> p1[i].tags \cup q.tags,
           assertions |-> p1[i].assertions \cup q.assertions]]])

\* nextpos is the next position that is not taken.
NpflLiteral(node, nextpos) ==
  LET here == ~IS_SPECIAL(node) \/ IS_BACKREF(node)
      min == IF IS_BACKREF(node) THEN 0 ELSE node.code_min
      max == IF IS_BACKREF(node) THEN TRE_CHAR_MAX ELSE node.code_max
      backref == IF IS_BACKREF(node) THEN node.code_max ELSE -1
  IN [nullable |-> ~here,
      firstpos |-> IF here THEN tre_set_one(nextpos, min, max, -1) ELSE <<>>,
      lastpos |-> IF here THEN tre_set_one(nextpos, min, max, backref) ELSE <<>>,
      empty |-> IF here THEN Nowhere ELSE tre_match_empty(node, {}, {}),
      trans |-> <<>>, nextpos |-> IF here THEN nextpos + 1 ELSE nextpos]

NpflUnion(node, l, r) ==
  [nullable |-> l.nullable \/ r.nullable,
   firstpos |-> tre_set_union(l.firstpos, r.firstpos, Nowhere),
   lastpos |-> tre_set_union(l.lastpos, r.lastpos, Nowhere),
   empty |-> tre_match_empty(node, l, r),
   trans |-> l.trans \o r.trans, nextpos |-> r.nextpos]

Between(l, r) == tre_make_trans(l.lastpos, r.firstpos)
NpflCatenation(node, l, r) ==
  [nullable |-> l.nullable /\ r.nullable,
   firstpos |-> IF l.nullable THEN tre_set_union(r.firstpos, l.firstpos, l.empty)
                ELSE l.firstpos,
   lastpos |-> IF r.nullable THEN tre_set_union(l.lastpos, r.lastpos, r.empty)
               ELSE r.lastpos,
   empty |-> tre_match_empty(node, l, r),
   trans |-> Between(l, r) \o l.trans \o r.trans,
   nextpos |-> r.nextpos]

Loop(node, a) == IF node.max = -1 THEN tre_make_trans(a.lastpos, a.firstpos) ELSE <<>>
NpflIteration(node, a) ==
  [nullable |-> node.min = 0 \/ a.nullable,
   firstpos |-> a.firstpos, lastpos |-> a.lastpos,
   empty |-> tre_match_empty(node, a, a),
   trans |-> Loop(node, a) \o a.trans,
   nextpos |-> a.nextpos]

RECURSIVE tre_compute_npfl(_, _)
tre_compute_npfl(node, nextpos) ==
  CASE node.type = "LITERAL" -> NpflLiteral(node, nextpos)
    [] node.type = "ITERATION" ->
         NpflIteration(node, tre_compute_npfl(node.arg, nextpos))
    [] OTHER ->
         LET l == tre_compute_npfl(node.left, nextpos)
             r == tre_compute_npfl(node.right, l.nextpos)
         IN IF node.type = "UNION" THEN NpflUnion(node, l, r)
            ELSE NpflCatenation(node, l, r)

-----------------------------------------------------------------------------
(* tre_compile() *)

\* The one character a match can start with, or -1.
FirstChar(tree, firstpos, transitions) ==
  LET starts == SelectSeq(transitions, LAMBDA t :
                  \E i \in DOMAIN firstpos : firstpos[i].position = t.from)
  IN IF ~tree.nullable /\ Len(starts) = 1
        /\ starts[1].code_min = starts[1].code_max
        /\ starts[1].code_min <= TRE_CHAR_MAX
     THEN starts[1].code_min ELSE -1

\* The tags that are counted, and then set; the ends that still wait are at the
\* end of the match.
CountTags(parsed, groups) == tre_add_tags(parsed, TagInit(0..groups - 1, <<>>), TRUE)
LastTag(st) == EndMinimal(tre_purge_regset(st, st.tag))
SetTheTags(counted, groups) ==
  LET dirs == [t \in 0..counted.st.num_tags |-> "UNSET"]
  IN tre_add_tags(counted.node, TagInit(0..groups - 1, dirs), FALSE)

\* parsed is the tree, groups the number of groups with the whole match.
tre_compile(parsed, groups, flags, have_backrefs) ==
  LET counted == CountTags(parsed, groups)
      tagged == SetTheTags(counted, groups)
      ends == LastTag(tagged.st)
      expanded == tre_expand_ast(tagged.node, ends.tag_directions)
      final == tre_ast_new_literal(0, 0)
      tree == tre_compute_npfl(tre_ast_new_catenation(expanded.node, final), 0)
      inner == tre_compute_npfl(expanded.node, 0)
  IN [transitions |-> [s \in 0..tree.nextpos - 1 |->
                        SelectSeq(tree.trans, LAMBDA t : t.from = s)],
      initial |-> tree.firstpos,
      final |-> tree.lastpos[1].position,
      first_char |-> FirstChar(inner, tree.firstpos, tree.trans),
      num_tags |-> ends.num_tags,
      counted_tags |-> counted.node.num_tags,
      end_tag |-> ends.num_tags,
      minimal_tags |-> ends.minimal_tags,
      tag_directions |-> expanded.dirs,
      submatch_data |-> ends.submatch_data,
      have_backrefs |-> have_backrefs,
      newline |-> "NEWLINE" \in flags]
=============================================================================
