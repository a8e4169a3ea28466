-------------------------- MODULE MCIgnorePatterns --------------------------
(* IgnorePatterns with the lines, names and paths TLC tries.               *)
EXTENDS IgnorePatterns

(* Names, names with a slash, wildcards, an exception, an extension of two *)
(* parts, blanks and a comment.                                            *)
AllLines ==
    {<<"a">>, <<"b", " ">>, <<"a", "/", "b">>, <<"b", "/">>, <<"a", "*">>,
     <<"!", "a", "b">>, <<"/", "a", "*">>, <<"*", ".", "a", ".", "b">>,
     <<".", "/", "b">>, <<"#", "a">>}

(* "." for a walk of the working directory; a path that is its own         *)
(* base_path leaves nothing.                                               *)
UsualTops == {<<".">>, <<>>}

(* A relative path, and a hidden directory below an absolute one: patterns *)
(* with a slash are looked up by another path than they are written for.   *)
RelativeTop == {<<"b">>}
HiddenDirs == {<<".", "a">>}

OneLetter == {<<"a">>, <<"b">>}

UsualEntries ==
    {[name |-> n, type |-> t] :
        n \in {<<"a">>, <<"b">>, <<"a", "b">>}, t \in {"file", "dir"}}
    \cup {[name |-> <<"b", ".", "a", ".", "b">>, type |-> "file"],
          [name |-> <<".", "a">>, type |-> "file"], [name |-> <<"b">>, type |-> "link"]}

(* The code compares what is behind the first dot only.                    *)
TwoDots == {[name |-> <<"a", ".", "b", ".", "a", ".", "b">>, type |-> "file"]}

DefaultOptions ==
    [search_hidden_files |-> FALSE, follow_symlinks |-> FALSE,
     search_all_files |-> FALSE, path_to_ignore |-> FALSE]

UsualOptions ==
    {DefaultOptions,
     [DefaultOptions EXCEPT !.search_hidden_files = TRUE, !.follow_symlinks = TRUE,
                            !.search_all_files = TRUE, !.path_to_ignore = TRUE],
     [DefaultOptions EXCEPT !.search_all_files = TRUE]}

=============================================================================
