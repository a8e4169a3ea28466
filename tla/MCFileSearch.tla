--------------------------- MODULE MCFileSearch ----------------------------
(* FileSearch with a handful of files.                                     *)
EXTENDS FileSearch

CONSTANTS w1, w2, a, b, c, e, m, o, bin, z, y, p

TwoWorkers == {w1, w2}

KindOf(f)  == CASE f \in {a, b, c, e} -> "regular"
                [] f = bin           -> "binary"
                [] f = m           -> "missing"
                [] f = o           -> "stdout"
                [] f \in {z, y}    -> "zip"
                [] f = p           -> "fifo"
LinesOf(f) == CASE f = a -> <<2, 0, 0, 1, 0, 0>>
                [] f = b -> <<1>>
                [] f = c -> <<0, 0>>
                [] f = e -> <<>>
                [] f \in {m, o, bin} -> <<1>>
                [] f = z -> <<1, 0, 1>>
                [] f = y -> <<1, 0>>
                [] f = p -> <<0>>
Kinds    == [f \in Paths |-> KindOf(f)]
Contents == [f \in Paths |-> LinesOf(f)]

Files       == {a, b, c, e, m, o, bin, z, y, p}
Of(sets, mmaps) == [paths : sets, mmap : mmaps]
Usual       == Of({{a, b}, {b, c, bin}, {e, m, o}}, BOOLEAN)
                 \cup Of({{b, y}, {b, p}, {y, p}, {c, z}}, {TRUE})
OnlyZips    == Of({{z, y}}, {TRUE})
WithPipe    == Of({{a, b, p}}, {TRUE})
Unmapped    == Of({{a, b}}, {FALSE})
ZipUnmapped == Of({{z}}, {FALSE})

(* A file that grows does not matter if it is mapped.                      *)
Harmless    == [mapped \in BOOLEAN |-> IF mapped THEN {1} ELSE {}]
Shrinking   == [mapped \in BOOLEAN |-> IF mapped THEN {} ELSE {-1}]
Growing     == [mapped \in BOOLEAN |-> {1}]
Descriptors == {3, 4, 5, 6}

-----------------------------------------------------------------------------
(* What the documents say and the code does not do; no run expects it to   *)
(* hold, and README.md says what breaks it.                                *)

(* The matches of a file are lumped together under a single occurrence of  *)
(* its name.                                                               *)
OneHeading ==
    \A i, j \in DOMAIN out :
        out[i].what = "heading" /\ out[j] = out[i] => i = j

(* A line of context is printed right behind the file it belongs to.       *)
ContextFollows ==
    \A i \in DOMAIN out :
        out[i].what = "context" => i > 1 /\ out[i - 1].file = out[i].file
=============================================================================
