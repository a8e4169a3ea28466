--------------------------- MODULE IgnorePatterns ---------------------------
(***************************************************************************)
(* ignore.c: the ignore patterns of the directories from the top of the    *)
(* walk down to the one being listed.  Each directory has its own, sorted  *)
(* by add_ignore_pattern() into six arrays, and init_ignore() links it to  *)
(* the nearest directory above that has any.  filename_filter() looks an   *)
(* entry up in all of them.                                                *)
(*                                                                         *)
(* A string is a sequence of characters; of these only the ones matter     *)
(* that the code tells apart, and their order.                             *)
(***************************************************************************)
EXTENDS Integers, SequencesExt

CONSTANTS
    Lines,       \* the lines of ignore files
    Tops,        \* what search_dir() makes of the path it is called for
    DirNames,    \* the names of directories
    Entries,     \* [name, type]: what is found in a directory
    Options,     \* the options of a lookup
    MaxLines,    \* how many patterns are read before a walk is cut off
    MaxDepth     \* and how many directories down it goes

(* In the order of strcmp(); a blank is the least.                         *)
Ascii == <<" ", "!", "#", "*", ".", "/", "a", "b">>

String == Seq(ToSet(Ascii))

ASSUME InputsAssumption ==
    /\ Lines \cup Tops \cup DirNames \cup {e.name : e \in Entries} \subseteq String
    /\ MaxLines \in Nat /\ MaxDepth \in Nat

VARIABLES
    opts,
    igs,         \* igs[1] is root_ignores, the last is the directory's own
    path_start,  \* the path of the directory in the lookups
    given,       \* the lines read for each of them (history)
    dirs         \* the names of the directories from the top (history)

vars == <<opts, igs, path_start, given, dirs>>

-----------------------------------------------------------------------------
(***************************************************************************)
(* Strings.                                                                *)
(***************************************************************************)
Code == [c \in ToSet(Ascii) |-> CHOOSE k \in DOMAIN Ascii : Ascii[k] = c]

(* strcmp(s, t) < 0                                                        *)
Before(s, t) ==
    \E k \in 0 .. Len(s) :
        /\ k < Len(t) /\ SubSeq(s, 1, k) = SubSeq(t, 1, k)
        /\ k = Len(s) \/ Code[s[k + 1]] < Code[t[k + 1]]

isspace(c) == c = " "

Trimmed(s) == SubSeq(s, 1, Max({0} \cup {k \in DOMAIN s : ~isspace(s[k])}))

Behind(s, n) == SubSeq(s, n + 1, Len(s))

is_fnmatch(s) == \E k \in DOMAIN s : s[k] \in {"!", "*"}

(* With FNM_PATHNAME "*" stands for any characters but "/".                *)
ag_fnmatch(p, s) ==
    LET m[i \in 1 .. Len(p) + 1, j \in 1 .. Len(s) + 1] ==
            IF i > Len(p) THEN j > Len(s)
            ELSE IF p[i] = "*"
            THEN m[i + 1, j] \/ (j <= Len(s) /\ s[j] # "/" /\ m[i, j + 1])
            ELSE j <= Len(s) /\ s[j] = p[i] /\ m[i + 1, j + 1]
    IN  m[1, 1]

OccursAt(s, t, k) == SubSeq(s, k, k + Len(t) - 1) = t

(* The name is a whole number of the path's components.                    *)
WholeAt(s, t, k) ==
    /\ k = 1 \/ s[k - 1] = "/"
    /\ k + Len(t) > Len(s) \/ s[k + Len(t)] = "/"

Places(s, t) == {k \in 1 .. Len(s) - Len(t) + 1 : OccursAt(s, t, k)}

-----------------------------------------------------------------------------
(***************************************************************************)
(* The patterns of a directory.                                            *)
(***************************************************************************)
Arrays == {"extensions", "names", "slash_names", "regexes", "invert_regexes", "slash_regexes"}

NoPatterns == [l \in Arrays |-> <<>>]

(* Mutant: the patterns with wildcards are forgotten.                      *)
is_empty_NoRegexes(ig) ==
    \A l \in Arrays \ {"invert_regexes", "regexes"} : ig.patterns[l] = <<>>

(* "!" patterns alone do not count.                                        *)
is_empty(ig) == \A l \in Arrays \ {"invert_regexes"} : ig.patterns[l] = <<>>

(* The new directory's place is k + 1; parent is 0 for root_ignores.       *)
init_ignore(k, dirname) ==
    LET parent == igs[k]
    IN  [patterns |-> NoPatterns,
         parent   |-> IF is_empty(parent) /\ parent.parent # 0 THEN parent.parent ELSE k,
         abs_path |-> IF parent.abs_path # <<>> THEN parent.abs_path \o <<"/">> \o dirname
                      ELSE IF dirname = <<".">> THEN <<>> ELSE dirname]

ArrayOf(p) ==
    IF is_fnmatch(p)
    THEN IF IsPrefix(<<"*", ".">>, p) /\ Contains(Behind(p, 2), ".") /\ ~is_fnmatch(Behind(p, 2))
         THEN "extensions"
         ELSE IF p[1] = "/" THEN "slash_regexes"
         ELSE IF p[1] = "!" THEN "invert_regexes"
         ELSE "regexes"
    ELSE IF p[1] = "/" THEN "slash_names" ELSE "names"

(* The characters before the pattern proper.                               *)
Mark(array) ==
    CASE array = "extensions" -> 2
      [] array \in {"slash_regexes", "invert_regexes", "slash_names"} -> 1
      [] OTHER -> 0

(* Mutant: the first pattern stays the first.                              *)
Insert_BehindFirst(array, p) ==
    LET k == Max({1} \cup {i \in DOMAIN array : Before(array[i], p)})
    IN  InsertAt(array, Min({k, Len(array)}) + 1, Trimmed(p))

(* Behind the last pattern that is smaller.  What is compared still has    *)
(* its trailing blanks.                                                    *)
Insert(array, p) ==
    InsertAt(array, Max({0} \cup {k \in DOMAIN array : Before(array[k], p)}) + 1, Trimmed(p))

(* "./" loses its dot.                                                     *)
Pattern(line) == IF IsPrefix(<<".", "/">>, line) THEN Tail(line) ELSE line

add_ignore_pattern(patterns, line) ==
    LET p == Pattern(line)
        l == ArrayOf(p)
    IN  IF Trimmed(p) = <<>> THEN patterns
        ELSE [patterns EXCEPT ![l] = Insert(@, Behind(p, Mark(l)))]

-----------------------------------------------------------------------------
(***************************************************************************)
(* The lookup of an entry.                                                 *)
(***************************************************************************)
(* Whether it finds the needle; haystack is indexed from 0 there.          *)
binary_search(needle, haystack) ==
    LET find[start \in 0 .. Len(haystack)] == [end \in 0 .. Len(haystack) |->
            IF start = end THEN FALSE
            ELSE LET mid == start + ((end - start) \div 2)
                 IN  IF Before(needle, haystack[mid + 1]) THEN find[start][mid]
                     ELSE IF Before(haystack[mid + 1], needle) THEN find[mid + 1][end]
                     ELSE TRUE]
    IN  find[0][Len(haystack)]

(* The path of an entry as path_ignore_search() builds it: a leading "."   *)
(* and then a leading "/" are dropped.                                     *)
FullName(path, filename) ==
    LET temp == (IF path # <<>> /\ path[1] = "." THEN Tail(path) ELSE path)
                    \o <<"/">> \o filename
    IN  IF temp[1] = "/" THEN Tail(temp) ELSE temp

(* strstr() finds the first place only.                                    *)
NameSomewhere(s, name) ==
    Places(s, name) # {} /\ WholeAt(s, name, Min(Places(s, name)))

UnderPath(ig, path, filename) ==
    LET temp  == FullName(path, filename)
        rest  == Behind(temp, Len(ig.abs_path))
        slash_filename == IF rest # <<>> /\ rest[1] = "/" THEN Tail(rest) ELSE rest
        p     == ig.patterns
    IN  /\ IsPrefix(ig.abs_path, temp)
        /\ \/ binary_search(slash_filename, p.names)
           \/ binary_search(slash_filename, p.slash_names)
           \/ \E k \in DOMAIN p.names : NameSomewhere(slash_filename, p.names[k])
           \/ \E k \in DOMAIN p.slash_regexes : ag_fnmatch(p.slash_regexes[k], slash_filename)

path_ignore_search(ig, path, filename) ==
    LET matches(l) == \E k \in DOMAIN ig.patterns[l] : ag_fnmatch(ig.patterns[l][k], filename)
    IN  \/ binary_search(filename, ig.patterns.names)
        \/ UnderPath(ig, path, filename)
        \/ ~matches("invert_regexes") /\ matches("regexes")

(* What is behind the first dot, unless it is the last character.          *)
Extension(filename) ==
    IF Contains(filename, ".")
    THEN Behind(filename, Min({k \in DOMAIN filename : filename[k] = "."})) ELSE <<>>

(* Whether the patterns of one directory drop the entry.                   *)
Drops(ig, path, e) ==
    \/ Extension(e.name) # <<>> /\ binary_search(Extension(e.name), ig.patterns.extensions)
    \/ path_ignore_search(ig, path, e.name)
    \/ e.type = "dir" /\ path_ignore_search(ig, path, e.name \o <<"/">>)

(* The loop of filename_filter() over the parents.                         *)
Chain(k) ==
    LET up[i \in 0 .. Len(igs)] == IF i = 0 THEN {} ELSE {i} \cup up[igs[i].parent]
    IN  up[k]

Listable(e) ==
    /\ e.name[1] = "." => opts.search_hidden_files
    /\ e.name \notin {<<".">>, <<".", ".">>}
    /\ e.type = "link" => opts.follow_symlinks
    /\ e.type # "pipe"

filename_filter(path, e) ==
    /\ Listable(e)
    /\ \/ opts.search_all_files /\ ~opts.path_to_ignore
       \/ \A k \in Chain(Len(igs)) : ~Drops(igs[k], path, e)

-----------------------------------------------------------------------------
(***************************************************************************)
(* The walk, down to one directory: patterns are read for the last of igs  *)
(* only, as those above it are complete when search_dir() goes down.       *)
(***************************************************************************)
Init ==
    /\ opts \in Options
    /\ igs = <<[patterns |-> NoPatterns, parent |-> 0, abs_path |-> <<>>]>>
    /\ path_start \in Tops
    /\ given = <<{}>>
    /\ dirs = <<>>

Patterns ==
    {p \in (DOMAIN igs) \X Arrays \X (1 .. MaxLines) : p[3] <= Len(igs[p[1]].patterns[p[2]])}

(* A line of an ignore file, or the argument of --ignore.  Lines that are  *)
(* empty or begin with "#" are left out.                                   *)
LoadLine(line) ==
    /\ Cardinality(Patterns) < MaxLines
    /\ line # <<>> /\ line[1] # "#"
    /\ igs' = [igs EXCEPT ![Len(igs)].patterns = add_ignore_pattern(@, line)]
    /\ given' = [given EXCEPT ![Len(igs)] = @ \cup {line}]
    /\ UNCHANGED <<opts, path_start, dirs>>

AddDirectory(dirname) ==
    /\ igs' = Append(igs, init_ignore(Len(igs), dirname))
    /\ given' = Append(given, {})

(* The loop of main() over the paths.                                      *)
SearchPath ==
    /\ Len(igs) = 1
    /\ AddDirectory(<<>>)
    /\ UNCHANGED <<opts, path_start, dirs>>

(* search_dir() calls itself for a directory that has passed the filter.   *)
Descend(dirname) ==
    /\ Len(igs) > 1 /\ Len(dirs) < MaxDepth
    /\ filename_filter(path_start, [name |-> dirname, type |-> "dir"])
    /\ AddDirectory(dirname)
    /\ dirs' = Append(dirs, dirname)
    /\ path_start' = IF path_start = <<>> THEN dirname ELSE path_start \o <<"/">> \o dirname
    /\ UNCHANGED opts

Next ==
    \/ \E line \in Lines : LoadLine(line)
    \/ SearchPath
    \/ \E dirname \in DirNames : Descend(dirname)

Spec == Init /\ [][Next]_vars

-----------------------------------------------------------------------------
(***************************************************************************)
(* Properties.                                                             *)
(***************************************************************************)
(* Each directory is linked to one above it, no pattern is empty or ends   *)
(* in a blank, and the arrays that add_ignore_pattern() fills are in the   *)
(* order of strcmp() that binary_search() relies on, whatever the order of *)
(* the lines.                                                              *)
TypeOK ==
    /\ opts \in Options
    /\ Len(given) = Len(igs) /\ Len(igs) <= MaxDepth + 2
    /\ Len(dirs) = Max({Len(igs), 2}) - 2
    /\ \A k \in DOMAIN igs :
        /\ igs[k].parent \in 0 .. k - 1 /\ (igs[k].parent = 0 <=> k = 1)
        /\ \A l \in Arrays :
            LET array == igs[k].patterns[l]
            IN  /\ \A p \in ToSet(array) : Trimmed(p) = p
                /\ \A i \in 1 .. Len(array) - 1 : ~Before(array[i + 1], array[i])

(* The path of an entry below the directory of igs[k].                     *)
Below(k, filename) ==
    LET above == SubSeq(dirs, Max({k, 2}) - 1, Len(dirs))
    IN  FoldRight(LAMBDA d, s : d \o <<"/">> \o s, above, filename)

(* What a line means.  s is the entry's path from the line's directory, t  *)
(* its name; both end in "/" if a directory is meant.                      *)
Wild(line, s, t) ==
    LET p == Trimmed(Pattern(line))
    IN  p # <<>> /\ p[1] # "!" /\ is_fnmatch(p) /\
            IF p[1] = "/" THEN ag_fnmatch(Tail(p), s) ELSE ag_fnmatch(p, t)

Plain(line, s) ==
    LET p == Trimmed(Pattern(line))
    IN  p # <<>> /\ ~is_fnmatch(p) /\
            IF p[1] = "/" THEN Tail(p) = s ELSE \E k \in Places(s, p) : WholeAt(s, p, k)

(* "!" is for the wildcards of its own file and of no other.               *)
Excepted(line, t) ==
    LET p == Trimmed(line) IN p # <<>> /\ p[1] = "!" /\ ag_fnmatch(Tail(p), t)

Anchored(line) == IsPrefix(<<"/">>, Pattern(line))

Ignored(lines, s, t) ==
    \E line \in lines :
        \/ Plain(line, s)
        \/ Wild(line, s, t) /\ (Anchored(line) \/ ~\E ex \in lines : Excepted(ex, t))

(* An entry is listed if no line of any directory from the top of the walk *)
(* down to its own says otherwise: directories without patterns are        *)
(* skipped on the way up and the arrays are searched by halves, and        *)
(* neither loses a pattern.                                                *)
FilterRight ==
    Len(igs) > 1 =>
        \A e \in Entries :
            filename_filter(path_start, e) <=>
                /\ Listable(e)
                /\ ~(opts.search_all_files /\ ~opts.path_to_ignore) =>
                    \A k \in DOMAIN igs :
                        /\ ~Ignored(given[k], Below(k, e.name), e.name)
                        /\ e.type = "dir" =>
                            ~Ignored(given[k], Below(k, e.name \o <<"/">>), e.name \o <<"/">>)

=============================================================================
