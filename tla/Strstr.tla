------------------------------- MODULE Strstr -------------------------------
(***************************************************************************)
(* The search for a literal: the tables main() builds from the query and   *)
(* the two functions of util.c that search with them.  A char array is a   *)
(* function on 0 .. n - 1, as in C; a pointer into the buffer is an index  *)
(* of it, and NULL is -1.  The search is for find (of length n) in the     *)
(* bytes from .. to - 1 of s.                                              *)
(***************************************************************************)
EXTENDS Integers, Sequences, FiniteSets, SequencesExt, FiniteSetsExt

CONSTANTS
    H_SIZE,               \* the cells of the hash table
    CellValues            \* the values of a cell, a uint8_t

ASSUME TableAssumption == H_SIZE \in Nat \ {0} /\ CellValues \in Nat \ {0}

NULL == -1

tolower(c) == IF c \in 65 .. 90 THEN c + 32 ELSE c
toupper(c) == IF c \in 97 .. 122 THEN c - 32 ELSE c
Fold(c, case_sensitive) == IF case_sensitive THEN c ELSE tolower(c)

(* find occurs at position p of s.                                         *)
OccursAt(s, find, n, p, case_sensitive) ==
    \A i \in 0 .. n - 1 : Fold(s[p + i], case_sensitive) = find[i]

(* The reference: the first occurrence.                                    *)
FirstOccurrence(s, from, to, find, n, case_sensitive) ==
    LET found == {p \in from .. to - n : OccursAt(s, find, n, p, case_sensitive)}
    IN  IF found = {} THEN NULL ELSE Min(found)

-----------------------------------------------------------------------------
(***************************************************************************)
(* Boyer-Moore.                                                            *)
(***************************************************************************)

(* How far the last occurrence of c in the query, its last character       *)
(* aside, is from the end.                                                 *)
generate_alpha_skip(find, n, case_sensitive, chars) ==
    [c \in chars |->
        LET at == {i \in 0 .. n - 2 :
                      IF case_sensitive THEN c = find[i]
                      ELSE c \in {tolower(find[i]), toupper(find[i])}}
        IN  IF at = {} THEN n ELSE n - 1 - Max(at)]

(* The query continues from pos on as it begins.                           *)
is_prefix(s, n, pos, case_sensitive) ==
    \A i \in 0 .. n - 1 - pos :
        Fold(s[i], case_sensitive) = Fold(s[i + pos], case_sensitive)

(* The longest suffix of the query that also ends at pos, up to pos long.  *)
suffix_len(s, n, pos, case_sensitive) ==
    Min({pos} \cup
        {i \in 0 .. pos - 1 :
            Fold(s[pos - i], case_sensitive) # Fold(s[n - i - 1], case_sensitive)})

(* Mutant: the first position found is the one the table keeps.             *)
generate_find_skip_KeepsFirst(find, n, case_sensitive) ==
    [k \in 0 .. n - 1 |->
        LET period == Min({i \in k + 1 .. n : is_prefix(find, n, i, case_sensitive)})
            len(i) == suffix_len(find, n, i, case_sensitive)
            again  == {i \in 0 .. n - 1 :
                          k = n - 1 - len(i) /\ find[i - len(i)] # find[k]}
        IN  IF again = {} THEN period + n - 1 - k
            ELSE (n - 1 - Min(again)) + (n - 1 - k)]

(* How far to go on when all behind k has matched: to where the matched    *)
(* suffix occurs once more behind another character, or else to where a    *)
(* part of it begins the query.  The loop that looks for the former goes   *)
(* up, so that the last position it finds is the one it leaves.            *)
generate_find_skip(find, n, case_sensitive) ==
    [k \in 0 .. n - 1 |->
        LET period == Min({i \in k + 1 .. n : is_prefix(find, n, i, case_sensitive)})
            len(i) == suffix_len(find, n, i, case_sensitive)
            again  == {i \in 0 .. n - 1 :
                          k = n - 1 - len(i) /\ find[i - len(i)] # find[k]}
        IN  IF again = {} THEN period + n - 1 - k
            ELSE (n - 1 - Max(again)) + (n - 1 - k)]

(* The text is compared from its position pos backwards; at the last       *)
(* mismatch the larger of the two skips is taken from there.               *)
boyer_moore_strnstr(s, from, to, find, n, alpha_skip, find_skip, case_sensitive) ==
    LET at[pos \in from + n - 1 .. to + 2 * n] ==
            LET start == pos - (n - 1)
                wrong == {i \in 0 .. n - 1 :
                             Fold(s[start + i], case_sensitive) # find[i]}
                i     == Max(wrong)
            IN  IF pos >= to THEN NULL
                ELSE IF wrong = {} THEN start
                ELSE at[start + i + Max({alpha_skip[s[start + i]], find_skip[i]})]
    IN  at[from + n - 1]

-----------------------------------------------------------------------------
(***************************************************************************)
(* The hash table of the pairs of characters of the query.                 *)
(***************************************************************************)

Word(c1, c2) == (c1 + 256 * c2) % H_SIZE

(* The pairs that are entered, with the offset of each, in order: the last *)
(* offset first, and each with all its capital forms.                      *)
HashEntries(find, n, case_sensitive) ==
    LET forms   == IF case_sensitive THEN 1 ELSE 4
        word(i, set) == Word((find[i] - 32 * (set % 2)) % 256,
                             (find[i + 1] - 32 * (set \div 2)) % 256)
        entry(j) == LET i == n - 2 - (j \div forms)
                    IN  [at |-> word(i, j % forms), offset |-> i]
    IN  [j \in 1 .. (n - 1) * forms |-> entry(j - 1)]

(* The cells from h on, in the order they are looked at.                   *)
ProbeLength(table, h) ==
    LET free == {k \in 0 .. H_SIZE - 1 : table[(h + k) % H_SIZE] = 0}
    IN  IF free = {} THEN H_SIZE ELSE Min(free)

(* Looking for a free cell never ends when there is none.                  *)
Hangs == [h \in 0 .. H_SIZE - 1 |-> -1]

EnterHash(table, e) ==
    IF table = Hangs \/ ProbeLength(table, e.at) = H_SIZE THEN Hangs
    ELSE [table EXCEPT ![(e.at + ProbeLength(table, e.at)) % H_SIZE] =
              (e.offset + 1) % CellValues]

generate_hash(find, n, case_sensitive) ==
    LET entries == HashEntries(find, n, case_sensitive)
        table[j \in 0 .. Len(entries)] ==
            IF j = 0 THEN [h \in 0 .. H_SIZE - 1 |-> 0] ELSE EnterHash(table[j - 1], entries[j])
    IN  table[Len(entries)]

(* The occurrence that the cells for the pair at s_i lead to.              *)
HashHit(s, s_i, find, n, table, case_sensitive) ==
    LET h    == Word(s[s_i], s[s_i + 1])
        R(k) == s_i - (table[(h + k) % H_SIZE] - 1)
        hits == {k \in 0 .. ProbeLength(table, h) - 1 :
                    OccursAt(s, find, n, R(k), case_sensitive)}
    IN  IF hits = {} THEN NULL ELSE R(Min(hits))

(* Every n - 1 bytes, whatever occurrence lies across the pair there; the  *)
(* positions behind the last pair are tried one by one.                    *)
hash_strnstr(s, from, to, find, n, table, case_sensitive) ==
    LET step  == n - 1
        last  == to - n
        first == from + n - 2
        steps == {s_i \in first .. to : (s_i - first) % step = 0}
        found == {s_i \in steps : /\ s_i <= last
                                  /\ HashHit(s, s_i, find, n, table, case_sensitive) # NULL}
        tail  == Min({s_i \in steps : s_i > last}) - step + 1
    IN  IF to - from < n THEN NULL
        ELSE IF found # {} THEN HashHit(s, Min(found), find, n, table, case_sensitive)
        ELSE FirstOccurrence(s, tail, to, find, n, case_sensitive)
=============================================================================
