-------------------------- MODULE SearchBufProofs ---------------------------
(***************************************************************************)
(* Proofs about search_buf() and the two searches for a literal: for any   *)
(* buffer, query and options.                                              *)
(***************************************************************************)
EXTENDS SearchBuf, ProofLemmas, FiniteSetTheorems, TLAPS

(***************************************************************************)
(* The searches for a literal, for any query and any text: neither leaves  *)
(* out an occurrence.                                                      *)
(***************************************************************************)
Char == 0 .. 255

(* Characters that are compared without their case have none.              *)
LEMMA FoldFacts ==
    ASSUME NEW c \in Char, NEW cs \in BOOLEAN
    PROVE  /\ Fold(c, cs) \in Char
           /\ Fold(Fold(c, cs), cs) = Fold(c, cs)
           /\ ~cs => c \in {tolower(Fold(c, cs)), toupper(Fold(c, cs))}
           /\ c = Fold(c, cs) \/ (~cs /\ c = Fold(c, cs) - 32)
           /\ cs => Fold(c, cs) = c
BY DEF Fold, tolower, toupper, Char

-----------------------------------------------------------------------------
(***************************************************************************)
(* Boyer-Moore.                                                            *)
(***************************************************************************)
(* An occurrence d further on has the mismatched character at least as far *)
(* from its end as generate_alpha_skip() says.                             *)
LEMMA AlphaSkip ==
    ASSUME NEW n \in Nat \ {0}, NEW find \in [0 .. n - 1 -> Char], NEW cs \in BOOLEAN,
           NEW c \in Char
    PROVE  LET skip == generate_alpha_skip(find, n, cs, Char)[c]
           IN  /\ skip \in 1 .. n
               /\ \A j \in 0 .. n - 2 : Fold(c, cs) = find[j] => skip <= n - 1 - j
<1> DEFINE at == {i \in 0 .. n - 2 :
                     IF cs THEN c = find[i] ELSE c \in {tolower(find[i]), toupper(find[i])}}
           skip == generate_alpha_skip(find, n, cs, Char)[c]
<1>1. skip = IF at = {} THEN n ELSE n - 1 - Max(at)
  BY DEF generate_alpha_skip
<1>2. at # {} => Max(at) \in 0 .. n - 2 /\ \A j \in at : Max(at) >= j
  <2>1. \A x \in at : x \in Int /\ x <= n - 2
    OBVIOUS
  <2>2. at # {} => Max(at) \in at /\ \A j \in at : Max(at) >= j
    <3> HIDE DEF at
    <3>1. n - 2 \in Int
      OBVIOUS
    <3> QED
      BY <2>1, <3>1, GreatestOf
  <2> QED
    BY <2>2
<1>3. ASSUME NEW j \in 0 .. n - 2, Fold(c, cs) = find[j] PROVE j \in at
  BY <1>3, FoldFacts
<1> HIDE DEF at, skip
<1> QED
  BY <1>1, <1>2, <1>3 DEF skip

(* What generate_find_skip() says of k: with what has matched behind k the *)
(* query cannot occur d further on if that is nearer.                      *)
Fits(find, n, k, d) ==
    /\ \A j \in k + 1 .. n - 1 : j >= d => find[j - d] = find[j]
    /\ d <= k => find[k - d] # find[k]

(* The skip that generate_find_skip() has for k: at least behind what has  *)
(* matched, and no further than the next place where the query fits.       *)
LEMMA FindSkip ==
    ASSUME NEW n \in Nat \ {0}, NEW find \in [0 .. n - 1 -> Char], NEW cs \in BOOLEAN,
           NEW k \in 0 .. n - 1
    PROVE  LET skip == generate_find_skip(find, n, cs)[k]
           IN  /\ skip \in n - k .. 2 * n - 1 - k
               /\ \A d \in Nat \ {0} :
                      /\ \A j \in 0 .. n - 1 : Fold(find[j], cs) = find[j]
                      /\ Fits(find, n, k, d)
                      => skip <= d + n - 1 - k
<1> DEFINE prefixes == {i \in k + 1 .. n : is_prefix(find, n, i, cs)}
           len(i) == suffix_len(find, n, i, cs)
           again == {i \in 0 .. n - 1 : k = n - 1 - len(i) /\ find[i - len(i)] # find[k]}
           skip == generate_find_skip(find, n, cs)[k]
<1>1. skip = IF again = {} THEN Min(prefixes) + n - 1 - k
             ELSE (n - 1 - Max(again)) + (n - 1 - k)
  BY DEF generate_find_skip
<1>2. Min(prefixes) \in k + 1 .. n /\ \A i \in prefixes : Min(prefixes) <= i
  <2>1. n \in prefixes
    BY DEF is_prefix
  <2>2. \A x \in prefixes : x \in Int /\ x >= k + 1
    OBVIOUS
  <2>3. Min(prefixes) \in prefixes /\ \A i \in prefixes : Min(prefixes) <= i
    <3>1. k + 1 \in Int
      OBVIOUS
    <3> HIDE DEF prefixes
    <3> QED
      BY <2>1, <2>2, <3>1, LeastOf
  <2> QED
    BY <2>3
<1>3. ASSUME NEW i \in 0 .. n - 1
      PROVE  /\ len(i) \in 0 .. i
             /\ \A m \in 0 .. len(i) - 1 : Fold(find[i - m], cs) = Fold(find[n - m - 1], cs)
             /\ len(i) < i => Fold(find[i - len(i)], cs) # Fold(find[n - len(i) - 1], cs)
  <2> DEFINE S == {i} \cup {m \in 0 .. i - 1 : Fold(find[i - m], cs) # Fold(find[n - m - 1], cs)}
  <2>1. len(i) = Min(S)
    BY DEF suffix_len
  <2>2. S # {} /\ \A x \in S : x \in Int /\ x >= 0
    OBVIOUS
  <2>3. Min(S) \in S /\ \A x \in S : Min(S) <= x
    <3> HIDE DEF S
    <3> QED
      BY <2>2, LeastOf
  <2>4. ASSUME NEW m \in 0 .. Min(S) - 1 PROVE m \notin S /\ m \in 0 .. i - 1
    <3>1. Min(S) \in 0 .. i
      BY <2>3
    <3> HIDE DEF S
    <3> QED
      BY <2>3, <3>1
  <2> QED
    BY <2>1, <2>3, <2>4
<1>4. again # {} => Max(again) \in again /\ \A i \in again : Max(again) >= i
  <2>1. \A x \in again : x \in Int /\ x <= n - 1
    OBVIOUS
  <2> HIDE DEF again
  <2> QED
    BY <2>1, GreatestOf
<1>5. ASSUME NEW i \in again PROVE i \in n - 1 - k .. n - 2
  <2>1. i \in 0 .. n - 1 /\ len(i) = n - 1 - k /\ find[i - len(i)] # find[k]
    BY <1>3
  <2>2. i >= n - 1 - k
    BY <2>1, <1>3
  <2>3. i # n - 1
    <3>1. SUFFICES ASSUME i = n - 1 PROVE FALSE
      OBVIOUS
    <3>2. i - len(i) = k
      BY <2>1, <3>1
    <3> QED
      BY <2>1, <3>2
  <2> QED
    BY <2>1, <2>2, <2>3
<1>6. ASSUME NEW d \in Nat \ {0}, d <= k, Fits(find, n, k, d),
             \A j \in 0 .. n - 1 : Fold(find[j], cs) = find[j]
      PROVE  n - 1 - d \in again
  <2> DEFINE i == n - 1 - d
  <2>1. i \in 0 .. n - 1 /\ len(i) \in 0 .. i
    BY <1>3, <1>6
  <2>2. ASSUME len(i) < n - 1 - k PROVE FALSE
    <3>1. len(i) < i
      BY <1>6, <2>1, <2>2
    <3>2. Fold(find[i - len(i)], cs) # Fold(find[n - len(i) - 1], cs)
      BY <1>3, <2>1, <3>1
    <3>3. n - len(i) - 1 \in k + 1 .. n - 1 /\ n - len(i) - 1 >= d
      BY <2>1, <2>2, <1>6
    <3>4. find[n - len(i) - 1 - d] = find[n - len(i) - 1]
      BY <1>6, <3>3 DEF Fits
    <3> QED
      BY <2>1, <3>2, <3>4
  <2>3. ASSUME len(i) > n - 1 - k PROVE FALSE
    <3>1. n - 1 - k \in 0 .. len(i) - 1
      BY <2>1, <2>3
    <3>2. Fold(find[i - (n - 1 - k)], cs) = Fold(find[n - (n - 1 - k) - 1], cs)
      BY <1>3, <2>1, <3>1
    <3>3. i - (n - 1 - k) = k - d /\ n - (n - 1 - k) - 1 = k /\ k - d \in 0 .. n - 1
      BY <1>6
    <3> QED
      BY <1>6, <3>2, <3>3 DEF Fits
  <2>4. len(i) = n - 1 - k /\ i - len(i) = k - d
    BY <2>1, <2>2, <2>3
  <2> QED
    BY <1>6, <2>1, <2>4 DEF Fits
<1>7. ASSUME NEW d \in Nat \ {0}, d > k, d <= n, Fits(find, n, k, d)
      PROVE  d \in prefixes
  <2>1. ASSUME NEW j \in 0 .. n - 1 - d PROVE find[j] = find[j + d]
    BY <1>7, <2>1 DEF Fits
  <2> QED
    BY <1>7, <2>1 DEF is_prefix
<1> HIDE DEF prefixes, again, len, skip
<1>8. skip \in n - k .. 2 * n - 1 - k
  <2>1. CASE again = {}
    BY <1>1, <1>2, <2>1
  <2>2. CASE again # {}
    <3>1. Max(again) \in n - 1 - k .. n - 2
      BY <1>4, <1>5, <2>2
    <3> QED
      BY <1>1, <2>2, <3>1
  <2> QED
    BY <2>1, <2>2
<1>9. ASSUME NEW d \in Nat \ {0}, Fits(find, n, k, d),
             \A j \in 0 .. n - 1 : Fold(find[j], cs) = find[j]
      PROVE  skip <= d + n - 1 - k
  <2>1. CASE d <= k
    <3>1. n - 1 - d \in again
      BY <1>6, <1>9, <2>1
    <3>2. Max(again) \in n - 1 - k .. n - 2 /\ Max(again) >= n - 1 - d
      BY <1>4, <1>5, <3>1
    <3> QED
      BY <1>1, <3>1, <3>2
  <2>2. CASE d > k /\ again # {}
    <3>1. Max(again) \in n - 1 - k .. n - 2
      BY <1>4, <1>5, <2>2
    <3> QED
      BY <1>1, <2>2, <3>1
  <2>3. CASE d > k /\ again = {} /\ d <= n
    BY <1>1, <1>2, <1>7, <1>9, <2>3
  <2>4. CASE d > n /\ again = {}
    BY <1>1, <1>2, <2>4
  <2> QED
    BY <2>1, <2>2, <2>3, <2>4
<1> QED
  BY <1>8, <1>9 DEF skip

(* The larger of the two skips leaves no occurrence out.                   *)
LEMMA Shift ==
    ASSUME NEW n \in Nat \ {0}, NEW find \in [0 .. n - 1 -> Char], NEW cs \in BOOLEAN,
           NEW to \in Nat, NEW s \in [0 .. to - 1 -> Char],
           NEW start \in Nat, start + n <= to, NEW k \in 0 .. n - 1,
           \A j \in k + 1 .. n - 1 : Fold(s[start + j], cs) = find[j],
           Fold(s[start + k], cs) # find[k]
    PROVE  LET skip == Max({generate_alpha_skip(find, n, cs, Char)[s[start + k]],
                            generate_find_skip(find, n, cs)[k]})
           IN  /\ skip \in n - k .. 2 * n
               /\ \A p \in start .. to - n :
                      OccursAt(s, find, n, p, cs) => start + k + skip - (n - 1) <= p
<1> DEFINE alpha == generate_alpha_skip(find, n, cs, Char)[s[start + k]]
           good == generate_find_skip(find, n, cs)[k]
<1>1. s[start + k] \in Char
  OBVIOUS
<1>2. /\ alpha \in 1 .. n
      /\ \A j \in 0 .. n - 2 : Fold(s[start + k], cs) = find[j] => alpha <= n - 1 - j
  BY <1>1, AlphaSkip
<1>3. /\ good \in n - k .. 2 * n - 1 - k
      /\ \A d \in Nat \ {0} :
             /\ \A j \in 0 .. n - 1 : Fold(find[j], cs) = find[j]
             /\ Fits(find, n, k, d)
             => good <= d + n - 1 - k
  BY FindSkip
<1>4. ASSUME NEW p \in start .. to - n, OccursAt(s, find, n, p, cs)
      PROVE  alpha <= p - start + n - 1 - k /\ good <= p - start + n - 1 - k
  <2> DEFINE d == p - start
  <2>1. \A j \in 0 .. n - 1 : Fold(s[p + j], cs) = find[j] /\ s[p + j] \in Char
    BY <1>4 DEF OccursAt
  <2>2. d \in Nat \ {0}
    <3>1. SUFFICES ASSUME p = start PROVE FALSE
      OBVIOUS
    <3> QED
      BY <2>1, <3>1
  <2>3. ASSUME NEW i \in 0 .. n - 1, i >= d
        PROVE  Fold(s[start + i], cs) = find[i - d]
    <3>1. i - d \in 0 .. n - 1 /\ p + (i - d) = start + i
      BY <2>2, <2>3
    <3> QED
      BY <2>1, <3>1
  <2>4. Fits(find, n, k, d)
    <3>1. ASSUME NEW j \in k + 1 .. n - 1, j >= d PROVE find[j - d] = find[j]
      <4>1. j \in 0 .. n - 1
        OBVIOUS
      <4>2. Fold(s[start + j], cs) = find[j - d]
        BY <2>3, <3>1, <4>1
      <4> QED
        BY <4>2
    <3>2. d <= k => find[k - d] # find[k]
      BY <2>3
    <3> QED
      BY <3>1, <3>2 DEF Fits
  <2>5. \A j \in 0 .. n - 1 : Fold(find[j], cs) = find[j]
    BY <2>1, FoldFacts
  <2>6. good <= d + n - 1 - k
    BY <1>3, <2>2, <2>4, <2>5
  <2>7. alpha <= d + n - 1 - k
    <3>1. CASE d <= k
      <4>1. Fold(s[start + k], cs) = find[k - d]
        BY <2>3, <3>1
      <4>2. k - d \in 0 .. n - 2
        BY <2>2, <3>1
      <4>3. alpha <= n - 1 - (k - d)
        BY <1>2, <4>1, <4>2
      <4> QED
        BY <1>2, <2>2, <4>3
    <3>2. CASE d > k
      BY <1>2, <2>2, <3>2
    <3> QED
      BY <2>2, <3>1, <3>2
  <2> QED
    BY <2>6, <2>7
<1> HIDE DEF alpha, good
<1>5. alpha \in Int /\ good \in Int
  BY <1>2, <1>3
<1>6. Max({alpha, good}) = IF alpha <= good THEN good ELSE alpha
  BY <1>5, MinMax
<1>7. Max({alpha, good}) \in n - k .. 2 * n
  BY <1>2, <1>3, <1>6
<1>8. ASSUME NEW p \in start .. to - n, OccursAt(s, find, n, p, cs)
      PROVE  start + k + Max({alpha, good}) - (n - 1) <= p
  <2>1. alpha <= p - start + n - 1 - k /\ good <= p - start + n - 1 - k
    BY <1>4, <1>8
  <2> QED
    BY <1>5, <1>6, <2>1
<1> QED
  BY <1>7, <1>8 DEF alpha, good

(* The first occurrence is one, and the first; and where there is none     *)
(* none is found.                                                          *)
LEMMA First ==
    ASSUME NEW s, NEW from \in Int, NEW to \in Int, NEW find, NEW n \in Nat, NEW cs
    PROVE  LET p == FirstOccurrence(s, from, to, find, n, cs)
           IN  \/ /\ p = NULL
                  /\ \A q \in from .. to - n : ~OccursAt(s, find, n, q, cs)
               \/ /\ p \in from .. to - n /\ OccursAt(s, find, n, p, cs)
                  /\ \A q \in from .. p - 1 : ~OccursAt(s, find, n, q, cs)
<1> DEFINE found == {p \in from .. to - n : OccursAt(s, find, n, p, cs)}
<1>1. FirstOccurrence(s, from, to, find, n, cs) = IF found = {} THEN NULL ELSE Min(found)
  BY DEF FirstOccurrence
<1>2. CASE found = {}
  BY <1>1, <1>2
<1>3. CASE found # {}
  <2>1. \A x \in found : x \in Int /\ x >= from
    OBVIOUS
  <2>2. Min(found) \in found /\ \A x \in found : Min(found) <= x
    <3> HIDE DEF found
    <3> QED
      BY <1>3, <2>1, LeastOf
  <2>3. ASSUME NEW q \in from .. Min(found) - 1 PROVE q \notin found /\ q \in from .. to - n
    <3>1. Min(found) \in from .. to - n
      BY <2>2
    <3> HIDE DEF found
    <3> QED
      BY <2>2, <3>1
  <2> QED
    BY <1>1, <1>3, <2>2, <2>3
<1> QED
  BY <1>2, <1>3

(* It is the only such place, so that it may be looked for from any place  *)
(* before which there is no occurrence.                                    *)
LEMMA FirstIs ==
    ASSUME NEW s, NEW from \in Nat, NEW to \in Int, NEW find, NEW n \in Nat, NEW cs,
           NEW p \in from .. to - n, OccursAt(s, find, n, p, cs),
           \A q \in from .. p - 1 : ~OccursAt(s, find, n, q, cs)
    PROVE  FirstOccurrence(s, from, to, find, n, cs) = p
<1> DEFINE r == FirstOccurrence(s, from, to, find, n, cs)
<1>1. r \in from .. to - n /\ OccursAt(s, find, n, r, cs)
      /\ \A q \in from .. r - 1 : ~OccursAt(s, find, n, q, cs)
  BY First
<1> HIDE DEF r
<1>2. ~(r < p) /\ ~(p < r)
  BY <1>1
<1> QED
  BY <1>1, <1>2 DEF r

(* Where the query does not occur before a later place, its first          *)
(* occurrence is the first from there.                                     *)
LEMMA FirstFrom ==
    ASSUME NEW s, NEW from \in Nat, NEW later \in Nat, from <= later, NEW to \in Int, NEW find,
           NEW n \in Nat, NEW cs,
           \A q \in from .. to - n : OccursAt(s, find, n, q, cs) => later <= q
    PROVE  FirstOccurrence(s, from, to, find, n, cs) = FirstOccurrence(s, later, to, find, n, cs)
<1>1. {p \in from .. to - n : OccursAt(s, find, n, p, cs)}
        = {p \in later .. to - n : OccursAt(s, find, n, p, cs)}
  OBVIOUS
<1> QED
  BY <1>1 DEF FirstOccurrence

(* The positions that do not match when the query is held against the text *)
(* at start, and how far that lets boyer_moore_strnstr() go on.            *)
Wrong(s, find, n, cs, start) == {i \in 0 .. n - 1 : Fold(s[start + i], cs) # find[i]}

Skip(s, find, n, cs, start, k) ==
    Max({generate_alpha_skip(find, n, cs, Char)[s[start + k]], generate_find_skip(find, n, cs)[k]})

Ahead(s, find, n, cs, start) ==
    LET k == Max(Wrong(s, find, n, cs, start))
    IN  start + k + Skip(s, find, n, cs, start, k)

(* One comparison of boyer_moore_strnstr(): it has found the first         *)
(* occurrence from start on, or goes on where the first one still is ahead. *)
LEMMA Compare ==
    ASSUME NEW n \in Nat \ {0}, NEW find \in [0 .. n - 1 -> Char], NEW cs \in BOOLEAN,
           NEW to \in Nat, NEW s \in [0 .. to - 1 -> Char],
           NEW start \in Nat, start + n <= to
    PROVE  /\ Wrong(s, find, n, cs, start) = {} =>
                  FirstOccurrence(s, start, to, find, n, cs) = start
           /\ Wrong(s, find, n, cs, start) # {} =>
                  /\ Ahead(s, find, n, cs, start) \in start + n .. to + 2 * n
                  /\ FirstOccurrence(s, start, to, find, n, cs)
                       = FirstOccurrence(s, Ahead(s, find, n, cs, start) - (n - 1), to, find, n, cs)
<1> DEFINE wrong == Wrong(s, find, n, cs, start)
           skip(k) == Skip(s, find, n, cs, start, k)
<1>2. ASSUME wrong = {} PROVE FirstOccurrence(s, start, to, find, n, cs) = start
  <2>1. OccursAt(s, find, n, start, cs)
    BY <1>2 DEF OccursAt, Wrong
  <2>2. start \in start .. to - n /\ \A q \in start .. start - 1 : FALSE
    OBVIOUS
  <2> QED
    BY <2>1, <2>2, FirstIs
<1>3. ASSUME wrong # {}
      PROVE  /\ Ahead(s, find, n, cs, start) \in start + n .. to + 2 * n
             /\ FirstOccurrence(s, start, to, find, n, cs)
                  = FirstOccurrence(s, Ahead(s, find, n, cs, start) - (n - 1), to, find, n, cs)
  <2>1. Max(wrong) \in wrong /\ \A x \in wrong : Max(wrong) >= x
    <3>1. \A x \in wrong : x \in Int /\ x <= n - 1
      BY DEF Wrong
    <3>2. n - 1 \in Int
      OBVIOUS
    <3> HIDE DEF wrong
    <3> QED
      BY <1>3, <3>1, <3>2, GreatestOf
  <2>2. PICK k \in 0 .. n - 1 : k = Max(wrong)
    BY <2>1 DEF Wrong
  <2>3. Fold(s[start + k], cs) # find[k]
    BY <2>1, <2>2 DEF Wrong
  <2>4. \A j \in k + 1 .. n - 1 : Fold(s[start + j], cs) = find[j]
    <3>1. ASSUME NEW j \in k + 1 .. n - 1 PROVE j \notin wrong /\ j \in 0 .. n - 1
      <4> HIDE DEF wrong
      <4> QED
        BY <2>1, <2>2
    <3> QED
      BY <3>1 DEF Wrong
  <2>5. /\ skip(k) \in n - k .. 2 * n
        /\ \A p \in start .. to - n :
               OccursAt(s, find, n, p, cs) => start + k + skip(k) - (n - 1) <= p
    BY <2>3, <2>4, Shift DEF Skip
  <2> HIDE DEF skip, wrong
  <2> HIDE DEF wrong
  <2>6. PICK d \in n - k .. 2 * n : d = skip(k)
    BY <2>5
  <2> HIDE DEF skip
  <2>7. (start + k + d) - (n - 1) \in Nat /\ start <= (start + k + d) - (n - 1)
    BY <2>6
  <2>8. FirstOccurrence(s, start, to, find, n, cs)
          = FirstOccurrence(s, (start + k + d) - (n - 1), to, find, n, cs)
    BY <2>5, <2>6, <2>7, FirstFrom, SMTT(40)
  <2>9. Ahead(s, find, n, cs, start) = start + k + d
    BY <2>2, <2>6, Zenon DEF Ahead, wrong, skip
  <2>10. start + k + d \in start + n .. to + 2 * n
    BY <2>6
  <2> QED
    BY <2>8, <2>9, <2>10, Zenon
<1> HIDE DEF wrong
<1> QED
  BY <1>2, <1>3, Zenon DEF wrong

(* boyer_moore_strnstr() finds the first occurrence, with the two tables   *)
(* that main() builds from the query.                                      *)
THEOREM BoyerMooreCorrect ==
    ASSUME NEW n \in Nat \ {0}, NEW find \in [0 .. n - 1 -> Char], NEW cs \in BOOLEAN,
           NEW to \in Nat, NEW s \in [0 .. to - 1 -> Char], NEW from \in 0 .. to
    PROVE  boyer_moore_strnstr(s, from, to, find, n, generate_alpha_skip(find, n, cs, Char),
                               generate_find_skip(find, n, cs), cs)
             = FirstOccurrence(s, from, to, find, n, cs)
<1> DEFINE D == from + n - 1 .. to + 2 * n
           alpha == generate_alpha_skip(find, n, cs, Char)
           good == generate_find_skip(find, n, cs)
           start(pos) == pos - (n - 1)
           wrong(pos) == Wrong(s, find, n, cs, start(pos))
           next(pos) == Ahead(s, find, n, cs, start(pos))
           F(pos) == FirstOccurrence(s, start(pos), to, find, n, cs)
           Is(f) == f = [pos \in D |-> IF pos >= to THEN NULL
                                       ELSE IF wrong(pos) = {} THEN start(pos)
                                       ELSE f[next(pos)]]
<1>1. boyer_moore_strnstr(s, from, to, find, n, alpha, good, cs) = (CHOOSE f : Is(f))[from + n - 1]
  BY Zenon DEF boyer_moore_strnstr, Wrong, Ahead, Skip
<1>2. \A pos \in D : pos >= to => F(pos) = NULL
  BY DEF FirstOccurrence
<1>3. ASSUME NEW pos \in D, ~(pos >= to)
      PROVE  /\ wrong(pos) = {} => F(pos) = start(pos)
             /\ wrong(pos) # {} => next(pos) \in pos + 1 .. to + 2 * n /\ F(pos) = F(next(pos))
  <2>1. PICK b \in Nat : b = pos - (n - 1) /\ b + n <= to /\ b + n = pos + 1
    BY <1>3
  <2>2. /\ Wrong(s, find, n, cs, b) = {} => FirstOccurrence(s, b, to, find, n, cs) = b
        /\ Wrong(s, find, n, cs, b) # {} =>
               /\ Ahead(s, find, n, cs, b) \in b + n .. to + 2 * n
               /\ FirstOccurrence(s, b, to, find, n, cs)
                    = FirstOccurrence(s, Ahead(s, find, n, cs, b) - (n - 1), to, find, n, cs)
    BY <2>1, Compare
  <2>3. start(pos) = b /\ wrong(pos) = Wrong(s, find, n, cs, b) /\ next(pos) = Ahead(s, find, n, cs, b)
        /\ F(pos) = FirstOccurrence(s, b, to, find, n, cs)
        /\ F(next(pos)) = FirstOccurrence(s, Ahead(s, find, n, cs, b) - (n - 1), to, find, n, cs)
    BY <2>1, Zenon
  <2> HIDE DEF F, next, wrong, start
  <2> QED
    BY <2>1, <2>2, <2>3, Zenon
<1> HIDE DEF F, next, wrong, start
<1>4. \A pos \in D : ~(pos >= to) /\ wrong(pos) # {} => next(pos) \in D
  BY <1>3
<1>5. \E f : Is(f)
  <2> DEFINE f == [pos \in D |-> F(pos)]
  <2>1. ASSUME NEW pos \in D
        PROVE  f[pos] = IF pos >= to THEN NULL
                        ELSE IF wrong(pos) = {} THEN start(pos) ELSE f[next(pos)]
    BY <1>2, <1>3, <1>4
  <2>2. f = [pos \in D |-> f[pos]]
    OBVIOUS
  <2>3. Is(f)
    <3> HIDE DEF f
    <3> QED
      BY <2>1, <2>2
  <2> QED
    BY <2>3
<1>6. ASSUME NEW f, Is(f) PROVE f[from + n - 1] = F(from + n - 1)
  <2>0. ASSUME NEW pos \in D
        PROVE  f[pos] = IF pos >= to THEN NULL
                        ELSE IF wrong(pos) = {} THEN start(pos) ELSE f[next(pos)]
    BY <1>6
  <2> DEFINE S == {m \in Nat : \A pos \in D : to + 2 * n - pos < m => f[pos] = F(pos)}
  <2>1. 0 \in S
    OBVIOUS
  <2>2. ASSUME NEW m \in Nat, m \in S PROVE m + 1 \in S
    <3>1. ASSUME NEW pos \in D, to + 2 * n - pos < m + 1 PROVE f[pos] = F(pos)
      <4>1. CASE pos >= to
        BY <2>0, <1>2, <4>1
      <4>2. CASE ~(pos >= to) /\ wrong(pos) = {}
        BY <2>0, <1>3, <4>2
      <4>3. CASE ~(pos >= to) /\ wrong(pos) # {}
        <5>1. next(pos) \in D /\ next(pos) \in pos + 1 .. to + 2 * n
          BY <1>3, <1>4, <4>3
        <5>2. to + 2 * n - next(pos) < m
          BY <3>1, <5>1
        <5>3. f[next(pos)] = F(next(pos))
          BY <2>2, <5>1, <5>2
        <5> QED
          BY <2>0, <1>3, <4>3, <5>3
      <4> QED
        BY <4>1, <4>2, <4>3
    <3> QED
      BY <3>1
  <2> HIDE DEF S
  <2>3. Nat \subseteq S
    BY <2>1, <2>2, NatSetInduction
  <2>4. from + n - 1 \in D /\ to + 2 * n - (from + n - 1) + 1 \in Nat
    OBVIOUS
  <2>5. to + 2 * n - (from + n - 1) + 1 \in S
    BY <2>3, <2>4
  <2> QED
    BY <2>4, <2>5 DEF S
<1>7. (CHOOSE f : Is(f))[from + n - 1] = F(from + n - 1)
  <2> HIDE DEF Is
  <2>1. Is(CHOOSE f : Is(f))
    BY <1>5, Zenon
  <2> QED
    BY <1>6, <2>1, Zenon
<1>8. F(from + n - 1) = FirstOccurrence(s, from, to, find, n, cs)
  <2>1. start(from + n - 1) = from
    BY DEF start
  <2> QED
    BY <2>1 DEF F
<1> QED
  BY <1>1, <1>7, <1>8

-----------------------------------------------------------------------------
(***************************************************************************)
(* The hash table.                                                         *)
(***************************************************************************)
(* Division with a remainder.                                              *)
LEMMA Divided ==
    ASSUME NEW d \in Nat \ {0}, NEW x \in Nat
    PROVE  \E y \in Nat : \E r \in 0 .. d - 1 : x = d * y + r /\ d * y \in Nat
<1> DEFINE S == {z \in Nat : \E y \in Nat : \E r \in 0 .. d - 1 : z = d * y + r /\ d * y \in Nat}
<1>1. 0 \in S
  <2>1. 0 = d * 0 + 0 /\ d * 0 \in Nat
    OBVIOUS
  <2> QED
    BY <2>1
<1>2. ASSUME NEW z \in Nat, z \in S PROVE z + 1 \in S
  <2>1. PICK y \in Nat, r \in 0 .. d - 1 : z = d * y + r /\ d * y \in Nat
    BY <1>2
  <2>2. CASE r + 1 < d
    <3>1. z + 1 = d * y + (r + 1) /\ r + 1 \in 0 .. d - 1
      BY <2>1, <2>2
    <3> QED
      BY <2>1, <3>1
  <2>3. CASE r + 1 = d
    <3>1. d * (y + 1) = d * y + d
      OBVIOUS
    <3>2. z + 1 = d * (y + 1) + 0 /\ d * (y + 1) \in Nat /\ 0 \in 0 .. d - 1 /\ y + 1 \in Nat
      BY <2>1, <2>3, <3>1
    <3>3. \E w \in Nat : \E q \in 0 .. d - 1 : z + 1 = d * w + q /\ d * w \in Nat
      <4> WITNESS y + 1 \in Nat
      <4> WITNESS 0 \in 0 .. d - 1
      <4> QED
        BY <3>2
    <3> QED
      BY <3>3
  <2> QED
    BY <2>2, <2>3
<1> HIDE DEF S
<1>3. Nat \subseteq S
  BY <1>1, <1>2, NatSetInduction
<1> QED
  BY <1>3 DEF S

(* What is left of a number that is divided.                               *)
LEMMA Remainder ==
    ASSUME NEW d \in Nat \ {0}, NEW y \in Int, NEW r \in 0 .. d - 1
    PROVE  (d * y + r) % d = r
OBVIOUS

(* The cells are a ring.                                                   *)
LEMMA Ring ==
    ASSUME NEW h \in 0 .. H_SIZE - 1, NEW k \in 0 .. H_SIZE - 1
    PROVE  (h + k) % H_SIZE = IF h + k < H_SIZE THEN h + k ELSE h + k - H_SIZE
BY TableAssumption

(* How the capital forms of the pairs are counted.                         *)
LEMMA Forms ==
    ASSUME NEW f \in {1, 4}, NEW m \in Nat
    PROVE  \E y \in Nat : \E r \in 0 .. f - 1 : m = f * y + r /\ m \div f = y /\ m % f = r
<1>1. f \in Nat \ {0}
  OBVIOUS
<1>2. PICK y \in Nat : \E r \in 0 .. f - 1 : m = f * y + r /\ f * y \in Nat
  BY <1>1, Divided, Zenon
<1>3. PICK r \in 0 .. f - 1 : m = f * y + r
  BY <1>2
<1>4. m \div f = y /\ m % f = r
  <2>1. CASE f = 1
    <3>1. m \div 1 = y /\ m % 1 = r
      BY <1>3, <2>1
    <3> QED
      BY <2>1, <3>1
  <2>2. CASE f = 4
    <3>1. m \div 4 = y /\ m % 4 = r
      BY <1>3, <2>2
    <3> QED
      BY <2>2, <3>1
  <2> QED
    BY <2>1, <2>2
<1> QED
  BY <1>3, <1>4, Zenon

(* The pairs that are entered: they are of the query, the last ones first, *)
(* and one of them is the pair of characters that the text has where the   *)
(* query matches it.                                                       *)
LEMMA Entries ==
    ASSUME NEW n \in Nat, n >= 2, NEW find \in [0 .. n - 1 -> Char], NEW cs \in BOOLEAN
    PROVE  LET e == HashEntries(find, n, cs)
               f == IF cs THEN 1 ELSE 4
           IN  /\ Len(e) = (n - 1) * f /\ DOMAIN e = 1 .. Len(e)
               /\ \A j \in DOMAIN e : e[j].at \in 0 .. H_SIZE - 1 /\ e[j].offset \in 0 .. n - 2
               /\ \A j \in DOMAIN e : \A i \in DOMAIN e : i <= j => e[j].offset <= e[i].offset
               /\ \A q \in 0 .. n - 2 : \A c1 \in Char : \A c2 \in Char :
                      Fold(c1, cs) = find[q] /\ Fold(c2, cs) = find[q + 1] =>
                          \E j \in DOMAIN e : e[j].offset = q /\ e[j].at = Word(c1, c2)
<1> DEFINE e == HashEntries(find, n, cs)
           f == IF cs THEN 1 ELSE 4
           word(i, set) == Word((find[i] - 32 * (set % 2)) % 256,
                                (find[i + 1] - 32 * (set \div 2)) % 256)
<1>1. f \in {1, 4} /\ (n - 1) * f \in Nat
  OBVIOUS
<1>2. e = [j \in 1 .. (n - 1) * f |->
              [at |-> word(n - 2 - ((j - 1) \div f), (j - 1) % f),
               offset |-> n - 2 - ((j - 1) \div f)]]
  BY Zenon DEF HashEntries
<1>3. Len(e) = (n - 1) * f /\ DOMAIN e = 1 .. Len(e)
  <2> HIDE DEF e, f, word
  <2> QED
    BY <1>1, <1>2

<1>4. ASSUME NEW j \in DOMAIN e
      PROVE  \E y \in Nat : \E r \in 0 .. f - 1 :
                 /\ j - 1 = f * y + r /\ y <= n - 2
                 /\ e[j] = [at |-> word(n - 2 - y, r), offset |-> n - 2 - y]
  <2>1. j \in 1 .. (n - 1) * f /\ j - 1 \in Nat
    BY <1>1, <1>3
  <2>2. PICK y \in Nat : \E r \in 0 .. f - 1 :
            j - 1 = f * y + r /\ (j - 1) \div f = y /\ (j - 1) % f = r
    <3> HIDE DEF f
    <3> QED
      BY <1>1, <2>1, Forms, Zenon
  <2>3. PICK r \in 0 .. f - 1 : j - 1 = f * y + r /\ (j - 1) \div f = y /\ (j - 1) % f = r
    BY <2>2, Zenon
  <2>4. y <= n - 2
    BY <2>1, <2>3
  <2>5. e[j] = [at |-> word(n - 2 - ((j - 1) \div f), (j - 1) % f),
                offset |-> n - 2 - ((j - 1) \div f)]
    <3> HIDE DEF e, f, word
    <3> QED
      BY <1>2, <2>1
  <2>6. e[j] = [at |-> word(n - 2 - y, r), offset |-> n - 2 - y]
    <3> HIDE DEF e, f, word
    <3> QED
      BY <2>3, <2>5, Zenon
  <2> HIDE DEF e, f, word
  <2> QED
    BY <2>3, <2>4, <2>6
<1>5. ASSUME NEW i \in 0 .. n - 2, NEW r \in 0 .. f - 1 PROVE word(i, r) \in 0 .. H_SIZE - 1
  <2>1. PICK a \in 0 .. 1 : a = r % 2
    OBVIOUS
  <2>2. PICK b \in 0 .. 1 : b = r \div 2
    OBVIOUS
  <2>0. \A c \in Char : \A k \in 0 .. 1 : (c - 32 * k) % 256 \in Int
    BY DEF Char
  <2>3. PICK x \in Int : x = (find[i] - 32 * a) % 256
    <3>1. find[i] \in Char
      OBVIOUS
    <3> QED
      BY <2>0, <3>1
  <2>4. PICK y \in Int : y = (find[i + 1] - 32 * b) % 256
    <3>1. find[i + 1] \in Char
      OBVIOUS
    <3> QED
      BY <2>0, <3>1
  <2>5. word(i, r) = (x + 256 * y) % H_SIZE
    BY <2>1, <2>2, <2>3, <2>4, Zenon DEF Word
  <2>6. x + 256 * y \in Int
    OBVIOUS
  <2> QED
    BY <2>5, <2>6, TableAssumption
<1>6. ASSUME NEW j \in DOMAIN e
      PROVE  e[j].at \in 0 .. H_SIZE - 1 /\ e[j].offset \in 0 .. n - 2
  <2>1. PICK y \in Nat, r \in 0 .. f - 1 :
            /\ j - 1 = f * y + r /\ y <= n - 2
            /\ e[j] = [at |-> word(n - 2 - y, r), offset |-> n - 2 - y]
    <3> HIDE DEF e, f, word
    <3> QED
      BY <1>4, SMTT(40)
  <2> HIDE DEF e, f, word
  <2> QED
    BY <1>5, <2>1, n - 2 - y \in 0 .. n - 2
<1>7. ASSUME NEW j \in DOMAIN e, NEW i \in DOMAIN e, i <= j PROVE e[j].offset <= e[i].offset
  <2>1. PICK y \in Nat, r \in 0 .. f - 1 :
            j - 1 = f * y + r /\ y <= n - 2 /\ e[j].offset = n - 2 - y
    <3> HIDE DEF e, f, word
    <3> QED
      BY <1>4, SMTT(40)
  <2>2. PICK z \in Nat, t \in 0 .. f - 1 :
            i - 1 = f * z + t /\ z <= n - 2 /\ e[i].offset = n - 2 - z
    <3> HIDE DEF e, f, word
    <3> QED
      BY <1>4, SMTT(40)
  <2>3. z <= y
    <3>1. CASE f = 1
      BY <1>3, <1>7, <2>1, <2>2, <3>1
    <3>2. CASE f = 4
      BY <1>3, <1>7, <2>1, <2>2, <3>2
    <3> QED
      BY <1>1, <3>1, <3>2
  <2> QED
    BY <2>1, <2>2, <2>3
<1>8. ASSUME NEW q \in 0 .. n - 2, NEW c1 \in Char, NEW c2 \in Char,
             Fold(c1, cs) = find[q], Fold(c2, cs) = find[q + 1]
      PROVE  \E j \in DOMAIN e : e[j].offset = q /\ e[j].at = Word(c1, c2)
  <2>1. PICK a \in 0 .. 1 : c1 = find[q] - 32 * a /\ (cs => a = 0)
    <3>1. c1 = Fold(c1, cs) \/ (~cs /\ c1 = Fold(c1, cs) - 32)
      BY FoldFacts
    <3>2. PICK x \in Int : x = find[q]
      BY DEF Char
    <3>3. c1 = x - 32 * 0 \/ (~cs /\ c1 = x - 32 * 1)
      BY <1>8, <3>1, <3>2 DEF Char
    <3> QED
      BY <3>2, <3>3
  <2>2. PICK b \in 0 .. 1 : c2 = find[q + 1] - 32 * b /\ (cs => b = 0)
    <3>1. c2 = Fold(c2, cs) \/ (~cs /\ c2 = Fold(c2, cs) - 32)
      BY FoldFacts
    <3>2. PICK x \in Int : x = find[q + 1]
      BY DEF Char
    <3>3. c2 = x - 32 * 0 \/ (~cs /\ c2 = x - 32 * 1)
      BY <1>8, <3>1, <3>2 DEF Char
    <3> QED
      BY <3>2, <3>3
  <2>3. PICK r \in 0 .. f - 1 : r % 2 = a /\ r \div 2 = b
    <3>1. a + 2 * b \in 0 .. f - 1
      BY <2>1, <2>2
    <3>2. (a + 2 * b) % 2 = a /\ (a + 2 * b) \div 2 = b
      OBVIOUS
    <3> QED
      BY <3>1, <3>2
  <2>4. word(q, r) = Word(c1, c2)
    <3>1. c1 % 256 = c1 /\ c2 % 256 = c2
      BY DEF Char
    <3> QED
      BY <2>1, <2>2, <2>3, <3>1
  <2>5. PICK j \in 1 .. (n - 1) * f : j - 1 = f * (n - 2 - q) + r
    BY <1>1
  <2>6. j \in DOMAIN e
    BY <1>3, <2>5
  <2>7. PICK y \in Nat, t \in 0 .. f - 1 :
            /\ j - 1 = f * y + t
            /\ e[j] = [at |-> word(n - 2 - y, t), offset |-> n - 2 - y]
    <3> HIDE DEF e, f, word
    <3> QED
      BY <1>4, <2>6
  <2>8. y = n - 2 - q /\ t = r
    <3>1. CASE f = 1
      BY <2>5, <2>7, <3>1
    <3>2. CASE f = 4
      BY <2>5, <2>7, <3>2
    <3> QED
      BY <1>1, <3>1, <3>2
  <2>9. n - 2 - y = q
    BY <2>8
  <2> HIDE DEF e, f, word
  <2>10. e[j].offset = q /\ e[j].at = Word(c1, c2)
    BY <2>4, <2>7, <2>8, <2>9
  <2> QED
    BY <2>6, <2>10
<1> HIDE DEF e, f, word
<1> QED
  BY <1>3, <1>6, <1>7, <1>8 DEF e, f

(* The cells that are looked at before a free one are taken.               *)
LEMMA Probe ==
    ASSUME NEW T, NEW h \in 0 .. H_SIZE - 1
    PROVE  LET P == ProbeLength(T, h)
           IN  /\ P \in 0 .. H_SIZE
               /\ \A k \in 0 .. P - 1 : T[(h + k) % H_SIZE] # 0
               /\ \A k \in 0 .. H_SIZE - 1 :
                      (\A i \in 0 .. k : T[(h + i) % H_SIZE] # 0) => k < P
               /\ (\E c \in 0 .. H_SIZE - 1 : T[c] = 0) => P < H_SIZE
               /\ P < H_SIZE => T[(h + P) % H_SIZE] = 0
<1> DEFINE free == {k \in 0 .. H_SIZE - 1 : T[(h + k) % H_SIZE] = 0}
           P == ProbeLength(T, h)
<1>0. H_SIZE \in Nat \ {0}
  BY TableAssumption
<1>1. P = IF free = {} THEN H_SIZE ELSE Min(free)
  BY DEF ProbeLength
<1>2. free # {} => Min(free) \in free /\ \A x \in free : Min(free) <= x
  <2>1. \A x \in free : x \in Int /\ x >= 0
    BY <1>0
  <2> HIDE DEF free
  <2> QED
    BY <2>1, LeastOf
<1>3. P \in 0 .. H_SIZE
  <2>1. CASE free = {}
    BY <1>0, <1>1, <2>1
  <2>2. CASE free # {}
    BY <1>0, <1>1, <1>2, <2>2
  <2> QED
    BY <2>1, <2>2
<1>4. ASSUME NEW k \in 0 .. P - 1 PROVE T[(h + k) % H_SIZE] # 0
  <2>1. k \in 0 .. H_SIZE - 1 /\ ~(P <= k)
    <3> HIDE DEF P
    <3> QED
      BY <1>0, <1>3
  <2>2. k \notin free
    <3> HIDE DEF free, P
    <3> QED
      BY <1>1, <1>2, <2>1
  <2> QED
    BY <2>1, <2>2
<1>5. ASSUME NEW k \in 0 .. H_SIZE - 1, \A i \in 0 .. k : T[(h + i) % H_SIZE] # 0
      PROVE  k < P
  <2>1. CASE free = {}
    BY <1>0, <1>1, <2>1
  <2>2. CASE free # {}
    <3>1. P \in free
      BY <1>1, <1>2, <2>2
    <3>2. P \in 0 .. H_SIZE - 1 /\ T[(h + P) % H_SIZE] = 0
      BY <3>1
    <3> HIDE DEF P
    <3> QED
      BY <1>0, <1>5, <3>2
  <2> QED
    BY <2>1, <2>2
<1>6. ASSUME NEW c \in 0 .. H_SIZE - 1, T[c] = 0 PROVE P < H_SIZE
  <2> DEFINE k == IF c >= h THEN c - h ELSE c - h + H_SIZE
  <2>1. k \in 0 .. H_SIZE - 1
    BY <1>0
  <2>2. (h + k) % H_SIZE = c
    <3>1. (h + k) % H_SIZE = IF h + k < H_SIZE THEN h + k ELSE h + k - H_SIZE
      <4> HIDE DEF k
      <4> QED
        BY <2>1, Ring
    <3> QED
      BY <1>0, <3>1
  <2>3. k \in free
    <3> HIDE DEF k
    <3> QED
      BY <1>6, <2>1, <2>2
  <2>4. P \in free
    BY <1>1, <1>2, <2>3
  <2> QED
    BY <1>0, <2>4
<1>7. P < H_SIZE => T[(h + P) % H_SIZE] = 0
  <2>1. SUFFICES ASSUME P < H_SIZE PROVE P \in free
    OBVIOUS
  <2>2. free # {}
    BY <1>0, <1>1, <2>1
  <2> QED
    BY <1>1, <1>2, <2>2
<1> HIDE DEF P
<1> QED
  BY <1>3, <1>4, <1>5, <1>6, <1>7 DEF P

(* What the table holds when the first j pairs are entered: of each its    *)
(* offset, behind cells with offsets that are not before it.               *)
Written(T) == {c \in 0 .. H_SIZE - 1 : T[c] # 0}

Reached(T, h, q) ==
    \E k \in 0 .. H_SIZE - 1 :
        T[(h + k) % H_SIZE] = q + 1 /\ \A i \in 0 .. k - 1 : T[(h + i) % H_SIZE] > q

Entered(T, e, j, n) ==
    /\ T \in [0 .. H_SIZE - 1 -> 0 .. n - 1]
    /\ IsFiniteSet(Written(T)) /\ Cardinality(Written(T)) <= j
    /\ \A c \in Written(T) : \A i \in DOMAIN e : i >= j => T[c] > e[i].offset
    /\ \A i \in 1 .. j : Reached(T, e[i].at, e[i].offset)

(* Entering one pair more.                                                 *)
LEMMA Enter ==
    ASSUME NEW n \in Nat, n >= 2, n <= CellValues,
           NEW L \in Nat, L < H_SIZE, NEW e, DOMAIN e = 1 .. L,
           \A j \in DOMAIN e : e[j].at \in 0 .. H_SIZE - 1 /\ e[j].offset \in 0 .. n - 2,
           \A j \in DOMAIN e : \A i \in DOMAIN e : i <= j => e[j].offset <= e[i].offset,
           NEW j \in 0 .. L - 1, NEW T, Entered(T, e, j, n)
    PROVE  Entered(EnterHash(T, e[j + 1]), e, j + 1, n)
<1>0. H_SIZE \in Nat \ {0} /\ CellValues \in Nat \ {0}
  BY TableAssumption
<1>1. T \in [0 .. H_SIZE - 1 -> 0 .. n - 1]
  BY DEF Entered
<1>2. PICK h \in 0 .. H_SIZE - 1 : h = e[j + 1].at
  OBVIOUS
<1>3. PICK q \in 0 .. n - 2 : q = e[j + 1].offset
  OBVIOUS
<1>4. \E c \in 0 .. H_SIZE - 1 : T[c] = 0
  <2>1. SUFFICES ASSUME Written(T) = 0 .. H_SIZE - 1 PROVE FALSE
    BY DEF Written
  <2>2. Cardinality(0 .. H_SIZE - 1) = H_SIZE
    BY <1>0, FS_Interval
  <2>3. Cardinality(Written(T)) <= j
    BY DEF Entered
  <2> QED
    BY <1>0, <2>1, <2>2, <2>3
<1>5. PICK P \in 0 .. H_SIZE - 1 : P = ProbeLength(T, h)
  BY <1>0, <1>4, Probe, SMTT(40)
<1>6. T[(h + P) % H_SIZE] = 0 /\ \A k \in 0 .. P - 1 : T[(h + k) % H_SIZE] # 0
  BY <1>4, <1>5, Probe
<1>7. \A x \in 0 .. H_SIZE - 1 : \A k \in 0 .. H_SIZE - 1 : (x + k) % H_SIZE \in 0 .. H_SIZE - 1
  BY <1>0
<1>8. PICK c \in 0 .. H_SIZE - 1 : c = (h + P) % H_SIZE
  BY <1>7
<1>9. EnterHash(T, e[j + 1]) = [T EXCEPT ![c] = q + 1]
  <2>1. T # Hangs
    BY <1>0, <1>1 DEF Hangs
  <2>2. (q + 1) % CellValues = q + 1
    BY <1>0
  <2>3. ProbeLength(T, h) # H_SIZE
    BY <1>0, <1>5
  <2> QED
    BY <1>2, <1>3, <1>5, <1>8, <2>1, <2>2, <2>3, Zenon DEF EnterHash
<1> DEFINE U == [T EXCEPT ![c] = q + 1]
<1>10. U \in [0 .. H_SIZE - 1 -> 0 .. n - 1]
  BY <1>1
<1>11. /\ \A x \in 0 .. H_SIZE - 1 : x # c => U[x] = T[x]
       /\ U[c] = q + 1 /\ T[c] = 0
  BY <1>1, <1>6, <1>8
<1> HIDE DEF U
<1>12. Written(U) = Written(T) \cup {c}
  BY <1>11 DEF Written
<1>13. IsFiniteSet(Written(U)) /\ Cardinality(Written(U)) <= j + 1
  <2>1. IsFiniteSet(Written(T)) /\ Cardinality(Written(T)) <= j
    BY DEF Entered
  <2>2. Cardinality(Written(T)) \in Nat
    BY <2>1, FS_CardinalityType
  <2>3. IsFiniteSet(Written(U)) /\ Cardinality(Written(U)) <= Cardinality(Written(T)) + 1
    <3>1. /\ IsFiniteSet(Written(T) \cup {c})
          /\ Cardinality(Written(T) \cup {c}) =
                 IF c \in Written(T) THEN Cardinality(Written(T)) ELSE Cardinality(Written(T)) + 1
      BY <2>1, FS_AddElement
    <3> QED
      BY <1>12, <2>2, <3>1
  <2>4. Cardinality(Written(U)) \in Nat
    BY <2>3, FS_CardinalityType
  <2> QED
    BY <2>1, <2>2, <2>3, <2>4
<1>14. ASSUME NEW x \in Written(T) PROVE T[x] > q
  BY <1>3 DEF Entered
<1>15. ASSUME NEW x \in Written(U), NEW i \in DOMAIN e, i >= j + 1 PROVE U[x] > e[i].offset
  <2>1. e[i].offset <= q /\ e[i].offset \in 0 .. n - 2
    BY <1>3, <1>15
  <2>2. CASE x = c
    BY <1>11, <2>1, <2>2
  <2>3. CASE x # c
    <3>1. T[x] > q /\ U[x] = T[x] /\ T[x] \in 0 .. n - 1
      BY <1>1, <1>11, <1>12, <1>14, <2>3 DEF Written
    <3> QED
      BY <2>1, <3>1
  <2> QED
    BY <2>2, <2>3
<1>16. ASSUME NEW i \in 1 .. j PROVE Reached(U, e[i].at, e[i].offset)
  <2>1. PICK a \in 0 .. H_SIZE - 1 : a = e[i].at
    OBVIOUS
  <2>2. PICK o \in 0 .. n - 2 : o = e[i].offset
    OBVIOUS
  <2>3. Reached(T, a, o)
    BY <2>1, <2>2 DEF Entered
  <2> DEFINE cell(m) == (a + m) % H_SIZE
  <2>4. PICK k \in 0 .. H_SIZE - 1 :
            T[cell(k)] = o + 1 /\ \A m \in 0 .. k - 1 : T[cell(m)] > o
    BY <2>3 DEF Reached
  <2>5. \A m \in 0 .. H_SIZE - 1 : cell(m) \in 0 .. H_SIZE - 1
    BY <1>7
  <2>6. Reached(U, a, o) <=>
            \E r \in 0 .. H_SIZE - 1 :
                U[cell(r)] = o + 1 /\ \A m \in 0 .. r - 1 : U[cell(m)] > o
    BY Zenon DEF Reached
  <2> HIDE DEF cell
  <2>7. ASSUME NEW m \in 0 .. k PROVE U[cell(m)] = T[cell(m)]
    <3>1. m \in 0 .. H_SIZE - 1 /\ (m = k \/ m \in 0 .. k - 1)
      BY <1>0
    <3>2. T[cell(m)] # 0
      BY <2>4, <3>1
    <3> QED
      BY <1>11, <2>5, <3>1, <3>2
  <2>8. U[cell(k)] = o + 1
    BY <2>4, <2>7
  <2>9. ASSUME NEW m \in 0 .. k - 1 PROVE U[cell(m)] > o
    BY <2>4, <2>7
  <2>10. Reached(U, a, o)
    BY <2>6, <2>8, <2>9
  <2> QED
    BY <2>1, <2>2, <2>10
<1>17. Reached(U, h, q)
  <2> DEFINE cell(m) == (h + m) % H_SIZE
  <2>1. \A m \in 0 .. H_SIZE - 1 : cell(m) \in 0 .. H_SIZE - 1
    BY <1>7
  <2>2. c = cell(P) /\ \A m \in 0 .. P - 1 : T[cell(m)] # 0
    BY <1>6, <1>8
  <2>3. Reached(U, h, q) <=>
            \E r \in 0 .. H_SIZE - 1 :
                U[cell(r)] = q + 1 /\ \A m \in 0 .. r - 1 : U[cell(m)] > q
    BY Zenon DEF Reached
  <2> HIDE DEF cell
  <2>4. ASSUME NEW m \in 0 .. P - 1 PROVE U[cell(m)] > q
    <3>1. m \in 0 .. H_SIZE - 1
      BY <1>0
    <3>2. cell(m) \in Written(T) /\ cell(m) # c
      BY <1>11, <2>1, <2>2, <3>1 DEF Written
    <3>3. T[cell(m)] > q /\ U[cell(m)] = T[cell(m)]
      BY <1>11, <1>14, <2>1, <3>1, <3>2
    <3> QED
      BY <3>3
  <2> QED
    BY <1>11, <2>2, <2>3, <2>4
<1>18. ASSUME NEW i \in 1 .. j + 1 PROVE Reached(U, e[i].at, e[i].offset)
  <2>1. CASE i = j + 1
    BY <1>2, <1>3, <1>17, <2>1
  <2>2. CASE i # j + 1
    BY <1>16, <2>2
  <2> QED
    BY <2>1, <2>2
<1>19. Entered(U, e, j + 1, n)
  BY <1>10, <1>13, <1>15, <1>18 DEF Entered
<1> QED
  BY <1>9, <1>19 DEF U

(* The table that generate_hash() leaves holds all the pairs.              *)
LEMMA Table ==
    ASSUME NEW n \in Nat, n >= 2, n <= CellValues, 4 * (n - 1) < H_SIZE,
           NEW find \in [0 .. n - 1 -> Char], NEW cs \in BOOLEAN
    PROVE  LET e == HashEntries(find, n, cs)
           IN  Entered(generate_hash(find, n, cs), e, Len(e), n)
<1> DEFINE e == HashEntries(find, n, cs)
           L == Len(e)
           zero == [h \in 0 .. H_SIZE - 1 |-> 0]
           Is(f, m) == f = [j \in 0 .. m |-> IF j = 0 THEN zero ELSE EnterHash(f[j - 1], e[j])]
<1>0. H_SIZE \in Nat \ {0} /\ CellValues \in Nat \ {0}
  BY TableAssumption
<1>1. /\ L = (n - 1) * (IF cs THEN 1 ELSE 4) /\ DOMAIN e = 1 .. L
      /\ \A j \in DOMAIN e : e[j].at \in 0 .. H_SIZE - 1 /\ e[j].offset \in 0 .. n - 2
      /\ \A j \in DOMAIN e : \A i \in DOMAIN e : i <= j => e[j].offset <= e[i].offset
  BY Entries
<1>2. L \in Nat /\ L < H_SIZE
  BY <1>0, <1>1
<1>3. generate_hash(find, n, cs) = (CHOOSE f : Is(f, L))[L]
  BY Zenon DEF generate_hash
<1> HIDE DEF L, e, zero
<1>4. \E f : Is(f, L)
  <2> DEFINE S == {m \in Nat : \E f : Is(f, m)}
  <2>1. 0 \in S
    <3> DEFINE f == [j \in 0 .. 0 |-> zero]
    <3>1. \A j \in 0 .. 0 : j = 0
      OBVIOUS
    <3>2. f = [j \in 0 .. 0 |-> IF j = 0 THEN zero ELSE EnterHash(f[j - 1], e[j])]
      BY <3>1
    <3> QED
      BY <3>2
  <2>2. ASSUME NEW m \in Nat, m \in S PROVE m + 1 \in S
    <3>1. PICK f : Is(f, m)
      BY <2>2
    <3>2. \A j \in 0 .. m : f[j] = IF j = 0 THEN zero ELSE EnterHash(f[j - 1], e[j])
      BY <3>1
    <3> DEFINE g == [j \in 0 .. m + 1 |-> IF j = m + 1 THEN EnterHash(f[m], e[m + 1]) ELSE f[j]]
    <3>3. ASSUME NEW j \in 0 .. m + 1
          PROVE  g[j] = IF j = 0 THEN zero ELSE EnterHash(g[j - 1], e[j])
      <4>1. CASE j = m + 1
        <5>1. j - 1 = m /\ g[m] = f[m] /\ j # 0
          BY <4>1
        <5>2. g[j] = EnterHash(f[m], e[m + 1])
          BY <4>1
        <5> HIDE DEF g
        <5> QED
          BY <4>1, <5>1, <5>2, Zenon
      <4>2. CASE j # m + 1
        <5>1. j \in 0 .. m /\ g[j] = f[j]
          BY <4>2
        <5>2. j # 0 => g[j - 1] = f[j - 1]
          BY <4>2
        <5> HIDE DEF g
        <5> QED
          BY <3>2, <5>1, <5>2, Zenon
      <4> QED
        BY <4>1, <4>2
    <3>4. g = [j \in 0 .. m + 1 |-> g[j]]
      OBVIOUS
    <3>5. Is(g, m + 1)
      <4> HIDE DEF g
      <4> QED
        BY <3>3, <3>4, Zenon
    <3> HIDE DEF g, Is
    <3> QED
      BY <3>5
  <2> HIDE DEF S, Is
  <2>3. Nat \subseteq S
    BY <2>1, <2>2, NatSetInduction
  <2> QED
    BY <1>2, <2>3 DEF S
<1> DEFINE f == CHOOSE f : Is(f, L)
<1>5. Is(f, L)
  <2> HIDE DEF Is
  <2> QED
    BY <1>4, Zenon
<1> HIDE DEF f
<1>6. \A j \in 0 .. L : f[j] = IF j = 0 THEN zero ELSE EnterHash(f[j - 1], e[j])
  BY <1>5
<1> DEFINE S == {m \in Nat : m <= L => Entered(f[m], e, m, n)}
<1>7. 0 \in S
  <2>1. f[0] = zero
    BY <1>2, <1>6
  <2>2. Written(zero) = {}
    BY DEF Written, zero
  <2>3. zero \in [0 .. H_SIZE - 1 -> 0 .. n - 1]
    BY DEF zero
  <2>4. Entered(zero, e, 0, n)
    BY <2>2, <2>3, FS_EmptySet DEF Entered
  <2> QED
    BY <2>1, <2>4
<1>8. ASSUME NEW m \in Nat, m \in S PROVE m + 1 \in S
  <2>1. SUFFICES ASSUME m + 1 <= L PROVE Entered(f[m + 1], e, m + 1, n)
    OBVIOUS
  <2>2. m \in 0 .. L - 1 /\ Entered(f[m], e, m, n)
    BY <1>2, <1>8, <2>1
  <2>3. f[m + 1] = EnterHash(f[m], e[m + 1])
    <3>1. m + 1 \in 0 .. L /\ m + 1 # 0 /\ (m + 1) - 1 = m
      BY <1>2, <2>1
    <3> QED
      BY <1>6, <3>1
  <2>4. Entered(EnterHash(f[m], e[m + 1]), e, m + 1, n)
    BY <1>1, <1>2, <2>2, Enter
  <2> QED
    BY <2>3, <2>4
<1> HIDE DEF S
<1>9. Nat \subseteq S
  BY <1>7, <1>8, NatSetInduction
<1>10. Entered(f[L], e, L, n)
  BY <1>2, <1>9 DEF S
<1> QED
  BY <1>3, <1>10, Zenon DEF L, e, f

(* The cells for the pair at s_i lead to the first occurrence that has the *)
(* pair there.                                                             *)
LEMMA Hit ==
    ASSUME NEW n \in Nat, n >= 2, n <= CellValues, 4 * (n - 1) < H_SIZE,
           NEW find \in [0 .. n - 1 -> Char], NEW cs \in BOOLEAN,
           NEW to \in Nat, NEW s \in [0 .. to - 1 -> Char], NEW s_i \in n - 2 .. to - n
    PROVE  LET r == HashHit(s, s_i, find, n, generate_hash(find, n, cs), cs)
           IN  \/ /\ r = NULL
                  /\ \A p \in s_i - (n - 2) .. s_i : ~OccursAt(s, find, n, p, cs)
               \/ /\ r \in s_i - (n - 2) .. s_i /\ OccursAt(s, find, n, r, cs)
                  /\ \A p \in s_i - (n - 2) .. r - 1 : ~OccursAt(s, find, n, p, cs)
<1> DEFINE T == generate_hash(find, n, cs)
           e == HashEntries(find, n, cs)
           h == Word(s[s_i], s[s_i + 1])
           cell(k) == (h + k) % H_SIZE
           P == ProbeLength(T, h)
           R(k) == s_i - (T[cell(k)] - 1)
           hits == {k \in 0 .. P - 1 : OccursAt(s, find, n, R(k), cs)}
           r == HashHit(s, s_i, find, n, T, cs)
<1>0. H_SIZE \in Nat \ {0} /\ CellValues \in Nat \ {0}
  BY TableAssumption
<1>1. r = IF hits = {} THEN NULL ELSE R(Min(hits))
  BY Zenon DEF HashHit
<1>2. DOMAIN e = 1 .. Len(e)
  BY Entries
<1>3. Entered(T, e, Len(e), n)
  BY Table
<1>4. T \in [0 .. H_SIZE - 1 -> 0 .. n - 1]
  BY <1>3 DEF Entered
<1>5. s[s_i] \in Char /\ s[s_i + 1] \in Char
  OBVIOUS
<1>6. h \in 0 .. H_SIZE - 1
  <2>1. \A a \in Char : \A b \in Char : a + 256 * b \in Int
    BY DEF Char
  <2> QED
    <3>1. PICK x \in Int : x = s[s_i] + 256 * s[s_i + 1]
      BY <1>5, <2>1
    <3>2. h = x % H_SIZE
      BY <3>1, Zenon DEF Word
    <3> QED
      BY <1>0, <3>2
<1>7. \A k \in 0 .. H_SIZE - 1 : cell(k) \in 0 .. H_SIZE - 1
  BY <1>0, <1>6
<1>8. /\ P \in 0 .. H_SIZE
      /\ \A k \in 0 .. P - 1 : T[cell(k)] # 0
      /\ \A k \in 0 .. H_SIZE - 1 : (\A i \in 0 .. k : T[cell(i)] # 0) => k < P
  <2> HIDE DEF h, T
  <2> QED
    BY <1>6, Probe
<1>9. ASSUME NEW p \in s_i - (n - 2) .. s_i, OccursAt(s, find, n, p, cs)
      PROVE  \E k \in hits : R(k) = p /\ \A i \in 0 .. k - 1 : R(i) <= p
  <2>1. PICK q \in 0 .. n - 2 : q = s_i - p
    OBVIOUS
  <2>2. Fold(s[s_i], cs) = find[q] /\ Fold(s[s_i + 1], cs) = find[q + 1]
    <3>1. q \in 0 .. n - 1 /\ q + 1 \in 0 .. n - 1 /\ p + q = s_i /\ p + (q + 1) = s_i + 1
      BY <2>1
    <3>2. \A i \in 0 .. n - 1 : Fold(s[p + i], cs) = find[i]
      BY <1>9 DEF OccursAt
    <3>3. Fold(s[p + q], cs) = find[q] /\ Fold(s[p + (q + 1)], cs) = find[q + 1]
      BY <3>1, <3>2
    <3> QED
      BY <3>1, <3>3
  <2>3. PICK j \in DOMAIN e : e[j].offset = q /\ e[j].at = h
    <3>1. PICK c1 \in Char, c2 \in Char : c1 = s[s_i] /\ c2 = s[s_i + 1]
      BY <1>5
    <3>2. \A i \in 0 .. n - 2 : \A d1 \in Char : \A d2 \in Char :
              Fold(d1, cs) = find[i] /\ Fold(d2, cs) = find[i + 1] =>
                  \E j \in DOMAIN e : e[j].offset = i /\ e[j].at = Word(d1, d2)
      BY Entries, SMTT(40)
    <3> QED
      BY <2>2, <3>1, <3>2
  <2>4. Reached(T, h, q)
    <3> HIDE DEF e, T, h
    <3> QED
      BY <1>2, <1>3, <2>3 DEF Entered
  <2>5. PICK k \in 0 .. H_SIZE - 1 : T[cell(k)] = q + 1 /\ \A i \in 0 .. k - 1 : T[cell(i)] > q
    BY <2>4, Zenon DEF Reached
  <2> HIDE DEF h, T, cell, P
  <2>6. ASSUME NEW i \in 0 .. k PROVE T[cell(i)] # 0 /\ T[cell(i)] > q /\ T[cell(i)] \in Int
    <3>1. i = k \/ i \in 0 .. k - 1
      BY <1>0
    <3>2. i \in 0 .. H_SIZE - 1
      BY <1>0
    <3>3. T[cell(i)] \in 0 .. n - 1
      BY <1>4, <1>7, <3>2
    <3> QED
      BY <2>5, <3>1, <3>3
  <2>7. k \in 0 .. P - 1
    BY <1>0, <1>8, <2>6
  <2>8. R(k) = p
    BY <2>1, <2>5
  <2>9. k \in hits
    <3> HIDE DEF R
    <3> QED
      BY <1>9, <2>7, <2>8
  <2>10. \A i \in 0 .. k - 1 : R(i) <= p
    BY <2>1, <2>6
  <2> HIDE DEF R, hits
  <2> QED
    BY <2>8, <2>9, <2>10
<1>10. ASSUME NEW k \in hits
       PROVE  k \in 0 .. P - 1 /\ R(k) \in s_i - (n - 2) .. s_i /\ OccursAt(s, find, n, R(k), cs)
  <2> HIDE DEF h, T, P
  <2>1. k \in 0 .. P - 1 /\ OccursAt(s, find, n, R(k), cs)
    OBVIOUS
  <2>2. k \in 0 .. H_SIZE - 1
    BY <1>0, <1>8, <2>1
  <2>3. T[cell(k)] # 0 /\ T[cell(k)] \in 0 .. n - 1
    <3> HIDE DEF cell
    <3> QED
      BY <1>4, <1>7, <1>8, <2>1, <2>2
  <2>4. R(k) \in s_i - (n - 2) .. s_i
    <3> HIDE DEF cell
    <3> QED
      BY <2>3
  <2> QED
    BY <2>1, <2>4
<1>11. hits # {} => Min(hits) \in hits /\ \A x \in hits : Min(hits) <= x
  <2>1. \A x \in hits : x \in Int /\ x >= 0
    <3> HIDE DEF hits, P
    <3> QED
      BY <1>8, <1>10
  <2> HIDE DEF hits
  <2> QED
    BY <2>1, LeastOf
<1>12. CASE hits = {}
  <2> HIDE DEF hits, R, r
  <2> QED
    BY <1>1, <1>9, <1>12 DEF r
<1>13. CASE hits # {}
  <2> HIDE DEF hits, R, P, T, e, h, cell
  <2>1. PICK m \in hits : m = Min(hits) /\ \A x \in hits : m <= x
    BY <1>11, <1>13
  <2>2. PICK v \in s_i - (n - 2) .. s_i : v = R(m) /\ OccursAt(s, find, n, v, cs)
    BY <1>10, <2>1
  <2>3. ASSUME NEW p \in s_i - (n - 2) .. v - 1, OccursAt(s, find, n, p, cs) PROVE FALSE
    <3>1. p \in s_i - (n - 2) .. s_i /\ p < v
      OBVIOUS
    <3>2. PICK k \in hits : R(k) = p /\ \A i \in 0 .. k - 1 : R(i) <= p
      BY <1>9, <2>3, <3>1
    <3>3. m \in 0 .. P - 1 /\ k \in 0 .. P - 1 /\ m <= k
      BY <1>10, <2>1
    <3>4. m = k \/ m \in 0 .. k - 1
      BY <1>8, <3>3
    <3>5. v <= p
      BY <2>2, <3>2, <3>4
    <3> QED
      BY <3>1, <3>5
  <2>4. r = v
    BY <1>1, <1>13, <2>1, <2>2
  <2> HIDE DEF r
  <2> QED
    BY <2>2, <2>3, <2>4 DEF r, T
<1> QED
  BY <1>12, <1>13

(* Whatever position is not behind the last pair, one of the steps lies    *)
(* within the query that begins there.                                     *)
LEMMA StepNear ==
    ASSUME NEW n \in Nat, n >= 2, NEW from \in Nat, NEW q \in Nat, from <= q
    PROVE  \E m \in q .. q + n - 2 :
               m >= from + n - 2 /\ (m - (from + n - 2)) % (n - 1) = 0
<1>1. PICK d \in Nat \ {0} : d = n - 1
  OBVIOUS
<1>2. PICK y \in Nat : \E r \in 0 .. d - 1 : q - from = d * y + r /\ d * y \in Nat
  <2>1. q - from \in Nat
    OBVIOUS
  <2> QED
    BY <2>1, Divided
<1>3. PICK r \in 0 .. d - 1 : q - from = d * y + r /\ d * y \in Nat
  BY <1>2
<1>4. PICK x \in Nat : x = d * y
  BY <1>3
<1>5. x % d = 0
  BY <1>4, Remainder, d * y + 0 = d * y
<1>6. PICK m \in q .. q + n - 2 : m = from + n - 2 + x
  BY <1>1, <1>3, <1>4
<1>7. m - (from + n - 2) = x /\ m >= from + n - 2
  BY <1>6
<1>8. (m - (from + n - 2)) % (n - 1) = 0
  BY <1>1, <1>5, <1>7, Zenon
<1> QED
  BY <1>7, <1>8, Zenon

(* hash_strnstr() finds the first occurrence, with the table that main()   *)
(* builds from the query, where that has room for all the pairs.           *)
THEOREM HashCorrect ==
    ASSUME NEW n \in Nat, n >= 2, n <= CellValues, 4 * (n - 1) < H_SIZE,
           NEW find \in [0 .. n - 1 -> Char], NEW cs \in BOOLEAN,
           NEW to \in Nat, NEW s \in [0 .. to - 1 -> Char], NEW from \in Nat
    PROVE  hash_strnstr(s, from, to, find, n, generate_hash(find, n, cs), cs)
             = FirstOccurrence(s, from, to, find, n, cs)
<1> DEFINE T == generate_hash(find, n, cs)
           first == from + n - 2
           last == to - n
           steps == {s_i \in first .. to : (s_i - first) % (n - 1) = 0}
           hit(m) == HashHit(s, m, find, n, T, cs)
           found == {s_i \in steps : s_i <= last /\ hit(s_i) # NULL}
           later == {s_i \in steps : s_i > last}
           tail == Min(later) - (n - 1) + 1
           r == hash_strnstr(s, from, to, find, n, T, cs)
           Occurs(p) == OccursAt(s, find, n, p, cs)
<1>1. r = IF to - from < n THEN NULL
          ELSE IF found # {} THEN hit(Min(found))
          ELSE FirstOccurrence(s, tail, to, find, n, cs)
  BY Zenon DEF hash_strnstr
<1>2. CASE to - from < n
  BY <1>1, <1>2 DEF FirstOccurrence
<1> SUFFICES ASSUME ~(to - from < n) PROVE r = FirstOccurrence(s, from, to, find, n, cs)
  BY <1>2
<1>3. first \in Nat /\ last \in Nat /\ from <= last /\ first >= n - 2
  OBVIOUS
<1>4. ASSUME NEW q \in Nat, from <= q, q <= last + 1
      PROVE  \E m \in steps : m \in q .. q + n - 2
  <2>1. PICK m \in q .. q + n - 2 : m >= first /\ (m - first) % (n - 1) = 0
    BY <1>4, StepNear
  <2>2. m \in first .. to
    BY <1>4, <2>1
  <2> HIDE DEF first
  <2> QED
    BY <2>1, <2>2
<1>5. ASSUME NEW m \in steps, m <= last
      PROVE  \/ /\ hit(m) = NULL
                /\ \A p \in m - (n - 2) .. m : ~Occurs(p)
             \/ /\ hit(m) \in m - (n - 2) .. m /\ Occurs(hit(m)) /\ hit(m) # NULL
                /\ \A p \in m - (n - 2) .. hit(m) - 1 : ~Occurs(p)
  <2>1. m \in n - 2 .. to - n
    BY <1>3, <1>5
  <2>2. \/ /\ hit(m) = NULL
           /\ \A p \in m - (n - 2) .. m : ~Occurs(p)
        \/ /\ hit(m) \in m - (n - 2) .. m /\ Occurs(hit(m))
           /\ \A p \in m - (n - 2) .. hit(m) - 1 : ~Occurs(p)
    <3> HIDE DEF steps, first, last
    <3>1. PICK x \in n - 2 .. to - n : x = m
      BY <2>1
    <3>2. PICK v : v = hit(x)
      OBVIOUS
    <3>3. \/ /\ v = NULL
             /\ \A p \in x - (n - 2) .. x : ~OccursAt(s, find, n, p, cs)
          \/ /\ v \in x - (n - 2) .. x /\ OccursAt(s, find, n, v, cs)
             /\ \A p \in x - (n - 2) .. v - 1 : ~OccursAt(s, find, n, p, cs)
      BY <3>2, Hit, SMTT(40)
    <3> QED
      BY <3>1, <3>2, <3>3, Zenon
  <2> HIDE DEF hit, Occurs, steps
  <2> QED
    BY <2>1, <2>2 DEF NULL
<1>6. \A m \in steps : m \in Int /\ m >= first /\ m <= to
  BY <1>3
<1> HIDE DEF r, hit, Occurs, T
<1>7. CASE found # {}
  <2>1. Min(found) \in found /\ \A x \in found : Min(found) <= x
    <3>1. \A x \in found : x \in Int /\ x >= first
      <4> HIDE DEF steps
      <4> QED
        BY <1>6
    <3> HIDE DEF found, first
    <3> QED
      BY <1>3, <1>7, <3>1, LeastOf
  <2>2. PICK m \in steps : m = Min(found) /\ m <= last /\ hit(m) # NULL
    <3> HIDE DEF steps
    <3> QED
      BY <2>1
  <2> HIDE DEF steps, first, last
  <2>3. m \in Int /\ m >= first
    BY <1>6, <2>2
  <2>4. PICK v \in m - (n - 2) .. m :
            v = hit(m) /\ Occurs(v) /\ \A p \in m - (n - 2) .. v - 1 : ~Occurs(p)
    BY <1>5, <2>2
  <2>5. ASSUME NEW q \in from .. v - 1, Occurs(q) PROVE FALSE
    <3>1. q \in Nat /\ from <= q /\ q <= m /\ q < v
      BY <2>3
    <3>2. q < m - (n - 2)
      BY <2>3, <2>4, <2>5, <3>1
    <3>3. PICK k \in steps : k \in q .. q + n - 2
      <4>1. q <= last + 1
        BY <1>3, <2>2, <2>3, <3>1
      <4> QED
        BY <1>4, <3>1, <4>1
    <3>4. k < m /\ k <= last /\ k \in Int
      BY <1>3, <2>2, <2>3, <3>2, <3>3
    <3>5. q \in k - (n - 2) .. k
      BY <3>3
    <3>6. hit(k) # NULL
      BY <1>5, <2>5, <3>4, <3>5
    <3>7. m <= k
      BY <2>1, <2>2, <3>4, <3>6
    <3> QED
      BY <2>3, <3>4, <3>7
  <2>6. v \in from .. to - n
    BY <1>3, <2>2, <2>3 DEF first, last
  <2>7. FirstOccurrence(s, from, to, find, n, cs) = v
    BY <2>4, <2>5, <2>6, FirstIs DEF Occurs
  <2> HIDE DEF found, tail
  <2> QED
    BY <1>1, <1>7, <2>2, <2>4, <2>7
<1>8. CASE found = {}
  <2>1. PICK z \in steps : z \in last + 1 .. last + 1 + n - 2
    <3>1. last + 1 \in Nat /\ from <= last + 1
      BY <1>3
    <3> HIDE DEF steps, last
    <3> QED
      BY <1>3, <1>4, <3>1
  <2>2. Min(later) \in later /\ \A x \in later : Min(later) <= x
    <3>1. later # {}
      <4> HIDE DEF steps, last
      <4> QED
        BY <1>3, <2>1
    <3>2. \A x \in later : x \in Int /\ x >= first
      <4> HIDE DEF steps
      <4> QED
        BY <1>6
    <3> HIDE DEF later, first
    <3> QED
      BY <1>3, <3>1, <3>2, LeastOf
  <2>3. PICK m \in steps : m = Min(later) /\ m > last
    <3> HIDE DEF steps, last
    <3> QED
      BY <2>2
  <2>4. m \in Int /\ m >= first
    <3> HIDE DEF steps
    <3> QED
      BY <1>6
  <2>5. PICK t \in Nat : t = tail /\ t = m - (n - 1) + 1 /\ from <= t
    <3>1. m - (n - 1) + 1 \in Nat /\ from <= m - (n - 1) + 1
      BY <2>4
    <3>2. tail = m - (n - 1) + 1
      <4> HIDE DEF later
      <4> QED
        BY <2>3, Zenon
    <3> QED
      BY <3>1, <3>2
  <2>6. ASSUME NEW q \in from .. to - n, Occurs(q) PROVE t <= q
    <3>1. SUFFICES ASSUME q < t PROVE FALSE
      BY <2>5
    <3> HIDE DEF steps, first
    <3>2. PICK k \in steps : k \in q .. q + n - 2
      BY <1>3, <1>4
    <3>3. k < m /\ k \in Int
      BY <2>4, <2>5, <3>1, <3>2
    <3>4. k <= last
      <4> HIDE DEF last
      <4> QED
        BY <1>3, <2>2, <2>3, <2>4, <3>3
    <3>5. q \in k - (n - 2) .. k
      BY <3>2
    <3>6. hit(k) # NULL
      BY <1>5, <2>6, <3>4, <3>5
    <3> HIDE DEF last
    <3> QED
      BY <1>8, <3>2, <3>4, <3>6
  <2>7. FirstOccurrence(s, from, to, find, n, cs) = FirstOccurrence(s, t, to, find, n, cs)
    BY <2>5, <2>6, FirstFrom DEF Occurs
  <2> HIDE DEF found, tail
  <2> QED
    BY <1>1, <1>8, <2>5, <2>7
<1> QED
  BY <1>7, <1>8 DEF r

-----------------------------------------------------------------------------
(***************************************************************************)
(* search_buf().                                                           *)
(***************************************************************************)
(* The parts of the inductive invariant.  Buffer and options stay what     *)
(* they were, and the tables what main() built.                            *)
Given == \E in \in Inputs : buf = in.buf /\ opts = in.opts

Built ==
    opts.mode = "literal" =>
        /\ alpha_skip_lookup = generate_alpha_skip(opts.query, query_len, opts.case_sensitive, Byte)
        /\ find_skip_lookup = generate_find_skip(opts.query, query_len, opts.case_sensitive)
        /\ h_table = generate_hash(opts.query, query_len, opts.case_sensitive)

(* Which loop runs is settled by the options.                              *)
Phase ==
    /\ pc \in {"alloc", "all", "literal", "multiline", "lines", "found", "invert", "done"}
    /\ pc \in {"all", "literal", "multiline", "lines"} => pc = opts.mode
    /\ pc = "invert" => opts.invert_match

(* The offsets may lie one byte behind the buffer, behind its last line.   *)
Offsets == buf_offset \in 0 .. buf_len + 1 /\ line_offset \in 0 .. buf_len + 1

(* A match lies in the buffer, unless it was found line by line, and is    *)
(* empty only if the expression matches the empty string.                  *)
NeverEmpty ==
    opts.mode \in {"multiline", "lines"} => <<>> \notin opts.re.strings

GoodMatch(m) ==
    /\ m \in Match /\ m.start <= m.end
    /\ opts.mode # "lines" => m.end <= buf_len
    /\ NeverEmpty /\ buf_len > 0 => m.start < m.end

(* What was found are matches, until they are overwritten.                 *)
Recorded ==
    /\ matches \in Seq(Match) /\ matches_size \in Nat
    /\ pc \in {"alloc", "all"} => matches = <<>>
    /\ pc = "found" /\ opts.mode = "all" => matches = <<[start |-> 0, end |-> buf_len]>>
    /\ pc \notin {"invert", "done"} => \A k \in DOMAIN matches : GoodMatch(matches[k])

(* With --invert-match the array always has room for one match more, until *)
(* the last line is added.                                                 *)
Room ==
    /\ opts.mode # "all" /\ pc \in {"literal", "multiline", "lines", "found"} =>
           matches_len + spare <= matches_size
    /\ opts.mode = "all" /\ pc # "alloc" => matches_size = 1
    /\ pc \in {"found", "invert", "done"} => matches_len <= matches_size

(* invert_matches() has written no more matches than it has read, and has  *)
(* not touched those it has still to read; when it has read all, the place *)
(* it is at is behind the last, or at it if that may be empty, which is    *)
(* read again and again then.                                              *)
Reading ==
    /\ GoodMatch(inv.next)
    /\ \A k \in DOMAIN matches : k >= inv.read + 2 => GoodMatch(matches[k])
    /\ inv.count <= matches_len /\ inv.count <= inv.read + 1
    /\ NeverEmpty => inv.read <= matches_len
    /\ inv.i < buf_len =>
           /\ inv.count <= inv.read
           /\ opts.mode # "all" => matches_len + 1 <= matches_size
           /\ inv.read >= matches_len =>
                  \/ inv.i > inv.next.start
                  \/ inv.i = inv.next.start /\ ~inv.inverted /\ ~NeverEmpty
           /\ opts.mode = "all" =>
                  /\ inv.i = 0 /\ inv.read = 0 /\ inv.last_line_end = inv.start
                  /\ inv.next = [start |-> 0, end |-> buf_len]

(* The variables of invert_matches() before it is called.                  *)
NotBegun ==
    [i |-> 0, read |-> 0, next |-> [start |-> 0, end |-> 0],
     count |-> 0, start |-> 0, last_line_end |-> 0, inverted |-> TRUE]

(* invert_matches() stays in the buffer, but for matches found by line.    *)
Inversion ==
    /\ inv \in [i : Nat, read : Nat, next : Match, count : Nat,
                start : Nat, last_line_end : Nat, inverted : BOOLEAN]
    /\ opts.mode # "lines" => inv.i <= buf_len
    /\ pc \notin {"invert", "done"} => inv = NotBegun
    /\ ~opts.invert_match => inv = NotBegun
    /\ pc = "invert" => Reading

(* The inductive invariant.                                                *)
IInv == Given /\ Built /\ Phase /\ Offsets /\ Recorded /\ Room /\ Inversion

-----------------------------------------------------------------------------
(***************************************************************************)
(* The parameters.                                                         *)
(***************************************************************************)
LEMMA GivenFacts ==
    ASSUME Given
    PROVE  /\ buf_len \in Nat /\ buf \in [0 .. buf_len - 1 -> Char]
           /\ opts.mode \in {"all", "literal", "multiline", "lines"}
           /\ opts.mode # "all" => buf_len > 0
           /\ opts.mode = "literal" =>
                  /\ query_len \in Nat \ {0} /\ 4 * (query_len - 1) < H_SIZE
                  /\ opts.query \in [0 .. query_len - 1 -> Char]
           /\ \A w \in opts.re.strings : w \in Seq(Byte)
           /\ opts.case_sensitive \in BOOLEAN /\ opts.invert_match \in BOOLEAN
           /\ opts.max_matches \in Nat
<1>1. PICK in \in Inputs : buf = in.buf /\ opts = in.opts
  BY DEF Given
<1> DEFINE n == Cardinality(DOMAIN in.opts.query)
<1>2. /\ Chars(in.buf)
      /\ in.opts.mode \in {"all", "literal", "multiline", "lines"}
      /\ in.opts.mode # "all" => DOMAIN in.buf # {}
      /\ in.opts.mode = "literal" => Chars(in.opts.query) /\ n > 0 /\ 4 * (n - 1) < H_SIZE
      /\ \A w \in in.opts.re.strings : w \in Seq(Byte)
      /\ {in.opts.case_sensitive, in.opts.word_regexp, in.opts.invert_match} \subseteq BOOLEAN
      /\ in.opts.max_matches \in Nat
  BY InputsAssumption, Zenon
<1>3. ASSUME NEW s, Chars(s)
      PROVE  /\ Cardinality(DOMAIN s) \in Nat
             /\ s \in [0 .. Cardinality(DOMAIN s) - 1 -> Char]
             /\ DOMAIN s # {} => Cardinality(DOMAIN s) > 0
  <2>1. Cardinality(DOMAIN s) \in Nat /\ (DOMAIN s # {} => Cardinality(DOMAIN s) # 0)
    BY <1>3, FS_CardinalityType, FS_EmptySet DEF Chars
  <2>2. DOMAIN s # {} => Cardinality(DOMAIN s) > 0
    BY <2>1
  <2>3. s \in [0 .. Cardinality(DOMAIN s) - 1 -> Char]
    BY <1>3, Zenon DEF Chars, Byte, Char
  <2> QED
    BY <2>1, <2>2, <2>3
<1>4. buf_len = Cardinality(DOMAIN in.buf) /\ query_len = n
  BY <1>1 DEF buf_len, query_len
<1> HIDE DEF n
<1>5. /\ buf_len \in Nat /\ buf \in [0 .. buf_len - 1 -> Char]
      /\ opts.mode # "all" => buf_len > 0
  BY <1>1, <1>2, <1>3, <1>4
<1>6. ASSUME opts.mode = "literal"
      PROVE  /\ query_len \in Nat \ {0} /\ 4 * (query_len - 1) < H_SIZE
             /\ opts.query \in [0 .. query_len - 1 -> Char]
  <2>1. Chars(in.opts.query) /\ n > 0 /\ 4 * (n - 1) < H_SIZE
    BY <1>1, <1>2, <1>6
  <2>2. n \in Nat /\ in.opts.query \in [0 .. n - 1 -> Char]
    BY <1>3, <2>1 DEF n
  <2>3. query_len \in Nat \ {0} /\ 4 * (query_len - 1) < H_SIZE
    BY <1>4, <2>1, <2>2
  <2>4. opts.query \in [0 .. query_len - 1 -> Char]
    BY <1>1, <1>4, <2>2, Zenon
  <2> QED
    BY <2>3, <2>4
<1> QED
  BY <1>1, <1>2, <1>5, <1>6

(* The two searches find the first occurrence.                             *)
LEMMA SearchesRight ==
    ASSUME Given, Built, opts.mode = "literal", buf_offset \in 0 .. buf_len
    PROVE  /\ BoyerMoore = FirstHere
           /\ query_len \in 3 .. CellValues - 2 => Hash = FirstHere
<1>1. PICK n \in Nat \ {0} : n = query_len /\ 4 * (n - 1) < H_SIZE
                             /\ opts.query \in [0 .. n - 1 -> Char]
  BY GivenFacts
<1>2. PICK to \in Nat : to = buf_len /\ buf \in [0 .. to - 1 -> Char]
  BY GivenFacts
<1>3. PICK from \in 0 .. to : from = buf_offset
  BY <1>2
<1>4. opts.case_sensitive \in BOOLEAN /\ Byte = Char
  BY GivenFacts DEF Byte, Char
<1>5. boyer_moore_strnstr(buf, from, to, opts.query, n,
          generate_alpha_skip(opts.query, n, opts.case_sensitive, Char),
          generate_find_skip(opts.query, n, opts.case_sensitive), opts.case_sensitive)
        = FirstOccurrence(buf, from, to, opts.query, n, opts.case_sensitive)
  BY <1>1, <1>2, <1>4, BoyerMooreCorrect
<1>6. BoyerMoore = FirstHere
  BY <1>1, <1>2, <1>3, <1>4, <1>5, Zenon DEF BoyerMoore, FirstHere, Built
<1>7. ASSUME n \in 3 .. CellValues - 2 PROVE Hash = FirstHere
  <2>1. n >= 2 /\ n <= CellValues
    BY <1>7, TableAssumption
  <2>2. hash_strnstr(buf, from, to, opts.query, n,
            generate_hash(opts.query, n, opts.case_sensitive), opts.case_sensitive)
          = FirstOccurrence(buf, from, to, opts.query, n, opts.case_sensitive)
    BY <1>1, <1>2, <1>4, <2>1, HashCorrect
  <2> QED
    BY <1>1, <1>2, <1>3, <2>2, Zenon DEF Hash, FirstHere, Built
<1> QED
  BY <1>1, <1>6, <1>7

(* What tre_regnexec() finds lies in the bytes it is given, and is empty   *)
(* only if the expression matches the empty string.                        *)
LEMMA RegexFinds ==
    ASSUME Given, NEW from \in Nat, NEW to \in Nat, tre_regnexec(from, to) # NoMatch
    PROVE  \E s \in from .. to : \E e \in s .. to :
               /\ tre_regnexec(from, to) = [start |-> s, end |-> e]
               /\ e \in EndsAt(s, to)
               /\ <<>> \notin opts.re.strings => s < e
<1> DEFINE starts == {s \in from .. to :
                         /\ EndsAt(s, to) # {}
                         /\ opts.re.bol =>
                               \/ s = from
                               \/ opts.mode = "multiline" /\ buf[s - 1] = NewLine}
<1>1. /\ starts # {}
      /\ tre_regnexec(from, to) = [start |-> Min(starts), end |-> Max(EndsAt(Min(starts), to))]
  BY DEF tre_regnexec
<1>2. PICK s \in from .. to : s = Min(starts) /\ EndsAt(s, to) # {}
  <2>1. \A x \in starts : x \in Int /\ x >= from
    OBVIOUS
  <2>2. Min(starts) \in starts
    <3> HIDE DEF starts
    <3> QED
      BY <1>1, <2>1, LeastOf
  <2> QED
    BY <2>2
<1>3. PICK e \in s .. to : e = Max(EndsAt(s, to)) /\ e \in EndsAt(s, to)
  <2>1. \A x \in EndsAt(s, to) : x \in s .. to
    BY DEF EndsAt
  <2> DEFINE ends == EndsAt(s, to)
  <2>2. Max(ends) \in ends
    <3>1. ends # {} /\ \A x \in ends : x \in Int /\ x <= to
      <4>1. ends # {}
        BY <1>2
      <4>2. \A x \in s .. to : x \in Int /\ x <= to
        OBVIOUS
      <4> QED
        BY <2>1, <4>1, <4>2, Zenon
    <3>2. to \in Int
      OBVIOUS
    <3> HIDE DEF ends
    <3> QED
      BY <3>1, <3>2, GreatestOf
  <2> QED
    BY <2>1, <2>2
<1>4. ASSUME <<>> \notin opts.re.strings PROVE s < e
  <2>1. PICK w \in opts.re.strings : e = s + Len(w)
    BY <1>3 DEF EndsAt
  <2>2. w \in Seq(Byte) /\ w # <<>>
    BY <1>4, <2>1, GivenFacts
  <2>3. Len(w) \in Nat /\ Len(w) # 0
    BY <2>2
  <2> QED
    BY <2>1, <2>3
<1> HIDE DEF starts
<1> QED
  BY <1>1, <1>2, <1>3, <1>4

-----------------------------------------------------------------------------
(***************************************************************************)
(* The invariant.                                                          *)
(***************************************************************************)
LEMMA InitRight == ASSUME Init PROVE IInv
<1>1. Given /\ Built
  BY DEF Init, Given, Built
<1>2. PICK N \in Nat : N = buf_len
  BY <1>1, GivenFacts
<1>3. /\ pc = "alloc" /\ buf_offset = 0 /\ line_offset = 0
      /\ matches = <<>> /\ matches_size = 0 /\ inv = NotBegun
  BY DEF Init, NotBegun
<1>4. Phase /\ Offsets
  BY <1>2, <1>3 DEF Phase, Offsets
<1>5. Recorded /\ Room
  BY <1>3 DEF Recorded, Room, Match
<1>6. Inversion
  BY <1>2, <1>3 DEF Inversion, NotBegun, Match
<1> QED
  BY <1>1, <1>4, <1>5, <1>6 DEF IInv

(* Buffer, options and tables never change.                                *)
LEMMA Same ==
    ASSUME [Next]_vars
    PROVE  /\ opts' = opts /\ buf' = buf
           /\ alpha_skip_lookup' = alpha_skip_lookup
           /\ find_skip_lookup' = find_skip_lookup /\ h_table' = h_table
           /\ buf_len' = buf_len /\ query_len' = query_len /\ spare' = spare
           /\ NeverEmpty' <=> NeverEmpty
           /\ Given => Given'
           /\ Built => Built'
<1>1. UNCHANGED <<opts, buf, tables>>
  BY DEF Next, Step, Done, vars, Alloc, MatchAll, LiteralMatch, LiteralNoWord, LiteralEnd,
         MultilineMatch, MultilineEnd, LineMatch, LineEnd, LinesEnd, Found, InvertMatch,
         InvertLast, InvertByte, InvertEnd
<1>2. /\ opts' = opts /\ buf' = buf
      /\ alpha_skip_lookup' = alpha_skip_lookup
      /\ find_skip_lookup' = find_skip_lookup /\ h_table' = h_table
  BY <1>1 DEF tables
<1>3. buf_len' = buf_len /\ query_len' = query_len /\ spare' = spare
  BY <1>2, Zenon DEF buf_len, query_len, spare
<1>4. NeverEmpty' <=> NeverEmpty
  BY <1>2, Zenon DEF NeverEmpty
<1>5. (Given => Given') /\ (Built => Built')
  BY <1>2, <1>3, Zenon DEF Given, Built
<1> QED
  BY <1>2, <1>3, <1>4, <1>5

(* A match is recorded, where the array has room for it.                   *)
LEMMA AddRight ==
    ASSUME IInv, [Next]_vars, pc \in {"literal", "multiline", "lines"},
           NEW start \in Nat, NEW end \in Nat, GoodMatch([start |-> start, end |-> end]),
           AddMatch(start, end)
    PROVE  /\ matches' \in Seq(Match) /\ matches_size' \in Nat
           /\ \A k \in DOMAIN matches' : GoodMatch(matches[k])'
           /\ matches_len' + spare <= matches_size'
<1> DEFINE m == [start |-> start, end |-> end]
<1>1. matches \in Seq(Match) /\ \A k \in DOMAIN matches : GoodMatch(matches[k])
  BY DEF IInv, Recorded
<1>2. m \in Match
  BY DEF Match
<1>3. matches' = Append(matches, m)
  BY DEF AddMatch
<1>4. PICK L \in Nat : L = matches_len
  BY <1>1 DEF matches_len
<1>5. matches_len' = L + 1
  BY <1>1, <1>2, <1>3, <1>4 DEF matches_len
<1>6. PICK S \in Nat : S = matches_size
  BY DEF IInv, Recorded
<1>7. PICK x \in 0 .. 1 : x = spare
  BY DEF spare
<1>8. L + x <= S
  BY <1>4, <1>6, <1>7 DEF IInv, Room, Phase
<1>9. matches_size' = IF L + x < S THEN S ELSE IF S = 0 THEN Initial ELSE 2 * S
  BY <1>4, <1>6, <1>7, Zenon DEF AddMatch, realloc_matches
<1>10. matches_size' \in Nat /\ L + 1 + x <= matches_size'
  BY <1>8, <1>9, InitialAssumption
<1>11. ASSUME NEW k \in DOMAIN matches' PROVE GoodMatch(matches[k])'
  <2>1. opts' = opts /\ buf_len' = buf_len /\ (NeverEmpty' <=> NeverEmpty)
    BY Same
  <2>2. GoodMatch(matches'[k])
    <3>1. matches'[k] = IF k = L + 1 THEN m ELSE matches[k]
      BY <1>1, <1>2, <1>3, <1>4 DEF matches_len
    <3>2. k # L + 1 => k \in DOMAIN matches
      BY <1>1, <1>2, <1>3, <1>4 DEF matches_len
    <3> QED
      BY <1>1, <3>1, <3>2
  <2> QED
    BY <2>1, <2>2 DEF GoodMatch
<1>12. matches' \in Seq(Match)
  BY <1>1, <1>2, <1>3
<1> QED
  BY <1>5, <1>7, <1>10, <1>11, <1>12

(* A step of a search loop, which goes on in the buffer and records a      *)
(* match or none.                                                          *)
LEMMA Searched ==
    ASSUME IInv, [Next]_vars, pc \in {"literal", "multiline", "lines"}, inv' = inv,
           buf_offset' \in 0 .. buf_len + 1, line_offset' \in 0 .. buf_len + 1,
           pc' \in {pc, "found"},
           \/ matches' = matches /\ matches_size' = matches_size
           \/ \E start \in Nat : \E end \in Nat :
                  GoodMatch([start |-> start, end |-> end]) /\ AddMatch(start, end)
    PROVE  IInv'
<1>1. /\ Given' /\ Built' /\ opts' = opts /\ buf_len' = buf_len /\ spare' = spare
      /\ (NeverEmpty' <=> NeverEmpty)
  BY Same DEF IInv
<1>2. pc = opts.mode /\ pc # "invert"
  BY DEF IInv, Phase
<1>3. Phase'
  BY <1>1, <1>2 DEF IInv, Phase
<1>4. Offsets'
  BY <1>1 DEF Offsets
<1>5. /\ matches' \in Seq(Match) /\ matches_size' \in Nat
      /\ \A k \in DOMAIN matches' : GoodMatch(matches[k])'
      /\ matches_len' + spare <= matches_size'
  <2>1. CASE matches' = matches /\ matches_size' = matches_size
    <3>1. matches \in Seq(Match) /\ matches_size \in Nat
      BY DEF IInv, Recorded
    <3>2. matches_len' = matches_len /\ matches_len + spare <= matches_size
      BY <1>2, <2>1 DEF matches_len, IInv, Room
    <3>3. ASSUME NEW k \in DOMAIN matches' PROVE GoodMatch(matches[k])'
      <4>1. GoodMatch(matches[k])
        BY <1>2, <2>1, <3>3 DEF IInv, Recorded
      <4> QED
        BY <1>1, <2>1, <4>1, Zenon DEF GoodMatch
    <3> QED
      BY <2>1, <3>1, <3>2, <3>3
  <2>2. CASE \E start \in Nat : \E end \in Nat :
                 GoodMatch([start |-> start, end |-> end]) /\ AddMatch(start, end)
    BY <2>2, AddRight, Zenon
  <2> QED
    BY <2>1, <2>2
<1>6. Recorded'
  BY <1>1, <1>2, <1>5 DEF Recorded
<1>7. Room'
  <2>1. PICK x \in 0 .. 1 : x = spare
    BY DEF spare
  <2>2. PICK l \in Nat : l = matches_len'
    BY <1>5 DEF matches_len
  <2>3. PICK size \in Nat : size = matches_size'
    BY <1>5
  <2>4. l + x <= size
    BY <1>5, <2>1, <2>2, <2>3, Zenon
  <2>5. matches_len' <= matches_size'
    <3>1. l <= size
      BY <2>4
    <3> QED
      BY <2>2, <2>3, <3>1, Zenon
  <2> QED
    BY <1>1, <1>2, <1>5, <2>5 DEF Room
<1>8. Inversion'
  BY <1>1, <1>2 DEF IInv, Inversion
<1> QED
  BY <1>1, <1>3, <1>4, <1>6, <1>7, <1>8 DEF IInv

(* The literal: what is found lies in the buffer, at buf_offset or behind. *)
LEMMA LiteralFound ==
    ASSUME IInv, Searching, match_ptr # NULL
    PROVE  /\ match_ptr = FirstHere
           /\ \E n \in Nat \ {0} : \E p \in buf_offset .. buf_len - n :
                  n = query_len /\ p = match_ptr
<1>1. PICK N \in Nat : N = buf_len
  BY GivenFacts DEF IInv
<1>2. PICK o \in 0 .. N : o = buf_offset /\ o < N
  BY <1>1 DEF IInv, Offsets, Searching
<1>3. opts.mode = "literal"
  BY DEF Searching, IInv, Phase
<1>4. PICK n \in Nat \ {0} : n = query_len
  BY <1>3, GivenFacts DEF IInv
<1>5. BoyerMoore = FirstHere /\ (n \in 3 .. CellValues - 2 => Hash = FirstHere)
  BY <1>1, <1>2, <1>3, <1>4, SearchesRight DEF IInv
<1>6. match_ptr = FirstHere
  <2>1. CASE n < 3 \/ n >= CellValues - 1
    BY <1>4, <1>5, <2>1, Zenon DEF match_ptr
  <2>2. CASE ~(n < 3 \/ n >= CellValues - 1)
    <3>1. n \in 3 .. CellValues - 2
      BY <2>2, TableAssumption
    <3> QED
      BY <1>4, <1>5, <2>2, <3>1, Zenon DEF match_ptr
  <2> QED
    BY <2>1, <2>2
<1>7. PICK p \in o .. N - n : p = FirstHere
  <2>1. FirstHere = FirstOccurrence(buf, o, N, opts.query, n, opts.case_sensitive)
    BY <1>1, <1>2, <1>4, Zenon DEF FirstHere
  <2> DEFINE f == FirstOccurrence(buf, o, N, opts.query, n, opts.case_sensitive)
  <2>2. f = NULL \/ f \in o .. N - n
    BY First
  <2> HIDE DEF f
  <2> QED
    BY <1>6, <2>1, <2>2 DEF f
<1> QED
  BY <1>1, <1>2, <1>4, <1>6, <1>7

(* Where main()'s table says that the next occurrence can begin.           *)
LEMMA SkipFirst ==
    ASSUME Given, Built, opts.mode = "literal"
    PROVE  find_skip_lookup[0] \in query_len .. 2 * query_len - 1
<1>1. PICK n \in Nat \ {0} : n = query_len /\ opts.query \in [0 .. n - 1 -> Char]
  BY GivenFacts
<1>2. 0 \in 0 .. n - 1 /\ opts.case_sensitive \in BOOLEAN
  BY GivenFacts
<1>3. generate_find_skip(opts.query, n, opts.case_sensitive)[0] \in n - 0 .. 2 * n - 1 - 0
  BY <1>1, <1>2, FindSkip
<1>4. find_skip_lookup = generate_find_skip(opts.query, n, opts.case_sensitive)
  BY <1>1 DEF Built
<1> QED
  BY <1>1, <1>3, <1>4

(* The steps of the four loops.                                            *)
LEMMA LiteralSteps ==
    ASSUME IInv, LiteralMatch \/ LiteralNoWord \/ LiteralEnd
    PROVE  IInv'
<1>1. PICK N \in Nat : N = buf_len
  BY GivenFacts DEF IInv
<1>2. PICK o \in 0 .. N + 1 : o = buf_offset
  BY <1>1 DEF IInv, Offsets
<1>3. [Next]_vars /\ inv' = inv /\ pc = "literal" /\ line_offset' = line_offset
  BY DEF Next, Step, LiteralMatch, LiteralNoWord, LiteralEnd
<1>4. opts.mode = "literal"
  BY <1>3 DEF IInv, Phase
<1>5. line_offset' \in 0 .. buf_len + 1
  BY <1>3 DEF IInv, Offsets
<1>6. CASE LiteralMatch
  <2>1. Searching /\ match_ptr # NULL
    BY <1>6 DEF LiteralMatch, Searching
  <2>2. PICK n \in Nat \ {0} : \E p \in buf_offset .. buf_len - n : n = query_len /\ p = match_ptr
    BY <2>1, LiteralFound
  <2>3. PICK p \in o .. N - n : n = query_len /\ p = match_ptr
    BY <1>1, <1>2, <2>2
  <2>4. AddMatch(p, p + n) /\ buf_offset' = p + n /\ pc' \in {pc, "found"}
    BY <1>6, <2>3, Zenon DEF LiteralMatch
  <2>5. GoodMatch([start |-> p, end |-> p + n])
    BY <1>1, <2>3 DEF GoodMatch, Match
  <2>6. p \in Nat /\ p + n \in Nat /\ buf_offset' \in 0 .. buf_len + 1
    BY <1>1, <2>3, <2>4
  <2> QED
    BY <1>3, <1>5, <2>4, <2>5, <2>6, Searched
<1>7. CASE LiteralNoWord
  <2>1. Searching /\ match_ptr # NULL
    BY <1>7 DEF LiteralNoWord, Searching
  <2>2. PICK n \in Nat \ {0} : \E p \in buf_offset .. buf_len - n : n = query_len /\ p = match_ptr
    BY <2>1, LiteralFound
  <2>3. PICK p \in o .. N - n : n = query_len /\ p = match_ptr
    BY <1>1, <1>2, <2>2
  <2>4. PICK skip \in n .. 2 * n - 1 : skip = find_skip_lookup[0]
    BY <1>4, <2>3, SkipFirst DEF IInv
  <2>5. buf_offset' = p + skip - n + 1
    BY <1>7, <2>3, <2>4, Zenon DEF LiteralNoWord
  <2>6. buf_offset' \in 0 .. buf_len + 1
    BY <1>1, <2>3, <2>4, <2>5
  <2>7. matches' = matches /\ matches_size' = matches_size /\ pc' = pc
    BY <1>7 DEF LiteralNoWord
  <2> QED
    BY <1>3, <1>5, <2>6, <2>7, Searched
<1>8. CASE LiteralEnd
  <2>1. /\ matches' = matches /\ matches_size' = matches_size /\ pc' = "found"
        /\ buf_offset' = buf_offset
    BY <1>8 DEF LiteralEnd
  <2>2. buf_offset' \in 0 .. buf_len + 1
    BY <2>1 DEF IInv, Offsets
  <2> QED
    BY <1>3, <1>5, <2>1, <2>2, Searched
<1> QED
  BY <1>6, <1>7, <1>8

(* The loop over the matches of a regular expression in the buffer.        *)
LEMMA MultilineSteps ==
    ASSUME IInv, MultilineMatch \/ MultilineEnd
    PROVE  IInv'
<1>1. PICK N \in Nat : N = buf_len
  BY GivenFacts DEF IInv
<1>2. PICK o \in 0 .. N + 1 : o = buf_offset
  BY <1>1 DEF IInv, Offsets
<1>3. [Next]_vars /\ inv' = inv /\ pc = "multiline" /\ line_offset' = line_offset
  BY DEF Next, Step, MultilineMatch, MultilineEnd
<1>4. opts.mode = "multiline"
  BY <1>3 DEF IInv, Phase
<1>5. line_offset' \in 0 .. buf_len + 1
  BY <1>3 DEF IInv, Offsets
<1>6. CASE MultilineMatch
  <2>1. tre_regnexec(o, N) # NoMatch
    BY <1>1, <1>2, <1>6 DEF MultilineMatch
  <2>2. PICK s \in o .. N : \E e \in s .. N :
            /\ tre_regnexec(o, N) = [start |-> s, end |-> e]
            /\ <<>> \notin opts.re.strings => s < e
    BY <2>1, RegexFinds DEF IInv
  <2>3. PICK e \in s .. N :
            /\ tre_regnexec(o, N) = [start |-> s, end |-> e]
            /\ <<>> \notin opts.re.strings => s < e
    BY <2>2
  <2> DEFINE m == [start |-> s, end |-> e]
  <2>4. m.start = s /\ m.end = e
    OBVIOUS
  <2>5. AddMatch(m.start, m.end) /\ buf_offset' = Behind(m) /\ pc' \in {pc, "found"}
    BY <1>1, <1>2, <1>6, <2>3, Zenon DEF MultilineMatch
  <2>6. AddMatch(s, e) /\ buf_offset' = IF s = e THEN e + 1 ELSE e
    BY <2>4, <2>5, Zenon DEF Behind
  <2>7. GoodMatch([start |-> s, end |-> e])
    BY <1>1, <1>4, <2>3 DEF GoodMatch, Match, NeverEmpty
  <2>8. s \in Nat /\ e \in Nat /\ buf_offset' \in 0 .. buf_len + 1
    BY <1>1, <2>6
  <2> QED
    BY <1>3, <1>5, <2>5, <2>6, <2>7, <2>8, Searched
<1>7. CASE MultilineEnd
  <2>1. /\ matches' = matches /\ matches_size' = matches_size /\ pc' = "found"
        /\ buf_offset' = buf_offset
    BY <1>7 DEF MultilineEnd
  <2>2. buf_offset' \in 0 .. buf_len + 1
    BY <2>1 DEF IInv, Offsets
  <2> QED
    BY <1>3, <1>5, <2>1, <2>2, Searched
<1> QED
  BY <1>6, <1>7

(* The end of the line.                                                    *)
LEMMA GetLine ==
    ASSUME Given, NEW N \in Nat, N = buf_len, NEW o \in 0 .. N, o = buf_offset
    PROVE  buf_getline \in o .. N
<1> DEFINE S == {N} \cup {i \in o .. N - 1 : buf[i] = NewLine}
<1>1. buf_getline = Min(S)
  BY Zenon DEF buf_getline
<1>2. S # {} /\ (\A x \in S : x \in Int /\ x >= o) /\ S \subseteq o .. N
  OBVIOUS
<1>3. Min(S) \in S
  <2>1. o \in Int
    OBVIOUS
  <2> HIDE DEF S
  <2> QED
    BY <1>2, <2>1, LeastOf
<1> HIDE DEF S
<1> QED
  BY <1>1, <1>2, <1>3

(* The loops over the lines and over the matches in each.                  *)
LEMMA LineSteps ==
    ASSUME IInv, LineMatch \/ LineEnd \/ LinesEnd
    PROVE  IInv'
<1>1. PICK N \in Nat : N = buf_len
  BY GivenFacts DEF IInv
<1>2. PICK o \in 0 .. N + 1 : o = buf_offset
  BY <1>1 DEF IInv, Offsets
<1>3. [Next]_vars /\ inv' = inv /\ pc = "lines"
  BY DEF Next, Step, LineMatch, LineEnd, LinesEnd
<1>4. opts.mode = "lines"
  BY <1>3 DEF IInv, Phase
<1>5. PICK l \in 0 .. N + 1 : l = line_offset
  BY <1>1 DEF IInv, Offsets
<1>6. CASE LineMatch
  <2>0. o <= N
    BY <1>1, <1>2, <1>6 DEF LineMatch
  <2>1. PICK g \in o .. N : g = buf_getline
    BY <1>1, <1>2, <2>0, GetLine DEF IInv
  <2>2. tre_regnexec(o + l, g) # NoMatch
    BY <1>2, <1>5, <1>6, <2>1 DEF LineMatch
  <2>3. PICK s \in o + l .. g : \E e \in s .. g :
            /\ tre_regnexec(o + l, g) = [start |-> s, end |-> e]
            /\ <<>> \notin opts.re.strings => s < e
    BY <2>2, o + l \in Nat, g \in Nat, RegexFinds DEF IInv
  <2>4. PICK e \in s .. g :
            /\ tre_regnexec(o + l, g) = [start |-> s, end |-> e]
            /\ <<>> \notin opts.re.strings => s < e
    BY <2>3
  <2> DEFINE m == [start |-> s, end |-> e]
             i == [start |-> s - o, end |-> e - o]
  <2>5. LineMatched(m) = i /\ i.start = s - o /\ i.end = e - o
    BY <1>2 DEF LineMatched
  <2>6. /\ AddMatch(LineMatched(m).start + (o + l), LineMatched(m).end + (o + l))
        /\ line_offset' = Behind(LineMatched(m)) /\ pc' \in {pc, "found"}
        /\ buf_offset' = buf_offset
    BY <1>2, <1>5, <1>6, <2>1, <2>4, Zenon DEF LineMatch
  <2>7. /\ AddMatch((s - o) + (o + l), (e - o) + (o + l))
        /\ line_offset' = IF s - o = e - o THEN (e - o) + 1 ELSE e - o
    BY <2>5, <2>6, Zenon DEF Behind
  <2>8. PICK x \in Nat, y \in Nat : /\ x = (s - o) + (o + l) /\ y = (e - o) + (o + l)
                                    /\ x <= y /\ (s < e => x < y)
    OBVIOUS
  <2>9. GoodMatch([start |-> x, end |-> y])
    BY <1>4, <2>4, <2>8 DEF GoodMatch, Match, NeverEmpty
  <2>10. AddMatch(x, y)
    BY <2>7, <2>8
  <2>11. line_offset' \in 0 .. buf_len + 1 /\ buf_offset' \in 0 .. buf_len + 1
    BY <1>1, <1>2, <2>6, <2>7
  <2>12. \E start \in Nat : \E end \in Nat :
             GoodMatch([start |-> start, end |-> end]) /\ AddMatch(start, end)
    BY <2>9, <2>10
  <2>13. pc' \in {pc, "found"}
    BY <2>6
  <2> QED
    BY <1>3, <2>11, <2>12, <2>13, Searched
<1>7. CASE LineEnd
  <2>0. o <= N
    BY <1>1, <1>2, <1>7 DEF LineEnd
  <2>1. PICK g \in o .. N : g = buf_getline
    BY <1>1, <1>2, <2>0, GetLine DEF IInv
  <2>2. /\ matches' = matches /\ matches_size' = matches_size /\ pc' = pc
        /\ buf_offset' = g + 1 /\ line_offset' = 0
    BY <1>7, <2>1 DEF LineEnd
  <2>3. line_offset' \in 0 .. buf_len + 1 /\ buf_offset' \in 0 .. buf_len + 1
    BY <1>1, <2>2
  <2> QED
    BY <1>3, <2>2, <2>3, Searched
<1>8. CASE LinesEnd
  <2>1. /\ matches' = matches /\ matches_size' = matches_size /\ pc' = "found"
        /\ buf_offset' = buf_offset /\ line_offset' = line_offset
    BY <1>8 DEF LinesEnd
  <2>2. line_offset' \in 0 .. buf_len + 1 /\ buf_offset' \in 0 .. buf_len + 1
    BY <2>1 DEF IInv, Offsets
  <2> QED
    BY <1>3, <2>1, <2>2, Searched
<1> QED
  BY <1>6, <1>7, <1>8

(* The steps before and behind the loops.                                  *)
LEMMA AllocSteps ==
    ASSUME IInv, Alloc \/ MatchAll
    PROVE  IInv'
<1>1. PICK N \in Nat : N = buf_len
  BY GivenFacts DEF IInv
<1>2. [Next]_vars
  BY DEF Next, Step
<1>3. /\ Given' /\ Built' /\ opts' = opts /\ buf_len' = buf_len /\ spare' = spare
      /\ (NeverEmpty' <=> NeverEmpty)
  BY <1>2, Same DEF IInv
<1>4. buf_offset' = buf_offset /\ line_offset' = line_offset /\ inv' = inv
  BY DEF Alloc, MatchAll
<1>5. Offsets'
  BY <1>3, <1>4 DEF Offsets, IInv
<1>6. opts.mode \in {"all", "literal", "multiline", "lines"}
  BY GivenFacts DEF IInv
<1>7. CASE Alloc
  <2>1. /\ pc = "alloc" /\ pc' = opts.mode /\ matches' = matches
        /\ matches_size' = IF opts.mode = "all" THEN 1
                           ELSE IF opts.invert_match THEN Initial ELSE 0
    BY <1>7 DEF Alloc
  <2>2. matches = <<>>
    BY <2>1 DEF IInv, Recorded
  <2>3. Phase'
    BY <1>3, <1>6, <2>1 DEF Phase
  <2>4. Recorded'
    BY <1>3, <1>6, <2>1, <2>2, InitialAssumption DEF Recorded
  <2>5. matches_len' = 0
    BY <2>1, <2>2 DEF matches_len
  <2>6. opts.mode # "all" => matches_len' + spare' <= matches_size'
    BY <1>3, <2>1, <2>5, InitialAssumption DEF spare
  <2>7. Room'
    BY <1>3, <1>6, <2>1, <2>5, <2>6 DEF Room
  <2>8. Inversion'
    BY <1>3, <1>4, <1>6, <2>1 DEF IInv, Inversion
  <2> QED
    BY <1>3, <1>5, <2>3, <2>4, <2>7, <2>8 DEF IInv
<1>8. CASE MatchAll
  <2> DEFINE m == [start |-> 0, end |-> buf_len]
  <2>1. /\ pc = "all" /\ pc' = "found" /\ matches' = <<m>> /\ matches_size' = matches_size
    BY <1>8 DEF MatchAll
  <2>2. opts.mode = "all" /\ matches_size = 1
    BY <2>1 DEF IInv, Phase, Room
  <2>3. m \in Match /\ GoodMatch(m)
    BY <1>1, <2>2 DEF GoodMatch, Match
  <2>4. Phase'
    BY <1>3, <2>1 DEF Phase
  <2>5. Recorded'
    <3>1. ASSUME NEW k \in DOMAIN matches' PROVE GoodMatch(matches[k])'
      <4>1. matches'[k] = m
        BY <2>1, <3>1
      <4> HIDE DEF m
      <4> QED
        BY <1>3, <2>3, <4>1, Zenon DEF GoodMatch
    <3>2. matches' \in Seq(Match) /\ matches_size' \in Nat
      BY <2>1, <2>2, <2>3
    <3> QED
      BY <1>3, <2>1, <3>1, <3>2 DEF Recorded
  <2>6. Room'
    <3>1. matches_len' = 1
      BY <2>1 DEF matches_len
    <3> QED
      BY <1>3, <2>1, <2>2, <3>1 DEF Room
  <2>7. Inversion'
    BY <1>3, <1>4, <2>1 DEF IInv, Inversion
  <2> QED
    BY <1>3, <1>5, <2>4, <2>5, <2>6, <2>7 DEF IInv
<1> QED
  BY <1>7, <1>8

(* The end of the search: nothing to invert, one match for all that was    *)
(* not found, or the beginning of invert_matches().                        *)
LEMMA FoundStep ==
    ASSUME IInv, Found
    PROVE  IInv'
<1>1. PICK N \in Nat : N = buf_len
  BY GivenFacts DEF IInv
<1>2. [Next]_vars
  BY DEF Next, Step
<1>3. /\ Given' /\ Built' /\ opts' = opts /\ buf_len' = buf_len /\ spare' = spare
      /\ (NeverEmpty' <=> NeverEmpty)
  BY <1>2, Same DEF IInv
<1>4. pc = "found" /\ buf_offset' = buf_offset /\ line_offset' = line_offset
      /\ matches_size' = matches_size
  BY DEF Found
<1>5. Offsets'
  BY <1>3, <1>4 DEF Offsets, IInv
<1>6. /\ matches \in Seq(Match) /\ matches_size \in Nat
      /\ \A k \in DOMAIN matches : GoodMatch(matches[k])
  BY <1>4 DEF IInv, Recorded
<1>7. /\ opts.mode # "all" => matches_len + spare <= matches_size
      /\ opts.mode = "all" => matches_size = 1
      /\ matches_len <= matches_size
  BY <1>4, GivenFacts DEF IInv, Room
<1>8. inv = NotBegun
  BY <1>4 DEF IInv, Inversion
<1>9. CASE ~opts.invert_match
  <2>1. pc' = "done" /\ matches' = matches /\ inv' = inv
    BY <1>9 DEF Found
  <2>2. Phase' /\ Recorded' /\ Inversion'
    BY <1>3, <1>4, <1>6, <2>1 DEF IInv, Phase, Recorded, Inversion
  <2>3. Room'
    <3>1. matches_len' = matches_len
      BY <2>1 DEF matches_len
    <3> QED
      BY <1>3, <1>4, <1>7, <2>1, <3>1 DEF Room
  <2> QED
    BY <1>3, <1>5, <2>2, <2>3 DEF IInv
<1>10. CASE opts.invert_match /\ matches = <<>>
  <2>1. opts.mode # "all" /\ N > 0
    <3>1. opts.mode # "all"
      BY <1>4, <1>10 DEF IInv, Recorded
    <3> QED
      BY <1>1, <3>1, GivenFacts DEF IInv
  <2> DEFINE m == [start |-> 0, end |-> N - 1]
  <2>2. pc' = "done" /\ matches' = <<m>> /\ inv' = inv
    BY <1>1, <1>10 DEF Found
  <2>3. m \in Match
    BY <2>1 DEF Match
  <2>4. Phase' /\ Recorded' /\ Inversion'
    BY <1>3, <1>4, <1>6, <2>2, <2>3 DEF IInv, Phase, Recorded, Inversion
  <2>5. Room'
    <3>1. matches_len' = 1 /\ matches_len = 0
      BY <1>10, <2>2 DEF matches_len
    <3>2. 1 <= matches_size
      BY <1>6, <1>7, <1>10, <2>1, <3>1 DEF spare
    <3> QED
      BY <1>3, <1>4, <2>1, <2>2, <3>1, <3>2 DEF Room
  <2> QED
    BY <1>3, <1>5, <2>4, <2>5 DEF IInv
<1>11. CASE opts.invert_match /\ matches # <<>>
  <2>1. pc' = "invert" /\ matches' = matches /\ inv' = [inv EXCEPT !.next = matches[1]]
    BY <1>11 DEF Found
  <2>2. PICK L \in Nat : L = matches_len /\ L >= 1 /\ DOMAIN matches = 1 .. L
    BY <1>6, <1>11 DEF matches_len
  <2>3. PICK m \in Match : m = matches[1] /\ GoodMatch(m)
    BY <1>6, <2>2
  <2>4. inv' = [i |-> 0, read |-> 0, next |-> m, count |-> 0, start |-> 0,
                last_line_end |-> 0, inverted |-> TRUE]
    BY <1>8, <2>1, <2>3 DEF NotBegun
  <2>5. /\ inv'.i = 0 /\ inv'.read = 0 /\ inv'.next = m /\ inv'.count = 0
        /\ inv'.last_line_end = 0 /\ inv'.start = 0
    BY <2>4
  <2>6. inv' \in [i : Nat, read : Nat, next : Match, count : Nat,
                  start : Nat, last_line_end : Nat, inverted : BOOLEAN]
    BY <2>4
  <2>7. matches_len' = L
    BY <2>1, <2>2 DEF matches_len
  <2>8. /\ GoodMatch(inv.next)'
        /\ \A k \in DOMAIN matches' : GoodMatch(matches[k])'
    BY <1>3, <1>6, <2>1, <2>3, <2>5, Zenon DEF GoodMatch
  <2>9. opts.mode # "all" => L + 1 <= matches_size
    BY <1>7, <1>11, <2>2 DEF spare
  <2>10. opts.mode = "all" => m = [start |-> 0, end |-> buf_len]
    BY <1>4, <2>3 DEF IInv, Recorded
  <2>11. Reading'
    BY <1>3, <1>4, <2>2, <2>5, <2>7, <2>8, <2>9, <2>10 DEF Reading
  <2>12. Inversion'
    BY <1>1, <1>3, <1>11, <2>1, <2>5, <2>6, <2>11 DEF Inversion
  <2>13. Phase' /\ Recorded'
    BY <1>3, <1>4, <1>6, <1>11, <2>1 DEF Phase, Recorded
  <2>14. Room'
    BY <1>3, <1>4, <1>7, <2>1, <2>2, <2>7 DEF Room
  <2> QED
    BY <1>3, <1>5, <2>12, <2>13, <2>14 DEF IInv
<1> QED
  BY <1>9, <1>10, <1>11

(* What is inverted is written to the place behind what was.               *)
LEMMA PutRight ==
    ASSUME matches \in Seq(Match), NEW L \in Nat, L = matches_len,
           NEW c \in Nat, c = inv.count, c <= L,
           NEW start \in Nat, NEW end \in Nat, PutInverted(start, end)
    PROVE  /\ matches' \in Seq(Match)
           /\ matches_len' = IF c < L THEN L ELSE L + 1
           /\ \A k \in DOMAIN matches' : k >= c + 2 =>
                  k \in DOMAIN matches /\ matches'[k] = matches[k]
<1> DEFINE m == [start |-> start, end |-> end]
<1>1. m \in Match
  BY DEF Match
<1>2. DOMAIN matches = 1 .. L
  BY DEF matches_len
<1>3. matches' = IF c < L THEN [matches EXCEPT ![c + 1] = m] ELSE Append(matches, m)
  BY Zenon DEF PutInverted
<1> HIDE DEF m
<1>4. CASE c < L
  <2>1. matches' = [matches EXCEPT ![c + 1] = m] /\ c + 1 \in 1 .. L
    BY <1>3, <1>4
  <2>2. matches' \in Seq(Match) /\ Len(matches') = L /\ DOMAIN matches' = 1 .. L
    BY <1>1, <1>2, <2>1 DEF matches_len
  <2>3. \A k \in 1 .. L : k >= c + 2 => matches'[k] = matches[k]
    BY <1>2, <2>1
  <2> QED
    BY <1>2, <1>4, <2>2, <2>3 DEF matches_len
<1>5. CASE ~(c < L)
  <2>1. matches' = Append(matches, m) /\ c = L
    BY <1>3, <1>5
  <2>2. matches' \in Seq(Match) /\ Len(matches') = L + 1 /\ DOMAIN matches' = 1 .. L + 1
    BY <1>1, <2>1 DEF matches_len
  <2> QED
    BY <1>5, <2>1, <2>2 DEF matches_len
<1> QED
  BY <1>4, <1>5

(* The steps of invert_matches().                                          *)
LEMMA InvertMatchStep ==
    ASSUME IInv, InvertMatch
    PROVE  IInv'
<1>1. PICK N \in Nat : N = buf_len
  BY GivenFacts DEF IInv
<1>2. [Next]_vars
  BY DEF Next, Step
<1>3. /\ Given' /\ Built' /\ opts' = opts /\ buf_len' = buf_len /\ spare' = spare
      /\ (NeverEmpty' <=> NeverEmpty)
  BY <1>2, Same DEF IInv
<1>4. pc = "invert" /\ pc' = pc /\ buf_offset' = buf_offset /\ line_offset' = line_offset
      /\ matches_size' = matches_size /\ inv.i < buf_len /\ inv.i = inv.next.start
  BY DEF InvertMatch, Inverting
<1>5. Phase' /\ Offsets' /\ opts.invert_match
  BY <1>3, <1>4 DEF Phase, Offsets, IInv
<1>6. inv \in [i : Nat, read : Nat, next : Match, count : Nat,
               start : Nat, last_line_end : Nat, inverted : BOOLEAN]
  BY DEF IInv, Inversion
<1>7. Reading /\ matches \in Seq(Match) /\ matches_size \in Nat
  BY <1>4 DEF IInv, Inversion, Recorded
<1>8. PICK L \in Nat : L = matches_len /\ DOMAIN matches = 1 .. L
  BY <1>7 DEF matches_len
<1>9. PICK i \in Nat, r \in Nat, c \in Nat, st \in Nat, le \in Nat :
          i = inv.i /\ r = inv.read /\ c = inv.count /\ st = inv.start /\ le = inv.last_line_end
  BY <1>6
<1>10. PICK m \in Match : m = inv.next /\ GoodMatch(m)
  BY <1>6, <1>7 DEF Reading
<1>11. /\ c <= L /\ c <= r
       /\ opts.mode # "all" => L + 1 <= matches_size
       /\ r >= L => ~inv.inverted /\ ~NeverEmpty
       /\ opts.mode = "all" => r = 0 /\ le = st /\ m = [start |-> 0, end |-> buf_len] /\ i = 0
  <2>1. /\ inv.count <= matches_len /\ inv.count <= inv.read
        /\ opts.mode # "all" => matches_len + 1 <= matches_size
        /\ inv.read >= matches_len =>
                  \/ inv.i > inv.next.start
                  \/ inv.i = inv.next.start /\ ~inv.inverted /\ ~NeverEmpty
        /\ opts.mode = "all" =>
               /\ inv.i = 0 /\ inv.read = 0 /\ inv.last_line_end = inv.start
               /\ inv.next = [start |-> 0, end |-> buf_len]
    BY <1>4, <1>7 DEF Reading
  <2>2. ~(inv.i > inv.next.start)
    BY <1>4, <1>9
  <2> QED
    BY <1>8, <1>9, <1>10, <2>1, <2>2
<1>12. PICK x \in Match : x = NextMatch /\ GoodMatch(x) /\ (r + 1 >= L => x = m)
  <2>1. CASE r + 1 < L
    <3>1. r + 2 \in DOMAIN matches /\ r + 2 >= r + 2
      BY <1>8, <2>1
    <3>2. matches[r + 2] \in Match /\ GoodMatch(matches[r + 2])
      BY <1>7, <1>9, <3>1 DEF Reading
    <3>3. NextMatch = matches[r + 2]
      BY <1>8, <1>9, <2>1 DEF NextMatch
    <3> QED
      BY <2>1, <3>2, <3>3
  <2>2. CASE ~(r + 1 < L)
    BY <1>8, <1>9, <1>10, <2>2 DEF NextMatch
  <2> QED
    BY <2>1, <2>2
<1>13. PICK whole \in BOOLEAN : whole = (inv.inverted /\ le > st)
  OBVIOUS
<1>20. ASSUME whole PROVE c < L /\ le - 1 \in Nat
  <2>1. inv.inverted /\ le > st
    BY <1>13, <1>20, Zenon
  <2>2. ~(r >= L)
    BY <1>11, <2>1, Zenon
  <2> QED
    BY <1>11, <2>1, <2>2
<1>14. inv' = [i |-> m.end, read |-> r + 1, next |-> x, count |-> IF whole THEN c + 1 ELSE c,
               start |-> st, last_line_end |-> le, inverted |-> FALSE]
  <2>1. inv' = [inv EXCEPT !.i = inv.next.end, !.read = @ + 1,
                           !.next = NextMatch, !.inverted = FALSE,
                           !.count = IF inv.inverted /\ inv.last_line_end > inv.start
                                     THEN @ + 1 ELSE @]
    BY Zenon DEF InvertMatch
  <2>2. inv' = [inv EXCEPT !.i = m.end, !.read = r + 1, !.next = x, !.inverted = FALSE,
                           !.count = IF whole THEN c + 1 ELSE c]
    BY <1>9, <1>10, <1>12, <1>13, <2>1
  <2> QED
    BY <1>6, <1>9, <2>2
<1>15. m.start = i /\ m.end \in Nat /\ i <= m.end /\ (opts.mode # "lines" => m.end <= N)
       /\ (NeverEmpty => i < m.end)
  BY <1>1, <1>4, <1>9, <1>10 DEF GoodMatch, Match
<1>16. /\ matches' \in Seq(Match) /\ matches_len' = L
       /\ \A k \in DOMAIN matches' : k >= r + 3 => k \in DOMAIN matches /\ matches'[k] = matches[k]
  <2>1. CASE whole
    <3>1. PutInverted(st, le - 1) /\ le - 1 \in Nat
      <4>1. inv.inverted /\ inv.last_line_end > inv.start
        BY <1>9, <1>13, <2>1, Zenon
      <4>2. PutInverted(inv.start, inv.last_line_end - 1)
        BY <4>1, Zenon DEF InvertMatch
      <4> QED
        BY <1>9, <1>20, <2>1, <4>2, Zenon
    <3>2. c < L
      BY <1>20, <2>1
    <3>3. /\ matches' \in Seq(Match) /\ matches_len' = L
          /\ \A k \in DOMAIN matches' : k >= c + 2 => k \in DOMAIN matches /\ matches'[k] = matches[k]
      BY <1>7, <1>8, <1>9, <1>11, <3>1, <3>2, PutRight
    <3>4. \A k \in DOMAIN matches' : k \in Int
      BY <3>3
    <3> QED
      BY <1>11, <3>3, <3>4
  <2>2. CASE ~whole
    <3>1. matches' = matches
      BY <1>9, <1>13, <2>2 DEF InvertMatch
    <3> QED
      BY <1>7, <1>8, <3>1 DEF matches_len
  <2> QED
    BY <1>13, <2>1, <2>2
<1>17. Recorded' /\ Room'
  <2>1. L <= matches_size
    BY <1>4, <1>8 DEF IInv, Room
  <2>2. opts.mode = "all" => matches_size = 1
    BY <1>4 DEF IInv, Room
  <2> QED
    BY <1>3, <1>4, <1>7, <1>16, <2>1, <2>2 DEF Recorded, Room
<1>18. Reading'
  <2>1. GoodMatch(inv.next)'
    BY <1>3, <1>12, <1>14, Zenon DEF GoodMatch
  <2>2. ASSUME NEW k \in DOMAIN matches', k >= r + 3 PROVE GoodMatch(matches[k])'
    <3>1. k \in DOMAIN matches /\ matches'[k] = matches[k] /\ k >= r + 2
      BY <1>8, <1>16, <2>2
    <3>2. GoodMatch(matches[k])
      BY <1>7, <1>9, <3>1 DEF Reading
    <3> QED
      BY <1>3, <3>1, <3>2, Zenon DEF GoodMatch
  <2>3. /\ inv'.i = m.end /\ inv'.read = r + 1 /\ inv'.next = x
        /\ inv'.count = (IF whole THEN c + 1 ELSE c) /\ inv'.inverted = FALSE
        /\ inv'.last_line_end = le /\ inv'.start = st
    BY <1>14
  <2>4. inv'.count <= matches_len' /\ inv'.count <= inv'.read
    <3>1. whole => c < L
      BY <1>20
    <3> QED
      BY <1>11, <1>13, <1>16, <2>3, <3>1
  <2>11. NeverEmpty' => inv'.read <= matches_len'
    <3>1. NeverEmpty => r + 1 <= L
      BY <1>11
    <3> QED
      BY <1>3, <1>16, <2>3, <3>1
  <2>5. opts.mode # "all" => matches_len' + 1 <= matches_size'
    BY <1>4, <1>11, <1>16
  <2>6. r + 1 >= L => \/ m.end > x.start
                      \/ m.end = x.start /\ ~NeverEmpty
    BY <1>12, <1>15
  <2>7. opts.mode = "all" => m.end = N
    BY <1>1, <1>11
  <2>8. inv'.count <= inv'.read + 1
    BY <1>11, <1>13, <2>3
  <2>9. ASSUME NEW k \in DOMAIN matches', k >= inv'.read + 2 PROVE GoodMatch(matches[k])'
    <3>1. k \in Int
      BY <1>16
    <3> QED
      BY <2>2, <2>3, <2>9, <3>1
  <2>10. inv'.i < buf_len' =>
           /\ inv'.count <= inv'.read
           /\ opts'.mode # "all" => matches_len' + 1 <= matches_size'
           /\ inv'.read >= matches_len' =>
                  \/ inv'.i > inv'.next.start
                  \/ inv'.i = inv'.next.start /\ ~inv'.inverted /\ ~NeverEmpty'
           /\ opts'.mode # "all"
    <3>1. inv'.i < buf_len' => opts'.mode # "all"
      BY <1>1, <1>3, <2>3, <2>7
    <3>2. inv'.read >= matches_len' =>
              \/ inv'.i > inv'.next.start
              \/ inv'.i = inv'.next.start /\ ~inv'.inverted /\ ~NeverEmpty'
      BY <1>3, <1>16, <2>3, <2>6
    <3> QED
      BY <1>3, <2>4, <2>5, <3>1, <3>2
  <2> QED
    BY <2>1, <2>4, <2>8, <2>9, <2>10, <2>11, Zenon DEF Reading
<1>19. Inversion'
  <2>1. inv' \in [i : Nat, read : Nat, next : Match, count : Nat,
                  start : Nat, last_line_end : Nat, inverted : BOOLEAN]
    BY <1>13, <1>14, <1>15
  <2>2. opts'.mode # "lines" => inv'.i <= buf_len'
    BY <1>1, <1>3, <1>14, <1>15
  <2> QED
    BY <1>3, <1>4, <1>5, <1>18, <2>1, <2>2 DEF Inversion
<1> QED
  BY <1>3, <1>5, <1>17, <1>19 DEF IInv

(* Its steps through the bytes between the matches.                        *)
LEMMA InvertByteSteps ==
    ASSUME IInv, InvertLast \/ InvertByte
    PROVE  IInv'
<1>1. PICK N \in Nat : N = buf_len
  BY GivenFacts DEF IInv
<1>2. [Next]_vars
  BY DEF Next, Step
<1>3. /\ Given' /\ Built' /\ opts' = opts /\ buf_len' = buf_len /\ spare' = spare
      /\ (NeverEmpty' <=> NeverEmpty)
  BY <1>2, Same DEF IInv
<1>4. pc = "invert" /\ pc' = pc /\ buf_offset' = buf_offset /\ line_offset' = line_offset
      /\ matches_size' = matches_size /\ inv.i < buf_len /\ inv.i # inv.next.start
  BY DEF InvertLast, InvertByte, Inverting
<1>5. Phase' /\ Offsets' /\ opts.invert_match
  BY <1>3, <1>4 DEF Phase, Offsets, IInv
<1>6. inv \in [i : Nat, read : Nat, next : Match, count : Nat,
               start : Nat, last_line_end : Nat, inverted : BOOLEAN]
  BY DEF IInv, Inversion
<1>7. Reading /\ matches \in Seq(Match) /\ matches_size \in Nat
  BY <1>4 DEF IInv, Inversion, Recorded
<1>8. PICK L \in Nat : L = matches_len /\ DOMAIN matches = 1 .. L
  BY <1>7 DEF matches_len
<1>9. PICK i \in Nat, r \in Nat, c \in Nat, st \in Nat :
          i = inv.i /\ r = inv.read /\ c = inv.count /\ st = inv.start
  BY <1>6
<1>10. PICK m \in Match : m = inv.next /\ GoodMatch(m)
  BY <1>6, <1>7 DEF Reading
<1>11. /\ c <= L /\ c <= r /\ opts.mode # "all"
       /\ L + 1 <= matches_size
       /\ r >= L => i > m.start
  <2>1. /\ inv.count <= matches_len /\ inv.count <= inv.read
        /\ opts.mode # "all" => matches_len + 1 <= matches_size
        /\ inv.read >= matches_len =>
                  \/ inv.i > inv.next.start
                  \/ inv.i = inv.next.start /\ ~inv.inverted /\ ~NeverEmpty
        /\ opts.mode = "all" =>
               inv.i = 0 /\ inv.next = [start |-> 0, end |-> buf_len]
    BY <1>4, <1>7 DEF Reading
  <2>2. opts.mode # "all"
    <3>1. opts.mode = "all" => inv.next.start = 0
      BY <2>1
    <3> QED
      BY <1>4, <2>1, <3>1
  <2>3. inv.read >= matches_len => inv.i > inv.next.start
    BY <1>4, <2>1
  <2> QED
    BY <1>8, <1>9, <1>10, <2>1, <2>2, <2>3
<1>12. /\ \A k \in DOMAIN matches : k >= r + 2 => GoodMatch(matches[k])
  BY <1>7, <1>9 DEF Reading
<1>13. i < N /\ m.start \in Nat
  BY <1>1, <1>4, <1>9 DEF Match
<1>17. NeverEmpty => r <= L
  BY <1>7, <1>8, <1>9 DEF Reading
<1>14. L <= matches_size
  BY <1>11, <1>7
<1>15. CASE InvertLast
  <2>1. PutInverted(st, i) /\ inv' = [inv EXCEPT !.i = i + 1, !.count = c + 1] /\ i = N - 1
    <3>1. /\ PutInverted(inv.start, inv.i) /\ inv' = [inv EXCEPT !.i = @ + 1, !.count = @ + 1]
          /\ inv.i = buf_len - 1
      BY <1>15 DEF InvertLast
    <3> QED
      BY <1>1, <1>6, <1>9, <3>1
  <2>2. /\ inv'.i = N /\ inv'.count = c + 1 /\ inv'.read = r /\ inv'.next = m
        /\ inv' \in [i : Nat, read : Nat, next : Match, count : Nat,
                     start : Nat, last_line_end : Nat, inverted : BOOLEAN]
    <3>1. PICK le \in Nat, b \in BOOLEAN : le = inv.last_line_end /\ b = inv.inverted
      BY <1>6
    <3>2. inv' = [i |-> i + 1, read |-> r, next |-> m, count |-> c + 1,
                  start |-> st, last_line_end |-> le, inverted |-> b]
      BY <1>6, <1>9, <1>10, <2>1, <3>1
    <3>3. i + 1 = N
      BY <1>13, <2>1
    <3> QED
      BY <3>2, <3>3
  <2>3. /\ matches' \in Seq(Match)
        /\ matches_len' = IF c < L THEN L ELSE L + 1
        /\ \A k \in DOMAIN matches' : k >= c + 2 => k \in DOMAIN matches /\ matches'[k] = matches[k]
    BY <1>7, <1>8, <1>9, <1>11, <2>1, PutRight
  <2>4. ASSUME NEW k \in DOMAIN matches', k >= r + 2 PROVE GoodMatch(matches[k])'
    <3>1. k \in Int
      BY <2>3
    <3>2. k \in DOMAIN matches /\ matches'[k] = matches[k]
      BY <1>11, <2>3, <2>4, <3>1
    <3>3. GoodMatch(matches[k])
      BY <1>12, <2>4, <3>2
    <3> QED
      BY <1>3, <3>2, <3>3, Zenon DEF GoodMatch
  <2>5. GoodMatch(inv.next)'
    BY <1>3, <1>10, <2>2, Zenon DEF GoodMatch
  <2>6. inv'.count <= matches_len' /\ inv'.count <= inv'.read + 1
    BY <1>11, <2>2, <2>3
  <2>7. ~(inv'.i < buf_len')
    BY <1>1, <1>3, <2>2
  <2>11. NeverEmpty' => inv'.read <= matches_len'
    BY <1>3, <1>11, <1>17, <2>2, <2>3
  <2>8. Reading'
    BY <2>2, <2>4, <2>5, <2>6, <2>7, <2>11 DEF Reading
  <2>9. Inversion'
    BY <1>1, <1>3, <1>4, <1>5, <2>2, <2>8 DEF Inversion
  <2>10. Recorded' /\ Room'
    <3>1. matches_len' <= matches_size
      BY <1>7, <1>11, <2>3
    <3> QED
      BY <1>3, <1>4, <1>7, <1>11, <2>3, <3>1 DEF Recorded, Room
  <2> QED
    BY <1>3, <1>5, <2>9, <2>10 DEF IInv
<1>16. CASE InvertByte
  <2>1. matches' = matches
    BY <1>16 DEF InvertByte
  <2>2. inv' = IF buf[inv.i] = NewLine
               THEN [inv EXCEPT !.i = @ + 1, !.last_line_end = inv.i + 1,
                                !.start = IF inv.inverted THEN @ ELSE inv.i + 1,
                                !.inverted = TRUE]
               ELSE [inv EXCEPT !.i = @ + 1]
    BY Zenon, <1>16 DEF InvertByte
  <2>3. /\ inv'.i = i + 1 /\ inv'.count = c /\ inv'.read = r /\ inv'.next = m
        /\ inv' \in [i : Nat, read : Nat, next : Match, count : Nat,
                     start : Nat, last_line_end : Nat, inverted : BOOLEAN]
    <3>1. PICK le \in Nat, b \in BOOLEAN : le = inv.last_line_end /\ b = inv.inverted
      BY <1>6
    <3>2. CASE buf[inv.i] = NewLine
      <4>1. PICK x \in Nat : x = IF inv.inverted THEN st ELSE i + 1
        OBVIOUS
      <4>2. inv' = [inv EXCEPT !.i = @ + 1, !.last_line_end = inv.i + 1,
                               !.start = IF inv.inverted THEN @ ELSE inv.i + 1,
                               !.inverted = TRUE]
        BY <2>2, <3>2
      <4>3. inv' = [i |-> i + 1, read |-> r, next |-> m, count |-> c,
                    start |-> x, last_line_end |-> i + 1, inverted |-> TRUE]
        BY <1>6, <1>9, <1>10, <4>1, <4>2
      <4> QED
        BY <4>3
    <3>3. CASE buf[inv.i] # NewLine
      <4>1. inv' = [inv EXCEPT !.i = @ + 1]
        BY <2>2, <3>3
      <4>2. inv' = [i |-> i + 1, read |-> r, next |-> m, count |-> c,
                    start |-> st, last_line_end |-> le, inverted |-> b]
        BY <1>6, <1>9, <1>10, <3>1, <4>1
      <4> QED
        BY <4>2
    <3> QED
      BY <3>2, <3>3
  <2>4. matches_len' = L
    BY <1>8, <2>1 DEF matches_len
  <2>5. GoodMatch(inv.next)'
    BY <1>3, <1>10, <2>3, Zenon DEF GoodMatch
  <2>6. ASSUME NEW k \in DOMAIN matches', k >= r + 2 PROVE GoodMatch(matches[k])'
    <3>1. GoodMatch(matches[k]) /\ matches'[k] = matches[k]
      BY <1>12, <2>1, <2>6
    <3> QED
      BY <1>3, <3>1, Zenon DEF GoodMatch
  <2>7. r >= L => inv'.i > inv'.next.start
    BY <1>9, <1>11, <1>13, <2>3
  <2>8. Reading'
    <3>1. inv'.count <= matches_len' /\ inv'.count <= inv'.read /\ inv'.count <= inv'.read + 1
      BY <1>11, <2>3, <2>4
    <3>2. matches_len' + 1 <= matches_size'
      BY <1>4, <1>11, <2>4
    <3>3. NeverEmpty' => inv'.read <= matches_len'
      BY <1>3, <1>17, <2>3, <2>4
    <3> QED
      BY <1>3, <1>11, <2>3, <2>4, <2>5, <2>6, <2>7, <3>1, <3>2, <3>3 DEF Reading
  <2>9. Inversion'
    <3>1. inv'.i <= buf_len'
      BY <1>1, <1>3, <1>13, <2>3
    <3> QED
      BY <1>3, <1>4, <1>5, <2>3, <2>8, <3>1 DEF Inversion
  <2>10. Recorded' /\ Room'
    BY <1>3, <1>4, <1>7, <1>11, <1>14, <2>1, <2>4 DEF Recorded, Room
  <2> QED
    BY <1>3, <1>5, <2>9, <2>10 DEF IInv
<1> QED
  BY <1>15, <1>16

(* Its end: as many matches as were written.                               *)
LEMMA InvertEndStep ==
    ASSUME IInv, InvertEnd
    PROVE  IInv'
<1>1. [Next]_vars
  BY DEF Next, Step
<1>2. /\ Given' /\ Built' /\ opts' = opts /\ buf_len' = buf_len /\ spare' = spare
      /\ (NeverEmpty' <=> NeverEmpty)
  BY <1>1, Same DEF IInv
<1>3. pc = "invert" /\ pc' = "done" /\ buf_offset' = buf_offset /\ line_offset' = line_offset
      /\ matches_size' = matches_size /\ inv' = inv /\ matches' = SubSeq(matches, 1, inv.count)
  BY DEF InvertEnd
<1>4. Phase' /\ Offsets' /\ opts.invert_match
  BY <1>2, <1>3 DEF Phase, Offsets, IInv
<1>5. matches \in Seq(Match) /\ matches_size \in Nat /\ Len(matches) <= matches_size
  BY <1>3 DEF IInv, Recorded, Room, matches_len
<1>6. PICK c \in Nat : c = inv.count /\ c <= Len(matches)
  BY <1>3 DEF IInv, Inversion, Reading, matches_len
<1>7. matches' \in Seq(Match) /\ Len(matches') = c
  BY <1>3, <1>5, <1>6
<1>8. Recorded'
  BY <1>2, <1>3, <1>5, <1>7 DEF Recorded
<1>9. Room'
  <2>1. opts.mode = "all" => matches_size = 1
    BY <1>3 DEF IInv, Room
  <2>2. matches_len' <= matches_size
    BY <1>5, <1>6, <1>7 DEF matches_len
  <2> QED
    BY <1>2, <1>3, <2>1, <2>2 DEF Room
<1>10. Inversion'
  BY <1>2, <1>3, <1>4 DEF IInv, Inversion
<1> QED
  BY <1>2, <1>4, <1>8, <1>9, <1>10 DEF IInv

(* A step that changes nothing.                                            *)
LEMMA StutterStep ==
    ASSUME IInv, UNCHANGED vars
    PROVE  IInv'
<1>1. /\ opts' = opts /\ buf' = buf /\ pc' = pc
      /\ buf_offset' = buf_offset /\ line_offset' = line_offset
      /\ matches' = matches /\ matches_size' = matches_size /\ inv' = inv
  BY DEF vars
<1>2. /\ Given' /\ Built' /\ buf_len' = buf_len /\ spare' = spare
      /\ (NeverEmpty' <=> NeverEmpty) /\ matches_len' = matches_len
  BY <1>1, Same DEF IInv, matches_len
<1>3. Phase' /\ Offsets' /\ Room'
  BY <1>1, <1>2, Zenon DEF IInv, Phase, Offsets, Room
<1>4. Recorded' /\ Reading = Reading'
  BY <1>1, <1>2, Zenon DEF IInv, Recorded, Reading, GoodMatch
<1>5. Inversion'
  BY <1>1, <1>2, <1>4, Zenon DEF IInv, Inversion
<1> QED
  BY <1>2, <1>3, <1>4, <1>5 DEF IInv

(* Every step preserves the invariant.                                     *)
LEMMA StepRight == ASSUME IInv, [Next]_vars PROVE IInv'
<1>1. CASE UNCHANGED vars
  BY <1>1, StutterStep
<1>2. CASE Next
  <2>1. CASE Alloc \/ MatchAll
    BY <2>1, AllocSteps
  <2>2. CASE LiteralMatch \/ LiteralNoWord \/ LiteralEnd
    BY <2>2, LiteralSteps
  <2>3. CASE MultilineMatch \/ MultilineEnd
    BY <2>3, MultilineSteps
  <2>4. CASE LineMatch \/ LineEnd \/ LinesEnd
    BY <2>4, LineSteps
  <2>5. CASE Found
    BY <2>5, FoundStep
  <2>6. CASE InvertMatch
    BY <2>6, InvertMatchStep
  <2>7. CASE InvertLast \/ InvertByte
    BY <2>7, InvertByteSteps
  <2>8. CASE InvertEnd
    BY <2>8, InvertEndStep
  <2>9. CASE Done
    BY <2>9, StutterStep DEF Done
  <2> QED
    BY <1>2, <2>1, <2>2, <2>3, <2>4, <2>5, <2>6, <2>7, <2>8, <2>9 DEF Next, Step
<1> QED
  BY <1>1, <1>2

(* The invariant holds in every execution.                                 *)
LEMMA Invariant == Spec => []IInv
<1>1. Init => IInv
  BY InitRight
<1>2. IInv /\ [Next]_vars => IInv'
  BY StepRight
<1> QED
  BY <1>1, <1>2, PTL DEF Spec

-----------------------------------------------------------------------------
(***************************************************************************)
(* What follows from it.                                                   *)
(***************************************************************************)
(* Line by line and inverted, the offsets that are recorded may lie behind *)
(* the buffer, and invert_matches() goes there.                            *)
NoInvertedLines ==
    \A in \in Inputs : in.opts.invert_match => in.opts.mode # "lines"

(* Where that does not happen every variable has its type: the offsets lie *)
(* in the buffer, and the array has room for what is written to it.        *)
THEOREM TypeCorrect == ASSUME NoInvertedLines PROVE Spec => []TypeOK
<1>1. ASSUME IInv PROVE TypeOK
  <2>1. PICK N \in Nat : N = buf_len
    BY <1>1, GivenFacts DEF IInv
  <2>2. opts.mode = "lines" => ~opts.invert_match
    <3>1. PICK in \in Inputs : buf = in.buf /\ opts = in.opts
      BY <1>1 DEF IInv, Given
    <3>2. in.opts.invert_match => in.opts.mode # "lines"
      BY NoInvertedLines DEF NoInvertedLines
    <3> QED
      BY <3>1, <3>2, Zenon
  <2>3. inv \in [i : Nat, read : Nat, next : Match, count : Nat,
                 start : Nat, last_line_end : Nat, inverted : BOOLEAN]
    BY <1>1 DEF IInv, Inversion
  <2>4. PICK i \in Nat : i = inv.i /\ i <= N
    <3>1. CASE opts.mode # "lines"
      BY <1>1, <2>1, <2>3, <3>1 DEF IInv, Inversion
    <3>2. CASE opts.mode = "lines"
      <4>1. inv = NotBegun
        BY <1>1, <2>2, <3>2 DEF IInv, Inversion
      <4> QED
        BY <2>1, <4>1 DEF NotBegun
    <3> QED
      BY <3>1, <3>2
  <2>5. inv \in [i : 0 .. buf_len, read : Nat, next : Match, count : Nat,
                 start : Nat, last_line_end : Nat, inverted : BOOLEAN]
    BY <2>1, <2>3, <2>4
  <2>6. pc = "invert" => inv.count <= inv.read + spare
    <3>1. pc = "invert" => spare = 1 /\ inv.count <= inv.read + 1
      BY <1>1 DEF IInv, Phase, spare, Inversion, Reading
    <3> QED
      BY <3>1, Zenon
  <2> QED
    BY <1>1, <2>5, <2>6 DEF IInv, Phase, Offsets, Recorded, Room, TypeOK
<1> QED
  BY <1>1, Invariant, PTL

(* Wherever search_buf() looks for a literal it is given the first place   *)
(* where it occurs, by either of the two searches.                         *)
THEOREM LiteralCorrect == Spec => []LiteralFindsFirst
<1>1. ASSUME IInv PROVE LiteralFindsFirst
  <2>1. SUFFICES ASSUME Searching
                 PROVE  /\ BoyerMoore = FirstHere
                        /\ query_len \in 3 .. CellValues - 2 => Hash = FirstHere
    BY DEF LiteralFindsFirst
  <2>2. opts.mode = "literal"
    BY <1>1, <2>1 DEF Searching, IInv, Phase
  <2>3. PICK N \in Nat : N = buf_len
    BY <1>1, GivenFacts DEF IInv
  <2>4. buf_offset \in 0 .. buf_len
    BY <1>1, <2>1, <2>3 DEF Searching, IInv, Offsets
  <2> QED
    BY <1>1, <2>2, <2>4, SearchesRight DEF IInv
<1> QED
  BY <1>1, Invariant, PTL

(* Inverted, the matches of an expression that matches the empty string    *)
(* hold invert_matches() where it is.                                      *)
NoInvertedEmpty ==
    \A in \in Inputs :
        in.opts.invert_match /\ in.opts.mode \in {"multiline", "lines"} =>
            <<>> \notin in.opts.re.strings

(* A step of Advances.                                                     *)
Advance ==
    /\ buf_offset' >= buf_offset /\ inv'.i >= inv.i
    /\ inv'.read >= inv.read /\ (pc' = "invert" => inv'.read <= matches_len')
    /\ pc' = pc =>
           \/ buf_offset' > buf_offset
           \/ buf_offset' = buf_offset /\ line_offset' > line_offset
           \/ inv'.i > inv.i
           \/ inv'.read > inv.read

(* A step of a search, which leaves the variables of invert_matches()      *)
(* alone.                                                                  *)
LEMMA SearchAdvances ==
    ASSUME IInv, inv' = inv, pc' # "invert", buf_offset' \in Int,
           \/ buf_offset' > buf_offset
           \/ buf_offset' = buf_offset /\ (pc' = pc => line_offset' > line_offset)
    PROVE  Advance
<1>1. inv'.i >= inv.i /\ inv'.read >= inv.read
  <2>1. inv.i \in Nat /\ inv.read \in Nat
    BY DEF IInv, Inversion
  <2> QED
    BY <2>1
<1>2. PICK N \in Nat : N = buf_len
  BY GivenFacts DEF IInv
<1>3. PICK o \in Nat : o = buf_offset
  BY <1>2 DEF IInv, Offsets
<1>4. buf_offset' >= buf_offset
  BY <1>3
<1> QED
  BY <1>1, <1>4 DEF Advance

(* The loops of search_buf() go on: behind a match, behind an empty match  *)
(* and one byte, or behind a line.                                         *)
LEMMA LoopAdvances ==
    ASSUME IInv,
           \/ Alloc \/ MatchAll
           \/ LiteralMatch \/ LiteralNoWord \/ LiteralEnd
           \/ MultilineMatch \/ MultilineEnd
           \/ LineMatch \/ LineEnd \/ LinesEnd
    PROVE  Advance
<1>1. PICK N \in Nat : N = buf_len
  BY GivenFacts DEF IInv
<1>2. PICK o \in 0 .. N + 1 : o = buf_offset
  BY <1>1 DEF IInv, Offsets
<1>3. PICK l \in 0 .. N + 1 : l = line_offset
  BY <1>1 DEF IInv, Offsets
<1>4. CASE Alloc \/ MatchAll \/ LiteralEnd \/ MultilineEnd \/ LinesEnd
  <2>1. /\ inv' = inv /\ buf_offset' = buf_offset /\ pc' # pc /\ pc' # "invert"
    <3>1. CASE Alloc
      <4>1. opts.mode \in {"all", "literal", "multiline", "lines"}
        BY GivenFacts DEF IInv
      <4> QED
        BY <3>1, <4>1 DEF Alloc
    <3>2. CASE MatchAll \/ LiteralEnd \/ MultilineEnd \/ LinesEnd
      BY <3>2 DEF MatchAll, LiteralEnd, MultilineEnd, LinesEnd
    <3> QED
      BY <1>4, <3>1, <3>2
  <2>2. buf_offset' \in Int
    BY <1>2, <2>1
  <2> QED
    BY <2>1, <2>2, SearchAdvances
<1>5. CASE LiteralMatch \/ LiteralNoWord
  <2>1. Searching /\ match_ptr # NULL /\ inv' = inv /\ pc' # "invert"
    BY <1>5 DEF LiteralMatch, LiteralNoWord, Searching
  <2>2. PICK n \in Nat \ {0} : \E p \in buf_offset .. buf_len - n : n = query_len /\ p = match_ptr
    BY <2>1, LiteralFound
  <2>3. PICK p \in o .. N - n : n = query_len /\ p = match_ptr
    BY <1>1, <1>2, <2>2
  <2>4. opts.mode = "literal"
    BY <2>1 DEF Searching, IInv, Phase
  <2>5. PICK skip \in n .. 2 * n - 1 : skip = find_skip_lookup[0]
    BY <2>3, <2>4, SkipFirst DEF IInv
  <2>6. buf_offset' = p + n \/ buf_offset' = p + skip - n + 1
    BY <1>5, <2>3, <2>5, Zenon DEF LiteralMatch, LiteralNoWord
  <2>7. buf_offset' \in Int /\ buf_offset' > o
    BY <2>3, <2>5, <2>6
  <2> QED
    BY <1>2, <2>1, <2>7, SearchAdvances
<1>6. CASE MultilineMatch
  <2>1. tre_regnexec(o, N) # NoMatch /\ inv' = inv /\ pc' # "invert"
    BY <1>1, <1>2, <1>6 DEF MultilineMatch
  <2>2. PICK s \in o .. N : \E e \in s .. N : tre_regnexec(o, N) = [start |-> s, end |-> e]
    BY <2>1, RegexFinds DEF IInv
  <2>3. PICK e \in s .. N : tre_regnexec(o, N) = [start |-> s, end |-> e]
    BY <2>2
  <2> DEFINE m == [start |-> s, end |-> e]
  <2>4. m.start = s /\ m.end = e
    OBVIOUS
  <2>5. buf_offset' = Behind(m)
    BY <1>1, <1>2, <1>6, <2>3, Zenon DEF MultilineMatch
  <2>6. buf_offset' = IF s = e THEN e + 1 ELSE e
    BY <2>4, <2>5, Zenon DEF Behind
  <2>7. buf_offset' \in Int /\ buf_offset' > o
    BY <2>6
  <2> QED
    BY <1>2, <2>1, <2>7, SearchAdvances
<1>7. CASE LineMatch
  <2>0. o <= N /\ inv' = inv /\ pc' # "invert" /\ buf_offset' = buf_offset
    BY <1>1, <1>2, <1>7 DEF LineMatch
  <2>1. PICK g \in o .. N : g = buf_getline
    BY <1>1, <1>2, <2>0, GetLine DEF IInv
  <2>2. tre_regnexec(o + l, g) # NoMatch
    BY <1>2, <1>3, <1>7, <2>1 DEF LineMatch
  <2>3. PICK s \in o + l .. g : \E e \in s .. g :
            tre_regnexec(o + l, g) = [start |-> s, end |-> e]
    BY <2>2, o + l \in Nat, g \in Nat, RegexFinds DEF IInv
  <2>4. PICK e \in s .. g : tre_regnexec(o + l, g) = [start |-> s, end |-> e]
    BY <2>3
  <2> DEFINE m == [start |-> s, end |-> e]
             i == [start |-> s - o, end |-> e - o]
  <2>5. LineMatched(m) = i /\ i.start = s - o /\ i.end = e - o
    BY <1>2 DEF LineMatched
  <2>6. line_offset' = Behind(LineMatched(m))
    BY <1>2, <1>3, <1>7, <2>1, <2>4, Zenon DEF LineMatch
  <2>7. line_offset' = IF s - o = e - o THEN (e - o) + 1 ELSE e - o
    BY <2>5, <2>6, Zenon DEF Behind
  <2>8. line_offset' > line_offset /\ buf_offset' \in Int
    BY <1>2, <1>3, <2>0, <2>7
  <2> QED
    BY <2>0, <2>8, SearchAdvances
<1>8. CASE LineEnd
  <2>0. o <= N /\ inv' = inv /\ pc' # "invert"
    BY <1>1, <1>2, <1>8 DEF LineEnd
  <2>1. PICK g \in o .. N : g = buf_getline
    BY <1>1, <1>2, <2>0, GetLine DEF IInv
  <2>2. buf_offset' = g + 1
    BY <1>8, <2>1 DEF LineEnd
  <2>3. buf_offset' \in Int /\ buf_offset' > buf_offset
    BY <1>2, <2>2
  <2> QED
    BY <2>0, <2>3, SearchAdvances
<1> QED
  BY <1>4, <1>5, <1>6, <1>7, <1>8

(* The loop of invert_matches() goes on, to the end of a match that is not *)
(* empty or by one byte.                                                   *)
LEMMA InvertAdvances ==
    ASSUME IInv, NoInvertedEmpty, Found \/ InvertMatch \/ InvertLast \/ InvertByte \/ InvertEnd
    PROVE  Advance
<1>1. PICK N \in Nat : N = buf_len
  BY GivenFacts DEF IInv
<1>2. PICK o \in Nat : o = buf_offset
  BY <1>1 DEF IInv, Offsets
<1>3. buf_offset' = buf_offset /\ buf_offset' >= buf_offset
  <2>1. buf_offset' = buf_offset
    BY DEF Found, InvertMatch, InvertLast, InvertByte, InvertEnd
  <2> QED
    BY <1>2, <2>1
<1>4. inv \in [i : Nat, read : Nat, next : Match, count : Nat,
               start : Nat, last_line_end : Nat, inverted : BOOLEAN]
  BY DEF IInv, Inversion
<1>5. PICK i \in Nat, r \in Nat : i = inv.i /\ r = inv.read
  BY <1>4
<1>6. matches \in Seq(Match)
  BY DEF IInv, Recorded
<1>7. PICK L \in Nat : L = matches_len
  BY <1>6 DEF matches_len
<1>8. CASE Found
  <2>1. pc = "found" /\ inv = NotBegun
    BY <1>8 DEF Found, IInv, Inversion
  <2>2. pc' # pc /\ (inv' = inv \/ inv' = [inv EXCEPT !.next = matches[1]])
        /\ (pc' = "invert" => matches' = matches)
    BY <1>8 DEF Found
  <2>3. inv'.i = 0 /\ inv'.read = 0 /\ i = 0 /\ r = 0
    BY <1>5, <2>1, <2>2 DEF NotBegun
  <2>4. pc' = "invert" => inv'.read <= matches_len'
    BY <1>7, <2>2, <2>3 DEF matches_len
  <2> QED
    BY <1>3, <1>5, <2>2, <2>3, <2>4 DEF Advance
<1>9. CASE InvertEnd
  <2>1. pc = "invert" /\ pc' = "done" /\ inv' = inv
    BY <1>9 DEF InvertEnd
  <2>2. inv'.i >= inv.i /\ inv'.read >= inv.read
    BY <1>5, <2>1
  <2> QED
    BY <1>3, <2>1, <2>2 DEF Advance
<1>10. CASE InvertMatch \/ InvertLast \/ InvertByte
  <2>1. pc = "invert" /\ inv.i < buf_len
    BY <1>10 DEF InvertMatch, InvertLast, InvertByte, Inverting
  <2>2. Reading /\ opts.invert_match
    BY <2>1 DEF IInv, Inversion, Phase
  <2>3. PICK c \in Nat : c = inv.count /\ c <= L
    BY <1>4, <1>7, <2>2 DEF Reading
  <2>4. NeverEmpty
    <3>1. PICK in \in Inputs : buf = in.buf /\ opts = in.opts
      BY DEF IInv, Given
    <3>2. in.opts.invert_match /\ in.opts.mode \in {"multiline", "lines"} =>
              <<>> \notin in.opts.re.strings
      BY NoInvertedEmpty DEF NoInvertedEmpty
    <3> QED
      BY <2>2, <3>1, <3>2, Zenon DEF NeverEmpty
  <2>5. r <= L
    BY <1>5, <1>7, <2>2, <2>4 DEF Reading
  <2>6. CASE InvertMatch
    <3>1. IInv'
      BY <2>6, InvertMatchStep
    <3>2. /\ pc' = "invert" /\ matches \in Seq(Match)
          /\ inv' = [inv EXCEPT !.i = inv.next.end, !.read = @ + 1,
                         !.next = NextMatch, !.inverted = FALSE,
                         !.count = IF inv.inverted /\ inv.last_line_end > inv.start
                                   THEN @ + 1 ELSE @]
          /\ inv.i = inv.next.start
      BY <1>6, <2>1, <2>6 DEF InvertMatch
    <3>3. PICK m \in Match : m = inv.next /\ GoodMatch(m)
      BY <1>4, <2>2 DEF Reading
    <3>4. inv'.i = m.end /\ inv'.read = r + 1 /\ m.end \in Nat /\ i <= m.end
      BY <1>4, <1>5, <3>2, <3>3 DEF GoodMatch, Match
    <3>5. Reading' /\ NeverEmpty'
      <4>1. [Next]_vars
        BY <2>6 DEF Next, Step
      <4> QED
        BY <2>4, <3>1, <3>2, <4>1, Same DEF IInv, Inversion
    <3>6. inv'.read <= matches_len'
      BY <3>5 DEF Reading
    <3> QED
      BY <1>3, <1>5, <3>4, <3>6 DEF Advance
  <2>7. CASE InvertLast \/ InvertByte
    <3>1. IInv'
      BY <2>7, InvertByteSteps
    <3>2. pc' = "invert" /\ inv'.i = i + 1 /\ inv'.read = r
      <4>1. CASE InvertLast
        <5>1. pc' = "invert" /\ inv' = [inv EXCEPT !.i = @ + 1, !.count = @ + 1]
          BY <2>1, <4>1 DEF InvertLast
        <5> QED
          BY <1>4, <1>5, <5>1
      <4>2. CASE InvertByte
        <5>1. /\ pc' = "invert"
              /\ \/ inv' = [inv EXCEPT !.i = @ + 1, !.last_line_end = inv.i + 1,
                               !.start = IF inv.inverted THEN @ ELSE inv.i + 1,
                               !.inverted = TRUE]
                 \/ inv' = [inv EXCEPT !.i = @ + 1]
          BY <2>1, <4>2, Zenon DEF InvertByte
        <5> QED
          BY <1>4, <1>5, <5>1
      <4> QED
        BY <2>7, <4>1, <4>2
    <3>5. Reading' /\ NeverEmpty'
      <4>1. [Next]_vars
        BY <2>7 DEF Next, Step
      <4> QED
        BY <2>4, <3>1, <3>2, <4>1, Same DEF IInv, Inversion
    <3>6. inv'.read <= matches_len'
      BY <3>5 DEF Reading
    <3> QED
      BY <1>3, <1>5, <3>2, <3>6 DEF Advance
  <2> QED
    BY <1>10, <2>6, <2>7
<1> QED
  BY <1>8, <1>9, <1>10

(* No loop of search_buf() or of invert_matches() goes back or stands      *)
(* still, except where empty matches are inverted.                         *)
THEOREM LoopsAdvance == ASSUME NoInvertedEmpty PROVE Spec => Advances
<1>1. ASSUME IInv, [Next]_vars PROVE [Advance]_vars
  <2>1. CASE UNCHANGED vars
    BY <2>1
  <2>2. CASE Next
    <3>1. CASE Found \/ InvertMatch \/ InvertLast \/ InvertByte \/ InvertEnd
      BY <1>1, <3>1, NoInvertedEmpty, InvertAdvances
    <3>2. CASE Done
      BY <3>2 DEF Done
    <3>3. CASE \/ Alloc \/ MatchAll
               \/ LiteralMatch \/ LiteralNoWord \/ LiteralEnd
               \/ MultilineMatch \/ MultilineEnd
               \/ LineMatch \/ LineEnd \/ LinesEnd
      BY <1>1, <3>3, LoopAdvances
    <3> QED
      BY <2>2, <3>1, <3>2, <3>3 DEF Next, Step
  <2> QED
    BY <1>1, <2>1, <2>2
<1> QED
  BY <1>1, Invariant, PTL DEF Spec, Advances, Advance

-----------------------------------------------------------------------------
(***************************************************************************)
(* What search_buf() finds is right, inverted or not.                      *)
(*                                                                         *)
(* The reference counts the matches of a buffer with recursive functions:  *)
(* that they exist, and are what their definitions say, comes first.       *)
(***************************************************************************)
(* Sequences, one for each number up to N, that begin with val and go on   *)
(* with the sequence of a larger number, next, or stop.                    *)
Chained(f, N, stop, val, next) ==
    f = [x \in 0 .. N |-> IF stop[x] THEN <<>> ELSE val[x] \o f[next[x]]]

(* Such a function exists, and its values are sequences.                   *)
LEMMA Chain ==
    ASSUME NEW N \in Nat, NEW T, NEW stop \in [0 .. N -> BOOLEAN], NEW val, NEW next,
           \A x \in 0 .. N : ~stop[x] => val[x] \in Seq(T) /\ next[x] \in x + 1 .. N
    PROVE  /\ \E f : Chained(f, N, stop, val, next)
           /\ \A f : Chained(f, N, stop, val, next) => f \in [0 .. N -> Seq(T)]
<1> DEFINE Body(f, x) == IF stop[x] THEN <<>> ELSE val[x] \o f[next[x]]
           Rest(k) == {x \in 0 .. N : x >= N + 1 - k}
           Good(k) == \E f \in [Rest(k) -> Seq(T)] : \A x \in Rest(k) : f[x] = Body(f, x)
           S == {k \in Nat : k <= N + 1 => Good(k)}
<1>1. 0 \in S
  <2>1. Rest(0) = {}
    OBVIOUS
  <2> DEFINE none == [x \in Rest(0) |-> <<>>]
  <2>2. none \in [Rest(0) -> Seq(T)] /\ \A x \in Rest(0) : none[x] = Body(none, x)
    BY <2>1
  <2>3. Good(0)
    BY <2>2
  <2> HIDE DEF Good
  <2> QED
    BY <2>3
<1>2. ASSUME NEW k \in Nat, k \in S PROVE k + 1 \in S
  <2>1. SUFFICES ASSUME k <= N PROVE Good(k + 1)
    <3> HIDE DEF Good
    <3> QED
      OBVIOUS
  <2>2. Good(k)
    <3> HIDE DEF Good
    <3> QED
      BY <1>2, <2>1
  <2>3. PICK f \in [Rest(k) -> Seq(T)] : \A x \in Rest(k) : f[x] = Body(f, x)
    BY <2>2
  <2>4. PICK y \in 0 .. N : y = N - k
    BY <2>1
  <2>5. Rest(k + 1) = Rest(k) \cup {y} /\ y \notin Rest(k)
    <3>1. \A x \in 0 .. N : x >= N + 1 - (k + 1) <=> x >= N + 1 - k \/ x = y
      BY <2>4
    <3>2. ~(y >= N + 1 - k)
      BY <2>4
    <3> QED
      BY <3>1, <3>2
  <2>6. \A x \in Rest(k + 1) : ~stop[x] => next[x] \in Rest(k)
    BY <2>4, <2>5
  <2>7. \A x \in Rest(k + 1) : x \in 0 .. N
    OBVIOUS
  <2> HIDE DEF Rest
  <2> DEFINE g == [x \in Rest(k + 1) |-> IF x = y THEN Body(f, x) ELSE f[x]]
  <2>8. ASSUME NEW x \in Rest(k + 1) PROVE Body(f, x) \in Seq(T) /\ Body(g, x) = Body(f, x)
    <3>1. CASE stop[x]
      BY <3>1
    <3>2. CASE ~stop[x]
      <4>1. val[x] \in Seq(T) /\ next[x] \in Rest(k)
        BY <2>6, <2>7, <3>2
      <4>2. f[next[x]] \in Seq(T) /\ g[next[x]] = f[next[x]]
        BY <2>5, <4>1
      <4>3. val[x] \o f[next[x]] \in Seq(T)
        BY <4>1, <4>2
      <4> HIDE DEF g
      <4> QED
        BY <3>2, <4>2, <4>3, Zenon
    <3> QED
      BY <3>1, <3>2
  <2>9. ASSUME NEW x \in Rest(k + 1) PROVE g[x] \in Seq(T) /\ g[x] = Body(g, x)
    <3>1. CASE x = y
      <4>1. g[x] = Body(f, x)
        BY <3>1, Zenon
      <4> QED
        BY <2>8, <4>1, Zenon
    <3>2. CASE x # y
      <4>1. x \in Rest(k)
        BY <2>5, <3>2
      <4>2. f[x] \in Seq(T) /\ f[x] = Body(f, x)
        BY <2>3, <4>1, Zenon
      <4>3. g[x] = f[x]
        BY <3>2, Zenon
      <4> QED
        BY <2>8, <4>2, <4>3, Zenon
    <3> QED
      BY <3>1, <3>2
  <2>10. g \in [Rest(k + 1) -> Seq(T)]
    <3>1. g = [x \in Rest(k + 1) |-> g[x]]
      OBVIOUS
    <3> HIDE DEF g
    <3> QED
      BY <2>9, <3>1
  <2> HIDE DEF g
  <2> QED
    BY <2>9, <2>10
<1>3. N + 1 \in S
  <2> HIDE DEF S
  <2>1. Nat \subseteq S
    BY <1>1, <1>2, NatSetInduction
  <2> QED
    BY <2>1
<1>4. Good(N + 1)
  <2> HIDE DEF Good
  <2> QED
    BY <1>3
<1>5. Rest(N + 1) = 0 .. N
  OBVIOUS
<1>6. PICK f \in [0 .. N -> Seq(T)] : \A x \in 0 .. N : f[x] = Body(f, x)
  <2> HIDE DEF Rest, Body
  <2> QED
    BY <1>4, <1>5
<1>7. f = [x \in 0 .. N |-> Body(f, x)]
  <2> HIDE DEF Body
  <2> QED
    BY <1>6
<1>8. ASSUME NEW g, g = [x \in 0 .. N |-> Body(g, x)] PROVE g \in [0 .. N -> Seq(T)]
  <2> DEFINE Bad == {k \in Nat : k <= N /\ g[N - k] \notin Seq(T)}
  <2>1. ASSUME NEW x \in 0 .. N PROVE g[x] = Body(g, x)
    <3> HIDE DEF Body
    <3> QED
      BY <1>8, <2>1, Zenon
  <2>2. SUFFICES ASSUME Bad # {} PROVE FALSE
    <3>1. ASSUME NEW x \in 0 .. N PROVE g[x] \in Seq(T)
      <4>1. N - x \in Nat /\ N - x <= N /\ N - (N - x) = x
        OBVIOUS
      <4> QED
        BY <2>2, <4>1
    <3>2. g = [x \in 0 .. N |-> g[x]]
      <4> HIDE DEF Body
      <4> QED
        BY <1>8
    <3> HIDE DEF Bad
    <3> QED
      BY <3>1, <3>2
  <2>3. PICK k \in Bad : \A j \in Bad : k <= j
    <3>1. Bad \in SUBSET Nat
      OBVIOUS
    <3> HIDE DEF Bad
    <3> QED
      BY <2>2, <3>1, Least
  <2>4. PICK x \in 0 .. N : x = N - k /\ g[x] \notin Seq(T)
    BY <2>3
  <2>5. ~stop[x]
    <3>1. stop[x] => g[x] = <<>>
      BY <2>1, Zenon
    <3>2. <<>> \in Seq(T)
      OBVIOUS
    <3> QED
      BY <2>4, <3>1, <3>2, Zenon
  <2>6. PICK y \in x + 1 .. N : y = next[x] /\ val[x] \in Seq(T)
    BY <2>5
  <2>7. g[x] = val[x] \o g[y]
    BY <2>1, <2>5, <2>6, Zenon
  <2>8. g[y] \notin Seq(T)
    BY <2>4, <2>6, <2>7
  <2>9. N - y \in Nat /\ N - y < k /\ N - y <= N /\ N - (N - y) = y /\ k \in Nat
    BY <2>3, <2>4
  <2>10. N - y \in Bad
    BY <2>8, <2>9
  <2> HIDE DEF Bad
  <2> QED
    BY <2>3, <2>9, <2>10
<1> QED
  BY <1>7, <1>8, Zenon DEF Chained

(* A match of the reference lies between the offsets.                      *)
LEMMA MatchLies ==
    ASSUME Given, opts.mode # "all", NEW from \in Nat, NEW to \in Nat,
           MatchFrom(from, to) # NoMatch
    PROVE  \E s \in from .. to : \E e \in s .. to : MatchFrom(from, to) = [start |-> s, end |-> e]
<1> DEFINE ends(s) == IF opts.mode = "literal"
                      THEN {e \in {s + query_len} : e <= to /\ WordAt(s, e)}
                      ELSE IF opts.re.bol => BeginsLine(s) THEN EndsAt(s, to) ELSE {}
           starts == {s \in from .. to : ends(s) # {}}
<1>1. ASSUME NEW s \in from .. to, NEW e \in ends(s) PROVE e \in s .. to
  <2>1. CASE opts.mode = "literal"
    <3>1. PICK n \in Nat : n = query_len
      BY <2>1, GivenFacts
    <3>2. e = s + n /\ e <= to
      BY <1>1, <2>1, <3>1
    <3> QED
      BY <3>1, <3>2
  <2>2. CASE opts.mode # "literal"
    <3>1. e \in EndsAt(s, to)
      BY <1>1, <2>2
    <3> QED
      BY <3>1 DEF EndsAt
  <2> QED
    BY <2>1, <2>2
<1> HIDE DEF ends
<1>2. /\ starts # {}
      /\ MatchFrom(from, to) = [start |-> Min(starts), end |-> Max(ends(Min(starts)))]
  BY Zenon DEF MatchFrom, ends
<1>3. PICK s \in from .. to : s = Min(starts) /\ ends(s) # {}
  <2>1. \A x \in starts : x \in Int /\ x >= from
    OBVIOUS
  <2>2. Min(starts) \in starts
    <3> HIDE DEF starts
    <3> QED
      BY <1>2, <2>1, LeastOf
  <2> QED
    BY <2>2
<1>4. Max(ends(s)) \in ends(s)
  <2>1. \A x \in ends(s) : x \in Int /\ x <= to
    <3>1. \A x \in s .. to : x \in Int /\ x <= to
      OBVIOUS
    <3> QED
      BY <1>1, <3>1, Zenon
  <2>2. to \in Int
    OBVIOUS
  <2> QED
    BY <1>3, <2>1, <2>2, GreatestOf
<1>5. Max(ends(s)) \in s .. to
  BY <1>1, <1>4
<1> HIDE DEF starts
<1> QED
  BY <1>2, <1>3, <1>5

(* The matches up to an offset, unfolded.                                  *)
LEMMA MatchesUnfold ==
    ASSUME Given, opts.mode # "all", NEW to \in 0 .. buf_len
    PROVE  /\ MatchesUpTo(to) \in [0 .. buf_len + 1 -> Seq(Match)]
           /\ \A from \in 0 .. buf_len + 1 :
                  /\ from >= to \/ MatchFrom(from, to) = NoMatch => MatchesUpTo(to)[from] = <<>>
                  /\ ~(from >= to \/ MatchFrom(from, to) = NoMatch) =>
                         MatchesUpTo(to)[from] = <<MatchFrom(from, to)>> \o
                                                 MatchesUpTo(to)[Behind(MatchFrom(from, to))]
<1>1. PICK B \in Nat : B = buf_len
  BY GivenFacts
<1>2. PICK N \in Nat : N = B + 1 /\ to \in Nat /\ to < N
  BY <1>1
<1> DEFINE m(x) == MatchFrom(x, to)
           Stop(x) == x >= to \/ m(x) = NoMatch
           then(x) == Max({m(x).start + 1, m(x).end})
           stop == [x \in 0 .. N |-> Stop(x)]
           val == [x \in 0 .. N |-> <<m(x)>>]
           next == [x \in 0 .. N |-> then(x)]
           Is(f) == f = [x \in 0 .. N |-> IF Stop(x) THEN <<>> ELSE <<m(x)>> \o f[then(x)]]
<1>3. ASSUME NEW x \in 0 .. N, ~Stop(x)
      PROVE  m(x) \in Match /\ then(x) = Behind(m(x)) /\ then(x) \in x + 1 .. N
  <2>1. PICK s \in x .. to : \E e \in s .. to : m(x) = [start |-> s, end |-> e]
    BY <1>1, <1>3, MatchLies
  <2>2. PICK e \in s .. to : m(x) = [start |-> s, end |-> e]
    BY <2>1
  <2>3. m(x).start = s /\ m(x).end = e /\ m(x) \in Match
    BY <2>2 DEF Match
  <2> HIDE DEF m
  <2>4. Max({s + 1, e}) = IF s + 1 <= e THEN e ELSE s + 1
    BY <1>2, MinMax
  <2>5. then(x) = Max({s + 1, e}) /\ Behind(m(x)) = IF s = e THEN e + 1 ELSE e
    BY <2>3, Zenon DEF Behind
  <2>6. then(x) = Behind(m(x))
    BY <2>4, <2>5
  <2>7. then(x) \in x + 1 .. N
    <3>1. x < to
      BY <1>3
    <3> QED
      BY <1>1, <1>2, <2>4, <2>5, <3>1
  <2> QED
    BY <2>3, <2>6, <2>7
<1>4. MatchesUpTo(to) = CHOOSE f : Is(f)
  BY <1>1, <1>2, Zenon DEF MatchesUpTo
<1> HIDE DEF m, then
<1>5. stop \in [0 .. N -> BOOLEAN]
  OBVIOUS
<1>6. \A x \in 0 .. N : ~stop[x] => val[x] \in Seq(Match) /\ next[x] \in x + 1 .. N
  <2>1. ASSUME NEW x \in 0 .. N, ~stop[x] PROVE val[x] \in Seq(Match) /\ next[x] \in x + 1 .. N
    <3>1. ~Stop(x)
      BY <2>1
    <3>2. m(x) \in Match /\ then(x) \in x + 1 .. N
      BY <1>3, <3>1, Zenon
    <3> QED
      BY <3>2
  <2> QED
    BY <2>1
<1>7. /\ \E f : Chained(f, N, stop, val, next)
      /\ \A f : Chained(f, N, stop, val, next) => f \in [0 .. N -> Seq(Match)]
  <2> HIDE DEF stop, val, next, Stop, Is
  <2>1. PICK a, b, c : a = stop /\ b = val /\ c = next
    OBVIOUS
  <2>2. /\ a \in [0 .. N -> BOOLEAN]
        /\ \A x \in 0 .. N : ~a[x] => b[x] \in Seq(Match) /\ c[x] \in x + 1 .. N
    BY <1>5, <1>6, <2>1, Zenon
  <2>3. /\ \E f : Chained(f, N, a, b, c)
        /\ \A f : Chained(f, N, a, b, c) => f \in [0 .. N -> Seq(Match)]
    BY <2>2, Chain, Zenon
  <2> QED
    BY <2>1, <2>3, Zenon
<1>8. \A x \in 0 .. N : stop[x] = Stop(x) /\ val[x] = <<m(x)>> /\ next[x] = then(x)
  BY Zenon
<1> HIDE DEF stop, val, next
<1>9. ASSUME NEW f PROVE Chained(f, N, stop, val, next) <=> Is(f)
  <2> DEFINE L(x) == IF stop[x] THEN <<>> ELSE val[x] \o f[next[x]]
             R(x) == IF Stop(x) THEN <<>> ELSE <<m(x)>> \o f[then(x)]
  <2>1. \A x \in 0 .. N : L(x) = R(x)
    <3> HIDE DEF Stop
    <3> QED
      BY <1>8, Zenon
  <2>2. [x \in 0 .. N |-> L(x)] = [x \in 0 .. N |-> R(x)]
    <3> HIDE DEF L, R
    <3> QED
      BY <2>1
  <2> HIDE DEF Stop
  <2> QED
    BY <2>2, Zenon DEF Chained
<1> DEFINE all == MatchesUpTo(to)
<1>10. Is(all)
  <2> HIDE DEF Is
  <2>1. \E f : Is(f)
    BY <1>7, <1>9
  <2> QED
    BY <1>4, <2>1, Zenon
<1>11. all \in [0 .. N -> Seq(Match)]
  <2> HIDE DEF Is
  <2> QED
    BY <1>7, <1>9, <1>10, Zenon
<1>12. ASSUME NEW x \in 0 .. N
       PROVE  /\ Stop(x) => all[x] = <<>>
              /\ ~Stop(x) => all[x] = <<m(x)>> \o all[Behind(m(x))]
  <2>1. all[x] = IF Stop(x) THEN <<>> ELSE <<m(x)>> \o all[then(x)]
    <3> HIDE DEF Stop, all
    <3> QED
      BY <1>10, Zenon
  <2> HIDE DEF Stop, all
  <2> QED
    BY <1>3, <2>1, Zenon
<1> HIDE DEF Is
<1> QED
  BY <1>1, <1>2, <1>11, <1>12, Zenon DEF m

(* Where a line ends: at its newline or at the end of the buffer.          *)
LEMMA LineEnds ==
    ASSUME Given, NEW s \in 0 .. buf_len
    PROVE  /\ EndOfLine(s) \in s .. buf_len
           /\ \A j \in s .. EndOfLine(s) - 1 : buf[j] # NewLine
           /\ EndOfLine(s) < buf_len => buf[EndOfLine(s)] = NewLine
<1>1. PICK N \in Nat : N = buf_len /\ s \in Nat
  BY GivenFacts
<1> DEFINE ends == {N} \cup {i \in s .. N - 1 : buf[i] = NewLine}
<1>2. EndOfLine(s) = Min(ends)
  BY <1>1, Zenon DEF EndOfLine
<1>3. Min(ends) \in ends /\ \A x \in ends : Min(ends) <= x
  <2>1. ends # {} /\ \A x \in ends : x \in Int /\ x >= s
    BY <1>1
  <2> HIDE DEF ends
  <2> QED
    BY <1>1, <2>1, LeastOf
<1>4. PICK e \in s .. N : e = EndOfLine(s) /\ e \in ends /\ \A x \in ends : e <= x
  <2>1. \A x \in ends : x \in s .. N
    BY <1>1
  <2> HIDE DEF ends
  <2> QED
    BY <1>2, <1>3, <2>1
<1>5. ASSUME NEW j \in s .. e - 1 PROVE buf[j] # NewLine
  BY <1>4
<1>6. e < N => buf[e] = NewLine
  BY <1>4
<1> HIDE DEF ends
<1> QED
  BY <1>1, <1>4, <1>5, <1>6

(* The matches line by line, unfolded.                                     *)
LEMMA LinesUnfold ==
    ASSUME Given, opts.mode # "all"
    PROVE  /\ LineMatches \in [0 .. buf_len + 1 -> Seq(Match)]
           /\ \A s \in 0 .. buf_len + 1 :
                  /\ s >= buf_len => LineMatches[s] = <<>>
                  /\ s < buf_len => LineMatches[s] = MatchesUpTo(EndOfLine(s))[s] \o
                                                     LineMatches[EndOfLine(s) + 1]
<1>1. PICK B \in Nat : B = buf_len
  BY GivenFacts
<1>2. PICK N \in Nat : N = B + 1
  BY <1>1
<1> DEFINE Stop(x) == x >= B
           here(x) == MatchesUpTo(EndOfLine(x))[x]
           then(x) == EndOfLine(x) + 1
           stop == [x \in 0 .. N |-> Stop(x)]
           val == [x \in 0 .. N |-> here(x)]
           next == [x \in 0 .. N |-> then(x)]
           Is(f) == f = [x \in 0 .. N |-> IF Stop(x) THEN <<>> ELSE here(x) \o f[then(x)]]
           all == LineMatches
<1>3. ASSUME NEW x \in 0 .. N, ~Stop(x)
      PROVE  here(x) \in Seq(Match) /\ then(x) \in x + 1 .. N
  <2>1. x \in 0 .. buf_len
    BY <1>1, <1>3
  <2>2. EndOfLine(x) \in x .. buf_len
    BY <2>1, LineEnds
  <2>3. EndOfLine(x) \in 0 .. buf_len /\ then(x) \in x + 1 .. N
    BY <1>1, <1>2, <2>1, <2>2
  <2>4. MatchesUpTo(EndOfLine(x)) \in [0 .. N -> Seq(Match)]
    BY <1>1, <1>2, <2>3, MatchesUnfold, Zenon
  <2> QED
    BY <2>3, <2>4
<1>4. all = CHOOSE f : Is(f)
  BY <1>1, <1>2, Zenon DEF LineMatches
<1> HIDE DEF here, then, all
<1>5. stop \in [0 .. N -> BOOLEAN]
  OBVIOUS
<1>6. \A x \in 0 .. N : ~stop[x] => val[x] \in Seq(Match) /\ next[x] \in x + 1 .. N
  <2>1. ASSUME NEW x \in 0 .. N, ~stop[x] PROVE val[x] \in Seq(Match) /\ next[x] \in x + 1 .. N
    <3>1. ~Stop(x)
      BY <2>1
    <3>2. here(x) \in Seq(Match) /\ then(x) \in x + 1 .. N
      BY <1>3, <3>1, Zenon
    <3> QED
      BY <3>2
  <2> QED
    BY <2>1
<1>7. /\ \E f : Chained(f, N, stop, val, next)
      /\ \A f : Chained(f, N, stop, val, next) => f \in [0 .. N -> Seq(Match)]
  <2> HIDE DEF stop, val, next, Stop, Is
  <2>1. PICK a, b, c : a = stop /\ b = val /\ c = next
    OBVIOUS
  <2>2. /\ a \in [0 .. N -> BOOLEAN]
        /\ \A x \in 0 .. N : ~a[x] => b[x] \in Seq(Match) /\ c[x] \in x + 1 .. N
    BY <1>5, <1>6, <2>1, Zenon
  <2>3. /\ \E f : Chained(f, N, a, b, c)
        /\ \A f : Chained(f, N, a, b, c) => f \in [0 .. N -> Seq(Match)]
    BY <2>2, Chain, Zenon
  <2> QED
    BY <2>1, <2>3, Zenon
<1>8. \A x \in 0 .. N : stop[x] = Stop(x) /\ val[x] = here(x) /\ next[x] = then(x)
  BY Zenon
<1> HIDE DEF stop, val, next
<1>9. ASSUME NEW f PROVE Chained(f, N, stop, val, next) <=> Is(f)
  <2> DEFINE L(x) == IF stop[x] THEN <<>> ELSE val[x] \o f[next[x]]
             R(x) == IF Stop(x) THEN <<>> ELSE here(x) \o f[then(x)]
  <2>1. \A x \in 0 .. N : L(x) = R(x)
    <3> HIDE DEF Stop
    <3> QED
      BY <1>8, Zenon
  <2>2. [x \in 0 .. N |-> L(x)] = [x \in 0 .. N |-> R(x)]
    <3> HIDE DEF L, R
    <3> QED
      BY <2>1
  <2> HIDE DEF Stop
  <2> QED
    BY <2>2, Zenon DEF Chained
<1>10. Is(all)
  <2> HIDE DEF Is
  <2>1. \E f : Is(f)
    BY <1>7, <1>9
  <2> QED
    BY <1>4, <2>1, Zenon
<1>11. all \in [0 .. N -> Seq(Match)]
  <2> HIDE DEF Is
  <2> QED
    BY <1>7, <1>9, <1>10, Zenon
<1>12. ASSUME NEW x \in 0 .. N
       PROVE  /\ Stop(x) => all[x] = <<>>
              /\ ~Stop(x) => all[x] = here(x) \o all[then(x)]
  <2>1. all[x] = IF Stop(x) THEN <<>> ELSE here(x) \o all[then(x)]
    <3> HIDE DEF Stop
    <3> QED
      BY <1>10, Zenon
  <2> HIDE DEF Stop
  <2> QED
    BY <2>1, Zenon
<1>13. ASSUME NEW s \in 0 .. N
       PROVE  /\ s >= B => all[s] = <<>>
              /\ s < B => all[s] = here(s) \o all[then(s)]
  <2>1. s < B => ~(s >= B)
    OBVIOUS
  <2> QED
    BY <1>12, <2>1, Zenon
<1> HIDE DEF Is, Stop
<1> QED
  BY <1>1, <1>2, <1>11, <1>13, Zenon DEF here, then, all

(* What tre_regnexec() finds is the match of the reference, where "^"      *)
(* means the beginning of a line to it.                                    *)
LEMMA RegexIsMatch ==
    ASSUME opts.mode \in {"multiline", "lines"}, NEW from \in Nat, NEW to \in Nat,
           opts.re.bol => \A s \in from .. to :
               BeginsLine(s) <=> s = from \/ (opts.mode = "multiline" /\ buf[s - 1] = NewLine)
    PROVE  tre_regnexec(from, to) = MatchFrom(from, to)
<1> DEFINE ends(s) == IF opts.mode = "literal"
                      THEN {e \in {s + query_len} : e <= to /\ WordAt(s, e)}
                      ELSE IF opts.re.bol => BeginsLine(s) THEN EndsAt(s, to) ELSE {}
           starts == {s \in from .. to : ends(s) # {}}
           begins(s) == s = from \/ (opts.mode = "multiline" /\ buf[s - 1] = NewLine)
           fits(s) == EndsAt(s, to) # {} /\ (opts.re.bol => begins(s))
           found == {s \in from .. to : fits(s)}
<1>1. ASSUME NEW s \in from .. to
      PROVE  ends(s) = IF opts.re.bol => begins(s) THEN EndsAt(s, to) ELSE {}
  <2>1. (opts.re.bol => BeginsLine(s)) <=> (opts.re.bol => begins(s))
    BY Zenon
  <2>2. opts.mode # "literal"
    OBVIOUS
  <2> HIDE DEF begins
  <2> QED
    BY <2>1, <2>2, Zenon
<1>2. ASSUME NEW s \in from .. to
      PROVE  fits(s) <=> EndsAt(s, to) # {} /\ (opts.re.bol => begins(s))
  OBVIOUS
<1>3. /\ found = {} => tre_regnexec(from, to) = NoMatch
      /\ found # {} => tre_regnexec(from, to) =
                            [start |-> Min(found), end |-> Max(EndsAt(Min(found), to))]
  BY DEF tre_regnexec
<1>4. MatchFrom(from, to) =
          IF starts = {} THEN NoMatch
          ELSE [start |-> Min(starts), end |-> Max(ends(Min(starts)))]
  BY Zenon DEF MatchFrom
<1> HIDE DEF fits, ends, begins
<1>5. starts = found
  <2>1. ASSUME NEW s \in from .. to PROVE ends(s) # {} <=> fits(s)
    BY <1>1, <1>2, Zenon
  <2> QED
    BY <2>1
<1>6. found # {} => Min(found) \in found
  <2>1. \A x \in found : x \in Int /\ x >= from
    OBVIOUS
  <2> HIDE DEF found
  <2> QED
    BY <2>1, LeastOf
<1>7. ASSUME NEW s \in found PROVE ends(s) = EndsAt(s, to)
  <2>1. s \in from .. to /\ fits(s)
    OBVIOUS
  <2> QED
    BY <1>1, <1>2, <2>1, Zenon
<1> HIDE DEF starts, found
<1> QED
  BY <1>3, <1>4, <1>5, <1>6, <1>7, Zenon

-----------------------------------------------------------------------------
(* A whole occurrence of the literal at s.                                 *)
Whole(s) ==
    /\ s + query_len <= buf_len
    /\ OccursAt(buf, opts.query, query_len, s, opts.case_sensitive)
    /\ Accepted(s)

(* The match of the reference for a literal: the first of these.           *)
LEMMA LiteralReference ==
    ASSUME Given, opts.mode = "literal", NEW from \in Nat
    PROVE  /\ (\A s \in from .. buf_len : ~Whole(s)) => MatchFrom(from, buf_len) = NoMatch
           /\ \A p \in from .. buf_len :
                  Whole(p) /\ (\A q \in from .. p - 1 : ~Whole(q)) =>
                      MatchFrom(from, buf_len) = [start |-> p, end |-> p + query_len]
<1>1. PICK n \in Nat : n = query_len
  BY GivenFacts
<1>2. PICK N \in Nat : N = buf_len
  BY GivenFacts
<1> DEFINE ends(s) == IF opts.mode = "literal"
                      THEN {e \in {s + query_len} : e <= buf_len /\ WordAt(s, e)}
                      ELSE IF opts.re.bol => BeginsLine(s) THEN EndsAt(s, buf_len) ELSE {}
           starts == {s \in from .. buf_len : ends(s) # {}}
<1>3. MatchFrom(from, buf_len) =
          IF starts = {} THEN NoMatch
          ELSE [start |-> Min(starts), end |-> Max(ends(Min(starts)))]
  BY Zenon DEF MatchFrom
<1>4. ASSUME NEW s \in from .. buf_len
      PROVE  ends(s) = IF Whole(s) THEN {s + n} ELSE {}
  <2>1. ends(s) = {e \in {s + n} : e <= buf_len /\ WordAt(s, e)}
    BY <1>1, Zenon
  <2>2. s + n <= buf_len /\ WordAt(s, s + n) <=> Whole(s)
    BY <1>1, Zenon DEF Whole, WordAt
  <2> HIDE DEF ends
  <2> QED
    BY <2>1, <2>2
<1> HIDE DEF ends
<1>5. ASSUME \A s \in from .. buf_len : ~Whole(s) PROVE starts = {}
  BY <1>4, <1>5
<1>6. ASSUME NEW p \in from .. buf_len, Whole(p), \A q \in from .. p - 1 : ~Whole(q)
      PROVE  MatchFrom(from, buf_len) = [start |-> p, end |-> p + n]
  <2>1. \A x \in starts : x \in from .. N /\ Whole(x)
    BY <1>2, <1>4
  <2>2. p \in starts
    BY <1>4, <1>6
  <2>3. Min(starts) \in starts /\ \A x \in starts : Min(starts) <= x
    <3>1. from \in Int /\ \A x \in starts : x \in Int /\ x >= from
      BY <2>1
    <3> HIDE DEF starts
    <3> QED
      BY <2>2, <3>1, LeastOf
  <2> HIDE DEF starts
  <2>4. Min(starts) = p
    <3>1. PICK x \in from .. N : x = Min(starts) /\ Whole(x) /\ x <= p
      BY <2>1, <2>2, <2>3
    <3>2. ~(x < p)
      BY <1>2, <1>6, <3>1
    <3> QED
      BY <1>2, <3>1, <3>2
  <2>5. ends(p) = {p + n}
    BY <1>4, <1>6
  <2>6. Max({p + n}) = p + n
    <3>1. p + n \in Int
      BY <1>2
    <3>2. Max({p + n, p + n}) = p + n /\ {p + n, p + n} = {p + n}
      BY <3>1, MinMax
    <3> QED
      BY <3>2, Zenon
  <2> QED
    BY <1>3, <2>2, <2>4, <2>5, <2>6
<1> HIDE DEF starts
<1> QED
  BY <1>1, <1>3, <1>5, <1>6

(* Where no whole occurrence begins the reference finds nothing, so that   *)
(* it finds the same from a later place.                                   *)
LEMMA ReferenceFrom ==
    ASSUME Given, opts.mode = "literal", NEW from \in Nat, NEW later \in Nat, from <= later,
           \A q \in from .. later - 1 : ~Whole(q)
    PROVE  MatchFrom(from, buf_len) = MatchFrom(later, buf_len)
<1>1. PICK N \in Nat : N = buf_len
  BY GivenFacts
<1> DEFINE S == {q \in later .. N : Whole(q)}
<1>2. CASE S = {}
  <2>1. \A q \in from .. N : ~Whole(q)
    BY <1>2
  <2>2. MatchFrom(from, buf_len) = NoMatch
    BY <1>1, <2>1, LiteralReference
  <2>3. \A q \in later .. N : ~Whole(q)
    BY <1>2
  <2> QED
    BY <1>1, <2>2, <2>3, LiteralReference
<1>3. CASE S # {}
  <2>1. PICK p \in S : \A x \in S : p <= x
    <3>1. \A x \in S : x \in Int /\ x >= later
      OBVIOUS
    <3> HIDE DEF S
    <3> QED
      BY <1>3, <3>1, LeastOf
  <2>2. p \in later .. N /\ p \in from .. N /\ Whole(p)
    OBVIOUS
  <2>3. ASSUME NEW q \in from .. p - 1 PROVE ~Whole(q)
    <3>1. q <= later - 1 \/ (q \in later .. N /\ q < p)
      BY <2>2
    <3>2. q \in S => p <= q
      BY <2>1
    <3> QED
      BY <2>2, <3>1, <3>2
  <2>4. \A q \in later .. p - 1 : ~Whole(q)
    BY <2>2, <2>3
  <2> HIDE DEF S
  <2>5. MatchFrom(from, buf_len) = [start |-> p, end |-> p + query_len]
    BY <1>1, <2>2, <2>3, LiteralReference
  <2>6. MatchFrom(later, buf_len) = [start |-> p, end |-> p + query_len]
    BY <1>1, <2>2, <2>4, LiteralReference
  <2> QED
    BY <2>5, <2>6
<1> QED
  BY <1>2, <1>3

(* A query that occurs at two places that near is one that main()'s table  *)
(* does not skip.                                                          *)
LEMMA SkipsNone ==
    ASSUME Given, Built, opts.mode = "literal",
           NEW n \in Nat \ {0}, n = query_len, NEW p \in Nat, NEW q \in Nat, p < q,
           p + n <= buf_len, q + n <= buf_len,
           OccursAt(buf, opts.query, n, p, opts.case_sensitive),
           OccursAt(buf, opts.query, n, q, opts.case_sensitive)
    PROVE  find_skip_lookup[0] <= q - p + n - 1
<1>1. PICK N \in Nat : N = buf_len /\ buf \in [0 .. N - 1 -> Char]
  BY GivenFacts
<1>2. PICK cs \in BOOLEAN, find \in [0 .. n - 1 -> Char] :
          find = opts.query /\ cs = opts.case_sensitive
  BY GivenFacts
<1>3. PICK d \in Nat \ {0} : d = q - p
  OBVIOUS
<1>4. ASSUME NEW i \in 0 .. n - 1
      PROVE  Fold(buf[p + i], cs) = find[i] /\ Fold(buf[q + i], cs) = find[i]
  BY <1>2 DEF OccursAt
<1>5. ASSUME NEW j \in 0 .. n - 1 PROVE Fold(find[j], cs) = find[j]
  <2>1. p + j \in 0 .. N - 1
    BY <1>1
  <2>2. buf[p + j] \in Char
    BY <1>1, <2>1
  <2> QED
    BY <1>2, <1>4, <2>2, FoldFacts
<1>6. Fits(find, n, 0, d)
  <2>1. ASSUME NEW j \in 1 .. n - 1, j >= d PROVE find[j - d] = find[j]
    <3>1. j - d \in 0 .. n - 1 /\ j \in 0 .. n - 1 /\ q + (j - d) = p + j
      BY <1>3, <2>1
    <3>2. Fold(buf[p + j], cs) = find[j] /\ Fold(buf[q + (j - d)], cs) = find[j - d]
      BY <1>4, <3>1, Zenon
    <3> QED
      BY <3>1, <3>2, Zenon
  <2>2. ~(d <= 0) /\ 0 + 1 = 1
    OBVIOUS
  <2> QED
    BY <2>1, <2>2 DEF Fits
<1>7. generate_find_skip(find, n, cs)[0] <= d + n - 1 - 0
  <2>1. 0 \in 0 .. n - 1
    OBVIOUS
  <2> QED
    BY <1>2, <1>5, <1>6, <2>1, FindSkip
<1>8. find_skip_lookup[0] = generate_find_skip(find, n, cs)[0]
  BY <1>2 DEF Built
<1> QED
  BY <1>3, <1>7, <1>8

(* The literal: the step of the loop is the step of the reference.         *)
LEMMA LiteralStep ==
    ASSUME IInv, Searching
    PROVE  /\ match_ptr = NULL => MatchFrom(buf_offset, buf_len) = NoMatch
           /\ match_ptr # NULL /\ Accepted(match_ptr) =>
                  MatchFrom(buf_offset, buf_len)
                      = [start |-> match_ptr, end |-> match_ptr + query_len]
           /\ match_ptr # NULL /\ ~Accepted(match_ptr) =>
                  MatchFrom(buf_offset, buf_len)
                      = MatchFrom(match_ptr + find_skip_lookup[0] - query_len + 1, buf_len)
<1>1. PICK N \in Nat : N = buf_len
  BY GivenFacts DEF IInv
<1>2. PICK o \in 0 .. N : o = buf_offset /\ o < N
  BY <1>1 DEF IInv, Offsets, Searching
<1>3. opts.mode = "literal"
  BY DEF Searching, IInv, Phase
<1>4. PICK n \in Nat \ {0} : n = query_len
  BY <1>3, GivenFacts DEF IInv
<1>5. PICK find, cs : find = opts.query /\ cs = opts.case_sensitive
  OBVIOUS
<1>6. FirstHere = FirstOccurrence(buf, o, N, find, n, cs)
  BY <1>1, <1>2, <1>4, <1>5, Zenon DEF FirstHere
<1>7. ASSUME NEW s \in Nat
      PROVE  Whole(s) <=> s \in 0 .. N - n /\ OccursAt(buf, find, n, s, cs) /\ Accepted(s)
  BY <1>1, <1>4, <1>5 DEF Whole
<1>8. CASE match_ptr = NULL
  <2>1. FirstHere = NULL
    <3>1. buf_offset \in 0 .. buf_len
      BY <1>1, <1>2
    <3>2. BoyerMoore = FirstHere /\ (n \in 3 .. CellValues - 2 => Hash = FirstHere)
      BY <1>3, <1>4, <3>1, SearchesRight DEF IInv
    <3>3. CASE n < 3 \/ n >= CellValues - 1
      BY <1>4, <1>8, <3>2, <3>3, Zenon DEF match_ptr
    <3>4. CASE ~(n < 3 \/ n >= CellValues - 1)
      <4>1. n \in 3 .. CellValues - 2
        BY <3>4, TableAssumption
      <4> QED
        BY <1>4, <1>8, <3>2, <3>4, <4>1, Zenon DEF match_ptr
    <3> QED
      BY <3>3, <3>4
  <2>2. \A q \in o .. N - n : ~OccursAt(buf, find, n, q, cs)
    <3> DEFINE f == FirstOccurrence(buf, o, N, find, n, cs)
    <3>1. f \in o .. N - n \/ \A q \in o .. N - n : ~OccursAt(buf, find, n, q, cs)
      <4>1. o \in Int /\ N \in Int /\ n \in Nat
        OBVIOUS
      <4> QED
        BY <4>1, First, Zenon
    <3>2. f = NULL
      BY <1>6, <2>1
    <3> HIDE DEF f
    <3> QED
      BY <3>1, <3>2 DEF NULL
  <2>3. \A q \in o .. N : ~Whole(q)
    BY <1>7, <2>2
  <2>4. MatchFrom(o, buf_len) = NoMatch
    BY <1>1, <1>3, <2>3, LiteralReference DEF IInv
  <2> QED
    BY <1>2, <1>8, <2>4
<1>9. CASE match_ptr # NULL
  <2>1. PICK p \in o .. N - n : p = match_ptr /\ p = FirstHere
    <3>1. match_ptr = FirstHere /\
          \E m \in Nat \ {0} : \E p \in buf_offset .. buf_len - m : m = query_len /\ p = match_ptr
      BY <1>9, LiteralFound
    <3> QED
      BY <1>1, <1>2, <1>4, <3>1
  <2>2. OccursAt(buf, find, n, p, cs) /\ \A q \in o .. p - 1 : ~OccursAt(buf, find, n, q, cs)
    <3> DEFINE f == FirstOccurrence(buf, o, N, find, n, cs)
    <3>1. \/ f = NULL
          \/ OccursAt(buf, find, n, f, cs) /\ \A q \in o .. f - 1 : ~OccursAt(buf, find, n, q, cs)
      BY First
    <3>2. f = p /\ p # NULL
      BY <1>6, <2>1 DEF NULL
    <3> HIDE DEF f
    <3> QED
      BY <3>1, <3>2
  <2>3. \A q \in o .. p - 1 : ~Whole(q)
    BY <1>7, <2>2
  <2>4. ASSUME Accepted(p) PROVE MatchFrom(o, buf_len) = [start |-> p, end |-> p + n]
    <3>1. Whole(p) /\ p \in o .. N
      BY <1>7, <2>1, <2>2, <2>4
    <3> QED
      BY <1>1, <1>3, <1>4, <2>3, <3>1, LiteralReference DEF IInv
  <2>5. ASSUME ~Accepted(p)
        PROVE  MatchFrom(o, buf_len) = MatchFrom(p + find_skip_lookup[0] - n + 1, buf_len)
    <3>1. PICK skip \in n .. 2 * n - 1 : skip = find_skip_lookup[0]
      BY <1>3, <1>4, SkipFirst DEF IInv
    <3>2. PICK later \in Nat : later = p + skip - n + 1 /\ o <= later
      BY <2>1
    <3>3. ASSUME NEW q \in o .. later - 1 PROVE ~Whole(q)
      <4>1. CASE q <= p - 1
        BY <2>1, <2>3, <4>1
      <4>2. CASE q = p
        BY <1>7, <2>1, <2>5, <4>2
      <4>3. CASE q > p
        <5>1. SUFFICES ASSUME Whole(q) PROVE FALSE
          OBVIOUS
        <5>2. q \in 0 .. N - n /\ OccursAt(buf, find, n, q, cs) /\ q \in Nat /\ p \in Nat
          BY <1>7, <5>1
        <5>3. p + n <= buf_len /\ q + n <= buf_len /\ p < q
          BY <1>1, <2>1, <4>3, <5>2
        <5>4. /\ OccursAt(buf, opts.query, n, p, opts.case_sensitive)
              /\ OccursAt(buf, opts.query, n, q, opts.case_sensitive)
          BY <1>5, <2>2, <5>2, Zenon
        <5>5. find_skip_lookup[0] <= q - p + n - 1
          BY <1>3, <1>4, <5>2, <5>3, <5>4, SkipsNone DEF IInv
        <5>6. skip <= q - p + n - 1
          BY <3>1, <5>5
        <5> QED
          BY <3>2, <5>6
      <4> QED
        BY <4>1, <4>2, <4>3
    <3>4. MatchFrom(o, buf_len) = MatchFrom(later, buf_len)
      BY <1>3, <3>2, <3>3, ReferenceFrom DEF IInv
    <3> QED
      BY <3>1, <3>2, <3>4
  <2> QED
    BY <1>2, <1>4, <1>9, <2>1, <2>4, <2>5, Zenon
<1> QED
  BY <1>8, <1>9

(* The reference is that of the buffer and the options, which do not       *)
(* change.                                                                 *)
LEMMA SameReference ==
    ASSUME [Next]_vars
    PROVE  /\ MatchesUpTo(buf_len)' = MatchesUpTo(buf_len)
           /\ LineMatches' = LineMatches
           /\ Expected' = Expected
           /\ LineStarts' = LineStarts
           /\ \A s : BeginsLine(s)' <=> BeginsLine(s)
           /\ \A s : EndOfLine(s)' = EndOfLine(s)
<1>1. opts' = opts /\ buf' = buf
  BY Same
<1>2. buf_len' = buf_len /\ \A to : MatchesUpTo(to)' = MatchesUpTo(to)
  BY <1>1 DEF MatchesUpTo, MatchFrom, WordAt, Accepted, OnBoundaries, EndsAt, BeginsLine, buf_len, query_len
<1>3. LineMatches' = LineMatches
  <2>1. \A s : EndOfLine(s)' = EndOfLine(s)
    BY <1>1 DEF EndOfLine, buf_len
  <2> QED
    BY <1>2, <2>1 DEF LineMatches
<1>4. Expected' = Expected
  <2>1. LineMatches[0]' = LineMatches[0] /\ MatchesUpTo(buf_len)[0]' = MatchesUpTo(buf_len)[0]
        /\ buf_len' = buf_len
    BY <1>2, <1>3
  <2> QED
    BY <1>1, <2>1, Zenon DEF Expected
<1>5. \A s : BeginsLine(s)' <=> BeginsLine(s)
  BY <1>1 DEF BeginsLine
<1>6. \A s : EndOfLine(s)' = EndOfLine(s)
  BY <1>1 DEF EndOfLine, buf_len
<1>7. LineStarts' = LineStarts
  BY <1>1 DEF LineStarts, BeginsLine, buf_len
<1> QED
  BY <1>2, <1>3, <1>4, <1>5, <1>6, <1>7

(* A sequence with an element more, and the beginning of a sequence.       *)
LEMMA Joined ==
    ASSUME NEW T, NEW a \in Seq(T), NEW m \in T, NEW t \in Seq(T)
    PROVE  /\ Append(a, m) \o t = a \o (<<m>> \o t)
           /\ SubSeq(a \o t, 1, Len(a)) = a
           /\ a \o <<>> = a /\ <<>> \o a = a /\ SubSeq(a, 1, Len(a)) = a
           /\ Len(a \o t) = Len(a) + Len(t)
           /\ Append(a, m) \in Seq(T) /\ Len(Append(a, m)) = Len(a) + 1
<1>1. Append(a, m) \o t = a \o (<<m>> \o t)
  OBVIOUS
<1>2. SubSeq(a \o t, 1, Len(a)) = a
  OBVIOUS
<1>3. a \o <<>> = a /\ <<>> \o a = a /\ SubSeq(a, 1, Len(a)) = a
  OBVIOUS
<1>4. Len(a \o t) = Len(a) + Len(t)
  OBVIOUS
<1>5. Append(a, m) \in Seq(T) /\ Len(Append(a, m)) = Len(a) + 1
  OBVIOUS
<1> QED
  BY <1>1, <1>2, <1>3, <1>4, <1>5

(* With --multiline "^" is given the beginning of each search (see the     *)
(* README), and line by line the matches but the first of a line are       *)
(* recorded too far behind.                                                *)
NoCaret == \A in \in Inputs : in.opts.mode = "multiline" => ~in.opts.re.bol

FirstOnly == \A in \in Inputs : in.opts.mode = "lines" => in.opts.max_matches = 1

(* While it searches, what was found and what the reference finds from     *)
(* here on are all the matches; and in the end the right ones were found.  *)
Finding ==
    /\ pc \in {"alloc", "all"} => buf_offset = 0 /\ line_offset = 0
    /\ pc \in {"literal", "multiline"} =>
           /\ opts.max_matches > 0 => matches_len < opts.max_matches
           /\ matches \o MatchesUpTo(buf_len)[buf_offset] = MatchesUpTo(buf_len)[0]
    /\ pc = "lines" =>
           /\ matches = <<>> /\ line_offset = 0
           /\ LineMatches[buf_offset] = LineMatches[0]
           /\ buf_offset < buf_len => BeginsLine(buf_offset)
    /\ MatchesRight

(* A step of the loop over the buffer: a match more, a place without, or   *)
(* the end.                                                                *)
LEMMA SearchStep ==
    ASSUME IInv, IInv', [Next]_vars, Finding, pc \in {"literal", "multiline"},
           \/ /\ buf_offset < buf_len /\ MatchFrom(buf_offset, buf_len) # NoMatch
              /\ matches' = Append(matches, MatchFrom(buf_offset, buf_len))
              /\ buf_offset' = Behind(MatchFrom(buf_offset, buf_len))
              /\ pc' = IF Enough THEN "found" ELSE pc
           \/ /\ pc' = pc /\ matches' = matches
              /\ MatchesUpTo(buf_len)[buf_offset'] = MatchesUpTo(buf_len)[buf_offset]
           \/ /\ pc' = "found" /\ matches' = matches
              /\ buf_offset >= buf_len \/ MatchFrom(buf_offset, buf_len) = NoMatch
    PROVE  Finding'
<1>1. PICK N \in Nat : N = buf_len
  BY GivenFacts DEF IInv
<1>2. PICK M : M = MatchesUpTo(buf_len)
  OBVIOUS
<1>3. PICK o \in 0 .. N + 1, p \in 0 .. N + 1 : o = buf_offset /\ p = buf_offset'
  <2>1. buf_len' = buf_len
    BY Same
  <2> QED
    BY <1>1, <2>1 DEF IInv, Offsets
<1>4. opts.mode = pc /\ opts.mode # "all"
  BY DEF IInv, Phase
<1>5. PICK max \in Nat : max = opts.max_matches
  BY GivenFacts DEF IInv
<1>6. /\ M \in [0 .. N + 1 -> Seq(Match)]
      /\ o >= N \/ MatchFrom(o, N) = NoMatch => M[o] = <<>>
      /\ ~(o >= N \/ MatchFrom(o, N) = NoMatch) =>
             M[o] = <<MatchFrom(o, N)>> \o M[Behind(MatchFrom(o, N))]
  <2>1. buf_len \in 0 .. buf_len
    BY <1>1
  <2>2. /\ M \in [0 .. N + 1 -> Seq(Match)]
        /\ \A from \in 0 .. N + 1 :
               /\ from >= N \/ MatchFrom(from, N) = NoMatch => M[from] = <<>>
               /\ ~(from >= N \/ MatchFrom(from, N) = NoMatch) =>
                      M[from] = <<MatchFrom(from, N)>> \o M[Behind(MatchFrom(from, N))]
    BY <1>1, <1>2, <1>4, <2>1, MatchesUnfold, Zenon DEF IInv
  <2> QED
    BY <1>3, <2>2, Zenon
<1>7. opts' = opts /\ buf_len' = buf_len /\ MatchesUpTo(buf_len)' = M /\ Expected' = Expected
  BY <1>2, Same, SameReference
<1>8. Expected = M[0]
  BY <1>2, <1>4, Zenon DEF Expected
<1>9. PICK a \in Seq(Match) : a = matches
  BY DEF IInv, Recorded
<1>10. /\ a \o M[o] = M[0] /\ (max > 0 => Len(a) < max)
  BY <1>2, <1>3, <1>4, <1>5, <1>9 DEF Finding, matches_len
<1>11. PICK rest \in Seq(Match), all \in Seq(Match), next \in Seq(Match) :
          rest = M[o] /\ all = M[0] /\ next = M[p]
  BY <1>1, <1>3, <1>6
<1>12. ASSUME pc' = "found", matches' = (IF max = 0 THEN all ELSE SubSeq(all, 1, Min({max, Len(all)})))
       PROVE  Finding'
  <2>1. MatchesRight'
    BY <1>4, <1>5, <1>7, <1>8, <1>11, <1>12, Zenon DEF MatchesRight
  <2> QED
    BY <1>12, <2>1 DEF Finding
<1>13. ASSUME pc' = pc, max > 0 => Len(matches') < max, matches' \o next = all
       PROVE  Finding'
  <2>1. /\ opts.max_matches' > 0 => matches_len' < opts.max_matches'
        /\ matches' \o MatchesUpTo(buf_len)'[buf_offset'] = MatchesUpTo(buf_len)'[0]
    BY <1>3, <1>5, <1>7, <1>11, <1>13 DEF matches_len
  <2>2. MatchesRight'
    BY <1>4, <1>13 DEF MatchesRight
  <2>3. pc' \in {"literal", "multiline"}
    BY <1>13
  <2> QED
    BY <2>1, <2>2, <2>3 DEF Finding
<1>14. CASE /\ buf_offset < buf_len /\ MatchFrom(buf_offset, buf_len) # NoMatch
            /\ matches' = Append(matches, MatchFrom(buf_offset, buf_len))
            /\ buf_offset' = Behind(MatchFrom(buf_offset, buf_len))
            /\ pc' = IF Enough THEN "found" ELSE pc
  <2>1. PICK m \in Match : m = MatchFrom(o, N)
    <3>1. \E s \in o .. N : \E e \in s .. N : MatchFrom(o, N) = [start |-> s, end |-> e]
      BY <1>1, <1>3, <1>4, <1>14, MatchLies DEF IInv
    <3>2. PICK s \in o .. N : \E e \in s .. N : MatchFrom(o, N) = [start |-> s, end |-> e]
      BY <3>1
    <3>3. PICK e \in s .. N : MatchFrom(o, N) = [start |-> s, end |-> e]
      BY <3>2
    <3>4. [start |-> s, end |-> e] \in Match
      BY DEF Match
    <3> QED
      BY <3>3, <3>4, Zenon
  <2>2. rest = <<m>> \o next
    <3>1. ~(o >= N \/ MatchFrom(o, N) = NoMatch)
      BY <1>1, <1>3, <1>14
    <3>2. p = Behind(m)
      BY <1>1, <1>3, <1>14, <2>1, Zenon
    <3> QED
      BY <1>6, <1>11, <2>1, <3>1, <3>2, Zenon
  <2>3. PICK b \in Seq(Match) : b = Append(a, m) /\ Len(b) = Len(a) + 1
    <3>1. Append(a, m) \in Seq(Match) /\ Len(Append(a, m)) = Len(a) + 1
      BY Joined
    <3> QED
      BY <3>1, Zenon
  <2>4. matches' = b
    BY <1>1, <1>3, <1>9, <1>14, <2>1, <2>3, Zenon
  <2>5. b \o next = all
    <3>1. Append(a, m) \o next = a \o (<<m>> \o next)
      OBVIOUS
    <3> QED
      BY <1>10, <1>11, <2>2, <2>3, <3>1, Zenon
  <2>6. CASE Enough
    <3>1. max > 0 /\ Len(a) + 1 >= max /\ Len(a) < max
      BY <1>5, <1>9, <1>10, <2>6 DEF Enough, matches_len
    <3>2. max = Len(b) /\ max # 0
      BY <2>3, <3>1
    <3>3. SubSeq(all, 1, Len(b)) = b /\ Len(all) = Len(b) + Len(next)
      <4>1. SubSeq(b \o next, 1, Len(b)) = b
        OBVIOUS
      <4>2. Len(b \o next) = Len(b) + Len(next)
        OBVIOUS
      <4> QED
        BY <2>5, <4>1, <4>2, Zenon
    <3>4. Min({max, Len(all)}) = max
      <4>1. Len(all) \in Int /\ max <= Len(all)
        BY <3>2, <3>3
      <4>2. max \in Int
        OBVIOUS
      <4>3. Min({max, Len(all)}) = IF max <= Len(all) THEN max ELSE Len(all)
        BY <4>1, <4>2, MinMax, Zenon
      <4> QED
        BY <4>1, <4>3, Zenon
    <3>5. pc' = "found"
      BY <1>14, <2>6
    <3> QED
      BY <1>12, <2>4, <3>2, <3>3, <3>4, <3>5, Zenon
  <2>7. CASE ~Enough
    <3>1. max > 0 => Len(a) + 1 < max
      BY <1>5, <1>9, <2>7 DEF Enough, matches_len
    <3> QED
      BY <1>13, <1>14, <2>3, <2>4, <2>5, <2>7, <3>1
  <2> QED
    BY <2>6, <2>7
<1>15. CASE /\ pc' = pc /\ matches' = matches
            /\ MatchesUpTo(buf_len)[buf_offset'] = MatchesUpTo(buf_len)[buf_offset]
  <2>1. next = rest /\ matches' = a
    BY <1>2, <1>3, <1>9, <1>11, <1>15, Zenon
  <2> QED
    BY <1>10, <1>11, <1>13, <1>15, <2>1, Zenon
<1>16. CASE /\ pc' = "found" /\ matches' = matches
            /\ buf_offset >= buf_len \/ MatchFrom(buf_offset, buf_len) = NoMatch
  <2>1. rest = <<>>
    BY <1>1, <1>3, <1>6, <1>11, <1>16, Zenon
  <2>2. a = all /\ SubSeq(all, 1, Len(all)) = all
    BY <1>10, <1>11, <2>1
  <2>3. max # 0 => Min({max, Len(all)}) = Len(all)
    <3>1. SUFFICES ASSUME max # 0 PROVE Min({max, Len(all)}) = Len(all)
      OBVIOUS
    <3>2. max > 0 /\ max \in Int
      BY <3>1
    <3>3. Len(a) \in Int /\ Len(a) < max
      BY <1>10, <3>2
    <3>4. Min({max, Len(a)}) = Len(a)
      <4>1. Min({max, Len(a)}) = IF max <= Len(a) THEN max ELSE Len(a)
        BY <3>2, <3>3, MinMax, Zenon
      <4>2. ~(max <= Len(a))
        BY <3>2, <3>3
      <4> QED
        BY <4>1, <4>2, Zenon
    <3> QED
      BY <2>2, <3>4, Zenon
  <2> QED
    BY <1>9, <1>12, <1>16, <2>2, <2>3, Zenon
<1> QED
  BY <1>14, <1>15, <1>16

(* What the loop over the occurrences of a literal finds.                  *)
LEMMA LiteralFinds ==
    ASSUME IInv, IInv', Finding, LiteralMatch \/ LiteralNoWord \/ LiteralEnd
    PROVE  Finding'
<1>1. PICK N \in Nat : N = buf_len
  BY GivenFacts DEF IInv
<1>2. PICK o \in 0 .. N + 1 : o = buf_offset
  BY <1>1 DEF IInv, Offsets
<1>3. [Next]_vars /\ pc = "literal"
  BY DEF Next, Step, LiteralMatch, LiteralNoWord, LiteralEnd
<1>4. opts.mode = "literal" /\ opts.mode # "all"
  BY <1>3 DEF IInv, Phase
<1>5. pc \in {"literal", "multiline"}
  BY <1>3
<1>6. CASE LiteralMatch
  <2>1. Searching /\ match_ptr # NULL /\ Accepted(match_ptr)
    BY <1>6 DEF LiteralMatch, Searching
  <2>2. PICK n \in Nat \ {0} : \E p \in buf_offset .. buf_len - n : n = query_len /\ p = match_ptr
    BY <2>1, LiteralFound
  <2>3. PICK p \in o .. N - n : n = query_len /\ p = match_ptr
    BY <1>1, <1>2, <2>2
  <2>4. PICK m : m = [start |-> p, end |-> p + n]
    OBVIOUS
  <2>5. MatchFrom(buf_offset, buf_len) = m
    BY <2>1, <2>3, <2>4, LiteralStep, Zenon
  <2>6. m # NoMatch
    <3>1. m.start = p /\ NoMatch.start = -1
      BY <2>4 DEF NoMatch
    <3>2. p # -1
      BY <1>2, <2>3
    <3> QED
      BY <3>1, <3>2
  <2>7. Behind(m) = p + n
    <3>1. m.start = p /\ m.end = p + n /\ p # p + n
      BY <1>2, <2>3, <2>4
    <3> QED
      BY <3>1, Zenon DEF Behind
  <2>8. /\ AddMatch(p, p + n) /\ buf_offset' = p + n /\ buf_offset < buf_len
        /\ pc' = IF Enough THEN "found" ELSE "literal"
    BY <1>6, <2>3, Zenon DEF LiteralMatch
  <2>9. matches' = Append(matches, m)
    BY <2>4, <2>8, Zenon DEF AddMatch
  <2> QED
    BY <1>3, <1>5, <2>5, <2>6, <2>7, <2>8, <2>9, SearchStep, Zenon
<1>7. CASE LiteralNoWord
  <2>1. Searching /\ match_ptr # NULL /\ ~Accepted(match_ptr)
    BY <1>7 DEF LiteralNoWord, Searching
  <2>2. /\ buf_offset' = match_ptr + find_skip_lookup[0] - query_len + 1
        /\ pc' = pc /\ matches' = matches
    BY <1>7 DEF LiteralNoWord
  <2>3. PICK p \in 0 .. N + 1 : p = buf_offset'
    <3>1. buf_len' = buf_len
      BY <1>3, Same
    <3> QED
      BY <1>1, <3>1 DEF IInv, Offsets
  <2>4. MatchFrom(o, N) = MatchFrom(p, N)
    BY <1>1, <1>2, <2>1, <2>2, <2>3, LiteralStep, Zenon
  <2>5. o < N
    BY <1>1, <1>2, <2>1 DEF Searching
  <2>6. /\ MatchFrom(o, N) = NoMatch => MatchesUpTo(N)[o] = <<>>
        /\ MatchFrom(o, N) # NoMatch =>
               MatchesUpTo(N)[o] = <<MatchFrom(o, N)>> \o MatchesUpTo(N)[Behind(MatchFrom(o, N))]
        /\ p >= N \/ MatchFrom(p, N) = NoMatch => MatchesUpTo(N)[p] = <<>>
        /\ ~(p >= N \/ MatchFrom(p, N) = NoMatch) =>
               MatchesUpTo(N)[p] = <<MatchFrom(p, N)>> \o MatchesUpTo(N)[Behind(MatchFrom(p, N))]
    <3>1. buf_len \in 0 .. buf_len /\ ~(o >= N)
      BY <1>1, <2>5
    <3> QED
      BY <1>1, <1>4, <3>1, MatchesUnfold, Zenon DEF IInv
  <2>7. p >= N => MatchFrom(p, N) = NoMatch
    <3>1. ASSUME NEW s \in p .. buf_len, p >= N PROVE ~Whole(s)
      <4>1. PICK n \in Nat \ {0} : n = query_len
        BY <1>4, GivenFacts DEF IInv
      <4>2. s \in Nat /\ ~(s + n <= N)
        BY <1>1, <3>1
      <4> QED
        BY <1>1, <4>1, <4>2 DEF Whole
    <3> QED
      BY <1>1, <1>4, <3>1, LiteralReference DEF IInv
  <2>8. MatchesUpTo(N)[p] = MatchesUpTo(N)[o]
    BY <2>4, <2>6, <2>7, Zenon
  <2> QED
    BY <1>1, <1>2, <1>3, <1>5, <2>2, <2>3, <2>8, SearchStep, Zenon
<1>8. CASE LiteralEnd
  <2>1. pc' = "found" /\ matches' = matches /\ (buf_offset >= buf_len \/ match_ptr = NULL)
    BY <1>8 DEF LiteralEnd
  <2>2. buf_offset >= buf_len \/ MatchFrom(buf_offset, buf_len) = NoMatch
    <3>1. buf_offset >= buf_len \/ Searching
      BY <1>1, <1>2, <1>3 DEF Searching
    <3> QED
      BY <2>1, <3>1, LiteralStep, Zenon
  <2> QED
    BY <1>3, <1>5, <2>1, <2>2, SearchStep, Zenon
<1> QED
  BY <1>6, <1>7, <1>8

(* What the loop over the matches of an expression in the buffer finds.    *)
LEMMA MultilineFinds ==
    ASSUME NoCaret, IInv, IInv', Finding, MultilineMatch \/ MultilineEnd
    PROVE  Finding'
<1>1. PICK N \in Nat : N = buf_len
  BY GivenFacts DEF IInv
<1>2. PICK o \in 0 .. N + 1 : o = buf_offset
  BY <1>1 DEF IInv, Offsets
<1>3. [Next]_vars /\ pc = "multiline"
  BY DEF Next, Step, MultilineMatch, MultilineEnd
<1>4. opts.mode = "multiline"
  BY <1>3 DEF IInv, Phase
<1>5. tre_regnexec(buf_offset, buf_len) = MatchFrom(buf_offset, buf_len)
  <2>1. ~opts.re.bol
    BY <1>4, Zenon DEF IInv, Given, NoCaret
  <2> QED
    BY <1>1, <1>2, <1>4, <2>1, RegexIsMatch
<1>6. CASE MultilineMatch
  <2>1. PICK m : m = tre_regnexec(buf_offset, buf_len)
    OBVIOUS
  <2>2. /\ m # NoMatch /\ AddMatch(m.start, m.end) /\ buf_offset' = Behind(m)
        /\ buf_offset < buf_len /\ pc' = IF Enough THEN "found" ELSE "multiline"
    BY <1>6, <2>1, Zenon DEF MultilineMatch
  <2>3. m = [start |-> m.start, end |-> m.end]
    <3>1. \E s \in o .. N : \E e \in s .. N : MatchFrom(o, N) = [start |-> s, end |-> e]
      BY <1>1, <1>2, <1>4, <1>5, <2>1, <2>2, MatchLies DEF IInv
    <3> QED
      BY <1>1, <1>2, <1>5, <2>1, <3>1
  <2>4. matches' = Append(matches, m)
    BY <2>2, <2>3, Zenon DEF AddMatch
  <2> QED
    BY <1>3, <1>5, <2>1, <2>2, <2>4, SearchStep
<1>7. CASE MultilineEnd
  <2>1. pc' = "found" /\ matches' = matches
        /\ (buf_offset >= buf_len \/ tre_regnexec(buf_offset, buf_len) = NoMatch)
    BY <1>7 DEF MultilineEnd
  <2> QED
    BY <1>3, <1>5, <2>1, SearchStep
<1> QED
  BY <1>6, <1>7

(* What the loop over the lines finds: the first match in the first line   *)
(* that has one.                                                           *)
LEMMA LinesFind ==
    ASSUME FirstOnly, IInv, IInv', Finding, LineMatch \/ LineEnd \/ LinesEnd
    PROVE  Finding'
<1>1. PICK N \in Nat : N = buf_len
  BY GivenFacts DEF IInv
<1>2. PICK o \in 0 .. N + 1 : o = buf_offset
  BY <1>1 DEF IInv, Offsets
<1>3. [Next]_vars /\ pc = "lines"
  BY DEF Next, Step, LineMatch, LineEnd, LinesEnd
<1>4. opts.mode = "lines" /\ opts.mode # "all"
  BY <1>3 DEF IInv, Phase
<1>5. opts.max_matches = 1
  BY <1>4, Zenon DEF IInv, Given, FirstOnly
<1>6. /\ opts' = opts /\ buf_len' = buf_len /\ LineMatches' = LineMatches /\ Expected' = Expected
      /\ \A s : BeginsLine(s)' <=> BeginsLine(s)
  BY <1>3, Same, SameReference
<1>7. PICK L : L = LineMatches /\ L \in [0 .. N + 1 -> Seq(Match)]
  BY <1>1, <1>4, LinesUnfold DEF IInv
<1>8. /\ o >= N => L[o] = <<>>
      /\ o < N => L[o] = MatchesUpTo(EndOfLine(o))[o] \o L[EndOfLine(o) + 1]
  BY <1>1, <1>2, <1>4, <1>7, LinesUnfold, Zenon DEF IInv
<1>9. Expected = L[0] /\ L[0] = L[o]
  BY <1>2, <1>3, <1>4, <1>7, Zenon DEF Expected, Finding
<1>10. /\ matches = <<>> /\ line_offset = 0 /\ (o < N => BeginsLine(o))
  BY <1>1, <1>2, <1>3 DEF Finding
<1>11. ASSUME pc' = "found", NEW ms \in Seq(Match), matches' = ms, NEW rest \in Seq(Match),
              L[o] = ms \o rest, Len(ms) = 1 \/ (ms = <<>> /\ rest = <<>>)
       PROVE  Finding'
  <2>1. Len(L[o]) = Len(ms) + Len(rest) /\ SubSeq(L[o], 1, Len(ms)) = ms
    <3>1. PICK m \in Match : TRUE
      <4>1. [start |-> 0, end |-> 0] \in Match
        BY DEF Match
      <4> QED
        BY <4>1
    <3>2. Len(ms \o rest) = Len(ms) + Len(rest) /\ SubSeq(ms \o rest, 1, Len(ms)) = ms
      BY <1>11, Joined
    <3> QED
      BY <1>11, <3>2, Zenon
  <2>2. Min({1, Len(L[o])}) = Len(ms)
    <3>1. PICK k \in Nat, l \in Nat : k = Len(ms) /\ l = Len(L[o]) /\ k <= 1 /\ k <= l
                                      /\ (k = 0 => l = 0)
      <4>1. Len(ms) \in Nat /\ Len(rest) \in Nat
        BY <1>11
      <4>2. ms = <<>> /\ rest = <<>> => Len(ms) = 0 /\ Len(rest) = 0
        OBVIOUS
      <4>3. Len(ms) = 1 \/ (Len(ms) = 0 /\ Len(rest) = 0)
        BY <1>11, <4>2, Zenon
      <4>4. PICK k \in Nat, r \in Nat : k = Len(ms) /\ r = Len(rest)
        BY <4>1
      <4>5. Len(L[o]) = k + r
        BY <2>1, <4>4, Zenon
      <4>6. k = 1 \/ (k = 0 /\ r = 0)
        BY <4>3, <4>4, Zenon
      <4>7. k <= 1 /\ k <= k + r /\ (k = 0 => k + r = 0) /\ k + r \in Nat
        BY <4>6
      <4> QED
        BY <4>4, <4>5, <4>7, Zenon
    <3>2. Min({1, l}) = IF 1 <= l THEN 1 ELSE l
      BY <3>1, MinMax
    <3>3. Min({1, l}) = k
      BY <3>1, <3>2
    <3> QED
      BY <3>1, <3>3, Zenon
  <2>3. matches' = SubSeq(Expected', 1, Min({opts.max_matches', Len(Expected')}))
    BY <1>5, <1>6, <1>9, <1>11, <2>1, <2>2, Zenon
  <2>4. MatchesRight'
    <3>1. ~(opts.max_matches' = 0 \/ opts.mode' = "all")
      BY <1>4, <1>5, <1>6
    <3> QED
      BY <2>3, <3>1, Zenon DEF MatchesRight
  <2> QED
    BY <1>11, <2>4 DEF Finding
<1>12. ASSUME o < N
       PROVE  /\ buf_getline = EndOfLine(o) /\ EndOfLine(o) \in o .. N
              /\ EndOfLine(o) < N => buf[EndOfLine(o)] = NewLine
              /\ tre_regnexec(o, EndOfLine(o)) = MatchFrom(o, EndOfLine(o))
  <2>1. buf_getline = EndOfLine(o)
    BY <1>2, Zenon DEF buf_getline, EndOfLine
  <2>2. PICK g \in o .. N : /\ g = EndOfLine(o) /\ \A j \in o .. g - 1 : buf[j] # NewLine
                            /\ g < N => buf[g] = NewLine
    <3>1. o \in 0 .. buf_len
      BY <1>1, <1>12
    <3> QED
      BY <1>1, <3>1, LineEnds DEF IInv
  <2>3. ASSUME NEW s \in o .. g
        PROVE  BeginsLine(s) <=> s = o \/ (opts.mode = "multiline" /\ buf[s - 1] = NewLine)
    <3>1. CASE s = o
      BY <1>10, <1>12, <3>1
    <3>2. CASE s # o
      <4>1. s - 1 \in o .. g - 1 /\ s # 0
        BY <3>2
      <4>2. buf[s - 1] # NewLine
        BY <2>2, <4>1
      <4> QED
        BY <1>4, <3>2, <4>1, <4>2 DEF BeginsLine
    <3> QED
      BY <3>1, <3>2
  <2>4. tre_regnexec(o, g) = MatchFrom(o, g)
    <3>1. o \in Nat /\ g \in Nat
      OBVIOUS
    <3> QED
      BY <1>4, <2>3, <3>1, RegexIsMatch
  <2> QED
    BY <2>1, <2>2, <2>4, Zenon
<1>13. ASSUME NEW g \in o .. N, g = EndOfLine(o), o < N
       PROVE  /\ MatchesUpTo(g) \in [0 .. N + 1 -> Seq(Match)]
              /\ o >= g \/ MatchFrom(o, g) = NoMatch => MatchesUpTo(g)[o] = <<>>
              /\ ~(o >= g \/ MatchFrom(o, g) = NoMatch) =>
                     MatchesUpTo(g)[o] = <<MatchFrom(o, g)>> \o MatchesUpTo(g)[Behind(MatchFrom(o, g))]
  <2>1. g \in 0 .. buf_len
    BY <1>1
  <2> QED
    BY <1>1, <1>2, <1>4, <2>1, MatchesUnfold, Zenon DEF IInv
<1>14. CASE LineMatch
  <2>1. o < N
    BY <1>1, <1>2, <1>14 DEF LineMatch
  <2>2. PICK g \in o .. N : g = EndOfLine(o) /\ g = buf_getline /\ o < g
    <3>1. buf_offset + line_offset < buf_getline /\ buf_offset + line_offset = o
      BY <1>2, <1>10, <1>14 DEF LineMatch
    <3> QED
      BY <1>12, <2>1, <3>1
  <2>3. PICK m : m = MatchFrom(o, g) /\ m = tre_regnexec(o, g)
    BY <1>12, <2>1, <2>2
  <2>4. /\ m # NoMatch
        /\ AddMatch(LineMatched(m).start + (o + 0), LineMatched(m).end + (o + 0))
        /\ pc' = IF Enough THEN "found" ELSE "lines"
    <3>1. o + 0 = o
      OBVIOUS
    <3>2. m = tre_regnexec(o + 0, buf_getline)
      BY <2>2, <2>3, <3>1
    <3> QED
      BY <1>2, <1>10, <1>14, <3>2, Zenon DEF LineMatch
  <2>5. PICK s \in o .. g : \E e \in s .. g : m = [start |-> s, end |-> e]
    <3>1. o \in Nat /\ g \in Nat /\ MatchFrom(o, g) # NoMatch /\ Given
      BY <2>3, <2>4 DEF IInv
    <3>2. \E s \in o .. g : \E e \in s .. g : MatchFrom(o, g) = [start |-> s, end |-> e]
      BY <1>4, <3>1, MatchLies, Zenon
    <3> QED
      BY <2>3, <3>2
  <2>6. PICK e \in s .. g : m = [start |-> s, end |-> e]
    BY <2>5
  <2>7. m \in Match /\ m.start = s /\ m.end = e
    BY <2>6 DEF Match
  <2>8. LineMatched(m).start + (o + 0) = s /\ LineMatched(m).end + (o + 0) = e
    BY <1>2, <2>7 DEF LineMatched
  <2>9. matches' = <<m>>
    <3>1. matches' = Append(<<>>, m)
      BY <1>10, <2>4, <2>6, <2>8, Zenon DEF AddMatch
    <3>2. Append(<<>>, m) = <<m>>
      OBVIOUS
    <3> QED
      BY <3>1, <3>2
  <2>10. pc' = "found"
    <3>1. Enough
      <4>1. matches_len = 0
        BY <1>10 DEF matches_len
      <4> QED
        BY <1>5, <4>1 DEF Enough
    <3> QED
      BY <2>4, <3>1
  <2>11. Behind(m) \in 0 .. N + 1
    <3>1. Behind(m) = IF s = e THEN e + 1 ELSE e
      BY <2>7, Zenon DEF Behind
    <3> QED
      BY <3>1
  <2>12. PICK t \in Seq(Match) : MatchesUpTo(g)[o] = <<m>> \o t
    <3>1. ~(o >= g \/ MatchFrom(o, g) = NoMatch)
      BY <2>2, <2>3, <2>4
    <3>2. MatchesUpTo(g)[o] = <<m>> \o MatchesUpTo(g)[Behind(m)]
      BY <1>13, <2>1, <2>2, <2>3, <3>1, Zenon
    <3>3. MatchesUpTo(g)[Behind(m)] \in Seq(Match)
      BY <1>13, <2>1, <2>2, <2>11
    <3> QED
      BY <3>2, <3>3
  <2>13. PICK u \in Seq(Match) : u = L[EndOfLine(o) + 1]
    <3>1. EndOfLine(o) + 1 \in 0 .. N + 1
      BY <2>2
    <3> QED
      BY <1>7, <3>1
  <2>14. L[o] = (<<m>> \o t) \o u
    BY <1>8, <2>1, <2>2, <2>12, <2>13, Zenon
  <2>15. (<<m>> \o t) \o u = <<m>> \o (t \o u) /\ t \o u \in Seq(Match)
    BY <2>7
  <2>16. <<m>> \in Seq(Match) /\ Len(<<m>>) = 1
    BY <2>7
  <2> QED
    BY <1>11, <2>9, <2>10, <2>14, <2>15, <2>16, Zenon
<1>15. CASE LineEnd
  <2>1. o < N
    BY <1>1, <1>2, <1>15 DEF LineEnd
  <2>2. PICK g \in o .. N : g = EndOfLine(o) /\ g = buf_getline /\ (g < N => buf[g] = NewLine)
    BY <1>12, <2>1
  <2>3. /\ buf_offset' = g + 1 /\ line_offset' = 0 /\ pc' = pc /\ matches' = matches
        /\ o >= g \/ tre_regnexec(o, g) = NoMatch
    <3>1. buf_offset + line_offset = o
      BY <1>2, <1>10
    <3> QED
      BY <1>15, <2>2, <3>1 DEF LineEnd
  <2>4. MatchesUpTo(g)[o] = <<>>
    <3>1. tre_regnexec(o, g) = MatchFrom(o, g)
      BY <1>12, <2>1, <2>2
    <3> QED
      BY <1>13, <2>1, <2>2, <2>3, <3>1, Zenon
  <2>5. L[o] = L[g + 1]
    <3>1. g + 1 \in 0 .. N + 1
      OBVIOUS
    <3>2. L[g + 1] \in Seq(Match)
      BY <1>7, <3>1
    <3>3. L[o] = <<>> \o L[g + 1]
      BY <1>8, <2>1, <2>2, <2>4, Zenon
    <3> QED
      BY <3>2, <3>3
  <2>6. buf_offset' < buf_len' => BeginsLine(buf_offset')
    <3>1. ASSUME buf_offset' < buf_len' PROVE BeginsLine(buf_offset')
      <4>1. g + 1 < N
        BY <1>1, <1>6, <2>3, <3>1
      <4>2. buf[g] = NewLine /\ (g + 1) - 1 = g
        BY <2>2, <4>1
      <4> QED
        BY <2>3, <4>2 DEF BeginsLine
    <3> QED
      BY <3>1
  <2>7. BeginsLine(buf_offset)' <=> BeginsLine(buf_offset')
    BY <1>3, Same DEF BeginsLine
  <2>8. LineMatches'[buf_offset'] = LineMatches'[0]
    BY <1>6, <1>7, <1>9, <2>3, <2>5, Zenon
  <2>9. MatchesRight'
    BY <1>3, <2>3 DEF MatchesRight
  <2> QED
    BY <1>3, <1>10, <2>3, <2>6, <2>7, <2>8, <2>9 DEF Finding
<1>16. CASE LinesEnd
  <2>1. pc' = "found" /\ matches' = matches /\ o >= N
    BY <1>1, <1>2, <1>16 DEF LinesEnd
  <2>2. L[o] = <<>> \o <<>> /\ <<>> \in Seq(Match)
    <3>1. L[o] = <<>> /\ <<>> \o <<>> = <<>> /\ <<>> \in Seq(Match)
      BY <1>8, <2>1
    <3> QED
      BY <3>1, Zenon
  <2> QED
    BY <1>10, <1>11, <2>1, <2>2
<1> QED
  BY <1>14, <1>15, <1>16

(* The steps before the loops.                                             *)
LEMMA AllocFinds ==
    ASSUME IInv, IInv', Finding, Alloc \/ MatchAll
    PROVE  Finding'
<1>1. PICK N \in Nat : N = buf_len
  BY GivenFacts DEF IInv
<1>2. [Next]_vars /\ pc \in {"alloc", "all"}
  BY DEF Next, Step, Alloc, MatchAll
<1>3. /\ opts' = opts /\ buf_len' = buf_len /\ LineMatches' = LineMatches /\ Expected' = Expected
      /\ MatchesUpTo(buf_len)' = MatchesUpTo(buf_len)
  BY <1>2, Same, SameReference
<1>4. buf_offset = 0 /\ line_offset = 0 /\ buf_offset' = 0 /\ line_offset' = 0
  BY <1>2 DEF Finding, Alloc, MatchAll
<1>5. CASE Alloc
  <2>1. pc' = opts.mode /\ matches' = <<>>
    BY <1>5 DEF Alloc, IInv, Recorded
  <2>2. ASSUME pc' \in {"literal", "multiline"}
        PROVE  /\ opts.max_matches' > 0 => matches_len' < opts.max_matches'
               /\ matches' \o MatchesUpTo(buf_len)'[buf_offset'] = MatchesUpTo(buf_len)'[0]
    <3>1. matches_len' = 0
      BY <2>1 DEF matches_len
    <3>2. opts.max_matches' > 0 => matches_len' < opts.max_matches'
      BY <3>1
    <3>3. MatchesUpTo(buf_len)[0] \in Seq(Match)
      <4>1. buf_len \in 0 .. buf_len /\ 0 \in 0 .. buf_len + 1 /\ opts.mode # "all"
        BY <1>1, <2>1, <2>2
      <4> QED
        BY <4>1, MatchesUnfold DEF IInv
    <3>4. <<>> \o MatchesUpTo(buf_len)[0] = MatchesUpTo(buf_len)[0]
      BY <3>3
    <3>5. matches' \o MatchesUpTo(buf_len)'[buf_offset'] = MatchesUpTo(buf_len)'[0]
      BY <1>3, <1>4, <2>1, <3>4, Zenon
    <3> QED
      BY <3>2, <3>5
  <2>3. MatchesRight'
    BY <2>1, GivenFacts DEF IInv, MatchesRight
  <2>4. BeginsLine(buf_offset)'
    BY <1>4 DEF BeginsLine
  <2> QED
    BY <1>3, <1>4, <2>1, <2>2, <2>3, <2>4 DEF Finding
<1>6. CASE MatchAll
  <2>1. pc' = "found" /\ matches' = <<[start |-> 0, end |-> buf_len]>> /\ opts.mode = "all"
    BY <1>6 DEF MatchAll, IInv, Phase
  <2>2. Expected = <<[start |-> 0, end |-> buf_len]>>
    BY <2>1, Zenon DEF Expected
  <2>3. MatchesRight'
    BY <1>3, <2>1, <2>2, Zenon DEF MatchesRight
  <2> QED
    BY <2>1, <2>3 DEF Finding
<1> QED
  BY <1>5, <1>6

(* Every step.                                                             *)
LEMMA StepFinds ==
    ASSUME NoCaret, FirstOnly, IInv, IInv', Finding, [Next]_vars
    PROVE  Finding'
<1>1. CASE UNCHANGED vars
  <2>1. /\ opts' = opts /\ buf' = buf /\ pc' = pc
        /\ buf_offset' = buf_offset /\ line_offset' = line_offset /\ matches' = matches
    BY <1>1 DEF vars
  <2>2. /\ buf_len' = buf_len /\ LineMatches' = LineMatches /\ Expected' = Expected
        /\ MatchesUpTo(buf_len)' = MatchesUpTo(buf_len) /\ matches_len' = matches_len
        /\ BeginsLine(buf_offset)' <=> BeginsLine(buf_offset)
    BY <2>1, Same, SameReference DEF matches_len, BeginsLine
  <2>3. MatchesRight'
    BY <2>1, <2>2, Zenon DEF Finding, MatchesRight
  <2> QED
    BY <2>1, <2>2, <2>3, Zenon DEF Finding
<1>2. CASE Found \/ InvertMatch \/ InvertLast \/ InvertByte \/ InvertEnd \/ Done
  <2>1. pc' \in {"invert", "done"}
    BY <1>2 DEF Found, InvertMatch, InvertLast, InvertByte, InvertEnd, Done, Inverting, vars
  <2> QED
    BY <2>1 DEF Finding, MatchesRight
<1> QED
  BY <1>1, <1>2, AllocFinds, LiteralFinds, MultilineFinds, LinesFind DEF Next, Step

(* The lines that no match of ms touches, and those of them that end       *)
(* before an offset.                                                       *)
Untouched(ms) == LineStarts \ Touched(ms)

Before(ms, i) == {l \in Untouched(ms) : EndOfLine(l) < i}

(* The lines from one offset up to another.                                *)
Between(s, e) == {l \in LineStarts : s <= l /\ l < e}

(* Matches of which each lies behind the one before and in the buffer, and *)
(* none is empty.                                                          *)
Apart(ms) ==
    /\ ms \in Seq(Match)
    /\ \A k \in DOMAIN ms : ms[k].start < ms[k].end /\ ms[k].end <= buf_len
    /\ \A j \in DOMAIN ms, k \in DOMAIN ms : j < k => ms[j].end <= ms[k].start

(* A line is untouched if each match ends before it or begins behind it.   *)
LEMMA UntouchedIs ==
    ASSUME NEW ms, NEW l \in LineStarts
    PROVE  l \in Untouched(ms) <=>
               \A k \in DOMAIN ms : ~(l <= ms[k].end /\ EndOfLine(l) >= ms[k].start)
<1>1. l \in Touched(ms) <=> \E k \in DOMAIN ms : l <= ms[k].end /\ EndOfLine(l) >= ms[k].start
  BY DEF Touched, LinesOf
<1> QED
  BY <1>1 DEF Untouched

(* Where a line begins and ends.                                           *)
LEMMA LineIs ==
    ASSUME Given, NEW l \in LineStarts
    PROVE  /\ l \in 0 .. buf_len - 1 /\ BeginsLine(l) /\ EndOfLine(l) \in l .. buf_len
           /\ \A j \in l .. EndOfLine(l) - 1 : buf[j] # NewLine
           /\ EndOfLine(l) < buf_len => buf[EndOfLine(l)] = NewLine
<1>1. PICK N \in Nat : N = buf_len
  BY GivenFacts
<1>2. l \in 0 .. buf_len - 1 /\ BeginsLine(l)
  BY DEF LineStarts
<1>3. l \in 0 .. buf_len
  BY <1>1, <1>2
<1> QED
  BY <1>2, <1>3, LineEnds

(* A line that begins before another ends before it; where there is no     *)
(* newline no line begins.                                                 *)
LEMMA LineOrder ==
    ASSUME Given, NEW N \in Nat, N = buf_len, NEW l \in LineStarts, NEW s \in 0 .. N
    PROVE  /\ BeginsLine(s) /\ l < s => EndOfLine(l) < s
           /\ \A i \in s .. N : (\A j \in s .. i - 1 : buf[j] # NewLine) /\ l <= i => l <= s
<1>1. PICK e \in l .. N : e = EndOfLine(l) /\ \A j \in l .. e - 1 : buf[j] # NewLine
  BY LineIs
<1>2. l \in 0 .. N - 1 /\ BeginsLine(l)
  BY LineIs
<1>3. ASSUME BeginsLine(s), l < s PROVE e < s
  <2>1. buf[s - 1] = NewLine
    BY <1>2, <1>3 DEF BeginsLine
  <2>2. s - 1 \notin l .. e - 1
    BY <1>1, <2>1
  <2> QED
    BY <1>2, <1>3, <2>2
<1>4. ASSUME NEW i \in s .. N, \A j \in s .. i - 1 : buf[j] # NewLine, l <= i PROVE l <= s
  <2>1. SUFFICES ASSUME l > s PROVE FALSE
    BY <1>2
  <2>2. l - 1 \in s .. i - 1 /\ l # 0
    BY <1>2, <1>4, <2>1
  <2> QED
    BY <1>2, <1>4, <2>2 DEF BeginsLine
<1> QED
  BY <1>1, <1>3, <1>4

(* The lines of what is inverted, which begins where a line does.          *)
LEMMA LinesInverted ==
    ASSUME Given, NEW N \in Nat, N = buf_len, NEW s \in 0 .. N, BeginsLine(s), NEW e \in Int
    PROVE  LinesOf(s, e) = Between(s, e + 1)
<1>1. ASSUME NEW l \in LineStarts
      PROVE  (l <= e /\ EndOfLine(l) >= s) <=> (s <= l /\ l < e + 1)
  <2>1. PICK x \in l .. N : x = EndOfLine(l)
    BY LineIs
  <2>2. l \in 0 .. N - 1
    BY LineIs
  <2>3. l < s => x < s
    BY <2>1, LineOrder
  <2> QED
    BY <2>1, <2>2, <2>3
<1> QED
  BY <1>1 DEF LinesOf, Between

-----------------------------------------------------------------------------
(* A match is read: the lines that end in it are touched.                  *)
LEMMA OverMatch ==
    ASSUME Given, NEW N \in Nat, N = buf_len, NEW ms, Apart(ms), NEW k \in DOMAIN ms
    PROVE  /\ Before(ms, ms[k].end) = Before(ms, ms[k].start)
           /\ ms[k].end >= N => Untouched(ms) = Before(ms, ms[k].start)
<1>1. PICK s \in Nat, e \in Nat : s = ms[k].start /\ e = ms[k].end /\ s < e /\ e <= N
  <2>1. ms[k] \in Match
    BY DEF Apart
  <2> QED
    BY <2>1 DEF Match, Apart
<1>2. ASSUME NEW l \in Untouched(ms) PROVE l <= e => EndOfLine(l) < s
  <2>1. l \in LineStarts
    BY DEF Untouched
  <2>2. PICK x \in l .. N : x = EndOfLine(l) /\ l \in 0 .. N - 1
    BY <2>1, LineIs
  <2>3. ~(l <= e /\ x >= s)
    BY <1>1, <2>1, <2>2, UntouchedIs
  <2> QED
    BY <1>1, <2>2, <2>3
<1>3. ASSUME NEW l \in Untouched(ms) PROVE EndOfLine(l) \in Nat /\ l \in 0 .. N - 1 /\ l <= EndOfLine(l)
  <2>1. l \in LineStarts
    BY DEF Untouched
  <2>2. PICK x \in l .. N : x = EndOfLine(l) /\ l \in 0 .. N - 1
    BY <2>1, LineIs
  <2> QED
    BY <2>2
<1>4. Before(ms, e) = Before(ms, s)
  <2>1. ASSUME NEW l \in Untouched(ms) PROVE EndOfLine(l) < e <=> EndOfLine(l) < s
    BY <1>1, <1>2, <1>3
  <2> QED
    BY <2>1 DEF Before
<1>5. ASSUME e >= N PROVE Untouched(ms) = Before(ms, s)
  <2>1. ASSUME NEW l \in Untouched(ms) PROVE EndOfLine(l) < s
    BY <1>1, <1>2, <1>3, <1>5
  <2> QED
    BY <2>1 DEF Before
<1> QED
  BY <1>1, <1>4, <1>5

(* At i in a line without a match, which begins at le; the ones before it, *)
(* from st on, have none either.  The first r of the matches lie behind.   *)
InFreeLine(N, ms, r, i, le, st) ==
    /\ N \in Nat /\ N = buf_len /\ Apart(ms) /\ r \in Nat
    /\ i \in 0 .. N - 1 /\ le \in 0 .. i /\ st \in 0 .. le
    /\ BeginsLine(le) /\ \A j \in le .. i - 1 : buf[j] # NewLine
    /\ \A k \in DOMAIN ms :
           /\ k <= r => ms[k].end < le
           /\ k > r => i < ms[k].start
    /\ buf[i] = NewLine \/ i = N - 1

(* A line without a match ends, or the buffer does.                        *)
LEMMA FreeLine ==
    ASSUME Given, NEW N, NEW ms, NEW r, NEW i, NEW le, NEW st,
           InFreeLine(N, ms, r, i, le, st)
    PROVE  /\ Between(st, i + 1) = Between(st, le) \cup {le}
           /\ buf[i] = NewLine => Before(ms, i + 1) = Before(ms, i) \cup {le}
           /\ i = N - 1 => Untouched(ms) = Before(ms, i) \cup {le}
<1>0. /\ N \in Nat /\ N = buf_len /\ Apart(ms) /\ r \in Nat
      /\ i \in 0 .. N - 1 /\ le \in 0 .. i /\ st \in 0 .. le
      /\ BeginsLine(le) /\ \A j \in le .. i - 1 : buf[j] # NewLine
      /\ \A k \in DOMAIN ms : k <= r => ms[k].end < le
      /\ \A k \in DOMAIN ms : k > r => i < ms[k].start
      /\ buf[i] = NewLine \/ i = N - 1
  BY DEF InFreeLine
<1> USE <1>0
<1>1. le \in LineStarts
  BY DEF LineStarts
<1>2. PICK e \in le .. N : e = EndOfLine(le) /\ (\A j \in le .. e - 1 : buf[j] # NewLine)
                           /\ (e < N => buf[e] = NewLine)
  BY <1>1, LineIs
<1>3. e >= i /\ (buf[i] = NewLine => e = i)
  <2>1. ~(e < i)
    <3>1. e < i => e \in le .. i - 1 /\ e < N
      OBVIOUS
    <3> QED
      BY <1>2, <3>1
  <2>2. buf[i] = NewLine => ~(i < e)
    <3>1. i < e => i \in le .. e - 1
      OBVIOUS
    <3> QED
      BY <1>2, <3>1
  <2> QED
    BY <2>1, <2>2
<1>4. le \in Untouched(ms)
  <2>1. ASSUME NEW k \in DOMAIN ms PROVE ~(le <= ms[k].end /\ e >= ms[k].start)
    <3>1. PICK s \in Nat, f \in Nat : s = ms[k].start /\ f = ms[k].end /\ s < f /\ f <= N
      <4>1. ms[k] \in Match
        BY DEF Apart
      <4> QED
        BY <4>1 DEF Match, Apart
    <3>2. k \in Int
      BY DEF Apart
    <3>3. k <= r => f < le
      BY <3>1
    <3>4. k > r => i < s
      BY <3>1
    <3> QED
      BY <1>3, <3>1, <3>2, <3>3, <3>4
  <2> QED
    BY <1>1, <1>2, <2>1, UntouchedIs, Zenon
<1>5. ASSUME NEW l \in LineStarts
      PROVE  /\ l \in 0 .. N - 1 /\ EndOfLine(l) \in l .. N
             /\ l < le => EndOfLine(l) < le
             /\ l <= i => l <= le
  <2>1. l \in 0 .. N - 1 /\ EndOfLine(l) \in l .. N
    BY LineIs
  <2>2. le \in 0 .. N /\ i \in le .. N
    OBVIOUS
  <2>3. l < le => EndOfLine(l) < le
    BY <2>2, LineOrder
  <2>4. l <= i => l <= le
    BY <2>2, LineOrder
  <2> QED
    BY <2>1, <2>3, <2>4
<1>6. Between(st, i + 1) = Between(st, le) \cup {le}
  <2>1. ASSUME NEW l \in LineStarts
        PROVE  (st <= l /\ l < i + 1) <=> (st <= l /\ l < le) \/ l = le
    BY <1>5
  <2> QED
    BY <1>1, <2>1 DEF Between
<1>7. ASSUME NEW l \in Untouched(ms), l # le, l <= i PROVE EndOfLine(l) < i
  <2>1. l \in LineStarts
    BY DEF Untouched
  <2>2. PICK x \in l .. N : x = EndOfLine(l) /\ (l < le => x < le) /\ (l <= i => l <= le)
                            /\ l \in 0 .. N - 1
    BY <1>5, <2>1
  <2> QED
    BY <1>7, <2>2
<1>8. ASSUME NEW l \in Untouched(ms) PROVE l \in 0 .. N - 1 /\ EndOfLine(l) \in l .. N
  BY <1>5 DEF Untouched
<1>9. ASSUME buf[i] = NewLine PROVE Before(ms, i + 1) = Before(ms, i) \cup {le}
  <2>1. ASSUME NEW l \in Untouched(ms)
        PROVE  EndOfLine(l) < i + 1 <=> EndOfLine(l) < i \/ l = le
    <3>1. PICK x \in l .. N : x = EndOfLine(l) /\ l \in 0 .. N - 1
      BY <1>8
    <3>2. l = le => x = i
      BY <1>2, <1>3, <1>9, <3>1
    <3>3. l # le /\ l <= i => x < i
      BY <1>7, <3>1
    <3> QED
      BY <3>1, <3>2, <3>3
  <2> QED
    BY <1>4, <2>1 DEF Before
<1>10. ASSUME i = N - 1 PROVE Untouched(ms) = Before(ms, i) \cup {le}
  <2>1. ASSUME NEW l \in Untouched(ms) PROVE EndOfLine(l) < i \/ l = le
    <3>1. l <= i
      BY <1>8, <1>10
    <3> QED
      BY <1>7, <3>1
  <2> QED
    BY <1>4, <2>1 DEF Before
<1> QED
  BY <1>6, <1>9, <1>10

(* A line with a match ends, or the buffer does.                           *)
LEMMA MatchedLine ==
    ASSUME Given, NEW N \in Nat, N = buf_len, NEW ms, Apart(ms),
           NEW r \in DOMAIN ms, NEW i \in 0 .. N - 1, ms[r].end <= i,
           \A j \in ms[r].end .. i - 1 : buf[j] # NewLine
    PROVE  /\ Before(ms, i + 1) = Before(ms, i)
           /\ i = N - 1 => Untouched(ms) = Before(ms, i)
<1>1. PICK s \in Nat, f \in Nat : s = ms[r].start /\ f = ms[r].end /\ s < f /\ f <= i
  <2>1. ms[r] \in Match
    BY DEF Apart
  <2> QED
    BY <2>1 DEF Match, Apart
<1>2. ASSUME NEW l \in Untouched(ms)
      PROVE  l \in 0 .. N - 1 /\ EndOfLine(l) \in l .. N /\ (l <= i => EndOfLine(l) < i)
  <2>1. l \in LineStarts
    BY DEF Untouched
  <2>2. PICK x \in l .. N : x = EndOfLine(l) /\ l \in 0 .. N - 1
    BY <2>1, LineIs
  <2>3. ~(l <= f /\ x >= s)
    BY <1>1, <2>1, <2>2, UntouchedIs
  <2>4. l <= i => l <= f
    <3>1. f \in 0 .. N /\ i \in f .. N
      BY <1>1
    <3>2. \A j \in f .. i - 1 : buf[j] # NewLine
      BY <1>1
    <3> QED
      BY <2>1, <3>1, <3>2, LineOrder
  <2> QED
    BY <1>1, <2>2, <2>3, <2>4
<1>3. Before(ms, i + 1) = Before(ms, i)
  <2>1. ASSUME NEW l \in Untouched(ms) PROVE EndOfLine(l) < i + 1 <=> EndOfLine(l) < i
    <3>1. PICK x \in l .. N : x = EndOfLine(l) /\ l \in 0 .. N - 1 /\ (l <= i => x < i)
      BY <1>2
    <3> QED
      BY <3>1
  <2> QED
    BY <2>1 DEF Before
<1>4. ASSUME i = N - 1 PROVE Untouched(ms) = Before(ms, i)
  <2>1. ASSUME NEW l \in Untouched(ms) PROVE EndOfLine(l) < i
    BY <1>2, <1>4
  <2> QED
    BY <2>1 DEF Before
<1> QED
  BY <1>3, <1>4

(* A byte of a line passes.                                                *)
LEMMA PlainByte ==
    ASSUME Given, NEW N \in Nat, N = buf_len, NEW ms, NEW i \in 0 .. N - 1, buf[i] # NewLine
    PROVE  Before(ms, i + 1) = Before(ms, i)
<1>1. ASSUME NEW l \in Untouched(ms) PROVE EndOfLine(l) < i + 1 <=> EndOfLine(l) < i
  <2>1. l \in LineStarts
    BY DEF Untouched
  <2>2. PICK x \in l .. N : x = EndOfLine(l) /\ l \in 0 .. N - 1 /\ (x < N => buf[x] = NewLine)
    BY <2>1, LineIs
  <2>3. x # i
    BY <2>2
  <2> QED
    BY <2>2, <2>3
<1> QED
  BY <1>1 DEF Before

(* Each match begins behind the one before.                                *)
Sorted ==
    opts.mode # "lines" /\ pc \notin {"invert", "done"} =>
        /\ pc # "found" => \A k \in DOMAIN matches : matches[k].end <= buf_offset
        /\ \A j \in DOMAIN matches, k \in DOMAIN matches :
               j < k => matches[j].end <= matches[k].start

(* The lines invert_matches() has written, those it would write next, and  *)
(* those without a match that end before the place it is at.               *)
WrittenLines == UNION {LinesOf(matches[k].start, matches[k].end) : k \in 1 .. inv.count}

Pending == {l \in LineStarts : inv.inverted /\ inv.start <= l /\ l < inv.last_line_end}

LinesReached == {l \in LineStarts \ Touched(Expected) : EndOfLine(l) < inv.i}

(* The line it is in: without a match so far, or with one.                 *)
Free ==
    /\ inv.start <= inv.last_line_end /\ inv.last_line_end <= inv.i
    /\ BeginsLine(inv.start) /\ BeginsLine(inv.last_line_end)
    /\ \A j \in inv.last_line_end .. inv.i - 1 : buf[j] # NewLine
    /\ \A k \in DOMAIN Expected : k <= inv.read => Expected[k].end < inv.last_line_end

Matched ==
    /\ inv.read \in DOMAIN Expected
    /\ \A j \in Expected[inv.read].end .. inv.i - 1 : buf[j] # NewLine

(* It overwrites the matches from the beginning, but none that it has      *)
(* still to read; what is written and pending is what was to be found up   *)
(* to where it is, and in the end all of it is written.                    *)
Turned ==
    pc = "invert" /\ opts.max_matches = 0 /\ buf_len > 0 =>
        /\ Apart(Expected) /\ inv.read <= Len(Expected)
        /\ \A k \in DOMAIN Expected :
               /\ k <= inv.read => Expected[k].end <= inv.i
               /\ k > inv.read => /\ k \in DOMAIN matches /\ matches[k] = Expected[k]
                                  /\ inv.i <= Expected[k].start
                                  /\ inv.next = Expected[inv.read + 1]
        /\ inv.i < buf_len =>
               /\ matches_len = Len(Expected)
               /\ IF inv.inverted THEN Free ELSE Matched
               /\ WrittenLines \cup Pending = LinesReached
        /\ inv.i >= buf_len => WrittenLines = LineStarts \ Touched(Expected)

(* What says of lines does not change.                                     *)
LEMMA SameLines ==
    ASSUME [Next]_vars
    PROVE  /\ LineStarts' = LineStarts
           /\ (LineStarts \ Touched(Expected))' = LineStarts \ Touched(Expected)
           /\ Apart(Expected) => Apart(Expected)'
           /\ \A s, e : LinesOf(s, e)' = LinesOf(s, e)
<1>1. /\ buf' = buf /\ buf_len' = buf_len /\ Expected' = Expected /\ LineStarts' = LineStarts
      /\ \A s : EndOfLine(s)' = EndOfLine(s)
  BY Same, SameReference
<1>2. \A s, e : LinesOf(s, e)' = LinesOf(s, e)
  <2>1. ASSUME NEW s, NEW e PROVE LinesOf(s, e)' = LinesOf(s, e)
    BY <1>1 DEF LinesOf
  <2> QED
    BY <2>1
<1>3. (LineStarts \ Touched(Expected))' = LineStarts \ Touched(Expected)
  BY <1>1 DEF Touched, LinesOf
<1>4. Apart(Expected) => Apart(Expected)'
  BY <1>1 DEF Apart
<1> QED
  BY <1>1, <1>2, <1>3, <1>4

(* The matches that are found are sorted.                                  *)
LEMMA SortedStep ==
    ASSUME IInv, IInv', Sorted, [Next]_vars
    PROVE  Sorted'
<1>1. PICK N \in Nat : N = buf_len
  BY GivenFacts DEF IInv
<1>2. PICK o \in 0 .. N + 1, p \in 0 .. N + 1 : o = buf_offset /\ p = buf_offset'
  <2>1. [Next]_vars => buf_len' = buf_len
    BY Same
  <2> QED
    BY <1>1, <2>1 DEF IInv, Offsets
<1>3. opts' = opts
  BY Same
<1>4. matches \in Seq(Match) /\ matches' \in Seq(Match)
  BY DEF IInv, Recorded
<1>5. SUFFICES ASSUME opts.mode # "lines", pc' \notin {"invert", "done"} PROVE Sorted'
  BY <1>3 DEF Sorted
<1>6. ASSUME UNCHANGED <<pc, buf_offset, matches>> PROVE Sorted'
  BY <1>3, <1>6 DEF Sorted
<1>7. ASSUME pc \notin {"found", "invert", "done"}, matches' = matches, o <= p PROVE Sorted'
  <2>1. ASSUME NEW k \in DOMAIN matches PROVE matches[k].end <= p
    <3>1. matches[k] \in Match /\ matches[k].end <= o
      BY <1>2, <1>4, <1>5, <1>7 DEF Sorted
    <3> QED
      BY <1>7, <3>1 DEF Match
  <2> QED
    BY <1>2, <1>3, <1>5, <1>7, <2>1 DEF Sorted
<1>8. ASSUME pc \notin {"found", "invert", "done"}, NEW s \in o .. N, NEW e \in s .. p,
             matches' = Append(matches, [start |-> s, end |-> e])
      PROVE  Sorted'
  <2>1. PICK m \in Match : m = [start |-> s, end |-> e] /\ m.start = s /\ m.end = e
    <3>1. PICK m : m = [start |-> s, end |-> e]
      OBVIOUS
    <3>2. s \in Nat /\ e \in Nat
      OBVIOUS
    <3>3. m \in Match /\ m.start = s /\ m.end = e
      BY <3>1, <3>2 DEF Match
    <3> QED
      BY <3>1, <3>3
  <2>2. matches' = Append(matches, m)
    BY <1>8, <2>1
  <2>3. PICK L \in Nat : L = Len(matches) /\ DOMAIN matches = 1 .. L
    BY <1>4
  <2>4. /\ DOMAIN matches' = 1 .. L + 1 /\ matches'[L + 1] = m
        /\ \A k \in 1 .. L : matches'[k] = matches[k]
    <3>1. PICK a \in Seq(Match) : a = matches
      BY <1>4
    <3>2. L = Len(a) /\ matches' = Append(a, m)
      BY <2>2, <2>3, <3>1, Zenon
    <3>3. /\ Len(Append(a, m)) = L + 1 /\ Append(a, m)[L + 1] = m
          /\ \A k \in 1 .. L : Append(a, m)[k] = a[k]
      BY <3>2
    <3>4. Append(a, m) \in Seq(Match)
      OBVIOUS
    <3>5. DOMAIN Append(a, m) = 1 .. L + 1
      BY <3>3, <3>4
    <3> QED
      BY <3>1, <3>2, <3>3, <3>5, Zenon
  <2>5. ASSUME NEW k \in 1 .. L
        PROVE  matches[k].end \in Nat /\ matches[k].end <= o /\ matches[k].start \in Nat
    <3>1. matches[k] \in Match /\ k \in DOMAIN matches
      BY <1>4, <2>3
    <3>2. matches[k].end <= o
      BY <1>2, <1>5, <1>8, <3>1, Zenon DEF Sorted
    <3> QED
      BY <3>1, <3>2 DEF Match
  <2>6. ASSUME NEW k \in DOMAIN matches' PROVE matches'[k].end <= p
    <3>1. CASE k = L + 1
      BY <2>1, <2>4, <3>1
    <3>2. CASE k # L + 1
      BY <2>4, <2>5, <2>6, <3>2
    <3> QED
      BY <3>1, <3>2
  <2>7. ASSUME NEW j \in DOMAIN matches', NEW k \in DOMAIN matches', j < k
        PROVE  matches'[j].end <= matches'[k].start
    <3>1. j \in 1 .. L /\ matches'[j] = matches[j]
      BY <2>4, <2>7
    <3>2. CASE k = L + 1
      BY <2>1, <2>4, <2>5, <3>1, <3>2
    <3>3. CASE k # L + 1
      <4>1. k \in 1 .. L /\ matches'[k] = matches[k]
        BY <2>4, <2>7, <3>3
      <4>2. matches[j].end <= matches[k].start
        BY <1>5, <1>8, <2>3, <2>7, <3>1, <4>1 DEF Sorted
      <4> QED
        BY <3>1, <4>1, <4>2
    <3> QED
      BY <3>2, <3>3
  <2> QED
    BY <1>2, <2>6, <2>7 DEF Sorted
<1>9. CASE UNCHANGED vars \/ Done
  <2>1. UNCHANGED <<pc, buf_offset, matches>>
    BY <1>9 DEF vars, Done
  <2> QED
    BY <1>6, <2>1
<1>10. CASE Alloc \/ LiteralEnd \/ MultilineEnd
  <2>1. pc \notin {"found", "invert", "done"} /\ matches' = matches /\ p = o
    BY <1>2, <1>10 DEF Alloc, LiteralEnd, MultilineEnd
  <2> QED
    BY <1>7, <2>1
<1>11. CASE MatchAll
  <2>1. pc' = "found" /\ matches' = <<[start |-> 0, end |-> buf_len]>>
    BY <1>11 DEF MatchAll
  <2>2. \A j \in DOMAIN matches', k \in DOMAIN matches' : ~(j < k)
    BY <2>1
  <2> QED
    BY <2>1, <2>2 DEF Sorted
<1>12. CASE LiteralMatch \/ LiteralNoWord
  <2>1. Searching /\ match_ptr # NULL /\ opts.mode = "literal" /\ pc = "literal"
    BY <1>12 DEF LiteralMatch, LiteralNoWord, Searching, IInv, Phase
  <2>2. PICK n \in Nat \ {0} : \E q \in buf_offset .. buf_len - n : n = query_len /\ q = match_ptr
    BY <2>1, LiteralFound
  <2>3. PICK q \in o .. N - n : n = query_len /\ q = match_ptr
    BY <1>1, <1>2, <2>2
  <2>4. CASE LiteralMatch
    <3>1. matches' = Append(matches, [start |-> q, end |-> q + n]) /\ p = q + n
      BY <1>2, <2>3, <2>4, Zenon DEF LiteralMatch, AddMatch
    <3>2. q \in o .. N /\ q + n \in q .. p
      BY <2>3, <3>1
    <3>3. pc \notin {"found", "invert", "done"}
      BY <2>1
    <3> QED
      BY <1>8, <3>1, <3>2, <3>3
  <2>5. CASE LiteralNoWord
    <3>1. PICK skip \in n .. 2 * n - 1 : skip = find_skip_lookup[0]
      BY <2>1, <2>3, SkipFirst DEF IInv
    <3>2. p = q + skip - n + 1 /\ matches' = matches
      BY <1>2, <2>3, <2>5, <3>1 DEF LiteralNoWord
    <3> QED
      BY <1>7, <2>1, <2>3, <3>2
  <2> QED
    BY <1>12, <2>4, <2>5
<1>13. CASE MultilineMatch
  <2>1. tre_regnexec(o, N) # NoMatch /\ pc = "multiline"
    BY <1>1, <1>2, <1>13 DEF MultilineMatch
  <2>2. PICK s \in o .. N : \E e \in s .. N : tre_regnexec(o, N) = [start |-> s, end |-> e]
    BY <2>1, RegexFinds DEF IInv
  <2>3. PICK e \in s .. N : tre_regnexec(o, N) = [start |-> s, end |-> e]
    BY <2>2
  <2>4. PICK m : m = [start |-> s, end |-> e] /\ m.start = s /\ m.end = e
    <3>1. PICK m : m = [start |-> s, end |-> e]
      OBVIOUS
    <3>2. m.start = s /\ m.end = e
      BY <3>1
    <3> QED
      BY <3>1, <3>2
  <2>5. AddMatch(m.start, m.end) /\ buf_offset' = Behind(m)
    BY <1>1, <1>2, <1>13, <2>3, <2>4, Zenon DEF MultilineMatch
  <2>6. matches' = Append(matches, [start |-> s, end |-> e])
    BY <2>4, <2>5, Zenon DEF AddMatch
  <2>7. p = IF s = e THEN e + 1 ELSE e
    BY <1>2, <2>4, <2>5, Zenon DEF Behind
  <2>8. e \in s .. p /\ pc \notin {"found", "invert", "done"}
    BY <2>1, <2>7
  <2> QED
    BY <1>8, <2>6, <2>8
<1>14. CASE LineMatch \/ LineEnd \/ LinesEnd
  BY <1>5, <1>14 DEF LineMatch, LineEnd, LinesEnd, IInv, Phase
<1>15. CASE Found \/ InvertMatch \/ InvertLast \/ InvertByte \/ InvertEnd
  BY <1>5, <1>15 DEF Found, InvertMatch, InvertLast, InvertByte, InvertEnd, Inverting
<1> QED
  BY <1>9, <1>10, <1>11, <1>12, <1>13, <1>14, <1>15 DEF Next, Step

(* The same of the next state, in terms of this buffer.                    *)
Turns(X, i, r, st, le, b) ==
    /\ r <= Len(X)
    /\ \A k \in DOMAIN X : k <= r => X[k].end <= i
    /\ \A k \in DOMAIN X : k > r => /\ k \in DOMAIN matches' /\ matches'[k] = X[k]
                                    /\ i <= X[k].start /\ inv'.next = X[r + 1]
    /\ i < buf_len =>
           /\ matches_len' = Len(X)
           /\ IF b
              THEN /\ st <= le /\ le <= i /\ BeginsLine(st) /\ BeginsLine(le)
                   /\ \A j \in le .. i - 1 : buf[j] # NewLine
                   /\ \A k \in DOMAIN X : k <= r => X[k].end < le
              ELSE r \in DOMAIN X /\ \A j \in X[r].end .. i - 1 : buf[j] # NewLine
           /\ WrittenLines' \cup (IF b THEN Between(st, le) ELSE {}) = Before(X, i)
    /\ i >= buf_len => WrittenLines' = Untouched(X)

(* What is right of the next state in those terms is right of it.          *)
LEMMA TurnedNext ==
    ASSUME [Next]_vars, NEW X, X = Expected, Apart(X),
           NEW i, NEW r, NEW st, NEW le, NEW b \in BOOLEAN,
           i = inv'.i, r = inv'.read, st = inv'.start, le = inv'.last_line_end,
           b = inv'.inverted, Turns(X, i, r, st, le, b)
    PROVE  Turned'
<1>1. /\ buf' = buf /\ buf_len' = buf_len /\ Expected' = X /\ LineStarts' = LineStarts
      /\ \A s : EndOfLine(s)' = EndOfLine(s)
      /\ (LineStarts \ Touched(Expected))' = Untouched(X)
      /\ Apart(Expected)'
  BY Same, SameReference, SameLines DEF Untouched
<1>2. LinesReached' = Before(X, i)
  <2>1. LinesReached' = {l \in (LineStarts \ Touched(Expected))' : EndOfLine(l)' < inv'.i}
    BY Zenon DEF LinesReached
  <2> QED
    BY <1>1, <2>1 DEF Before
<1>3. Pending' = IF b THEN Between(st, le) ELSE {}
  BY <1>1 DEF Pending, Between
<1>4. Free' <=> /\ st <= le /\ le <= i /\ BeginsLine(st) /\ BeginsLine(le)
                /\ \A j \in le .. i - 1 : buf[j] # NewLine
                /\ \A k \in DOMAIN X : k <= r => X[k].end < le
  BY <1>1 DEF Free, BeginsLine
<1>5. Matched' <=> r \in DOMAIN X /\ \A j \in X[r].end .. i - 1 : buf[j] # NewLine
  BY <1>1 DEF Matched
<1>6. /\ Apart(Expected)' /\ inv'.read <= Len(Expected')
      /\ \A k \in DOMAIN Expected' :
             /\ k <= inv'.read => Expected'[k].end <= inv'.i
             /\ k > inv'.read => /\ k \in DOMAIN matches' /\ matches'[k] = Expected'[k]
                                 /\ inv'.i <= Expected'[k].start
                                 /\ inv'.next = Expected'[inv'.read + 1]
  BY <1>1, Zenon DEF Turns
<1>7. ASSUME inv'.i < buf_len'
      PROVE  /\ matches_len' = Len(Expected')
             /\ IF inv'.inverted THEN Free' ELSE Matched'
             /\ WrittenLines' \cup Pending' = LinesReached'
  <2>1. i < buf_len
    BY <1>1, <1>7
  <2> QED
    BY <1>1, <1>2, <1>3, <1>4, <1>5, <2>1, Zenon DEF Turns
<1>8. inv'.i >= buf_len' => WrittenLines' = (LineStarts \ Touched(Expected))'
  BY <1>1, Zenon DEF Turns
<1> QED
  BY <1>6, <1>7, <1>8, Zenon DEF Turned

(* What is written, and what it is written over.                           *)
LEMMA PutLines ==
    ASSUME IInv, [Next]_vars, NEW L \in Nat, L = matches_len, NEW c \in Nat, c = inv.count, c <= L,
           inv'.count = c + 1, NEW s \in Nat, NEW e \in Nat, PutInverted(s, e)
    PROVE  /\ WrittenLines' = WrittenLines \cup LinesOf(s, e)
           /\ \A k \in DOMAIN matches : k >= c + 2 => k \in DOMAIN matches' /\ matches'[k] = matches[k]
<1> DEFINE m == [start |-> s, end |-> e]
<1>1. matches \in Seq(Match) /\ DOMAIN matches = 1 .. L
  BY DEF IInv, Recorded, matches_len
<1>2. m \in Match /\ m.start = s /\ m.end = e
  BY DEF Match
<1>3. matches' = IF c < L THEN [matches EXCEPT ![c + 1] = m] ELSE Append(matches, m)
  BY Zenon DEF PutInverted
<1> HIDE DEF m
<1>4. /\ \A k \in 1 .. L : k # c + 1 => matches'[k] = matches[k]
      /\ matches'[c + 1] = m /\ 1 .. L \subseteq DOMAIN matches'
  <2>1. CASE c < L
    BY <1>1, <1>2, <1>3, <2>1
  <2>2. CASE ~(c < L)
    <3>1. matches' = Append(matches, m) /\ L = c /\ Len(matches) = c
      BY <1>3, <2>2 DEF matches_len
    <3> QED
      BY <1>1, <1>2, <3>1
  <2> QED
    BY <2>1, <2>2
<1>5. \A x, y : LinesOf(x, y)' = LinesOf(x, y)
  BY SameLines
<1>6. WrittenLines' = UNION {LinesOf(matches'[k].start, matches'[k].end) : k \in 1 .. c + 1}
  <2>1. WrittenLines' = UNION {LinesOf(matches[k].start, matches[k].end)' : k \in 1 .. inv'.count}
    BY Zenon DEF WrittenLines
  <2>2. \A k : LinesOf(matches[k].start, matches[k].end)' = LinesOf(matches'[k].start, matches'[k].end)
    <3>1. ASSUME NEW k
          PROVE  LinesOf(matches[k].start, matches[k].end)' = LinesOf(matches'[k].start, matches'[k].end)
      <4>1. LineStarts' = LineStarts /\ \A l : EndOfLine(l)' = EndOfLine(l)
        BY SameLines, SameReference
      <4> QED
        BY <4>1 DEF LinesOf
    <3> QED
      BY <3>1
  <2> QED
    BY <2>1, <2>2
<1>7. WrittenLines = UNION {LinesOf(matches[k].start, matches[k].end) : k \in 1 .. c}
  BY DEF WrittenLines
<1>8. ASSUME NEW k \in 1 .. c PROVE matches'[k] = matches[k]
  BY <1>4
<1>9. WrittenLines' = WrittenLines \cup LinesOf(s, e)
  <2>1. ASSUME NEW x PROVE x \in WrittenLines' <=> x \in WrittenLines \/ x \in LinesOf(s, e)
    <3>1. x \in WrittenLines' <=> \E k \in 1 .. c + 1 : x \in LinesOf(matches'[k].start, matches'[k].end)
      BY <1>6
    <3>2. x \in WrittenLines <=> \E k \in 1 .. c : x \in LinesOf(matches[k].start, matches[k].end)
      BY <1>7
    <3>3. 1 .. c + 1 = 1 .. c \cup {c + 1}
      OBVIOUS
    <3>4. LinesOf(matches'[c + 1].start, matches'[c + 1].end) = LinesOf(s, e)
      BY <1>2, <1>4
    <3> QED
      BY <1>8, <3>1, <3>2, <3>3, <3>4
  <2> QED
    BY <2>1
<1>10. ASSUME NEW k \in DOMAIN matches, k >= c + 2
       PROVE  k \in DOMAIN matches' /\ matches'[k] = matches[k]
  BY <1>1, <1>4, <1>10
<1> QED
  BY <1>9, <1>10

(* The loop of invert_matches() has read no more matches than there are,   *)
(* and is before the next one unless that is the last.                     *)
LEMMA InvertFacts ==
    ASSUME NoInvertedEmpty, FirstOnly, IInv, pc = "invert", opts.max_matches = 0
    PROVE  /\ opts.mode # "lines" /\ NeverEmpty
           /\ inv \in [i : Nat, read : Nat, next : Match, count : Nat,
                       start : Nat, last_line_end : Nat, inverted : BOOLEAN]
           /\ inv.i < buf_len =>
                  /\ inv.count <= inv.read /\ inv.count <= matches_len
                  /\ inv.read >= matches_len => inv.i > inv.next.start
<1>1. PICK in \in Inputs : buf = in.buf /\ opts = in.opts
  BY DEF IInv, Given
<1>2. opts.mode # "lines"
  <2>1. in.opts.mode = "lines" => in.opts.max_matches = 1
    BY FirstOnly DEF FirstOnly
  <2> QED
    BY <1>1, <2>1
<1>3. NeverEmpty
  <2>1. opts.invert_match
    BY DEF IInv, Phase
  <2>2. in.opts.invert_match /\ in.opts.mode \in {"multiline", "lines"} =>
            <<>> \notin in.opts.re.strings
    BY NoInvertedEmpty DEF NoInvertedEmpty
  <2> QED
    BY <1>1, <2>1, <2>2, Zenon DEF NeverEmpty
<1>4. inv \in [i : Nat, read : Nat, next : Match, count : Nat,
               start : Nat, last_line_end : Nat, inverted : BOOLEAN]
  BY DEF IInv, Inversion
<1>5. Reading
  BY DEF IInv, Inversion
<1>6. ASSUME inv.i < buf_len
      PROVE  /\ inv.count <= inv.read /\ inv.count <= matches_len
             /\ inv.read >= matches_len => inv.i > inv.next.start
  BY <1>3, <1>5, <1>6 DEF Reading
<1> QED
  BY <1>2, <1>3, <1>4, <1>6

(* At the beginning nothing is written, and every match is to be read.     *)
LEMMA InvertBegins ==
    ASSUME FirstOnly, NoInvertedEmpty, IInv, IInv', Finding, Sorted, Found
    PROVE  Turned'
<1>1. [Next]_vars /\ pc = "found"
  BY DEF Next, Step, Found
<1>2. opts' = opts /\ buf_len' = buf_len /\ opts.max_matches \in Nat
  BY <1>1, Same, GivenFacts DEF IInv
<1>3. SUFFICES ASSUME pc' = "invert", opts.max_matches = 0, buf_len > 0 PROVE Turned'
  BY <1>2 DEF Turned
<1>4. opts.invert_match /\ matches # <<>> /\ matches' = matches
      /\ inv' = [inv EXCEPT !.next = matches[1]]
  BY <1>3 DEF Found
<1>5. PICK X : X = matches /\ X = Expected
  BY <1>1, <1>3 DEF Finding, MatchesRight
<1>6. X \in Seq(Match) /\ X # <<>> /\ inv = NotBegun
  BY <1>1, <1>4, <1>5 DEF IInv, Recorded, Inversion
<1>7. PICK L \in Nat : L = Len(X) /\ L > 0 /\ DOMAIN X = 1 .. L
  BY <1>6
<1>8. opts.mode # "lines" /\ NeverEmpty
  <2>1. opts'.mode # "lines" /\ NeverEmpty'
    BY <1>2, <1>3, Same DEF IInv, Given, FirstOnly, NoInvertedEmpty, NeverEmpty, Phase
  <2> QED
    BY <1>1, <1>2, <2>1, Same
<1>9. Apart(X)
  <2>1. ASSUME NEW k \in DOMAIN X PROVE X[k].start < X[k].end /\ X[k].end <= buf_len
    <3>1. GoodMatch(X[k])
      BY <1>1, <1>5 DEF IInv, Recorded
    <3> QED
      BY <1>3, <1>8, <3>1 DEF GoodMatch
  <2>2. \A j \in DOMAIN X, k \in DOMAIN X : j < k => X[j].end <= X[k].start
    BY <1>1, <1>5, <1>8 DEF Sorted
  <2> QED
    BY <1>6, <2>1, <2>2 DEF Apart
<1>10. inv' = [i |-> 0, read |-> 0, next |-> X[1], count |-> 0, start |-> 0,
               last_line_end |-> 0, inverted |-> TRUE]
  BY <1>4, <1>5, <1>6 DEF NotBegun
<1>11. /\ inv'.i = 0 /\ inv'.read = 0 /\ inv'.next = X[1] /\ inv'.count = 0
       /\ inv'.start = 0 /\ inv'.last_line_end = 0 /\ inv'.inverted = TRUE
  BY <1>10
<1>12. Before(X, 0) = {}
  <2>1. ASSUME NEW l \in Untouched(X) PROVE ~(EndOfLine(l) < 0)
    <3>1. l \in LineStarts
      BY DEF Untouched
    <3>2. l \in 0 .. buf_len - 1 /\ EndOfLine(l) \in l .. buf_len
      BY <3>1, LineIs DEF IInv
    <3>3. PICK N \in Nat : N = buf_len
      BY GivenFacts DEF IInv
    <3> QED
      BY <3>2, <3>3
  <2> QED
    BY <2>1 DEF Before
<1>13. WrittenLines' = {} /\ Between(0, 0) = {}
  <2>1. WrittenLines' = {}
    BY <1>11 DEF WrittenLines
  <2>2. Between(0, 0) = {}
    <3>1. \A l \in LineStarts : ~(0 <= l /\ l < 0)
      <4>1. PICK N \in Nat : N = buf_len
        BY GivenFacts DEF IInv
      <4> QED
        BY <4>1 DEF LineStarts
    <3> QED
      BY <3>1 DEF Between
  <2> QED
    BY <2>1, <2>2
<1>14. Turns(X, 0, 0, 0, 0, TRUE)
  <2>1. matches_len' = Len(X)
    BY <1>4, <1>5 DEF matches_len
  <2>2. \A k \in DOMAIN X : /\ k > 0 /\ k \in DOMAIN matches' /\ matches'[k] = X[k]
                            /\ 0 <= X[k].start /\ inv'.next = X[0 + 1]
    <3>1. \A k \in DOMAIN X : X[k] \in Match
      BY <1>6
    <3> QED
      BY <1>4, <1>5, <1>7, <1>11, <3>1 DEF Match
  <2>3. BeginsLine(0) /\ 0 .. 0 - 1 = {}
    BY DEF BeginsLine
  <2>4. WrittenLines' \cup (IF TRUE THEN Between(0, 0) ELSE {}) = Before(X, 0)
    BY <1>12, <1>13
  <2>5. PICK N \in Nat : N = buf_len
    BY GivenFacts DEF IInv
  <2>6. \A k \in DOMAIN X : ~(k <= 0)
    BY <1>7
  <2>7. 0 < buf_len /\ ~(0 >= buf_len) /\ 0 <= Len(X)
    BY <1>3, <1>7, <2>5
  <2> QED
    BY <2>1, <2>2, <2>3, <2>4, <2>6, <2>7 DEF Turns
<1> QED
  BY <1>1, <1>5, <1>9, <1>11, <1>14, TurnedNext

(* Nothing is written behind the matches when one is reached.              *)
LEMMA MatchKeeps ==
    ASSUME IInv, InvertMatch, opts.mode # "lines", NeverEmpty
    PROVE  matches_len' = matches_len
<1>1. pc = "invert" /\ inv.i < buf_len /\ inv.i = inv.next.start
  BY DEF InvertMatch, Inverting
<1>2. inv \in [i : Nat, read : Nat, next : Match, count : Nat,
               start : Nat, last_line_end : Nat, inverted : BOOLEAN]
  BY DEF IInv, Inversion
<1>3. PICK i \in Nat, r \in Nat, c \in Nat, L \in Nat :
          i = inv.i /\ i = inv.next.start /\ r = inv.read /\ c = inv.count /\ L = matches_len
  BY <1>1, <1>2 DEF IInv, Recorded, matches_len
<1>4. c < L
  <2>1. inv.count <= inv.read /\ (inv.read >= matches_len => inv.i > inv.next.start)
    BY <1>1 DEF IInv, Inversion, Reading
  <2>2. c <= r /\ (r >= L => i > i)
    BY <1>3, <2>1, Zenon
  <2> QED
    BY <2>2
<1>5. matches \in Seq(Match)
  BY DEF IInv, Recorded
<1>6. matches' = matches \/ \E m : matches' = [matches EXCEPT ![c + 1] = m]
  <2>1. inv.count < matches_len
    BY <1>3, <1>4
  <2> QED
    BY <1>3, <2>1 DEF InvertMatch, PutInverted
<1>7. Len(matches') = Len(matches)
  BY <1>5, <1>6
<1> QED
  BY <1>7 DEF matches_len

(* A match is reached: what was pending is written.                        *)
LEMMA MatchTurned ==
    ASSUME FirstOnly, NoInvertedEmpty, IInv, IInv', Turned, InvertMatch
    PROVE  Turned'
<1>1. [Next]_vars /\ pc = "invert" /\ inv.i < buf_len /\ inv.i = inv.next.start
  BY DEF Next, Step, InvertMatch, Inverting
<1>2. opts' = opts /\ buf_len' = buf_len /\ opts.max_matches \in Nat
  BY <1>1, Same, GivenFacts DEF IInv
<1>3. SUFFICES ASSUME opts.max_matches = 0, buf_len > 0 PROVE Turned'
  BY <1>2 DEF Turned
<1>4. PICK N \in Nat : N = buf_len
  BY GivenFacts DEF IInv
<1>5. PICK X : X = Expected
  OBVIOUS
<1>6. /\ Apart(X) /\ inv.read <= Len(X)
      /\ \A k \in DOMAIN X :
             /\ k <= inv.read => X[k].end <= inv.i
             /\ k > inv.read => /\ k \in DOMAIN matches /\ matches[k] = X[k]
                                /\ inv.i <= X[k].start /\ inv.next = X[inv.read + 1]
      /\ matches_len = Len(X)
      /\ IF inv.inverted THEN Free ELSE Matched
      /\ WrittenLines \cup Pending = LinesReached
  BY <1>1, <1>3, <1>5 DEF Turned
<1>7. PICK L \in Nat : L = Len(X) /\ L = matches_len /\ DOMAIN X = 1 .. L
  BY <1>6 DEF Apart
<1>8. /\ inv \in [i : Nat, read : Nat, next : Match, count : Nat,
                  start : Nat, last_line_end : Nat, inverted : BOOLEAN]
      /\ inv.count <= inv.read /\ inv.count <= matches_len
      /\ inv.read >= matches_len => inv.i > inv.next.start
  BY <1>1, <1>3, InvertFacts
<1>9. PICK i \in Nat, r \in Nat, c \in Nat, st \in Nat, le \in Nat, b \in BOOLEAN :
          i = inv.i /\ r = inv.read /\ c = inv.count /\ st = inv.start /\ le = inv.last_line_end
          /\ b = inv.inverted
  BY <1>8
<1>10. r < L /\ c <= r /\ i < N
  <2>1. ~(inv.i > inv.next.start)
    <3>1. inv.i = i /\ inv.next.start = i
      BY <1>1, <1>9
    <3> QED
      BY <3>1
  <2>2. ~(inv.read >= matches_len)
    BY <1>8, <2>1
  <2> QED
    BY <1>1, <1>4, <1>7, <1>8, <1>9, <2>2
<1>11. r + 1 \in DOMAIN X /\ inv.next = X[r + 1] /\ X[r + 1] \in Match
  <2>1. r + 1 \in DOMAIN X /\ r + 1 > r
    BY <1>7, <1>10
  <2>2. inv.next = X[r + 1]
    BY <1>6, <1>9, <2>1
  <2> QED
    BY <1>6, <2>1, <2>2 DEF Apart
<1>12. PICK e \in Nat : e = X[r + 1].end /\ X[r + 1].start = i /\ i < e /\ e <= N
  BY <1>1, <1>4, <1>6, <1>9, <1>11 DEF Match, Apart
<1>13. PICK whole \in BOOLEAN : whole = (b /\ le > st)
  OBVIOUS
<1>14. inv' = [inv EXCEPT !.i = e, !.read = r + 1, !.next = NextMatch, !.inverted = FALSE,
                          !.count = IF whole THEN c + 1 ELSE c]
  <2>1. inv' = [inv EXCEPT !.i = inv.next.end, !.read = @ + 1,
                           !.next = NextMatch, !.inverted = FALSE,
                           !.count = IF inv.inverted /\ inv.last_line_end > inv.start
                                     THEN @ + 1 ELSE @]
    BY Zenon DEF InvertMatch
  <2> QED
    BY <1>9, <1>11, <1>12, <1>13, <2>1
<1>15. PICK next : next = NextMatch /\ next = inv'.next
  BY <1>8, <1>14
<1>16. /\ inv'.i = e /\ inv'.read = r + 1 /\ inv'.inverted = FALSE
       /\ inv'.count = (IF whole THEN c + 1 ELSE c)
       /\ inv'.start = st /\ inv'.last_line_end = le
  BY <1>8, <1>9, <1>14
<1>17. /\ WrittenLines' = WrittenLines \cup Pending
       /\ \A k \in DOMAIN matches : k >= r + 2 => k \in DOMAIN matches' /\ matches'[k] = matches[k]
  <2>0. Pending = IF b THEN Between(st, le) ELSE {}
    BY <1>9 DEF Pending, Between
  <2>1. CASE whole
    <3>1. b /\ le > st /\ Free
      BY <1>6, <1>9, <1>13, <2>1
    <3>2. PICK e1 \in Nat : e1 = le - 1 /\ e1 + 1 = le
      BY <3>1
    <3>3. PutInverted(st, e1)
      BY <1>9, <3>1, <3>2 DEF InvertMatch
    <3>4. c <= L /\ inv'.count = c + 1
      BY <1>10, <1>16, <2>1
    <3>5. /\ WrittenLines' = WrittenLines \cup LinesOf(st, e1)
          /\ \A k \in DOMAIN matches : k >= c + 2 => k \in DOMAIN matches' /\ matches'[k] = matches[k]
      BY <1>1, <1>7, <1>9, <3>3, <3>4, PutLines
    <3>6. LinesOf(st, e1) = Between(st, le)
      <4>1. BeginsLine(st) /\ st <= le /\ le <= i
        BY <1>9, <3>1 DEF Free
      <4>2. st \in 0 .. N
        BY <1>10, <4>1
      <4> QED
        BY <1>4, <3>2, <4>1, <4>2, LinesInverted DEF IInv
    <3>7. \A k \in DOMAIN matches : k \in Nat
      BY DEF IInv, Recorded
    <3>8. ASSUME NEW k \in DOMAIN matches, k >= r + 2
          PROVE  k \in DOMAIN matches' /\ matches'[k] = matches[k]
      <4>1. k >= c + 2
        BY <1>10, <3>7, <3>8
      <4> QED
        BY <3>5, <4>1
    <3> QED
      BY <2>0, <3>1, <3>5, <3>6, <3>8
  <2>2. CASE ~whole
    <3>1. matches' = matches
      BY <1>9, <1>13, <2>2 DEF InvertMatch
    <3>2. Pending = {}
      <4>1. CASE ~b
        BY <2>0, <4>1
      <4>2. CASE b
        <5>0. ~(le > st)
          BY <1>13, <2>2, <4>2, Zenon
        <5>1. le <= st
          BY <5>0
        <5>2. \A l \in LineStarts : ~(st <= l /\ l < le)
          BY <1>4, <5>1 DEF LineStarts
        <5> QED
          BY <2>0, <5>2 DEF Between
      <4> QED
        BY <4>1, <4>2
    <3>3. WrittenLines' = WrittenLines
      <4>1. inv'.count = inv.count
        BY <1>9, <1>16, <2>2
      <4>2. \A k : LinesOf(matches[k].start, matches[k].end)' = LinesOf(matches[k].start, matches[k].end)
        <5>1. LineStarts' = LineStarts /\ \A l : EndOfLine(l)' = EndOfLine(l)
          BY <1>1, SameLines, SameReference
        <5> QED
          BY <3>1, <5>1 DEF LinesOf
      <4> QED
        BY <4>1, <4>2 DEF WrittenLines
    <3> QED
      BY <3>1, <3>2, <3>3
  <2> QED
    BY <2>1, <2>2
<1>18. WrittenLines' = Before(X, i)
  BY <1>5, <1>6, <1>9, <1>17 DEF LinesReached, Before, Untouched
<1>19. Before(X, e) = Before(X, i) /\ (e >= N => Untouched(X) = Before(X, i))
  BY <1>4, <1>6, <1>11, <1>12, OverMatch DEF IInv
<1>20. ASSUME NEW k \in DOMAIN X, k > r + 1
       PROVE  k \in DOMAIN matches' /\ matches'[k] = X[k] /\ e <= X[k].start
              /\ inv'.next = X[(r + 1) + 1]
  <2>1. k \in 1 .. L /\ k >= r + 2 /\ k > r
    BY <1>7, <1>20
  <2>2. k \in DOMAIN matches /\ matches[k] = X[k]
    BY <1>6, <1>9, <2>1
  <2>3. k \in DOMAIN matches' /\ matches'[k] = X[k]
    BY <1>17, <2>1, <2>2
  <2>4. e <= X[k].start
    BY <1>6, <1>11, <1>12, <1>20 DEF Apart
  <2>5. r + 1 < L /\ r + 2 \in DOMAIN X /\ r + 2 > r /\ (r + 1) + 1 = r + 2
    BY <1>7, <2>1
  <2>6. matches[r + 2] = X[r + 2]
    BY <1>6, <1>9, <2>5
  <2>7. next = X[r + 2]
    BY <1>7, <1>9, <1>15, <2>5, <2>6 DEF NextMatch
  <2> QED
    BY <1>15, <2>3, <2>4, <2>5, <2>7
<1>21. matches_len' = L
  BY <1>1, <1>3, <1>7, InvertFacts, MatchKeeps
<1>22. Turns(X, e, r + 1, st, le, FALSE)
  <2>1. r + 1 <= Len(X)
    BY <1>7, <1>10
  <2>2. ASSUME NEW k \in DOMAIN X, k <= r + 1 PROVE X[k].end <= e
    <3>1. CASE k = r + 1
      BY <1>12, <3>1
    <3>2. CASE k # r + 1
      <4>1. k <= r /\ X[k] \in Match
        BY <1>6, <1>7, <2>2, <3>2 DEF Apart
      <4>2. X[k].end <= i
        BY <1>6, <1>9, <4>1
      <4> QED
        BY <1>12, <4>1, <4>2 DEF Match
    <3> QED
      BY <3>1, <3>2
  <2>3. r + 1 \in DOMAIN X /\ \A j \in X[r + 1].end .. e - 1 : buf[j] # NewLine
    BY <1>11, <1>12
  <2>4. WrittenLines' \cup {} = Before(X, e)
    BY <1>18, <1>19
  <2>5. e >= buf_len => WrittenLines' = Untouched(X)
    BY <1>4, <1>18, <1>19
  <2>6. matches_len' = Len(X)
    BY <1>7, <1>21
  <2> QED
    BY <1>20, <2>1, <2>2, <2>3, <2>4, <2>5, <2>6, Zenon DEF Turns
<1> QED
  BY <1>1, <1>5, <1>6, <1>16, <1>22, TurnedNext

(* The last byte of a line without a match: that line is written too.      *)
LEMMA LastTurned ==
    ASSUME FirstOnly, NoInvertedEmpty, IInv, IInv', Turned, InvertLast
    PROVE  Turned'
<1>1. [Next]_vars /\ pc = "invert" /\ inv.i < buf_len /\ inv.i # inv.next.start
      /\ inv.i = buf_len - 1 /\ inv.inverted
  BY DEF Next, Step, InvertLast, Inverting
<1>2. opts' = opts /\ buf_len' = buf_len /\ opts.max_matches \in Nat
  BY <1>1, Same, GivenFacts DEF IInv
<1>3. SUFFICES ASSUME opts.max_matches = 0, buf_len > 0 PROVE Turned'
  BY <1>2 DEF Turned
<1>4. PICK N \in Nat : N = buf_len
  BY GivenFacts DEF IInv
<1>5. PICK X : X = Expected
  OBVIOUS
<1>6. /\ Apart(X) /\ inv.read <= Len(X)
      /\ \A k \in DOMAIN X :
             /\ k <= inv.read => X[k].end <= inv.i
             /\ k > inv.read => /\ k \in DOMAIN matches /\ matches[k] = X[k]
                                /\ inv.i <= X[k].start /\ inv.next = X[inv.read + 1]
      /\ matches_len = Len(X)
      /\ Free
      /\ WrittenLines \cup Pending = LinesReached
  BY <1>1, <1>3, <1>5 DEF Turned
<1>7. PICK L \in Nat : L = Len(X) /\ L = matches_len /\ DOMAIN X = 1 .. L
  BY <1>6 DEF Apart
<1>8. /\ inv \in [i : Nat, read : Nat, next : Match, count : Nat,
                  start : Nat, last_line_end : Nat, inverted : BOOLEAN]
      /\ inv.count <= inv.read /\ inv.count <= matches_len
  BY <1>1, <1>3, InvertFacts
<1>9. PICK i \in Nat, r \in Nat, c \in Nat, st \in Nat, le \in Nat :
          i = inv.i /\ r = inv.read /\ c = inv.count /\ st = inv.start /\ le = inv.last_line_end
  BY <1>8
<1>10. r <= L /\ c <= L /\ i \in 0 .. N - 1 /\ i = N - 1
  BY <1>1, <1>4, <1>6, <1>7, <1>8, <1>9
<1>11. /\ PutInverted(st, i)
       /\ inv' = [inv EXCEPT !.i = i + 1, !.count = c + 1]
  <2>1. PutInverted(inv.start, inv.i) /\ inv' = [inv EXCEPT !.i = @ + 1, !.count = @ + 1]
    BY DEF InvertLast
  <2> QED
    BY <1>8, <1>9, <2>1
<1>12. /\ inv'.i = i + 1 /\ inv'.read = r /\ inv'.inverted = TRUE /\ inv'.next = inv.next
       /\ inv'.count = c + 1 /\ inv'.start = st /\ inv'.last_line_end = le
  BY <1>1, <1>8, <1>9, <1>11
<1>13. /\ st \in 0 .. le /\ le \in 0 .. i /\ BeginsLine(st) /\ BeginsLine(le)
       /\ \A j \in le .. i - 1 : buf[j] # NewLine
       /\ \A k \in DOMAIN X : k <= r => X[k].end < le
  BY <1>5, <1>6, <1>9 DEF Free
<1>14. ASSUME NEW k \in DOMAIN X, k > r PROVE FALSE
  <2>1. r + 1 \in DOMAIN X /\ r + 1 > r
    BY <1>7, <1>14
  <2>2. inv.next = X[r + 1] /\ i <= X[r + 1].start
    BY <1>6, <1>9, <2>1
  <2>3. X[r + 1] \in Match /\ X[r + 1].start < X[r + 1].end /\ X[r + 1].end <= N
    BY <1>4, <1>6, <2>1 DEF Apart
  <2>4. X[r + 1].start # i
    BY <1>1, <1>9, <2>2
  <2> QED
    BY <1>10, <2>2, <2>3, <2>4 DEF Match
<1>15. /\ Between(st, i + 1) = Between(st, le) \cup {le}
       /\ Untouched(X) = Before(X, i) \cup {le}
  <2>1. Given /\ Apart(X) /\ i \in 0 .. N - 1
    BY <1>6, <1>10 DEF IInv
  <2>2. \A k \in DOMAIN X : k > r => i < X[k].start
    BY <1>14
  <2>3. InFreeLine(N, X, r, i, le, st)
    BY <1>4, <1>10, <1>13, <2>1, <2>2 DEF InFreeLine
  <2> QED
    BY <1>10, <2>1, <2>3, FreeLine
<1>16. /\ WrittenLines' = WrittenLines \cup LinesOf(st, i)
       /\ \A k \in DOMAIN matches : k >= c + 2 => k \in DOMAIN matches' /\ matches'[k] = matches[k]
  BY <1>1, <1>7, <1>9, <1>10, <1>11, <1>12, PutLines
<1>17. LinesOf(st, i) = Between(st, i + 1)
  <2>1. st \in 0 .. N /\ i \in Int
    BY <1>10, <1>13
  <2> QED
    BY <1>4, <1>13, <2>1, LinesInverted DEF IInv
<1>18. WrittenLines \cup Between(st, le) = Before(X, i)
  <2>1. Pending = Between(st, le)
    BY <1>1, <1>9 DEF Pending, Between
  <2> QED
    BY <1>5, <1>6, <1>9, <2>1 DEF LinesReached, Before, Untouched
<1>19. WrittenLines' = Untouched(X)
  BY <1>15, <1>16, <1>17, <1>18
<1>20. Turns(X, i + 1, r, st, le, TRUE)
  <2>1. ASSUME NEW k \in DOMAIN X PROVE X[k].end <= i + 1
    <3>1. X[k] \in Match /\ X[k].end <= N
      BY <1>4, <1>6 DEF Apart
    <3> QED
      BY <1>10, <3>1 DEF Match
  <2>2. ~(i + 1 < buf_len) /\ r <= Len(X)
    BY <1>4, <1>7, <1>10
  <2> QED
    BY <1>14, <1>19, <2>1, <2>2 DEF Turns
<1> QED
  BY <1>1, <1>5, <1>6, <1>12, <1>20, TurnedNext

(* Another byte: within a line, at the end of one or of the buffer.        *)
LEMMA ByteTurned ==
    ASSUME FirstOnly, NoInvertedEmpty, IInv, IInv', Turned, InvertByte
    PROVE  Turned'
<1>1. [Next]_vars /\ pc = "invert" /\ inv.i < buf_len /\ inv.i # inv.next.start
      /\ ~(inv.i = buf_len - 1 /\ inv.inverted) /\ matches' = matches
  BY DEF Next, Step, InvertByte, Inverting
<1>2. opts' = opts /\ buf_len' = buf_len /\ opts.max_matches \in Nat
  BY <1>1, Same, GivenFacts DEF IInv
<1>3. SUFFICES ASSUME opts.max_matches = 0, buf_len > 0 PROVE Turned'
  BY <1>2 DEF Turned
<1>4. PICK N \in Nat : N = buf_len
  BY GivenFacts DEF IInv
<1>5. PICK X : X = Expected
  OBVIOUS
<1>6. /\ Apart(X) /\ inv.read <= Len(X)
      /\ \A k \in DOMAIN X :
             /\ k <= inv.read => X[k].end <= inv.i
             /\ k > inv.read => /\ k \in DOMAIN matches /\ matches[k] = X[k]
                                /\ inv.i <= X[k].start /\ inv.next = X[inv.read + 1]
      /\ matches_len = Len(X)
      /\ IF inv.inverted THEN Free ELSE Matched
      /\ WrittenLines \cup Pending = LinesReached
  BY <1>1, <1>3, <1>5 DEF Turned
<1>7. PICK L \in Nat : L = Len(X) /\ L = matches_len /\ DOMAIN X = 1 .. L
  BY <1>6 DEF Apart
<1>8. /\ inv \in [i : Nat, read : Nat, next : Match, count : Nat,
                  start : Nat, last_line_end : Nat, inverted : BOOLEAN]
  BY <1>1, <1>3, InvertFacts
<1>9. PICK i \in Nat, r \in Nat, st \in Nat, le \in Nat, b \in BOOLEAN :
          i = inv.i /\ r = inv.read /\ st = inv.start /\ le = inv.last_line_end /\ b = inv.inverted
  BY <1>8
<1>10. r <= L /\ i \in 0 .. N - 1 /\ ~(i = N - 1 /\ b)
  <2>1. r <= L /\ i \in 0 .. N - 1
    BY <1>1, <1>4, <1>6, <1>7, <1>9
  <2>2. ~(i = N - 1 /\ b)
    BY <1>1, <1>4, <1>9, Zenon
  <2> QED
    BY <2>1, <2>2
<1>11. ASSUME NEW k \in DOMAIN X, k > r PROVE i < X[k].start
  <2>1. r + 1 \in DOMAIN X /\ r + 1 > r /\ k \in Int
    BY <1>7, <1>11
  <2>2. inv.next = X[r + 1] /\ i <= X[r + 1].start /\ X[r + 1].start # i
    BY <1>1, <1>6, <1>9, <2>1
  <2>3. X[r + 1] \in Match /\ X[k] \in Match
    BY <1>6, <2>1 DEF Apart
  <2>4. k = r + 1 \/ X[r + 1].end <= X[k].start
    BY <1>6, <1>11, <2>1 DEF Apart
  <2>5. X[r + 1].start < X[r + 1].end
    BY <1>6, <2>1 DEF Apart
  <2> QED
    BY <2>2, <2>3, <2>4, <2>5 DEF Match
<1>12. ASSUME NEW k \in DOMAIN X, k > r
       PROVE  k \in DOMAIN matches' /\ matches'[k] = X[k] /\ i + 1 <= X[k].start
              /\ inv.next = X[r + 1]
  <2>1. k \in DOMAIN matches /\ matches[k] = X[k] /\ inv.next = X[r + 1]
    BY <1>6, <1>9, <1>12
  <2>2. X[k] \in Match
    BY <1>6 DEF Apart
  <2>3. i < X[k].start
    BY <1>11, <1>12
  <2> QED
    BY <1>1, <2>1, <2>2, <2>3 DEF Match
<1>13. ASSUME NEW k \in DOMAIN X, k <= r
       PROVE  X[k].end \in Nat /\ X[k].end <= i
  <2>1. X[k] \in Match
    BY <1>6 DEF Apart
  <2>2. X[k].end <= i
    BY <1>6, <1>9, <1>13
  <2> QED
    BY <2>1, <2>2 DEF Match
<1>14. matches_len' = Len(X)
  BY <1>1, <1>6 DEF matches_len
<1>15. PICK W : W = WrittenLines
  OBVIOUS
<1>16. W \cup (IF b THEN Between(st, le) ELSE {}) = Before(X, i)
  <2>1. Pending = IF b THEN Between(st, le) ELSE {}
    BY <1>9 DEF Pending, Between
  <2> QED
    BY <1>5, <1>6, <1>9, <1>15, <2>1 DEF LinesReached, Before, Untouched
<1>17. ASSUME inv'.count = inv.count PROVE WrittenLines' = W
  <2>1. \A k : LinesOf(matches[k].start, matches[k].end)' = LinesOf(matches[k].start, matches[k].end)
    <3>1. LineStarts' = LineStarts /\ \A l : EndOfLine(l)' = EndOfLine(l)
      BY <1>1, SameLines, SameReference
    <3> QED
      BY <1>1, <3>1 DEF LinesOf
  <2> QED
    BY <1>15, <1>17, <2>1 DEF WrittenLines
<1>18. /\ b => /\ st \in 0 .. le /\ le \in 0 .. i /\ BeginsLine(st) /\ BeginsLine(le)
               /\ \A j \in le .. i - 1 : buf[j] # NewLine
               /\ \A k \in DOMAIN X : k <= r => X[k].end < le
       /\ ~b => r \in DOMAIN X /\ \A j \in X[r].end .. i - 1 : buf[j] # NewLine
  BY <1>5, <1>6, <1>9 DEF Free, Matched
<1>19. ~b => /\ Before(X, i + 1) = Before(X, i)
             /\ i = N - 1 => Untouched(X) = Before(X, i)
  <2>1. SUFFICES ASSUME ~b PROVE /\ Before(X, i + 1) = Before(X, i)
                                 /\ i = N - 1 => Untouched(X) = Before(X, i)
    OBVIOUS
  <2>2. r \in DOMAIN X /\ r <= r
    BY <1>18, <2>1
  <2>3. X[r].end <= i
    BY <1>13, <2>2
  <2> QED
    BY <1>4, <1>6, <1>10, <1>18, <2>1, <2>2, <2>3, MatchedLine DEF IInv
<1>20. CASE buf[i] = NewLine
  <2>1. PICK st1 \in Nat : st1 = IF b THEN st ELSE i + 1
    OBVIOUS
  <2>2. inv' = [inv EXCEPT !.i = i + 1, !.last_line_end = i + 1, !.start = st1, !.inverted = TRUE]
    <3>1. inv' = [inv EXCEPT !.i = @ + 1, !.last_line_end = inv.i + 1,
                             !.start = IF inv.inverted THEN @ ELSE inv.i + 1,
                             !.inverted = TRUE]
      BY <1>9, <1>20, Zenon DEF InvertByte
    <3> QED
      BY <1>8, <1>9, <2>1, <3>1
  <2>3. /\ inv'.i = i + 1 /\ inv'.read = r /\ inv'.inverted = TRUE /\ inv'.next = inv.next
        /\ inv'.count = inv.count /\ inv'.start = st1 /\ inv'.last_line_end = i + 1
    BY <1>8, <1>9, <2>2
  <2>4. BeginsLine(i + 1) /\ BeginsLine(st1) /\ st1 <= i + 1
    <3>1. BeginsLine(i + 1) /\ (i + 1) - 1 = i
      BY <1>20 DEF BeginsLine
    <3>2. CASE b
      BY <1>18, <2>1, <3>1, <3>2
    <3>3. CASE ~b
      BY <2>1, <3>1, <3>3
    <3> QED
      BY <3>1, <3>2, <3>3
  <2>5. W \cup Between(st1, i + 1) = Before(X, i + 1)
    <3>1. CASE b
      <4>1. Between(st, i + 1) = Between(st, le) \cup {le}
            /\ Before(X, i + 1) = Before(X, i) \cup {le}
        <5>1. Given /\ Apart(X) /\ i \in 0 .. N - 1
          BY <1>6, <1>10 DEF IInv
        <5>2. \A k \in DOMAIN X : k > r => i < X[k].start
          BY <1>11
        <5>3. InFreeLine(N, X, r, i, le, st)
          BY <1>4, <1>18, <1>20, <3>1, <5>1, <5>2 DEF InFreeLine
        <5> QED
          BY <1>20, <5>1, <5>3, FreeLine
      <4> QED
        BY <1>16, <2>1, <3>1, <4>1
    <3>2. CASE ~b
      <4>1. \A l \in LineStarts : ~(i + 1 <= l /\ l < i + 1)
        BY <1>4 DEF LineStarts
      <4>2. Between(st1, i + 1) = {}
        BY <2>1, <3>2, <4>1 DEF Between
      <4> QED
        BY <1>16, <1>19, <3>2, <4>2
    <3> QED
      BY <3>1, <3>2
  <2>6. i + 1 >= buf_len => W = Untouched(X)
    <3>1. SUFFICES ASSUME i + 1 >= buf_len PROVE W = Untouched(X)
      OBVIOUS
    <3>2. i = N - 1 /\ ~b
      BY <1>4, <1>10, <3>1
    <3> QED
      BY <1>16, <1>19, <3>2
  <2>7. Turns(X, i + 1, r, st1, i + 1, TRUE)
    <3>1. r <= Len(X) /\ \A j \in i + 1 .. (i + 1) - 1 : buf[j] # NewLine
      BY <1>7, <1>10
    <3>2. ASSUME NEW k \in DOMAIN X, k <= r PROVE X[k].end <= i + 1 /\ X[k].end < i + 1
      BY <1>13, <3>2
    <3>3. i + 1 <= i + 1
      OBVIOUS
    <3>4. WrittenLines' = W
      BY <1>17, <2>3
    <3> QED
      BY <1>12, <1>14, <2>3, <2>4, <2>5, <2>6, <3>1, <3>2, <3>3, <3>4, Zenon DEF Turns
  <2> QED
    BY <1>1, <1>5, <1>6, <2>3, <2>7, TurnedNext
<1>21. CASE buf[i] # NewLine
  <2>1. inv' = [inv EXCEPT !.i = i + 1]
    <3>1. inv' = [inv EXCEPT !.i = @ + 1]
      BY <1>9, <1>21, Zenon DEF InvertByte
    <3> QED
      BY <1>8, <1>9, <3>1
  <2>2. /\ inv'.i = i + 1 /\ inv'.read = r /\ inv'.inverted = b /\ inv'.next = inv.next
        /\ inv'.count = inv.count /\ inv'.start = st /\ inv'.last_line_end = le
    BY <1>8, <1>9, <2>1
  <2>3. Before(X, i + 1) = Before(X, i)
    BY <1>4, <1>10, <1>21, PlainByte DEF IInv
  <2>4. i + 1 >= buf_len => W = Untouched(X)
    <3>1. SUFFICES ASSUME i + 1 >= buf_len PROVE W = Untouched(X)
      OBVIOUS
    <3>2. i = N - 1 /\ ~b
      BY <1>4, <1>10, <3>1
    <3> QED
      BY <1>16, <1>19, <3>2
  <2>5. Turns(X, i + 1, r, st, le, b)
    <3>1. r <= Len(X) /\ WrittenLines' = W
      BY <1>7, <1>10, <1>17, <2>2
    <3>2. ASSUME NEW k \in DOMAIN X, k <= r PROVE X[k].end <= i + 1
      BY <1>13, <3>2
    <3>3. IF b
          THEN /\ st <= le /\ le <= i + 1 /\ BeginsLine(st) /\ BeginsLine(le)
               /\ \A j \in le .. (i + 1) - 1 : buf[j] # NewLine
               /\ \A k \in DOMAIN X : k <= r => X[k].end < le
          ELSE r \in DOMAIN X /\ \A j \in X[r].end .. (i + 1) - 1 : buf[j] # NewLine
      <4>1. CASE b
        <5>1. \A j \in le .. (i + 1) - 1 : j \in le .. i - 1 \/ j = i
          OBVIOUS
        <5>2. st <= le /\ le <= i + 1
          BY <1>18, <4>1
        <5> QED
          BY <1>18, <1>21, <4>1, <5>1, <5>2
      <4>2. CASE ~b
        <5>1. PICK f \in Nat : f = X[r].end /\ r \in DOMAIN X
          <6>1. r \in DOMAIN X /\ r <= r
            BY <1>18, <4>2
          <6> QED
            BY <1>13, <6>1
        <5>2. \A j \in f .. (i + 1) - 1 : j \in f .. i - 1 \/ j = i
          OBVIOUS
        <5> QED
          BY <1>18, <1>21, <4>2, <5>1, <5>2
      <4> QED
        BY <4>1, <4>2
    <3> QED
      BY <1>12, <1>14, <1>16, <2>2, <2>3, <2>4, <3>1, <3>2, <3>3, Zenon DEF Turns
  <2> QED
    BY <1>1, <1>5, <1>6, <2>2, <2>5, TurnedNext
<1> QED
  BY <1>20, <1>21

(* What is touched lies in lines.                                          *)
LEMMA TouchedLines == \A ms : Touched(ms) \subseteq LineStarts
  BY DEF Touched, LinesOf

(* In the end what is left is what was written.                            *)
LEMMA EndRight ==
    ASSUME FirstOnly, NoInvertedEmpty, IInv, Turned, InvertEnd
    PROVE  InvertRight'
<1>1. [Next]_vars /\ pc = "invert" /\ inv.i >= buf_len /\ opts' = opts
  BY Same DEF Next, Step, InvertEnd
<1>2. SUFFICES ASSUME opts.max_matches = 0
               PROVE  Touched(matches)' = (LineStarts \ Touched(Expected))'
  <2>1. opts'.max_matches = 0 => opts.max_matches = 0
    BY <1>1
  <2>2. Touched(matches)' = (LineStarts \ Touched(Expected))' => InvertRight'
    BY Zenon DEF InvertRight
  <2> QED
    BY <1>2, <2>1, <2>2 DEF InvertRight
<1>3. PICK N \in Nat : N = buf_len
  BY GivenFacts DEF IInv
<1>4. /\ LineStarts' = LineStarts /\ \A s : EndOfLine(s)' = EndOfLine(s)
      /\ (LineStarts \ Touched(Expected))' = LineStarts \ Touched(Expected)
  BY <1>1, SameReference, SameLines
<1>5. PICK c \in Nat, L \in Nat : c = inv.count /\ L = matches_len /\ c <= L
  <2>1. inv.count \in Nat /\ matches_len \in Nat /\ Reading
    BY <1>1 DEF IInv, Inversion, Recorded, matches_len
  <2> QED
    BY <2>1 DEF Reading
<1>6. matches \in Seq(Match) /\ Len(matches) = L /\ matches' = SubSeq(matches, 1, c)
  BY <1>5 DEF IInv, Recorded, matches_len, InvertEnd
<1>7. DOMAIN matches' = 1 .. c /\ \A k \in 1 .. c : matches'[k] = matches[k]
  BY <1>5, <1>6
<1>8. Touched(matches)' = WrittenLines
  <2>1. \A s, e : LinesOf(s, e)' = LinesOf(s, e)
    BY <1>1, SameLines
  <2>2. Touched(matches)' = UNION {LinesOf(matches'[k].start, matches'[k].end) : k \in DOMAIN matches'}
    BY <1>4 DEF Touched, LinesOf
  <2>3. WrittenLines = UNION {LinesOf(matches[k].start, matches[k].end) : k \in 1 .. c}
    BY <1>5 DEF WrittenLines
  <2> QED
    BY <1>7, <2>2, <2>3
<1>9. CASE N > 0
  BY <1>1, <1>2, <1>3, <1>4, <1>8, <1>9 DEF Turned
<1>10. CASE N = 0
  <2>1. LineStarts = {}
    BY <1>3, <1>10 DEF LineStarts
  <2>2. Touched(matches)' \subseteq LineStarts'
    BY DEF Touched, LinesOf
  <2> QED
    BY <1>4, <2>1, <2>2
<1> QED
  BY <1>3, <1>9, <1>10

(* Where nothing was found the whole of the buffer is left.                *)
LEMMA NothingFound ==
    ASSUME FirstOnly, NoInvertedEmpty, IInv, Finding, Found
    PROVE  InvertRight'
<1>1. [Next]_vars /\ pc = "found" /\ opts' = opts
  BY Same DEF Next, Step, Found
<1>2. SUFFICES ASSUME opts.max_matches = 0, opts.invert_match, pc' = "done"
               PROVE  Touched(matches)' = (LineStarts \ Touched(Expected))'
  <2>1. opts'.max_matches = 0 /\ opts'.invert_match => opts.max_matches = 0 /\ opts.invert_match
    BY <1>1
  <2>2. Touched(matches)' = (LineStarts \ Touched(Expected))' => InvertRight'
    BY Zenon DEF InvertRight
  <2> QED
    BY <1>2, <2>1, <2>2 DEF InvertRight
<1>3. matches = <<>> /\ matches' = <<[start |-> 0, end |-> buf_len - 1]>>
  BY <1>2 DEF Found
<1>4. PICK N \in Nat : N = buf_len
  BY GivenFacts DEF IInv
<1>5. Expected = <<>>
  BY <1>1, <1>2, <1>3 DEF Finding, MatchesRight
<1>6. /\ LineStarts' = LineStarts /\ \A s : EndOfLine(s)' = EndOfLine(s)
      /\ (LineStarts \ Touched(Expected))' = LineStarts \ Touched(Expected)
  BY <1>1, SameReference, SameLines
<1>7. Touched(Expected) = {}
  BY <1>5 DEF Touched
<1>8. Touched(matches)' = LinesOf(0, N - 1)
  <2>1. Touched(matches)' = UNION {LinesOf(matches'[k].start, matches'[k].end) : k \in DOMAIN matches'}
    BY <1>6 DEF Touched, LinesOf
  <2>2. DOMAIN matches' = {1} /\ matches'[1].start = 0 /\ matches'[1].end = N - 1
    BY <1>3, <1>4
  <2> QED
    BY <2>1, <2>2
<1>9. LinesOf(0, N - 1) = LineStarts
  <2>1. ASSUME NEW l \in LineStarts PROVE l <= N - 1 /\ EndOfLine(l) >= 0
    <3>1. Given /\ l \in 0 .. N - 1
      BY <1>4 DEF IInv, LineStarts
    <3>2. EndOfLine(l) \in l .. N
      BY <1>4, <3>1, LineIs
    <3> QED
      BY <3>1, <3>2
  <2> QED
    BY <2>1 DEF LinesOf
<1> QED
  BY <1>6, <1>7, <1>8, <1>9

(* Everything that is right of what was found, at any time.                *)
Everything == Finding /\ Sorted /\ Turned /\ InvertRight

(* It is right when the search begins.                                     *)
LEMMA EverythingBegins == ASSUME Init PROVE Everything
<1>1. pc = "alloc" /\ buf_offset = 0 /\ line_offset = 0 /\ matches = <<>>
  BY DEF Init
<1>2. Finding
  BY <1>1 DEF Finding, MatchesRight
<1>3. Sorted
  BY <1>1 DEF Sorted
<1>4. Turned /\ InvertRight
  BY <1>1 DEF Turned, InvertRight
<1> QED
  BY <1>2, <1>3, <1>4 DEF Everything

(* It stays right with every step.                                         *)
LEMMA EverythingStays ==
    ASSUME NoCaret, FirstOnly, NoInvertedEmpty, IInv, IInv', Everything, [Next]_vars
    PROVE  Everything'
<1>1. Finding /\ Sorted /\ Turned /\ InvertRight
  BY DEF Everything
<1>2. Finding'
  BY <1>1, StepFinds, NoCaret, FirstOnly
<1>3. Sorted'
  BY <1>1, SortedStep
<1>4. CASE UNCHANGED vars \/ Done
  <2>1. UNCHANGED <<pc, matches, inv, buf, opts>>
    BY <1>4 DEF vars, Done
  <2>2. /\ buf_len' = buf_len /\ Expected' = Expected /\ LineStarts' = LineStarts
        /\ \A s : EndOfLine(s)' = EndOfLine(s)
        /\ (LineStarts \ Touched(Expected))' = LineStarts \ Touched(Expected)
        /\ Apart(Expected) => Apart(Expected)'
    BY Same, SameReference, SameLines
  <2>3. Turned'
    <3>1. Free' = Free /\ Matched' = Matched
      BY <2>1, <2>2 DEF Free, Matched, BeginsLine
    <3>2. /\ WrittenLines' = WrittenLines /\ Pending' = Pending /\ LinesReached' = LinesReached
          /\ matches_len' = matches_len
      BY <2>1, <2>2 DEF WrittenLines, LinesOf, Pending, LinesReached, matches_len
    <3> QED
      BY <1>1, <2>1, <2>2, <3>1, <3>2 DEF Turned
  <2>4. InvertRight'
    <3>1. Touched(matches)' = Touched(matches)
      BY <2>1, <2>2 DEF Touched, LinesOf
    <3> QED
      BY <1>1, <2>1, <2>2, <3>1 DEF InvertRight
  <2> QED
    BY <1>2, <1>3, <2>3, <2>4 DEF Everything
<1>5. CASE \/ Alloc \/ MatchAll
           \/ LiteralMatch \/ LiteralNoWord \/ LiteralEnd
           \/ MultilineMatch \/ MultilineEnd
           \/ LineMatch \/ LineEnd \/ LinesEnd
  <2>1. pc' \notin {"invert", "done"}
    BY <1>5, GivenFacts DEF IInv, Alloc, MatchAll, LiteralMatch, LiteralNoWord, LiteralEnd,
       MultilineMatch, MultilineEnd, LineMatch, LineEnd, LinesEnd
  <2> QED
    BY <1>2, <1>3, <2>1 DEF Everything, Turned, InvertRight
<1>6. CASE Found
  BY <1>1, <1>2, <1>3, <1>6, InvertBegins, NothingFound, FirstOnly, NoInvertedEmpty DEF Everything
<1>7. CASE InvertMatch \/ InvertLast \/ InvertByte
  <2>1. Turned'
    BY <1>1, <1>7, MatchTurned, LastTurned, ByteTurned, FirstOnly, NoInvertedEmpty
  <2>2. pc' = "invert"
    BY <1>7 DEF InvertMatch, InvertLast, InvertByte, Inverting
  <2> QED
    BY <1>2, <1>3, <2>1, <2>2 DEF Everything, InvertRight
<1>8. CASE InvertEnd
  <2>1. pc' = "done"
    BY <1>8 DEF InvertEnd
  <2> QED
    BY <1>1, <1>2, <1>3, <1>8, <2>1, EndRight, FirstOnly, NoInvertedEmpty DEF Everything, Turned
<1> QED
  BY <1>4, <1>5, <1>6, <1>7, <1>8 DEF Next, Step

(* What search_buf() gives to the printer is right, for every buffer, all  *)
(* options and any number of matches: every match in order and no other,   *)
(* or, inverted, the lines that no match touches.  Excluded is what the    *)
(* code gets wrong: "^" with --multiline, a second match within a line and *)
(* empty matches that are inverted.                                        *)
THEOREM ResultCorrect ==
    ASSUME NoCaret, FirstOnly, NoInvertedEmpty
    PROVE  Spec => []ResultRight
<1>1. Init => Everything
  BY EverythingBegins
<1>2. IInv /\ IInv' /\ Everything /\ [Next]_vars => Everything'
  BY EverythingStays, NoCaret, FirstOnly, NoInvertedEmpty
<1>3. Everything => ResultRight
  BY DEF Everything, Finding, ResultRight
<1> QED
  BY <1>1, <1>2, <1>3, Invariant, PTL DEF Spec
=============================================================================
