------------------------ MODULE IgnorePatternsProofs ------------------------
(***************************************************************************)
(* Proofs about the ignore patterns: the order they are kept in, the       *)
(* search by halves, and the directories that are skipped on the way up    *)
(* lose none of them, whatever the lines and directories.                  *)
(***************************************************************************)
EXTENDS IgnorePatterns, ProofLemmas, SequenceTheorems, TLAPS

-----------------------------------------------------------------------------
(***************************************************************************)
(* The order of strcmp().                                                  *)
(***************************************************************************)
(* Different characters have different codes, and none is below a blank.   *)
LEMMA CodeFacts ==
    /\ \A c \in ToSet(Ascii) : Code[c] \in Int
    /\ \A c \in ToSet(Ascii) : \A d \in ToSet(Ascii) : Code[c] = Code[d] => c = d
    /\ \A c \in ToSet(Ascii) : \A d \in ToSet(Ascii) : isspace(d) => ~(Code[c] < Code[d])
    /\ {" ", "!", "#", "*", ".", "/"} \subseteq ToSet(Ascii)
<1>1. DOMAIN Ascii = 1 .. 8 /\ Ascii[1] = " " /\ Ascii[2] = "!" /\ Ascii[3] = "#"
      /\ Ascii[4] = "*" /\ Ascii[5] = "." /\ Ascii[6] = "/" /\ Ascii[7] = "a" /\ Ascii[8] = "b"
  BY DEF Ascii
<1>2. ToSet(Ascii) = {Ascii[k] : k \in DOMAIN Ascii}
  BY DEF ToSet
<1>3. ASSUME NEW c \in ToSet(Ascii) PROVE Code[c] \in DOMAIN Ascii /\ Ascii[Code[c]] = c
  <2>1. Code[c] = CHOOSE k \in DOMAIN Ascii : Ascii[k] = c
    BY DEF Code
  <2>2. \E k \in DOMAIN Ascii : Ascii[k] = c
    BY <1>2
  <2> QED
    BY <2>1, <2>2
<1>4. {" ", "!", "#", "*", ".", "/"} \subseteq ToSet(Ascii)
  <2>1. \A k \in 1 .. 8 : Ascii[k] \in ToSet(Ascii)
    BY <1>1, <1>2, Zenon
  <2>2. 1 \in 1 .. 8 /\ 2 \in 1 .. 8 /\ 3 \in 1 .. 8 /\ 4 \in 1 .. 8 /\ 5 \in 1 .. 8 /\ 6 \in 1 .. 8
    OBVIOUS
  <2> QED
    BY <1>1, <2>1, <2>2, Zenon
<1>5. Code[" "] = 1
  <2>1. Code[" "] \in 1 .. 8 /\ Ascii[Code[" "]] = " "
    BY <1>1, <1>3, <1>4
  <2>2. \A k \in 2 .. 8 : Ascii[k] # " "
    <3>1. \A k \in 2 .. 8 : k = 2 \/ k = 3 \/ k = 4 \/ k = 5 \/ k = 6 \/ k = 7 \/ k = 8
      OBVIOUS
    <3>2. /\ Ascii[2] # " " /\ Ascii[3] # " " /\ Ascii[4] # " " /\ Ascii[5] # " "
          /\ Ascii[6] # " " /\ Ascii[7] # " " /\ Ascii[8] # " "
      BY <1>1
    <3> QED
      BY <3>1, <3>2, Zenon
  <2>3. ~(Code[" "] \in 2 .. 8)
    BY <2>1, <2>2, Zenon
  <2>4. \A x : x \in 1 .. 8 /\ ~(x \in 2 .. 8) => x = 1
    OBVIOUS
  <2> QED
    BY <2>1, <2>3, <2>4, Zenon
<1>6. \A c \in ToSet(Ascii) : Code[c] \in Int /\ ~(Code[c] < 1)
  <2>1. \A k \in 1 .. 8 : k \in Int /\ ~(k < 1)
    OBVIOUS
  <2> QED
    BY <1>1, <1>3, <2>1, Zenon
<1>7. ASSUME NEW c \in ToSet(Ascii), NEW d \in ToSet(Ascii), Code[c] = Code[d] PROVE c = d
  BY <1>3, <1>7, Zenon
<1> QED
  BY <1>4, <1>5, <1>6, <1>7, Zenon DEF isspace

(* strcmp() as it goes along both strings.                                 *)
Differ(s, t, k) ==
    /\ k < Len(t) /\ \A j \in 1 .. k : s[j] = t[j]
    /\ k = Len(s) \/ Code[s[k + 1]] < Code[t[k + 1]]

(* strcmp() stops at the first difference or at the end of the shorter.    *)
LEMMA BeforeIs ==
    ASSUME NEW s \in String, NEW t \in String
    PROVE  Before(s, t) <=> \E k \in 0 .. Len(s) : Differ(s, t, k)
<1>1. ASSUME NEW k \in 0 .. Len(s), k < Len(t)
      PROVE  SubSeq(s, 1, k) = SubSeq(t, 1, k) <=> \A j \in 1 .. k : s[j] = t[j]
  <2>1. /\ SubSeq(s, 1, k) = [j \in 1 .. k |-> s[j]]
        /\ SubSeq(t, 1, k) = [j \in 1 .. k |-> t[j]]
    BY <1>1 DEF String
  <2> QED
    BY <2>1
<1> QED
  BY <1>1 DEF Before, Differ

(* The order of strcmp() is a strict total order: no string is before      *)
(* itself,                                                                 *)
LEMMA Irreflexive == ASSUME NEW s \in String PROVE ~Before(s, s)
<1>1. ASSUME NEW k \in 0 .. Len(s), Differ(s, s, k) PROVE FALSE
  <2>1. k < Len(s) /\ Code[s[k + 1]] < Code[s[k + 1]] /\ Len(s) \in Nat
    BY <1>1 DEF Differ, String
  <2>2. s[k + 1] \in ToSet(Ascii)
    BY <2>1 DEF String
  <2>3. Code[s[k + 1]] \in Int
    BY <2>2, CodeFacts, Zenon
  <2> QED
    BY <2>1, <2>3
<1> QED
  BY <1>1, BeforeIs

(* what is before a string is before all behind it,                        *)
LEMMA Transitive ==
    ASSUME NEW s \in String, NEW t \in String, NEW u \in String,
           Before(s, t), Before(t, u)
    PROVE  Before(s, u)
<1>1. PICK k \in 0 .. Len(s) : Differ(s, t, k)
  BY BeforeIs
<1>2. PICK m \in 0 .. Len(t) : Differ(t, u, m)
  BY BeforeIs
<1>3. PICK a \in Nat, b \in Nat, c \in Nat : a = Len(s) /\ b = Len(t) /\ c = Len(u)
  BY DEF String
<1>4. /\ \A j \in 1 .. a : Code[s[j]] \in Int
      /\ \A j \in 1 .. b : Code[t[j]] \in Int
      /\ \A j \in 1 .. c : Code[u[j]] \in Int
  <2>1. /\ \A j \in 1 .. a : s[j] \in ToSet(Ascii)
        /\ \A j \in 1 .. b : t[j] \in ToSet(Ascii)
        /\ \A j \in 1 .. c : u[j] \in ToSet(Ascii)
    BY <1>3 DEF String
  <2> QED
    BY <2>1, CodeFacts, Zenon
<1>5. /\ k < b /\ \A j \in 1 .. k : s[j] = t[j]
      /\ k = a \/ Code[s[k + 1]] < Code[t[k + 1]]
  BY <1>1, <1>3 DEF Differ
<1>6. /\ m < c /\ \A j \in 1 .. m : t[j] = u[j]
      /\ m = b \/ Code[t[m + 1]] < Code[u[m + 1]]
  BY <1>2, <1>3 DEF Differ
<1>7. CASE k < m
  <2>1. \A j \in 1 .. k : s[j] = u[j]
    BY <1>3, <1>5, <1>6, <1>7
  <2>2. t[k + 1] = u[k + 1]
    BY <1>3, <1>6, <1>7
  <2>3. Differ(s, u, k)
    BY <1>3, <1>5, <1>6, <1>7, <2>1, <2>2 DEF Differ
  <2> QED
    BY <2>3, BeforeIs
<1>8. CASE m < k
  <2>1. \A j \in 1 .. m : s[j] = u[j]
    BY <1>3, <1>5, <1>6, <1>8
  <2>2. s[m + 1] = t[m + 1] /\ Code[t[m + 1]] < Code[u[m + 1]]
    BY <1>3, <1>5, <1>6, <1>8
  <2>3. Differ(s, u, m)
    BY <1>3, <1>6, <2>1, <2>2 DEF Differ
  <2> QED
    BY <1>3, <1>8, <2>3, BeforeIs
<1>9. CASE m = k
  <2>1. \A j \in 1 .. k : s[j] = u[j]
    BY <1>3, <1>5, <1>6, <1>9
  <2>2. k = a \/ Code[s[k + 1]] < Code[u[k + 1]]
    <3>1. CASE k # a
      <4>1. k + 1 \in 1 .. a /\ k + 1 \in 1 .. b /\ k + 1 \in 1 .. c
        BY <1>3, <1>5, <1>6, <1>9, <3>1
      <4>2. Code[s[k + 1]] < Code[t[k + 1]] /\ Code[t[k + 1]] < Code[u[k + 1]]
        BY <1>3, <1>5, <1>6, <1>9, <3>1
      <4> QED
        BY <1>4, <4>1, <4>2
    <3> QED
      BY <3>1
  <2>3. Differ(s, u, k)
    BY <1>3, <1>6, <1>9, <2>1, <2>2 DEF Differ
  <2> QED
    BY <2>3, BeforeIs
<1> QED
  BY <1>3, <1>7, <1>8, <1>9

(* and of two different strings one is before the other.                   *)
LEMMA Total ==
    ASSUME NEW s \in String, NEW t \in String, s # t
    PROVE  Before(s, t) \/ Before(t, s)
<1>1. PICK a \in Nat, b \in Nat : a = Len(s) /\ b = Len(t)
  BY DEF String
<1> DEFINE D == {k \in Nat : k = a \/ k = b \/ (k < a /\ k < b /\ s[k + 1] # t[k + 1])}
<1>2. PICK k \in D : \A y \in D : k <= y
  <2>1. a \in D /\ D \in SUBSET Nat
    OBVIOUS
  <2> HIDE DEF D
  <2> QED
    BY <2>1, Least
<1>3. k <= a /\ k <= b
  BY <1>2
<1>4. \A j \in 1 .. k : s[j] = t[j]
  <2>1. ASSUME NEW j \in 1 .. k, s[j] # t[j] PROVE FALSE
    <3>1. j - 1 \in Nat /\ j - 1 < a /\ j - 1 < b /\ (j - 1) + 1 = j
      BY <1>3
    <3>2. j - 1 \in D
      BY <2>1, <3>1
    <3> QED
      BY <1>2, <3>2
  <2> QED
    BY <2>1
<1>5. CASE k = a
  <2>1. k # b
    <3>1. ASSUME k = b PROVE FALSE
      <4>1. Len(s) = Len(t) /\ \A j \in 1 .. Len(s) : s[j] = t[j]
        BY <1>1, <1>4, <1>5, <3>1
      <4> QED
        BY <4>1, SeqEqual DEF String
    <3> QED
      BY <3>1
  <2>2. Differ(s, t, k)
    BY <1>1, <1>3, <1>4, <1>5, <2>1 DEF Differ
  <2> QED
    BY <1>1, <1>3, <2>2, BeforeIs
<1>6. CASE k = b /\ k # a
  <2>1. Differ(t, s, k)
    BY <1>1, <1>3, <1>4, <1>6 DEF Differ
  <2> QED
    BY <1>1, <1>3, <2>1, BeforeIs
<1>7. CASE k # a /\ k # b
  <2>1. k < a /\ k < b /\ s[k + 1] # t[k + 1]
    BY <1>7
  <2>2. s[k + 1] \in ToSet(Ascii) /\ t[k + 1] \in ToSet(Ascii)
    BY <1>1, <2>1 DEF String
  <2>3. Code[s[k + 1]] < Code[t[k + 1]] \/ Code[t[k + 1]] < Code[s[k + 1]]
    <3>1. /\ Code[s[k + 1]] \in Int /\ Code[t[k + 1]] \in Int
          /\ Code[s[k + 1]] # Code[t[k + 1]]
      BY <2>1, <2>2, CodeFacts, Zenon
    <3> QED
      BY <3>1
  <2>4. Differ(s, t, k) \/ Differ(t, s, k)
    BY <1>1, <1>4, <2>1, <2>3 DEF Differ
  <2> QED
    BY <1>1, <2>1, <2>4, BeforeIs
<1> QED
  BY <1>5, <1>6, <1>7

-----------------------------------------------------------------------------
(***************************************************************************)
(* A pattern without its trailing blanks.                                  *)
(***************************************************************************)
LEMMA TrimFacts ==
    ASSUME NEW s \in String
    PROVE  \E n \in 0 .. Len(s) :
               /\ Trimmed(s) \in String /\ Len(Trimmed(s)) = n
               /\ \A j \in 1 .. n : Trimmed(s)[j] = s[j]
               /\ n > 0 => ~isspace(s[n])
               /\ \A j \in n + 1 .. Len(s) : isspace(s[j])
<1> DEFINE S == {0} \cup {k \in DOMAIN s : ~isspace(s[k])}
<1>1. PICK a \in Nat : a = Len(s) /\ DOMAIN s = 1 .. a
  BY DEF String
<1>2. PICK n \in 0 .. a : n = Max(S) /\ n \in S /\ \A x \in S : n >= x
  <2>1. S # {} /\ \A x \in S : x \in Int /\ x <= a
    BY <1>1
  <2>2. Max(S) \in S /\ \A x \in S : Max(S) >= x
    <3> HIDE DEF S
    <3> QED
      BY <1>1, <2>1, GreatestOf
  <2>3. S \subseteq 0 .. a
    BY <1>1
  <2> HIDE DEF S
  <2> QED
    BY <2>2, <2>3
<1>3. Trimmed(s) = SubSeq(s, 1, n)
  BY <1>2 DEF Trimmed
<1>4. /\ Trimmed(s) \in String /\ Len(Trimmed(s)) = n
      /\ \A j \in 1 .. n : Trimmed(s)[j] = s[j]
  BY <1>1, <1>3 DEF String
<1>5. n > 0 => ~isspace(s[n])
  BY <1>2
<1>6. ASSUME NEW j \in n + 1 .. a, ~isspace(s[j]) PROVE FALSE
  <2>1. j \in S
    BY <1>1, <1>6
  <2> QED
    BY <1>2, <2>1
<1> QED
  BY <1>1, <1>4, <1>5, <1>6

(* What is trimmed stays as it is.                                         *)
LEMMA TrimOnce ==
    ASSUME NEW s \in String
    PROVE  Trimmed(Trimmed(s)) = Trimmed(s)
<1> DEFINE t == Trimmed(s)
<1>1. PICK n \in Nat : /\ t \in String /\ Len(t) = n /\ (n > 0 => ~isspace(t[n]))
  <2>1. PICK n \in 0 .. Len(s) : /\ t \in String /\ Len(t) = n
                                 /\ \A j \in 1 .. n : t[j] = s[j]
                                 /\ n > 0 => ~isspace(s[n])
    BY TrimFacts
  <2>2. n \in Nat /\ (n > 0 => ~isspace(t[n]))
    BY <2>1
  <2> QED
    BY <2>1, <2>2
<1> HIDE DEF t
<1>2. PICK m \in 0 .. n : /\ Trimmed(t) \in String /\ Len(Trimmed(t)) = m
                          /\ \A j \in 1 .. m : Trimmed(t)[j] = t[j]
                          /\ \A j \in m + 1 .. n : isspace(t[j])
  BY <1>1, TrimFacts
<1>3. m = n
  <2>1. m < n => n \in m + 1 .. n /\ n > 0
    OBVIOUS
  <2> QED
    BY <1>1, <1>2, <2>1
<1>4. Trimmed(t) = t
  BY <1>1, <1>2, <1>3, SeqEqual DEF String
<1> QED
  BY <1>4 DEF t

(* What ends in no blank and is before a pattern is not behind it when its *)
(* blanks are gone; and blanks put nothing in front.                       *)
LEMMA TrimOrder ==
    ASSUME NEW a \in String, Trimmed(a) = a, NEW p \in String
    PROVE  /\ Before(a, p) => ~Before(Trimmed(p), a)
           /\ ~Before(a, p) => ~Before(a, Trimmed(p))
<1> DEFINE t == Trimmed(p)
<1>1. PICK A \in Nat, P \in Nat : A = Len(a) /\ P = Len(p)
  BY DEF String
<1>2. PICK n \in 0 .. P : /\ t \in String /\ Len(t) = n
                          /\ \A j \in 1 .. n : t[j] = p[j]
                          /\ \A j \in n + 1 .. P : isspace(p[j])
  BY <1>1, TrimFacts
<1>3. A > 0 => ~isspace(a[A])
  <2>1. PICK m \in 0 .. Len(a) : Len(Trimmed(a)) = m /\ (m > 0 => ~isspace(a[m]))
    BY TrimFacts
  <2> QED
    BY <1>1, <2>1
<1> HIDE DEF t
<1>4. /\ \A j \in 1 .. A : Code[a[j]] \in Int
      /\ \A j \in 1 .. A : \A k \in 1 .. P : isspace(p[k]) => ~(Code[a[j]] < Code[p[k]])
      /\ \A j \in 1 .. P : Code[p[j]] \in Int
  <2>1. /\ \A j \in 1 .. A : a[j] \in ToSet(Ascii)
        /\ \A j \in 1 .. P : p[j] \in ToSet(Ascii)
    BY <1>1 DEF String
  <2>2. \A c \in ToSet(Ascii) : Code[c] \in Int
    BY CodeFacts, Zenon
  <2>3. \A c \in ToSet(Ascii) : \A d \in ToSet(Ascii) : isspace(d) => ~(Code[c] < Code[d])
    BY CodeFacts, Zenon
  <2> QED
    BY <2>1, <2>2, <2>3, Zenon
<1>5. ASSUME Before(a, p), Before(t, a) PROVE FALSE
  <2>1. PICK k \in 0 .. A : /\ k < P /\ \A j \in 1 .. k : a[j] = p[j]
                            /\ k = A \/ Code[a[k + 1]] < Code[p[k + 1]]
    BY <1>1, <1>5, BeforeIs DEF Differ
  <2>2. PICK m \in 0 .. n : /\ m < A /\ \A j \in 1 .. m : t[j] = a[j]
                            /\ m = n \/ Code[t[m + 1]] < Code[a[m + 1]]
    <3>1. PICK m \in 0 .. Len(t) : Differ(t, a, m)
      BY <1>2, <1>5, BeforeIs
    <3> QED
      BY <1>1, <1>2, <3>1, Zenon DEF Differ
  <2>3. k >= m
    <3>1. ASSUME k < m PROVE FALSE
      <4>1. k + 1 \in 1 .. m /\ k + 1 \in 1 .. n /\ k + 1 \in 1 .. A /\ k # A
        BY <2>2, <3>1
      <4>2. a[k + 1] = p[k + 1]
        BY <1>2, <2>2, <4>1
      <4>3. Code[a[k + 1]] < Code[p[k + 1]] /\ Code[a[k + 1]] \in Int
        BY <1>4, <2>1, <4>1
      <4> QED
        BY <4>2, <4>3
    <3> QED
      BY <3>1
  <2>4. CASE m < n
    <3>1. m + 1 \in 1 .. n /\ m + 1 \in 1 .. A /\ m + 1 \in 1 .. P
      BY <2>2, <2>4
    <3>2. Code[p[m + 1]] < Code[a[m + 1]] /\ Code[p[m + 1]] \in Int /\ Code[a[m + 1]] \in Int
      BY <1>2, <1>4, <2>2, <2>4, <3>1
    <3>3. k # m
      <4>1. k = m => Code[a[m + 1]] < Code[p[m + 1]]
        BY <2>1, <2>2
      <4> QED
        BY <3>2, <4>1
    <3>4. a[m + 1] = p[m + 1]
      BY <2>1, <2>3, <3>1, <3>3
    <3> QED
      BY <3>2, <3>4
  <2>5. CASE m = n
    <3>1. \A j \in n + 1 .. P : isspace(p[j])
      BY <1>2
    <3>2. CASE k = A
      <4>1. A \in n + 1 .. P /\ A \in 1 .. k
        BY <2>1, <2>2, <2>5, <3>2
      <4> QED
        BY <1>3, <2>1, <3>1, <4>1
    <3>3. CASE k # A
      <4>1. k + 1 \in n + 1 .. P /\ k + 1 \in 1 .. A /\ k + 1 \in 1 .. P
        BY <2>1, <2>3, <2>5, <3>3
      <4>2. Code[a[k + 1]] < Code[p[k + 1]] /\ isspace(p[k + 1])
        BY <2>1, <3>1, <3>3, <4>1
      <4> QED
        BY <1>4, <4>1, <4>2
    <3> QED
      BY <3>2, <3>3
  <2> QED
    BY <2>4, <2>5
<1>6. ASSUME Before(a, t) PROVE Before(a, p)
  <2>1. t = p \/ Before(t, p)
    <3>1. CASE n = P
      <4>1. t = p
        BY <1>1, <1>2, <3>1, SeqEqual DEF String
      <4> QED
        BY <4>1
    <3>2. CASE n # P
      <4>1. Differ(t, p, n)
        BY <1>1, <1>2, <3>2 DEF Differ
      <4> QED
        BY <1>2, <4>1, BeforeIs
    <3> QED
      BY <3>1, <3>2
  <2> QED
    BY <1>2, <1>6, <2>1, Transitive
<1> QED
  BY <1>5, <1>6 DEF t

-----------------------------------------------------------------------------
(***************************************************************************)
(* The arrays.                                                             *)
(***************************************************************************)
Sorted(array) ==
    \A i \in DOMAIN array : \A j \in DOMAIN array : i < j => ~Before(array[j], array[i])

(* What add_ignore_pattern() makes of an array: patterns without trailing  *)
(* blanks in the order of strcmp().                                        *)
InOrder(array) ==
    /\ array \in Seq(String) /\ Sorted(array)
    /\ \A p \in ToSet(array) : Trimmed(p) = p

(* Where InsertAt() puts the new element and the old ones.                 *)
LEMMA InsertFacts ==
    ASSUME NEW S, NEW a \in Seq(S), NEW q \in S, NEW k \in 0 .. Len(a),
           NEW r, r = InsertAt(a, k + 1, q)
    PROVE  /\ r \in Seq(S) /\ Len(r) = Len(a) + 1
           /\ \A i \in 1 .. k : r[i] = a[i]
           /\ r[k + 1] = q
           /\ \A i \in k + 2 .. Len(a) + 1 : r[i] = a[i - 1]
<1>1. PICK L \in Nat : L = Len(a) /\ \A i \in 1 .. L : a[i] \in S
  OBVIOUS
<1> DEFINE x == SubSeq(a, 1, k)
           y == SubSeq(a, k + 1, L)
<1>2. r = (x \o <<q>>) \o y
  <2>1. (k + 1) - 1 = k
    OBVIOUS
  <2> QED
    BY <1>1, <2>1, Zenon DEF InsertAt
<1>3. x \in Seq(S) /\ Len(x) = k /\ \A i \in 1 .. k : x[i] = a[i]
  BY <1>1
<1>4. y \in Seq(S) /\ Len(y) = L - k /\ \A i \in 1 .. L - k : y[i] = a[k + i]
  BY <1>1
<1> HIDE DEF x, y
<1>5. <<q>> \in Seq(S) /\ Len(<<q>>) = 1 /\ <<q>>[1] = q
  OBVIOUS
<1> DEFINE z == x \o <<q>>
<1>6. z \in Seq(S) /\ Len(z) = k + 1 /\ z[k + 1] = q /\ \A i \in 1 .. k : z[i] = a[i]
  BY <1>3, <1>5
<1> HIDE DEF z
<1>7. /\ z \o y \in Seq(S) /\ Len(z \o y) = L + 1
      /\ \A i \in 1 .. L + 1 : (z \o y)[i] = IF i <= k + 1 THEN z[i] ELSE y[i - (k + 1)]
  <2>1. Len(z) + Len(y) = L + 1
    BY <1>1, <1>4, <1>6
  <2>2. /\ z \o y \in Seq(S) /\ Len(z \o y) = Len(z) + Len(y)
        /\ \A i \in 1 .. Len(z) + Len(y) :
               (z \o y)[i] = IF i <= Len(z) THEN z[i] ELSE y[i - Len(z)]
    BY <1>4, <1>6, ConcatProperties
  <2> QED
    BY <1>6, <2>1, <2>2, Zenon
<1>8. r = z \o y
  BY <1>2 DEF z
<1>9. \A i \in k + 2 .. L + 1 : r[i] = a[i - 1]
  <2>1. ASSUME NEW i \in k + 2 .. L + 1 PROVE r[i] = a[i - 1]
    <3>1. i - (k + 1) \in 1 .. L - k /\ k + (i - (k + 1)) = i - 1 /\ ~(i <= k + 1) /\ i \in 1 .. L + 1
      BY <1>1
    <3>2. r[i] = y[i - (k + 1)]
      BY <1>7, <1>8, <3>1, Zenon
    <3>3. y[i - (k + 1)] = a[k + (i - (k + 1))]
      BY <1>4, <3>1, Zenon
    <3> QED
      BY <3>1, <3>2, <3>3, Zenon
  <2> QED
    BY <2>1
<1>10. (\A i \in 1 .. k : r[i] = a[i]) /\ r[k + 1] = q
  BY <1>1, <1>6, <1>7, <1>8
<1> QED
  BY <1>1, <1>7, <1>8, <1>9, <1>10

(* The loop of add_ignore_pattern() keeps the array in order and adds the  *)
(* pattern, without its blanks, and nothing else.                          *)
LEMMA InsertRight ==
    ASSUME NEW a, InOrder(a), NEW p \in String
    PROVE  /\ InOrder(Insert(a, p))
           /\ ToSet(Insert(a, p)) = ToSet(a) \cup {Trimmed(p)}
<1> DEFINE S == {0} \cup {k \in DOMAIN a : Before(a[k], p)}
           q == Trimmed(p)
           r == Insert(a, p)
<1>1. PICK L \in Nat : L = Len(a) /\ DOMAIN a = 1 .. L /\ \A i \in 1 .. L : a[i] \in String
  BY DEF InOrder
<1>2. PICK k \in 0 .. L : k = Max(S) /\ k \in S /\ \A x \in S : k >= x
  <2>1. S # {} /\ S \subseteq 0 .. L /\ \A x \in S : x \in Int /\ x <= L
    BY <1>1
  <2> HIDE DEF S
  <2>2. Max(S) \in S /\ \A x \in S : Max(S) >= x
    <3>1. L \in Int
      OBVIOUS
    <3> QED
      BY <2>1, <3>1, GreatestOf
  <2> QED
    BY <2>1, <2>2
<1>3. \A i \in 1 .. L : i > k => ~Before(a[i], p)
  BY <1>1, <1>2
<1>4. \A i, j \in 1 .. L : i < j => ~Before(a[j], a[i])
  BY <1>1 DEF InOrder, Sorted
<1>5. q \in String /\ Trimmed(q) = q
  <2>1. q \in String
    BY TrimFacts
  <2> QED
    BY <2>1, TrimOnce
<1>6. \A i \in 1 .. L : Trimmed(a[i]) = a[i]
  BY <1>1 DEF InOrder, ToSet
<1>7. \A i \in 1 .. k : Before(a[i], p)
  <2>1. ASSUME NEW i \in 1 .. k PROVE Before(a[i], p)
    <3>1. Before(a[k], p) /\ k \in 1 .. L /\ i \in 1 .. L
      BY <1>2
    <3>2. CASE i = k
      BY <3>1, <3>2
    <3>3. CASE i # k
      <4>1. ~Before(a[k], a[i])
        BY <1>4, <3>1, <3>3
      <4>2. a[i] = a[k] \/ Before(a[i], a[k])
        BY <1>1, <3>1, <4>1, Total
      <4> QED
        BY <1>1, <3>1, <4>2, Transitive
    <3> QED
      BY <3>2, <3>3
  <2> QED
    BY <2>1
<1>8. \A i \in 1 .. k : ~Before(q, a[i])
  BY <1>1, <1>6, <1>7, TrimOrder
<1>9. \A i \in k + 1 .. L : ~Before(a[i], q)
  BY <1>1, <1>3, <1>6, TrimOrder
<1>10. r = InsertAt(a, k + 1, q)
  BY <1>2 DEF Insert
<1> HIDE DEF q, r, S
<1>11. /\ r \in Seq(String) /\ Len(r) = L + 1 /\ DOMAIN r = 1 .. L + 1
       /\ \A i \in 1 .. k : r[i] = a[i]
       /\ r[k + 1] = q
       /\ \A i \in k + 2 .. L + 1 : r[i] = a[i - 1]
  <2>1. a \in Seq(String) /\ k \in 0 .. Len(a)
    BY <1>1 DEF InOrder
  <2>2. /\ r \in Seq(String) /\ Len(r) = Len(a) + 1
        /\ \A i \in 1 .. k : r[i] = a[i]
        /\ r[k + 1] = q
        /\ \A i \in k + 2 .. Len(a) + 1 : r[i] = a[i - 1]
    <3> HIDE DEF String
    <3>1. q \in String
      BY <1>5
    <3>2. r \in Seq(String) /\ Len(r) = Len(a) + 1
      BY <1>10, <2>1, <3>1, InsertFacts
    <3>3. \A i \in 1 .. k : r[i] = a[i]
      BY <1>10, <2>1, <3>1, InsertFacts, SMTT(40)
    <3>4. r[k + 1] = q
      BY <1>10, <2>1, <3>1, InsertFacts
    <3>5. \A i \in k + 2 .. Len(a) + 1 : r[i] = a[i - 1]
      BY <1>10, <2>1, <3>1, InsertFacts, SMTT(40)
    <3> QED
      BY <3>2, <3>3, <3>4, <3>5, Zenon
  <2> QED
    BY <1>1, <2>2
<1>12. ASSUME NEW i \in 1 .. L + 1, NEW j \in 1 .. L + 1, i < j PROVE ~Before(r[j], r[i])
  <2>1. CASE j <= k
    BY <1>4, <1>11, <1>12, <2>1
  <2>2. CASE j = k + 1
    BY <1>8, <1>11, <1>12, <2>2
  <2>3. CASE j > k + 1 /\ i = k + 1
    BY <1>9, <1>11, <1>12, <2>3
  <2>4. CASE j > k + 1 /\ i <= k
    <3>1. r[j] = a[j - 1] /\ r[i] = a[i] /\ i \in 1 .. L /\ j - 1 \in 1 .. L /\ i < j - 1
      BY <1>11, <1>12, <2>4
    <3> QED
      BY <1>4, <3>1
  <2>5. CASE i > k + 1
    <3>1. r[j] = a[j - 1] /\ r[i] = a[i - 1] /\ i - 1 \in 1 .. L /\ j - 1 \in 1 .. L /\ i - 1 < j - 1
      BY <1>11, <1>12, <2>5
    <3> QED
      BY <1>4, <3>1
  <2> QED
    BY <2>1, <2>2, <2>3, <2>4, <2>5
<1>13. ToSet(r) = ToSet(a) \cup {q}
  <2>1. ASSUME NEW i \in 1 .. L + 1 PROVE r[i] \in ToSet(a) \cup {q}
    <3>1. i \in 1 .. k \/ i = k + 1 \/ (i \in k + 2 .. L + 1 /\ i - 1 \in 1 .. L)
      OBVIOUS
    <3> QED
      BY <1>1, <1>11, <3>1 DEF ToSet
  <2>2. ASSUME NEW i \in 1 .. L PROVE a[i] \in ToSet(r)
    <3>1. CASE i <= k
      <4>1. i \in 1 .. k /\ i \in 1 .. L + 1
        BY <3>1
      <4>2. r[i] = a[i] /\ i \in DOMAIN r
        BY <1>11, <4>1
      <4> QED
        BY <4>2 DEF ToSet
    <3>2. CASE i > k
      <4>1. i + 1 \in k + 2 .. L + 1 /\ i + 1 \in 1 .. L + 1 /\ (i + 1) - 1 = i
        BY <3>2
      <4>2. r[i + 1] = a[i]
        BY <1>11, <4>1
      <4> QED
        BY <1>11, <4>1, <4>2 DEF ToSet
    <3> QED
      BY <3>1, <3>2
  <2>3. q \in ToSet(r)
    BY <1>11 DEF ToSet
  <2>4. ToSet(a) = {a[i] : i \in 1 .. L} /\ ToSet(r) = {r[i] : i \in 1 .. L + 1}
    BY <1>1, <1>11 DEF ToSet
  <2> QED
    BY <2>1, <2>2, <2>3, <2>4
<1>14. \A x \in ToSet(r) : Trimmed(x) = x
  BY <1>5, <1>13 DEF InOrder
<1>15. Sorted(r)
  BY <1>11, <1>12 DEF Sorted
<1> QED
  BY <1>11, <1>13, <1>14, <1>15 DEF InOrder, q, r

(* The step of the search by halves, for the answers f to smaller parts.   *)
Halve(f, needle, array, start, end) ==
    IF start = end THEN FALSE
    ELSE LET mid == start + ((end - start) \div 2)
         IN  IF Before(needle, array[mid + 1]) THEN f[start][mid]
             ELSE IF Before(array[mid + 1], needle) THEN f[mid + 1][end]
             ELSE TRUE

(* The function binary_search() is: each part is searched in its halves.   *)
Halves(f, needle, array) ==
    f = [start \in 0 .. Len(array) |-> [end \in 0 .. Len(array) |->
            Halve(f, needle, array, start, end)]]

(* The needle is in a part of the array.                                   *)
Within(needle, array, start, end) == \E i \in start + 1 .. end : array[i] = needle

(* The middle lies in the part that is halved.                             *)
LEMMA Middle ==
    ASSUME NEW s \in Int, NEW e \in Int, NEW mid, mid = s + ((e - s) \div 2)
    PROVE  /\ mid \in Int
           /\ s < e => s <= mid /\ mid < e
           /\ s > e => e <= mid /\ mid < s
<1>1. PICK d \in Int : d = (e - s) \div 2 /\ 2 * d <= e - s /\ e - s < 2 * d + 2
  OBVIOUS
<1> QED
  BY <1>1

(* In an array that is sorted the half that is left out has no needle.     *)
LEMMA HalveRight ==
    ASSUME NEW needle \in String, NEW array, InOrder(array),
           NEW s \in 0 .. Len(array), NEW e \in 0 .. Len(array), s < e,
           NEW f,
           \A x \in 0 .. Len(array) : \A y \in 0 .. Len(array) :
               x <= y /\ y - x < e - s => f[x][y] = Within(needle, array, x, y)
    PROVE  Halve(f, needle, array, s, e) = Within(needle, array, s, e)
<1>1. PICK L \in Nat : L = Len(array) /\ DOMAIN array = 1 .. L /\ \A i \in 1 .. L : array[i] \in String
  BY DEF InOrder
<1> DEFINE mid == s + ((e - s) \div 2)
<1>2. mid \in s .. e - 1
  <2>1. s \in Int /\ e \in Int
    BY <1>1
  <2>2. mid \in Int /\ s <= mid /\ mid < e
    BY <2>1, Middle
  <2> QED
    BY <1>1, <2>2
<1>3. Halve(f, needle, array, s, e) =
          IF Before(needle, array[mid + 1]) THEN f[s][mid]
          ELSE IF Before(array[mid + 1], needle) THEN f[mid + 1][e]
          ELSE TRUE
  <2>1. s # e
    BY <1>1
  <2> QED
    BY <2>1, Zenon DEF Halve
<1> HIDE DEF mid
<1>4. PICK m \in s .. e - 1 : m = mid
  BY <1>2
<1>5. /\ m \in 0 .. L /\ m + 1 \in 0 .. L /\ m + 1 \in 1 .. L /\ s <= m /\ m + 1 <= e
      /\ m - s < e - s /\ e - (m + 1) < e - s
  BY <1>1, <1>4
<1>6. \A i \in 1 .. L : \A j \in 1 .. L : i < j => ~Before(array[j], array[i])
  BY <1>1 DEF InOrder, Sorted
<1>7. \A i \in 1 .. L : i \in Int
  OBVIOUS
<1>8. CASE Before(needle, array[m + 1])
  <2>1. \A i \in s + 1 .. e : i >= m + 1 => array[i] # needle
    <3>1. ASSUME NEW i \in s + 1 .. e, i >= m + 1, array[i] = needle PROVE FALSE
      <4>1. i \in 1 .. L
        BY <1>1
      <4>2. CASE i = m + 1
        BY <1>8, <3>1, <4>2, Irreflexive
      <4>3. CASE i # m + 1
        <5>1. m + 1 < i
          BY <1>5, <3>1, <4>1, <4>3
        <5> QED
          BY <1>5, <1>6, <1>8, <3>1, <4>1, <5>1
      <4> QED
        BY <4>2, <4>3
    <3> QED
      BY <3>1
  <2>2. Within(needle, array, s, e) = Within(needle, array, s, m)
    <3>1. \A i \in s + 1 .. e : i \in s + 1 .. m \/ i >= m + 1
      BY <1>1, <1>5
    <3>2. \A i \in s + 1 .. m : i \in s + 1 .. e
      BY <1>1, <1>5
    <3> QED
      BY <2>1, <3>1, <3>2 DEF Within
  <2>3. f[s][m] = Within(needle, array, s, m)
    BY <1>1, <1>5
  <2> QED
    BY <1>3, <1>4, <1>8, <2>2, <2>3
<1>9. CASE ~Before(needle, array[m + 1]) /\ Before(array[m + 1], needle)
  <2>1. \A i \in s + 1 .. e : i <= m + 1 => array[i] # needle
    <3>1. ASSUME NEW i \in s + 1 .. e, i <= m + 1, array[i] = needle PROVE FALSE
      <4>1. i \in 1 .. L
        BY <1>1
      <4>2. CASE i = m + 1
        BY <1>9, <3>1, <4>2, Irreflexive
      <4>3. CASE i # m + 1
        <5>1. i < m + 1
          BY <1>5, <3>1, <4>1, <4>3
        <5> QED
          BY <1>5, <1>6, <1>9, <3>1, <4>1, <5>1
      <4> QED
        BY <4>2, <4>3
    <3> QED
      BY <3>1
  <2>2. Within(needle, array, s, e) = Within(needle, array, m + 1, e)
    <3>1. \A i \in s + 1 .. e : i \in (m + 1) + 1 .. e \/ i <= m + 1
      BY <1>1, <1>5
    <3>2. \A i \in (m + 1) + 1 .. e : i \in s + 1 .. e
      BY <1>1, <1>5
    <3> QED
      BY <2>1, <3>1, <3>2 DEF Within
  <2>3. f[m + 1][e] = Within(needle, array, m + 1, e)
    BY <1>1, <1>5
  <2> QED
    BY <1>3, <1>4, <1>9, <2>2, <2>3
<1>10. CASE ~Before(needle, array[m + 1]) /\ ~Before(array[m + 1], needle)
  <2>1. array[m + 1] = needle
    BY <1>1, <1>5, <1>10, Total
  <2>2. m + 1 \in s + 1 .. e
    BY <1>1, <1>5
  <2>3. Within(needle, array, s, e)
    BY <2>1, <2>2, Zenon DEF Within
  <2> QED
    BY <1>3, <1>4, <1>10, <2>3
<1> QED
  BY <1>8, <1>9, <1>10

(* binary_search() finds what is in the array, and nothing else.           *)
THEOREM BinarySearchCorrect ==
    ASSUME NEW needle \in String, NEW array, InOrder(array)
    PROVE  binary_search(needle, array) <=> needle \in ToSet(array)
<1>1. PICK L \in Nat : L = Len(array) /\ DOMAIN array = 1 .. L
  BY DEF InOrder
<1> DEFINE g == [s \in 0 .. L |-> [e \in 0 .. L |->
                    s > e \/ Within(needle, array, s, e)]]
<1>9. \A s \in 0 .. L : \A e \in 0 .. L : g[s][e] = (s > e \/ Within(needle, array, s, e))
  BY Zenon
<1>10. \A x, y : Within(needle, array, x, y) \in BOOLEAN
  BY Zenon DEF Within
<1>11. \A x \in 0 .. L : \A y \in 0 .. L : x <= y => ~(x > y)
  OBVIOUS
<1>2. Halves(g, needle, array)
  <2>1. ASSUME NEW s \in 0 .. L, NEW e \in 0 .. L
        PROVE  (s > e \/ Within(needle, array, s, e)) = Halve(g, needle, array, s, e)
    <3>1. CASE s < e
      <4>1. ~(s > e)
        BY <3>1
      <4> HIDE DEF g
      <4>2. \A x \in 0 .. L : \A y \in 0 .. L : x <= y => g[x][y] = Within(needle, array, x, y)
        BY <1>9, <1>10, <1>11, Zenon
      <4>3. Halve(g, needle, array, s, e) = Within(needle, array, s, e)
        BY <1>1, <3>1, <4>2, HalveRight
      <4> QED
        BY <1>10, <4>1, <4>3, Zenon
    <3>2. CASE s = e
      <4>1. ~(s > e) /\ ~Within(needle, array, s, e)
        BY <3>2 DEF Within
      <4> QED
        BY <3>2, <4>1 DEF Halve
    <3>3. CASE s > e
      <4> DEFINE mid == s + ((e - s) \div 2)
      <4>1. mid \in e .. s - 1
        <5>1. mid \in Int /\ e <= mid /\ mid < s
          BY <3>3, Middle
        <5> QED
          BY <5>1
      <4>2. Halve(g, needle, array, s, e) =
                IF Before(needle, array[mid + 1]) THEN g[s][mid]
                ELSE IF Before(array[mid + 1], needle) THEN g[mid + 1][e]
                ELSE TRUE
        <5>1. s # e
          BY <3>3
        <5> QED
          BY <5>1, Zenon DEF Halve
      <4> HIDE DEF mid, g
      <4>3. g[s][mid] = TRUE /\ g[mid + 1][e] = TRUE
        <5>1. mid \in 0 .. L /\ mid + 1 \in 0 .. L /\ s > mid /\ mid + 1 > e
          BY <4>1
        <5> QED
          BY <1>9, <5>1, Zenon
      <4> QED
        BY <3>3, <4>2, <4>3, Zenon
    <3> QED
      BY <3>1, <3>2, <3>3
  <2>2. g = [s \in 0 .. L |-> [e \in 0 .. L |-> Halve(g, needle, array, s, e)]]
    <3> DEFINE h == [s \in 0 .. L |-> [e \in 0 .. L |-> Halve(g, needle, array, s, e)]]
    <3>1. \A s \in 0 .. L : g[s] = h[s]
      BY <2>1
    <3> QED
      BY <3>1
  <2> HIDE DEF g
  <2> QED
    BY <1>1, <2>2, Zenon DEF Halves
<1> HIDE DEF g
<1> DEFINE f == CHOOSE f : Halves(f, needle, array)
<1>3. Halves(f, needle, array)
  BY <1>2, Zenon
<1>4. binary_search(needle, array) = f[0][L]
  BY <1>1, Zenon DEF binary_search, Halves, Halve
<1> HIDE DEF f
<1>5. \A s \in 0 .. L : \A e \in 0 .. L : f[s][e] = Halve(f, needle, array, s, e)
  <2> DEFINE h == [s \in 0 .. L |-> [e \in 0 .. L |-> Halve(f, needle, array, s, e)]]
  <2>1. f = h
    BY <1>1, <1>3, Zenon DEF Halves
  <2>2. \A s \in 0 .. L : \A e \in 0 .. L : h[s][e] = Halve(f, needle, array, s, e)
    BY Zenon
  <2> HIDE DEF h
  <2> QED
    BY <2>1, <2>2
<1>6. \A s \in 0 .. L : \A e \in 0 .. L : s <= e => f[s][e] = Within(needle, array, s, e)
  <2> DEFINE Bad == {d \in Nat : \E s \in 0 .. L : \E e \in 0 .. L :
                        d = e - s /\ f[s][e] # Within(needle, array, s, e)}
  <2>1. SUFFICES ASSUME Bad # {} PROVE FALSE
    <3>1. ASSUME NEW s \in 0 .. L, NEW e \in 0 .. L, s <= e,
                 f[s][e] # Within(needle, array, s, e)
          PROVE  e - s \in Bad
      BY <3>1
    <3> HIDE DEF Bad
    <3> QED
      BY <3>1
  <2>2. PICK d \in Bad : \A x \in Bad : d <= x
    <3>1. Bad \in SUBSET Nat
      OBVIOUS
    <3> HIDE DEF Bad
    <3> QED
      BY <2>1, <3>1, Least
  <2>3. PICK s \in 0 .. L, e \in 0 .. L : d = e - s /\ d \in Nat /\ f[s][e] # Within(needle, array, s, e)
    BY <2>2
  <2>4. ASSUME NEW x \in 0 .. L, NEW y \in 0 .. L, x <= y, y - x < e - s
        PROVE  f[x][y] = Within(needle, array, x, y)
    <3>1. y - x \in Nat /\ ~(d <= y - x)
      BY <2>3, <2>4
    <3>2. y - x \notin Bad
      <4> HIDE DEF Bad
      <4> QED
        BY <2>2, <3>1
    <3> QED
      BY <3>1, <3>2
  <2>5. CASE s = e
    <3>1. f[s][e] = FALSE
      BY <1>5, <2>5 DEF Halve
    <3>2. ~Within(needle, array, s, e)
      BY <2>5 DEF Within
    <3> QED
      BY <1>10, <2>3, <3>1, <3>2, Zenon
  <2>6. CASE s # e
    <3>1. s < e
      BY <2>3, <2>6
    <3>2. Halve(f, needle, array, s, e) = Within(needle, array, s, e)
      BY <1>1, <2>4, <3>1, HalveRight
    <3> QED
      BY <1>5, <2>3, <3>2
  <2> QED
    BY <2>5, <2>6
<1>7. f[0][L] = Within(needle, array, 0, L)
  BY <1>6
<1>8. Within(needle, array, 0, L) <=> needle \in ToSet(array)
  BY <1>1 DEF Within, ToSet
<1> QED
  BY <1>4, <1>7, <1>8

(* The patterns of an array that come from some lines.                     *)
Held(lines, l) ==
    {Trimmed(Behind(Pattern(line), Mark(l))) :
        line \in {x \in lines : Trimmed(Pattern(x)) # <<>> /\ ArrayOf(Pattern(x)) = l}}

(* The arrays hold the patterns of these lines, in order.                  *)
HoldThose(patterns, lines) ==
    /\ patterns \in [Arrays -> Seq(String)]
    /\ \A l \in Arrays : InOrder(patterns[l]) /\ ToSet(patterns[l]) = Held(lines, l)

(* A pattern begins in its line, and goes to one of the arrays.            *)
LEMMA PatternFacts ==
    ASSUME NEW line \in String
    PROVE  /\ Pattern(line) \in String /\ ArrayOf(Pattern(line)) \in Arrays
           /\ \A l : Behind(Pattern(line), Mark(l)) \in String
<1>1. Pattern(line) \in String
  <2>1. ASSUME IsPrefix(<<".", "/">>, line) PROVE Tail(line) \in String
    <3>1. \A x, y : Len(<<x, y>>) = 2
      OBVIOUS
    <3>2. Len(<<".", "/">>) = 2
      BY <3>1, Zenon
    <3>3. Len(<<".", "/">>) <= Len(line)
      BY <2>1, Zenon DEF IsPrefix
    <3>4. 2 <= Len(line)
      BY <3>2, <3>3, Zenon
    <3> QED
      BY <3>4 DEF String
  <2> QED
    BY <2>1, Zenon DEF Pattern
<1>2. ArrayOf(Pattern(line)) \in Arrays
  BY Zenon DEF ArrayOf, Arrays
<1>3. ASSUME NEW l PROVE Mark(l) \in {0, 1, 2}
  BY DEF Mark
<1>4. ASSUME NEW p \in String, NEW n \in {0, 1, 2} PROVE Behind(p, n) \in String
  BY DEF Behind, String
<1> QED
  BY <1>1, <1>2, <1>3, <1>4

(* add_ignore_pattern() adds the pattern of its line to one of the arrays. *)
LEMMA LineAdded ==
    ASSUME NEW patterns, NEW lines, HoldThose(patterns, lines), NEW line \in String
    PROVE  HoldThose(add_ignore_pattern(patterns, line), lines \cup {line})
<1> DEFINE p == Pattern(line)
           a == ArrayOf(p)
           q == Behind(p, Mark(a))
           r == add_ignore_pattern(patterns, line)
<1>1. p \in String /\ a \in Arrays /\ q \in String
  BY PatternFacts, Zenon
<1>2. /\ patterns \in [Arrays -> Seq(String)]
      /\ \A l \in Arrays : InOrder(patterns[l]) /\ ToSet(patterns[l]) = Held(lines, l)
  BY DEF HoldThose
<1>3. ASSUME NEW l, Trimmed(p) # <<>>
      PROVE  Held(lines \cup {line}, l) =
                 IF l = a THEN Held(lines, l) \cup {Trimmed(q)} ELSE Held(lines, l)
  BY <1>3 DEF Held
<1>4. CASE Trimmed(p) = <<>>
  <2>1. r = patterns
    BY <1>4, Zenon DEF add_ignore_pattern
  <2>2. \A l : Held(lines \cup {line}, l) = Held(lines, l)
    BY <1>4 DEF Held
  <2> QED
    BY <1>2, <2>1, <2>2, Zenon DEF HoldThose
<1>5. CASE Trimmed(p) # <<>>
  <2>1. r = [patterns EXCEPT ![a] = Insert(@, q)]
    BY <1>5, Zenon DEF add_ignore_pattern
  <2> HIDE DEF p, q, a, r
  <2>2. InOrder(Insert(patterns[a], q)) /\ ToSet(Insert(patterns[a], q)) = ToSet(patterns[a]) \cup {Trimmed(q)}
    BY <1>1, <1>2, InsertRight
  <2>3. Insert(patterns[a], q) \in Seq(String)
    BY <2>2 DEF InOrder
  <2>4. r \in [Arrays -> Seq(String)] /\ r[a] = Insert(patterns[a], q)
        /\ \A l \in Arrays : l # a => r[l] = patterns[l]
    BY <1>1, <1>2, <2>1, <2>3
  <2>5. ASSUME NEW l \in Arrays
        PROVE  InOrder(r[l]) /\ ToSet(r[l]) = Held(lines \cup {line}, l)
    <3>1. CASE l = a
      BY <1>2, <1>3, <1>5, <2>2, <2>4, <3>1, Zenon
    <3>2. CASE l # a
      BY <1>2, <1>3, <1>5, <2>4, <3>2, Zenon
    <3> QED
      BY <3>1, <3>2
  <2>6. HoldThose(r, lines \cup {line})
    BY <2>4, <2>5, Zenon DEF HoldThose
  <2> QED
    BY <2>6 DEF r
<1> QED
  BY <1>4, <1>5

(* A new directory has no pattern.                                         *)
LEMMA NothingHeld == HoldThose(NoPatterns, {})
<1>1. <<>> \in Seq(String) /\ InOrder(<<>>) /\ ToSet(<<>>) = {}
  BY DEF InOrder, Sorted, ToSet
<1>2. \A l : Held({}, l) = {}
  BY DEF Held
<1>3. NoPatterns \in [Arrays -> Seq(String)] /\ \A l \in Arrays : NoPatterns[l] = <<>>
  BY <1>1 DEF NoPatterns
<1> QED
  BY <1>1, <1>2, <1>3 DEF HoldThose

-----------------------------------------------------------------------------
(***************************************************************************)
(* The way up.                                                             *)
(***************************************************************************)
(* Every directory is linked to one above it, and those between hold       *)
(* nothing.                                                                *)
Linked ==
    \A k \in DOMAIN igs :
        /\ igs[k].parent \in 0 .. k - 1 /\ (igs[k].parent = 0 <=> k = 1)
        /\ \A i \in igs[k].parent + 1 .. k - 1 : is_empty(igs[i])

(* The function of the way up: a directory, and the way of its parent.     *)
Ups(f) ==
    f = [i \in 0 .. Len(igs) |-> IF i = 0 THEN {} ELSE {i} \cup f[igs[i].parent]]

(* There is such a function: what every set has that is closed under       *)
(* parents.                                                                *)
LEMMA UpsExist ==
    ASSUME NEW n \in Nat, n = Len(igs), \A i \in 1 .. n : igs[i].parent \in 0 .. i - 1
    PROVE  \E f : Ups(f)
<1> DEFINE Closed(S) == \A x \in S : x # 0 => igs[x].parent \in S
           Sets(i) == {S \in SUBSET (0 .. n) : i \in S /\ Closed(S)}
           Above(i) == {j \in 1 .. n : \A S \in Sets(i) : j \in S}
           g == [i \in 0 .. n |-> Above(i)]
<1>1. Above(0) = {}
  <2>1. {0} \in Sets(0)
    OBVIOUS
  <2>2. \A j \in 1 .. n : j \notin {0}
    OBVIOUS
  <2> HIDE DEF Sets
  <2> QED
    BY <2>1, <2>2
<1>2. ASSUME NEW i \in 1 .. n PROVE Above(i) = {i} \cup Above(igs[i].parent)
  <2>1. PICK p \in 0 .. i - 1 : p = igs[i].parent
    OBVIOUS
  <2>2. ASSUME NEW j \in {i} \cup Above(p) PROVE j \in Above(i)
    <3>1. ASSUME NEW S \in Sets(i) PROVE S \in Sets(p) /\ i \in S
      BY <2>1
    <3> HIDE DEF Sets
    <3> QED
      BY <3>1
  <2>3. ASSUME NEW j \in Above(i), j # i PROVE j \in Above(p)
    <3>1. ASSUME NEW S \in Sets(p) PROVE S \cup {i} \in Sets(i)
      <4>1. S \cup {i} \in SUBSET (0 .. n)
        OBVIOUS
      <4> QED
        BY <2>1, <4>1
    <3> HIDE DEF Sets
    <3> QED
      BY <2>3, <3>1
  <2> HIDE DEF Above
  <2> QED
    BY <2>1, <2>2, <2>3
<1> HIDE DEF Above
<1>3. \A i \in 0 .. n : g[i] = IF i = 0 THEN {} ELSE {i} \cup g[igs[i].parent]
  <2>1. ASSUME NEW i \in 1 .. n PROVE g[i] = {i} \cup g[igs[i].parent]
    <3>1. igs[i].parent \in 0 .. n
      OBVIOUS
    <3> QED
      BY <1>2, <3>1
  <2>2. g[0] = {}
    BY <1>1
  <2>3. \A i \in 0 .. n : i # 0 => i \in 1 .. n
    OBVIOUS
  <2> HIDE DEF g
  <2> QED
    BY <2>1, <2>2, <2>3, Zenon
<1>4. g = [i \in 0 .. n |-> IF i = 0 THEN {} ELSE {i} \cup g[igs[i].parent]]
  <2> DEFINE h == [i \in 0 .. n |-> IF i = 0 THEN {} ELSE {i} \cup g[igs[i].parent]]
  <2>1. \A i \in 0 .. n : g[i] = h[i]
    BY <1>3
  <2> QED
    BY <2>1
<1> HIDE DEF g
<1> QED
  BY <1>4, Zenon DEF Ups

(* The parents of those on the way up are on it.                           *)
LEMMA ChainFacts ==
    ASSUME NEW n \in Nat \ {0}, n = Len(igs), \A i \in 1 .. n : igs[i].parent \in 0 .. i - 1
    PROVE  /\ n \in Chain(n) /\ Chain(n) \subseteq 1 .. n
           /\ \A j \in Chain(n) : igs[j].parent = 0 \/ igs[j].parent \in Chain(n)
<1> DEFINE f == CHOOSE f : Ups(f)
<1>1. Ups(f)
  <2>1. \E x : Ups(x)
    BY UpsExist
  <2> QED
    BY <2>1, Zenon
<1>2. Chain(n) = f[n]
  BY Zenon DEF Chain, Ups
<1> HIDE DEF f
<1>3. \A i \in 0 .. n : f[i] = IF i = 0 THEN {} ELSE {i} \cup f[igs[i].parent]
  <2> DEFINE h == [i \in 0 .. n |-> IF i = 0 THEN {} ELSE {i} \cup f[igs[i].parent]]
  <2>1. f = h
    BY <1>1, Zenon DEF Ups
  <2>2. \A i \in 0 .. n : h[i] = IF i = 0 THEN {} ELSE {i} \cup f[igs[i].parent]
    BY Zenon
  <2> HIDE DEF h
  <2> QED
    BY <2>1, <2>2
<1> DEFINE Good(i) == /\ f[i] \subseteq 1 .. i
                      /\ \A j \in f[i] : igs[j].parent = 0 \/ igs[j].parent \in f[i]
<1>4. \A i \in 0 .. n : Good(i)
  <2> DEFINE Bad == {i \in 0 .. n : ~Good(i)}
  <2>1. SUFFICES ASSUME Bad # {} PROVE FALSE
    OBVIOUS
  <2>2. PICK i \in Bad : \A x \in Bad : i <= x
    <3>1. Bad \in SUBSET Nat
      OBVIOUS
    <3> HIDE DEF Bad
    <3> QED
      BY <2>1, <3>1, Least
  <2>3. \A x \in 0 .. n : x < i => Good(x)
    BY <2>2
  <2>4. CASE i = 0
    BY <1>3, <2>2, <2>4
  <2>5. CASE i # 0
    <3>1. PICK p \in 0 .. i - 1 : p = igs[i].parent /\ i \in 1 .. n
      BY <2>2, <2>5
    <3>2. f[i] = {i} \cup f[p]
      BY <1>3, <2>5, <3>1
    <3>3. Good(p)
      BY <2>3, <3>1
    <3>4. p # 0 => p \in f[p]
      <4>1. p \in 0 .. n
        BY <3>1
      <4> QED
        BY <1>3, <4>1, Zenon
    <3>5. Good(i)
      BY <3>1, <3>2, <3>3, <3>4
    <3> QED
      BY <2>2, <3>5
  <2> QED
    BY <2>4, <2>5
<1>5. n \in f[n]
  <2>1. n \in 0 .. n /\ n # 0
    OBVIOUS
  <2> QED
    BY <1>3, <2>1, Zenon
<1>6. Good(n)
  BY <1>4
<1> QED
  BY <1>2, <1>5, <1>6

(* Who is not on the way up has no pattern.                                *)
LEMMA SkippedAreEmpty ==
    ASSUME NEW n \in Nat \ {0}, n = Len(igs), DOMAIN igs = 1 .. n, Linked,
           NEW k \in 1 .. n, k \notin Chain(n)
    PROVE  is_empty(igs[k])
<1>1. \A i \in 1 .. n : igs[i].parent \in 0 .. i - 1
  BY DEF Linked
<1>2. /\ n \in Chain(n) /\ Chain(n) \subseteq 1 .. n
      /\ \A j \in Chain(n) : igs[j].parent = 0 \/ igs[j].parent \in Chain(n)
  BY <1>1, ChainFacts
<1> DEFINE S == {m \in Chain(n) : m > k}
<1>3. PICK m \in S : \A x \in S : m <= x
  <2>1. n \in S /\ S \in SUBSET Nat
    BY <1>2
  <2> HIDE DEF S
  <2> QED
    BY <2>1, Least
<1>4. PICK p \in 0 .. m - 1 : p = igs[m].parent /\ m \in 1 .. n
  BY <1>1, <1>2, <1>3
<1>5. p < k
  <2>1. p = 0 \/ p \in Chain(n)
    BY <1>2, <1>3, <1>4
  <2>2. p # k
    BY <2>1
  <2>3. ~(p > k)
    BY <1>3, <1>4, <2>1
  <2> QED
    BY <1>4, <2>2, <2>3
<1>6. k \in p + 1 .. m - 1
  BY <1>3, <1>4, <1>5
<1> QED
  BY <1>4, <1>6 DEF Linked

-----------------------------------------------------------------------------
(***************************************************************************)
(* The inductive invariant: the types, the links, and that each directory  *)
(* holds the patterns of the lines it was given.                           *)
(***************************************************************************)
Ignores == [patterns : [Arrays -> Seq(String)], parent : Nat, abs_path : String]

(* The types, and as many lists of lines and names as directories.         *)
Shape ==
    /\ opts \in Options /\ path_start \in String
    /\ igs \in Seq(Ignores) /\ Len(igs) \in 1 .. MaxDepth + 2
    /\ Len(given) = Len(igs) /\ given \in Seq(SUBSET Lines)
    /\ dirs \in Seq(String) /\ Len(dirs) = IF Len(igs) = 1 THEN 0 ELSE Len(igs) - 2

(* Every directory holds the patterns of its lines.                        *)
Kept == \A k \in DOMAIN igs : HoldThose(igs[k].patterns, given[k])

(* The inductive invariant.                                                *)
IInv == Shape /\ Linked /\ Kept

(* A path made of two.                                                     *)
LEMMA JoinedPath ==
    ASSUME NEW s \in String, NEW t \in String
    PROVE  s \o <<"/">> \o t \in String
<1>1. <<"/">> \in String
  <2>1. "/" \in ToSet(Ascii)
    BY CodeFacts
  <2>2. \A S : \A x \in S : <<x>> \in Seq(S)
    OBVIOUS
  <2> QED
    BY <2>1, <2>2, Zenon DEF String
<1>2. \A S : \A x \in Seq(S) : \A y \in Seq(S) : x \o y \in Seq(S)
  OBVIOUS
<1> QED
  BY <1>1, <1>2, Zenon DEF String

(* The invariant holds at first,                                           *)
LEMMA InitRight == ASSUME Init PROVE IInv
<1>1. igs = <<[patterns |-> NoPatterns, parent |-> 0, abs_path |-> <<>>]>>
      /\ given = <<{}>> /\ dirs = <<>> /\ opts \in Options /\ path_start \in Tops
  BY DEF Init
<1>2. NoPatterns \in [Arrays -> Seq(String)] /\ HoldThose(NoPatterns, {})
  BY NothingHeld DEF HoldThose
<1>3. <<>> \in String
  BY DEF String
<1>4. Len(igs) = 1 /\ igs \in Seq(Ignores) /\ DOMAIN igs = 1 .. 1 /\ igs[1].patterns = NoPatterns
      /\ igs[1].parent = 0
  BY <1>1, <1>2, <1>3 DEF Ignores
<1>5. Len(given) = 1 /\ given \in Seq(SUBSET Lines) /\ given[1] = {}
  BY <1>1
<1>6. path_start \in String /\ 1 \in 1 .. MaxDepth + 2
  BY <1>1, InputsAssumption
<1>7. Shape
  BY <1>1, <1>4, <1>5, <1>6 DEF Shape
<1>8. Linked
  BY <1>4 DEF Linked
<1>9. Kept
  <2>1. \A k \in DOMAIN igs : k = 1
    BY <1>4
  <2> QED
    BY <1>2, <1>4, <1>5, <2>1, Zenon DEF Kept
<1> QED
  BY <1>7, <1>8, <1>9 DEF IInv

(* when a line is read,                                                    *)
LEMMA LoadRight ==
    ASSUME IInv, NEW line \in Lines, LoadLine(line)
    PROVE  IInv'
<1>1. PICK n \in 1 .. MaxDepth + 2 : n = Len(igs) /\ DOMAIN igs = 1 .. n /\ DOMAIN given = 1 .. n
      /\ igs \in Seq(Ignores) /\ given \in Seq(SUBSET Lines)
  BY DEF IInv, Shape
<1>0. MaxDepth \in Nat /\ n \in Nat /\ n \in 1 .. n /\ line \in String
  BY <1>1, InputsAssumption
<1> DEFINE new == add_ignore_pattern(igs[n].patterns, line)
<1>2. /\ igs' = [igs EXCEPT ![n].patterns = new]
      /\ given' = [given EXCEPT ![n] = @ \cup {line}]
      /\ opts' = opts /\ path_start' = path_start /\ dirs' = dirs
  BY <1>1 DEF LoadLine
<1>3. HoldThose(igs[n].patterns, given[n])
  BY <1>0, <1>1 DEF IInv, Kept
<1>4. HoldThose(new, given[n] \cup {line})
  BY <1>0, <1>3, LineAdded
<1> HIDE DEF new
<1>5. new \in [Arrays -> Seq(String)] /\ igs[n] \in Ignores
  BY <1>0, <1>1, <1>4 DEF HoldThose
<1>6. [igs[n] EXCEPT !.patterns = new] \in Ignores
  BY <1>5 DEF Ignores
<1>7. igs' \in Seq(Ignores) /\ Len(igs') = n /\ DOMAIN igs' = 1 .. n
      /\ \A k \in 1 .. n : igs'[k] = IF k = n THEN [igs[n] EXCEPT !.patterns = new] ELSE igs[k]
  BY <1>0, <1>1, <1>2, <1>6
<1>8. given' \in Seq(SUBSET Lines) /\ Len(given') = n
      /\ \A k \in 1 .. n : given'[k] = IF k = n THEN given[n] \cup {line} ELSE given[k]
  BY <1>0, <1>1, <1>2
<1>9. Shape'
  BY <1>1, <1>2, <1>7, <1>8 DEF IInv, Shape
<1>10. igs'[n].patterns = new /\ igs'[n].parent = igs[n].parent
  BY <1>0, <1>5, <1>7 DEF Ignores
<1>11. Kept'
  <2>1. ASSUME NEW k \in 1 .. n PROVE HoldThose(igs'[k].patterns, given'[k])
    <3>1. CASE k = n
      BY <1>4, <1>8, <1>10, <3>1
    <3>2. CASE k # n
      <4>1. igs'[k] = igs[k] /\ given'[k] = given[k]
        BY <1>7, <1>8, <3>2
      <4> QED
        BY <1>1, <4>1 DEF IInv, Kept
    <3> QED
      BY <3>1, <3>2
  <2>2. \A k \in 1 .. n : HoldThose(igs'[k].patterns, given'[k])
    BY <2>1
  <2> QED
    BY <1>7, <2>2, Zenon DEF Kept
<1>12. Linked'
  <2>1. ASSUME NEW k \in 1 .. n
        PROVE  /\ igs'[k].parent \in 0 .. k - 1 /\ (igs'[k].parent = 0 <=> k = 1)
               /\ \A i \in igs'[k].parent + 1 .. k - 1 : is_empty(igs'[i])
    <3>1. igs'[k].parent = igs[k].parent
      BY <1>7, <1>10
    <3>2. /\ igs[k].parent \in 0 .. k - 1 /\ (igs[k].parent = 0 <=> k = 1)
          /\ \A i \in igs[k].parent + 1 .. k - 1 : is_empty(igs[i])
      BY <1>1 DEF IInv, Linked
    <3>3. ASSUME NEW i \in igs[k].parent + 1 .. k - 1 PROVE igs'[i] = igs[i]
      <4>1. PICK x \in 0 .. k - 1 : x = igs[k].parent
        BY <3>2
      <4>2. i \in 1 .. n /\ i # n
        BY <4>1
      <4> QED
        BY <1>7, <4>2
    <3> QED
      BY <3>1, <3>2, <3>3
  <2>2. \A k \in 1 .. n :
            /\ igs'[k].parent \in 0 .. k - 1 /\ (igs'[k].parent = 0 <=> k = 1)
            /\ \A i \in igs'[k].parent + 1 .. k - 1 : is_empty(igs'[i])
    BY <2>1
  <2> QED
    BY <1>7, <2>2, Zenon DEF Linked, is_empty
<1> QED
  BY <1>9, <1>11, <1>12 DEF IInv

(* A new directory, which takes the place of one without patterns as the   *)
(* child of that one's parent.                                             *)
LEMMA DirectoryAdded ==
    ASSUME IInv, NEW dirname \in String, AddDirectory(dirname), Len(igs) < MaxDepth + 2
    PROVE  /\ igs' \in Seq(Ignores) /\ Len(igs') = Len(igs) + 1
           /\ given' \in Seq(SUBSET Lines) /\ Len(given') = Len(given) + 1
           /\ Linked' /\ Kept'
<1>1. PICK n \in 1 .. MaxDepth + 2 : n = Len(igs) /\ DOMAIN igs = 1 .. n /\ DOMAIN given = 1 .. n
      /\ igs \in Seq(Ignores) /\ given \in Seq(SUBSET Lines) /\ Len(given) = n
  BY DEF IInv, Shape
<1>0. MaxDepth \in Nat /\ n \in Nat /\ n \in 1 .. n
  BY <1>1, InputsAssumption
<1>2. igs[n] \in Ignores
  BY <1>0, <1>1
<1>3. PICK p \in 0 .. n - 1 : p = igs[n].parent
  BY <1>0, <1>1 DEF IInv, Linked
<1> DEFINE new == init_ignore(n, dirname)
           up  == IF is_empty(igs[n]) /\ p # 0 THEN p ELSE n
           abs == IF igs[n].abs_path # <<>> THEN igs[n].abs_path \o <<"/">> \o dirname
                  ELSE IF dirname = <<".">> THEN <<>> ELSE dirname
<1>4. new = [patterns |-> NoPatterns, parent |-> up, abs_path |-> abs]
  BY <1>3, Zenon DEF init_ignore
<1>5. abs \in String
  <2>1. igs[n].abs_path \in String
    BY <1>2 DEF Ignores
  <2>2. <<>> \in String
    BY EmptySeq, Zenon DEF String
  <2> QED
    BY <2>1, <2>2, JoinedPath, Zenon
<1>6. HoldThose(NoPatterns, {}) /\ NoPatterns \in [Arrays -> Seq(String)]
  BY NothingHeld DEF HoldThose
<1>7. igs' = Append(igs, new) /\ given' = Append(given, {})
  BY <1>1, Zenon DEF AddDirectory
<1>8. up \in 1 .. n
  BY <1>0, <1>3
<1>9. \A i \in up + 1 .. n : is_empty(igs[i])
  <2>1. CASE is_empty(igs[n]) /\ p # 0
    <3>1. \A i \in p + 1 .. n - 1 : is_empty(igs[i])
      BY <1>0, <1>1, <1>3 DEF IInv, Linked
    <3>2. \A i \in p + 1 .. n : i \in p + 1 .. n - 1 \/ i = n
      BY <1>0
    <3>3. up = p
      BY <2>1
    <3> HIDE DEF up
    <3> QED
      BY <2>1, <3>1, <3>2, <3>3
  <2>2. CASE ~(is_empty(igs[n]) /\ p # 0)
    BY <1>0, <2>2
  <2> QED
    BY <2>1, <2>2
<1> HIDE DEF up, abs, new
<1>10. new \in Ignores /\ new.patterns = NoPatterns /\ new.parent = up
  BY <1>4, <1>5, <1>6, <1>8 DEF Ignores
<1>11. igs' \in Seq(Ignores) /\ Len(igs') = n + 1 /\ DOMAIN igs' = 1 .. n + 1
       /\ igs'[n + 1] = new /\ \A k \in 1 .. n : igs'[k] = igs[k]
  BY <1>0, <1>1, <1>7, <1>10
<1>12. given' \in Seq(SUBSET Lines) /\ Len(given') = n + 1
       /\ given'[n + 1] = {} /\ \A k \in 1 .. n : given'[k] = given[k]
  BY <1>0, <1>1, <1>7
<1>13. \A k \in 1 .. n + 1 : k = n + 1 \/ k \in 1 .. n
  BY <1>0
<1>14. Kept'
  <2>1. ASSUME NEW k \in 1 .. n + 1 PROVE HoldThose(igs'[k].patterns, given'[k])
    <3>1. CASE k = n + 1
      BY <1>6, <1>10, <1>11, <1>12, <3>1
    <3>2. CASE k \in 1 .. n
      <4>1. igs'[k] = igs[k] /\ given'[k] = given[k]
        BY <1>11, <1>12, <3>2
      <4> QED
        BY <1>1, <3>2, <4>1 DEF IInv, Kept
    <3> QED
      BY <1>13, <3>1, <3>2
  <2>2. \A k \in 1 .. n + 1 : HoldThose(igs'[k].patterns, given'[k])
    BY <2>1
  <2> QED
    BY <1>11, <2>2, Zenon DEF Kept
<1>15. Linked'
  <2>1. ASSUME NEW k \in 1 .. n + 1
        PROVE  /\ igs'[k].parent \in 0 .. k - 1 /\ (igs'[k].parent = 0 <=> k = 1)
               /\ \A i \in igs'[k].parent + 1 .. k - 1 : is_empty(igs'[i])
    <3>1. CASE k = n + 1
      <4>1. igs'[k].parent = up /\ k - 1 = n
        BY <1>0, <1>10, <1>11, <3>1
      <4>2. \A i \in up + 1 .. n : i \in 1 .. n
        BY <1>0, <1>8
      <4>3. \A i \in up + 1 .. n : is_empty(igs'[i])
        BY <1>9, <1>11, <4>2
      <4> QED
        BY <1>0, <1>8, <3>1, <4>1, <4>3
    <3>2. CASE k \in 1 .. n
      <4>1. /\ igs[k].parent \in 0 .. k - 1 /\ (igs[k].parent = 0 <=> k = 1)
            /\ \A i \in igs[k].parent + 1 .. k - 1 : is_empty(igs[i])
        BY <1>1, <3>2 DEF IInv, Linked
      <4>2. PICK x \in 0 .. k - 1 : x = igs[k].parent
        BY <4>1
      <4>3. \A i \in x + 1 .. k - 1 : i \in 1 .. n
        BY <1>0, <3>2
      <4> QED
        BY <1>11, <3>2, <4>1, <4>2, <4>3
    <3> QED
      BY <1>13, <3>1, <3>2
  <2>2. \A k \in 1 .. n + 1 :
            /\ igs'[k].parent \in 0 .. k - 1 /\ (igs'[k].parent = 0 <=> k = 1)
            /\ \A i \in igs'[k].parent + 1 .. k - 1 : is_empty(igs'[i])
    BY <2>1
  <2> QED
    BY <1>11, <2>2, Zenon DEF Linked, is_empty
<1> QED
  BY <1>1, <1>11, <1>12, <1>14, <1>15

(* and after every other step.                                             *)
LEMMA StepRight == ASSUME IInv, [Next]_vars PROVE IInv'
<1>1. CASE UNCHANGED vars
  <2>1. opts' = opts /\ igs' = igs /\ path_start' = path_start /\ given' = given /\ dirs' = dirs
    BY <1>1 DEF vars
  <2>2. Shape' /\ Linked' /\ Kept'
    BY <2>1, ZenonT(30) DEF IInv, Shape, Linked, Kept, is_empty
  <2> QED
    BY <2>2 DEF IInv
<1>2. CASE \E line \in Lines : LoadLine(line)
  BY <1>2, LoadRight
<1>3. CASE SearchPath
  <2>1. /\ Len(igs) = 1 /\ AddDirectory(<<>>)
        /\ opts' = opts /\ path_start' = path_start /\ dirs' = dirs
    BY <1>3 DEF SearchPath
  <2>2. <<>> \in String /\ Len(igs) < MaxDepth + 2 /\ 2 \in 1 .. MaxDepth + 2
    BY <2>1, InputsAssumption DEF String
  <2>3. /\ igs' \in Seq(Ignores) /\ Len(igs') = Len(igs) + 1
        /\ given' \in Seq(SUBSET Lines) /\ Len(given') = Len(given) + 1
        /\ Linked' /\ Kept'
    BY <2>1, <2>2, DirectoryAdded
  <2>4. Len(igs') = 2 /\ Len(given') = 2 /\ Len(dirs') = 0
    <3>1. Len(given) = 1 /\ Len(dirs) = 0
      BY <2>1 DEF IInv, Shape
    <3> QED
      BY <2>1, <2>3, <3>1
  <2>5. Shape'
    <3>1. opts \in Options /\ path_start \in String /\ dirs \in Seq(String)
      BY DEF IInv, Shape
    <3>2. Len(igs') \in 1 .. MaxDepth + 2 /\ Len(given') = Len(igs')
          /\ Len(dirs') = IF Len(igs') = 1 THEN 0 ELSE Len(igs') - 2
      BY <2>2, <2>4
    <3> QED
      BY <2>1, <2>3, <3>1, <3>2, Zenon DEF Shape
  <2> QED
    BY <2>3, <2>5 DEF IInv
<1>4. CASE \E dirname \in DirNames : Descend(dirname)
  <2>1. PICK dirname \in DirNames : Descend(dirname)
    BY <1>4
  <2>2. /\ Len(igs) > 1 /\ Len(dirs) < MaxDepth /\ AddDirectory(dirname)
        /\ opts' = opts /\ dirs' = Append(dirs, dirname)
        /\ path_start' = IF path_start = <<>> THEN dirname ELSE path_start \o <<"/">> \o dirname
    BY <2>1, Zenon DEF Descend
  <2>3. dirname \in String
    BY InputsAssumption
  <2>4. PICK n \in 1 .. MaxDepth + 2 : n = Len(igs) /\ n = Len(given)
    BY DEF IInv, Shape
  <2>5. MaxDepth \in Nat /\ n \in Nat /\ n > 1 /\ Len(dirs) = n - 2 /\ n < MaxDepth + 2
    BY <2>2, <2>4, InputsAssumption, SMTT(40) DEF IInv, Shape
  <2>6. /\ igs' \in Seq(Ignores) /\ Len(igs') = Len(igs) + 1
        /\ given' \in Seq(SUBSET Lines) /\ Len(given') = Len(given) + 1
        /\ Linked' /\ Kept'
    BY <2>2, <2>3, <2>4, <2>5, DirectoryAdded
  <2>7. dirs' \in Seq(String) /\ Len(dirs') = n - 1
    BY <2>2, <2>3, <2>5 DEF IInv, Shape
  <2>8. path_start' \in String
    BY <2>2, <2>3, JoinedPath, Zenon DEF IInv, Shape
  <2>9. Len(igs') = n + 1 /\ Len(given') = n + 1 /\ n + 1 \in 1 .. MaxDepth + 2
        /\ n + 1 # 1 /\ (n + 1) - 2 = n - 1
    <3>1. Len(igs') = n + 1 /\ Len(given') = n + 1
      BY <2>4, <2>6, Zenon
    <3>2. n + 1 \in 1 .. MaxDepth + 2 /\ n + 1 # 1 /\ (n + 1) - 2 = n - 1
      BY <2>5
    <3> QED
      BY <3>1, <3>2
  <2>10. Shape'
    BY <2>2, <2>6, <2>7, <2>8, <2>9 DEF IInv, Shape
  <2> QED
    BY <2>6, <2>10 DEF IInv
<1> QED
  BY <1>1, <1>2, <1>3, <1>4 DEF Next

(* It holds in every execution.                                            *)
LEMMA Invariant == Spec => []IInv
<1>1. Init => IInv
  BY InitRight
<1>2. IInv /\ [Next]_vars => IInv'
  BY StepRight
<1> QED
  BY <1>1, <1>2, PTL DEF Spec

-----------------------------------------------------------------------------
(***************************************************************************)
(* What follows from it.                                                   *)
(***************************************************************************)
(* Whatever the lines and their order, the arrays that binary_search()     *)
(* relies on are in the order of strcmp(), no pattern ends in a blank, and *)
(* each directory is linked to one above it.                               *)
THEOREM TypeCorrect == Spec => []TypeOK
<1>1. ASSUME IInv PROVE TypeOK
  <2>1. PICK n \in 1 .. MaxDepth + 2 : n = Len(igs) /\ DOMAIN igs = 1 .. n
    BY <1>1 DEF IInv, Shape
  <2>2. n \in Int /\ Len(dirs) = IF n = 1 THEN 0 ELSE n - 2
    BY <1>1, <2>1, InputsAssumption DEF IInv, Shape
  <2>3. Len(dirs) = Max({Len(igs), 2}) - 2
    <3>1. Max({n, 2}) = IF n <= 2 THEN 2 ELSE n
      <4>1. 2 \in Int
        OBVIOUS
      <4> QED
        BY <2>2, <4>1, MinMax, Zenon
    <3> QED
      BY <2>1, <2>2, <3>1
  <2>4. Len(given) = Len(igs) /\ Len(igs) <= MaxDepth + 2 /\ opts \in Options
    BY <1>1, <2>1, InputsAssumption DEF IInv, Shape
  <2>5. ASSUME NEW k \in DOMAIN igs, NEW l \in Arrays
        PROVE  LET array == igs[k].patterns[l]
               IN  /\ \A p \in ToSet(array) : Trimmed(p) = p
                   /\ \A i \in 1 .. Len(array) - 1 : ~Before(array[i + 1], array[i])
    <3>1. InOrder(igs[k].patterns[l])
      BY <1>1, <2>5 DEF IInv, Kept, HoldThose
    <3>2. ASSUME NEW a, InOrder(a), NEW i \in 1 .. Len(a) - 1 PROVE ~Before(a[i + 1], a[i])
      <4>1. i \in DOMAIN a /\ i + 1 \in DOMAIN a /\ i < i + 1
        BY <3>2 DEF InOrder
      <4> QED
        BY <3>2, <4>1, Zenon DEF InOrder, Sorted
    <3> QED
      BY <3>1, <3>2 DEF InOrder
  <2>6. \A k \in DOMAIN igs : igs[k].parent \in 0 .. k - 1 /\ (igs[k].parent = 0 <=> k = 1)
    BY <1>1 DEF IInv, Linked
  <2> QED
    BY <2>3, <2>4, <2>5, <2>6, Zenon DEF TypeOK
<1> QED
  BY <1>1, Invariant, PTL

(* path_ignore_search() and the rest of a lookup, if it went through all   *)
(* the lines of one directory.                                             *)
PathIgnored(lines, abs_path, path, filename) ==
    LET temp  == FullName(path, filename)
        rest  == Behind(temp, Len(abs_path))
        slash_filename == IF rest # <<>> /\ rest[1] = "/" THEN Tail(rest) ELSE rest
        matches(l, s) == \E p \in Held(lines, l) : ag_fnmatch(p, s)
    IN  \/ filename \in Held(lines, "names")
        \/ /\ IsPrefix(abs_path, temp)
           /\ \/ slash_filename \in Held(lines, "names") \cup Held(lines, "slash_names")
              \/ \E p \in Held(lines, "names") : NameSomewhere(slash_filename, p)
              \/ matches("slash_regexes", slash_filename)
        \/ ~matches("invert_regexes", filename) /\ matches("regexes", filename)

(* The lines of one directory drop the entry.                              *)
LinesDrop(lines, abs_path, path, e) ==
    \/ Extension(e.name) # <<>> /\ Extension(e.name) \in Held(lines, "extensions")
    \/ PathIgnored(lines, abs_path, path, e.name)
    \/ e.type = "dir" /\ PathIgnored(lines, abs_path, path, e.name \o <<"/">>)

(* The lines of every directory from the top of the walk down to its own   *)
(* decide whether an entry is listed.                                      *)
EveryLineCounts ==
    \A e \in Entries :
        filename_filter(path_start, e) <=>
            /\ Listable(e)
            /\ \/ opts.search_all_files /\ ~opts.path_to_ignore
               \/ \A k \in DOMAIN igs : ~LinesDrop(given[k], igs[k].abs_path, path_start, e)

(* What is left of a string is one.                                        *)
LEMMA SequenceFacts ==
    ASSUME NEW s \in String
    PROVE  /\ s # <<>> => Tail(s) \in String
           /\ \A n \in Nat : Behind(s, n) \in String
           /\ Len(s) \in Nat
BY DEF String, Behind

(* The path that is looked up is a string.                                 *)
LEMMA FullNameFacts ==
    ASSUME NEW path \in String, NEW filename \in String
    PROVE  FullName(path, filename) \in String
<1> DEFINE from == IF path # <<>> /\ path[1] = "." THEN Tail(path) ELSE path
           temp == from \o <<"/">> \o filename
<1>1. from \in String
  BY SequenceFacts, Zenon
<1>2. temp \in String
  BY <1>1, JoinedPath, Zenon
<1>3. temp # <<>>
  <2>1. \A x, y, z : x \in String /\ z \in String => x \o <<y>> \o z # <<>>
    BY DEF String
  <2> QED
    BY <1>1, <2>1, Zenon
<1>4. FullName(path, filename) = IF temp[1] = "/" THEN Tail(temp) ELSE temp
  BY Zenon DEF FullName
<1> HIDE DEF temp
<1> QED
  BY <1>2, <1>3, <1>4, SequenceFacts, Zenon

(* The search by halves finds what an array holds.                         *)
LEMMA ArrayFacts ==
    ASSUME NEW patterns, NEW lines, HoldThose(patterns, lines), NEW l \in Arrays
    PROVE  /\ \A s \in String : binary_search(s, patterns[l]) <=> s \in Held(lines, l)

           /\ patterns[l] = <<>> => Held(lines, l) = {}
<1>1. InOrder(patterns[l]) /\ ToSet(patterns[l]) = Held(lines, l)
  BY DEF HoldThose
<1>2. \A s \in String : binary_search(s, patterns[l]) <=> s \in Held(lines, l)
  BY <1>1, BinarySearchCorrect
<1>3. ToSet(patterns[l]) = {patterns[l][k] : k \in DOMAIN patterns[l]}
  BY DEF ToSet
<1>4. patterns[l] = <<>> => Held(lines, l) = {}
  BY <1>1, <1>3
<1> QED
  BY <1>1, <1>2, <1>3, <1>4

(* path_ignore_search() looks at all the patterns of the directory.        *)
LEMMA PathRight ==
    ASSUME NEW ig, NEW lines, HoldThose(ig.patterns, lines), ig.abs_path \in String,
           NEW path \in String, NEW filename \in String
    PROVE  path_ignore_search(ig, path, filename)
               <=> PathIgnored(lines, ig.abs_path, path, filename)
<1> DEFINE temp == FullName(path, filename)
           rest == Behind(temp, Len(ig.abs_path))
           slash_filename == IF rest # <<>> /\ rest[1] = "/" THEN Tail(rest) ELSE rest
           A(l) == ig.patterns[l]
           H(l) == Held(lines, l)
<1>1. slash_filename \in String
  <2>1. temp \in String /\ Len(ig.abs_path) \in Nat
    BY FullNameFacts, SequenceFacts
  <2>2. rest \in String
    BY <2>1, SequenceFacts, Zenon
  <2> HIDE DEF rest
  <2> QED
    BY <2>2, SequenceFacts, Zenon
<1>2. ASSUME NEW l \in Arrays, NEW s \in String
      PROVE  /\ binary_search(s, A(l)) <=> s \in H(l)
             /\ (\E k \in DOMAIN A(l) : ag_fnmatch(A(l)[k], s)) <=> \E p \in H(l) : ag_fnmatch(p, s)
             /\ (\E k \in DOMAIN A(l) : NameSomewhere(s, A(l)[k])) <=> \E p \in H(l) : NameSomewhere(s, p)
  <2>1. ToSet(A(l)) = H(l)
    BY DEF HoldThose
  <2>2. binary_search(s, A(l)) <=> s \in H(l)
    BY ArrayFacts
  <2> QED
    BY <2>1, <2>2, Zenon DEF ToSet
<1>3. {"names", "slash_names", "regexes", "invert_regexes", "slash_regexes"} \subseteq Arrays
  BY DEF Arrays
<1>4. UnderPath(ig, path, filename) <=>
          /\ IsPrefix(ig.abs_path, temp)
          /\ \/ slash_filename \in H("names")
             \/ slash_filename \in H("slash_names")
             \/ \E p \in H("names") : NameSomewhere(slash_filename, p)
             \/ \E p \in H("slash_regexes") : ag_fnmatch(p, slash_filename)
  <2>1. UnderPath(ig, path, filename) <=>
          /\ IsPrefix(ig.abs_path, temp)
          /\ \/ binary_search(slash_filename, A("names"))
             \/ binary_search(slash_filename, A("slash_names"))
             \/ \E k \in DOMAIN A("names") : NameSomewhere(slash_filename, A("names")[k])
             \/ \E k \in DOMAIN A("slash_regexes") : ag_fnmatch(A("slash_regexes")[k], slash_filename)
    BY Zenon DEF UnderPath
  <2>2. "names" \in Arrays /\ "slash_names" \in Arrays /\ "slash_regexes" \in Arrays
    BY <1>3
  <2> HIDE DEF slash_filename, A, H, temp
  <2>3. /\ binary_search(slash_filename, A("names")) <=> slash_filename \in H("names")
        /\ binary_search(slash_filename, A("slash_names")) <=> slash_filename \in H("slash_names")
        /\ (\E k \in DOMAIN A("names") : NameSomewhere(slash_filename, A("names")[k]))
               <=> \E p \in H("names") : NameSomewhere(slash_filename, p)
        /\ (\E k \in DOMAIN A("slash_regexes") : ag_fnmatch(A("slash_regexes")[k], slash_filename))
               <=> \E p \in H("slash_regexes") : ag_fnmatch(p, slash_filename)
    BY <1>1, <1>2, <2>2, Zenon
  <2> QED
    BY <2>1, <2>3, Zenon
<1>5. path_ignore_search(ig, path, filename) <=>
          \/ filename \in H("names")
          \/ UnderPath(ig, path, filename)
          \/ /\ ~\E p \in H("invert_regexes") : ag_fnmatch(p, filename)
             /\ \E p \in H("regexes") : ag_fnmatch(p, filename)
  <2>1. path_ignore_search(ig, path, filename) <=>
          \/ binary_search(filename, A("names"))
          \/ UnderPath(ig, path, filename)
          \/ /\ ~\E k \in DOMAIN A("invert_regexes") : ag_fnmatch(A("invert_regexes")[k], filename)
             /\ \E k \in DOMAIN A("regexes") : ag_fnmatch(A("regexes")[k], filename)
    BY Zenon DEF path_ignore_search
  <2>2. "names" \in Arrays /\ "invert_regexes" \in Arrays /\ "regexes" \in Arrays
    BY <1>3
  <2> HIDE DEF A, H
  <2>3. /\ binary_search(filename, A("names")) <=> filename \in H("names")
        /\ (\E k \in DOMAIN A("invert_regexes") : ag_fnmatch(A("invert_regexes")[k], filename))
               <=> \E p \in H("invert_regexes") : ag_fnmatch(p, filename)
        /\ (\E k \in DOMAIN A("regexes") : ag_fnmatch(A("regexes")[k], filename))
               <=> \E p \in H("regexes") : ag_fnmatch(p, filename)
    BY <1>2, <2>2, Zenon
  <2> QED
    BY <2>1, <2>3, Zenon
<1>6. PathIgnored(lines, ig.abs_path, path, filename) <=>
          \/ filename \in H("names")
          \/ /\ IsPrefix(ig.abs_path, temp)
             /\ \/ slash_filename \in H("names")
                \/ slash_filename \in H("slash_names")
                \/ \E p \in H("names") : NameSomewhere(slash_filename, p)
                \/ \E p \in H("slash_regexes") : ag_fnmatch(p, slash_filename)
          \/ /\ ~\E p \in H("invert_regexes") : ag_fnmatch(p, filename)
             /\ \E p \in H("regexes") : ag_fnmatch(p, filename)
  BY Zenon DEF PathIgnored
<1> HIDE DEF temp, slash_filename, H
<1> QED
  BY <1>4, <1>5, <1>6, Zenon

(* So does the whole lookup in one directory; one without patterns drops   *)
(* nothing.                                                                *)
LEMMA DropsRight ==
    ASSUME IInv, NEW k \in DOMAIN igs, NEW e \in Entries
    PROVE  /\ Drops(igs[k], path_start, e) <=>
                  LinesDrop(given[k], igs[k].abs_path, path_start, e)
           /\ is_empty(igs[k]) => ~LinesDrop(given[k], igs[k].abs_path, path_start, e)
<1> DEFINE ig    == igs[k]
           lines == given[k]
<1>1. HoldThose(ig.patterns, lines) /\ ig.abs_path \in String /\ path_start \in String
  <2>1. igs[k] \in Ignores
    BY DEF IInv, Shape
  <2> QED
    BY <2>1 DEF IInv, Shape, Kept, Ignores
<1> HIDE DEF ig, lines
<1>2. e.name \in String
  BY InputsAssumption
<1>3. e.name \o <<"/">> \in String
  <2>1. <<>> \in String
    BY DEF String
  <2>2. e.name \o <<"/">> \o <<>> \in String
    BY <1>2, <2>1, JoinedPath
  <2>3. \A x \in String : \A y : x \o <<y>> \o <<>> = x \o <<y>>
    BY DEF String
  <2> QED
    BY <1>2, <2>2, <2>3, Zenon
<1>4. Extension(e.name) \in String
  <2> DEFINE dots == {j \in DOMAIN e.name : e.name[j] = "."}
  <2>1. CASE Contains(e.name, ".")
    <3>1. dots # {} /\ \A x \in dots : x \in Int /\ x >= 1
      BY <1>2, <2>1 DEF Contains, String
    <3>2. Min(dots) \in dots
      <4> HIDE DEF dots
      <4> QED
        BY <3>1, LeastOf
    <3>3. Min(dots) \in Nat
      BY <3>1, <3>2
    <3>4. Extension(e.name) = Behind(e.name, Min(dots))
      BY <2>1, Zenon DEF Extension
    <3> QED
      BY <1>2, <3>3, <3>4, SequenceFacts
  <2>2. CASE ~Contains(e.name, ".")
    <3>1. Extension(e.name) = <<>>
      BY <2>2, Zenon DEF Extension
    <3> QED
      BY <3>1 DEF String
  <2> QED
    BY <2>1, <2>2
<1>5. "extensions" \in Arrays
  BY DEF Arrays
<1>6. binary_search(Extension(e.name), ig.patterns["extensions"])
          <=> Extension(e.name) \in Held(lines, "extensions")
  BY <1>1, <1>4, <1>5, ArrayFacts
<1>7. /\ path_ignore_search(ig, path_start, e.name)
             <=> PathIgnored(lines, ig.abs_path, path_start, e.name)
      /\ path_ignore_search(ig, path_start, e.name \o <<"/">>)
             <=> PathIgnored(lines, ig.abs_path, path_start, e.name \o <<"/">>)
  BY <1>1, <1>2, <1>3, PathRight
<1>8. Drops(ig, path_start, e) <=> LinesDrop(lines, ig.abs_path, path_start, e)
  BY <1>6, <1>7, Zenon DEF Drops, LinesDrop
<1>9. ASSUME is_empty(ig) PROVE ~LinesDrop(lines, ig.abs_path, path_start, e)
  <2>1. \A l \in Arrays \ {"invert_regexes"} : Held(lines, l) = {}
    BY <1>1, <1>9, ArrayFacts DEF is_empty
  <2>2. /\ Held(lines, "extensions") = {} /\ Held(lines, "names") = {}
        /\ Held(lines, "slash_names") = {} /\ Held(lines, "slash_regexes") = {}
        /\ Held(lines, "regexes") = {}
    BY <2>1 DEF Arrays
  <2>3. \A s : ~PathIgnored(lines, ig.abs_path, path_start, s)
    BY <2>2, Zenon DEF PathIgnored
  <2> QED
    BY <2>2, <2>3, Zenon DEF LinesDrop
<1> QED
  BY <1>8, <1>9 DEF ig, lines

(* That directories without patterns are skipped on the way up and that    *)
(* the arrays are searched by halves loses no pattern and adds none.       *)
THEOREM FilterCorrect == Spec => []EveryLineCounts
<1>1. ASSUME IInv PROVE EveryLineCounts
  <2>1. PICK n \in 1 .. MaxDepth + 2 : n = Len(igs) /\ DOMAIN igs = 1 .. n
    BY <1>1 DEF IInv, Shape
  <2>2. n \in Nat \ {0}
    BY <2>1, InputsAssumption
  <2>3. \A i \in 1 .. n : igs[i].parent \in 0 .. i - 1
    BY <1>1, <2>1 DEF IInv, Linked
  <2>4. Chain(n) \subseteq 1 .. n
    BY <2>1, <2>2, <2>3, ChainFacts
  <2>5. ASSUME NEW e \in Entries
        PROVE  (\A k \in Chain(n) : ~Drops(igs[k], path_start, e)) <=>
                   \A k \in DOMAIN igs : ~LinesDrop(given[k], igs[k].abs_path, path_start, e)
    <3>1. ASSUME NEW k \in DOMAIN igs
          PROVE  /\ Drops(igs[k], path_start, e) <=>
                        LinesDrop(given[k], igs[k].abs_path, path_start, e)
                 /\ k \notin Chain(n) => ~LinesDrop(given[k], igs[k].abs_path, path_start, e)
      <4>1. k \notin Chain(n) => is_empty(igs[k])
        BY <1>1, <2>1, <2>2, <3>1, SkippedAreEmpty DEF IInv
      <4> QED
        BY <1>1, <3>1, <4>1, DropsRight
    <3> QED
      BY <2>1, <2>4, <3>1
  <2> QED
    BY <2>1, <2>5, Zenon DEF EveryLineCounts, filename_filter
<1> QED
  BY <1>1, Invariant, PTL
=============================================================================
