-------------------------- MODULE FileSearchProofs --------------------------
(***************************************************************************)
(* Proofs about search_file(), for any number of workers, any files, and   *)
(* any output.                                                             *)
(***************************************************************************)
EXTENDS FileSearch, ProofLemmas, FiniteSetTheorems, SequenceTheorems, TLAPS

(* Where a thread is, by what it has: nothing of the file yet, its         *)
(* matches, a line to print, something to search.                          *)
Unloaded == {"idle", "open", "check", "load"}
Stats    == {"stats_lock", "stats_read", "stats_write"}
Printing == {"print_lock", "heading", "printing"}
Searching == {"stream", "search", "trailing"} \cup Stats \cup Printing

(* The bytes come line by line, not as a buffer.                           *)
Streamed(t) == Kind[th[t].loaded] \in Streams

(* What the place of a thread says of its own variables.                   *)
Local(t) ==
    /\ th[t].pc = "idle" => th[t] = Fresh
    /\ th[t].pc # "idle" => th[t].file \in taken
    /\ th[t].pc \in {"idle", "open"} => th[t].fd = -1
    /\ th[t].pc \in {"check", "load", "read"} \cup Searching => th[t].fd \in Fds
    /\ th[t].pc \in Unloaded => th[t].loaded = Closed /\ th[t].got = 0
    /\ th[t].pc \in Unloaded \cup {"read", "search"} => th[t].count = -1
    /\ th[t].pc \in {"load", "read", "search"} => th[t].f_len > 0
    /\ th[t].pc \in {"read"} \cup Searching => th[t].loaded \in Paths
    /\ th[t].pc = "search" => th[t].got > 0
    /\ th[t].pc \in {"stream", "trailing"} => Streamed(t)
    /\ th[t].pc \in {"stream", "trailing"} \cup Stats \cup Printing => th[t].count # -1
    /\ th[t].count # -1 => th[t].loaded \in Paths /\ (th[t].got = 0 => Streamed(t))
    /\ th[t].pc \in Printing => ~print_nonmatching_files
    /\ th[t].pc = "list" => print_nonmatching_files /\ th[t].count = 0

(* A mutex is held between its lock and its unlock, and a file is searched *)
(* by one thread only.                                                     *)
Locks ==
    \A t \in Threads :
        /\ print_mtx = t <=> th[t].pc \in {"heading", "printing", "list"}
        /\ stats_mtx = t <=> th[t].pc \in {"stats_read", "stats_write"}

(* No two threads have the same file.                                      *)
Distinct ==
    \A t, u \in Threads :
        th[t].pc # "idle" /\ th[u].pc # "idle" /\ th[t].file = th[u].file => t = u

(* Whatever is open some thread has opened.                                *)
OpenFiles ==
    \A d \in Fds : fds[d] # Closed =>
        Kind[fds[d]] # "missing" /\ \E t \in Threads : th[t].fd = d

(* The inductive invariant that needs no hypothesis.                       *)
Shape ==
    /\ TypeOK
    /\ \A t \in Threads : Local(t)
    /\ Locks /\ Distinct /\ OpenFiles

-----------------------------------------------------------------------------
(* The matches on some lines are finitely many.                            *)
LEMMA MatchesFinite ==
    ASSUME NEW s \in Seq(Nat)
    PROVE  IsFiniteSet(Matches(s)) /\ Total(s) \in Nat
<1> DEFINE OfLine(i) == {<<i, k>> : k \in 1 .. s[i]}
           S == {OfLine(i) : i \in DOMAIN s}
           f == [i \in DOMAIN s |-> OfLine(i)]
<1>1. Len(s) \in Nat /\ DOMAIN s = 1 .. Len(s) /\ \A i \in DOMAIN s : s[i] \in Nat
  OBVIOUS
<1>2. ASSUME NEW i \in DOMAIN s PROVE IsFiniteSet(OfLine(i))
  <2>0. s[i] \in Int /\ 1 \in Int
    BY <1>1
  <2>1. IsFiniteSet(1 .. s[i])
    BY <2>0, FS_Interval
  <2>2. IsFiniteSet({i} \X (1 .. s[i]))
    BY <2>1, FS_Singleton, FS_Product
  <2>3. OfLine(i) = {i} \X (1 .. s[i])
    OBVIOUS
  <2> QED
    BY <2>2, <2>3
<1>3. IsFiniteSet(S)
  <2>1. IsFiniteSet(DOMAIN s)
    BY <1>1, FS_Interval
  <2>2. f \in Surjection(DOMAIN s, S)
    BY DEF Surjection
  <2> QED
    BY <2>1, <2>2, FS_Surjection
<1>4. \A A \in S : IsFiniteSet(A)
  BY <1>2
<1>5. Matches(s) = UNION S
  BY DEF Matches
<1> HIDE DEF S
<1>6. IsFiniteSet(Matches(s))
  BY <1>3, <1>4, <1>5, FS_UNION
<1> QED
  BY <1>6, FS_CardinalityType DEF Total

(* A descriptor is free when a thread comes to open a file: every other    *)
(* thread has one at most, and there are more.                             *)
LEMMA FreeDescriptor ==
    ASSUME Shape, NEW t \in Threads, th[t].pc = "open"
    PROVE  LET d == Min({e \in Fds : fds[e] = Closed})
           IN  d \in Fds /\ fds[d] = Closed
<1> DEFINE free == {e \in Fds : fds[e] = Closed}
           others == Threads \ {t}
<1>1. /\ IsFiniteSet(Fds) /\ IsFiniteSet(Workers) /\ Cardinality(Fds) > Cardinality(Workers)
      /\ Fds \subseteq Nat /\ Main \notin Workers
  BY FilesAssumption
<1>2. free # {}
  <2> SUFFICES ASSUME free = {} PROVE FALSE
    OBVIOUS
  <2>1. \A d \in Fds : \E u \in Threads : th[u].fd = d
    BY DEF Shape, OpenFiles
  <2> DEFINE g == [d \in Fds |-> CHOOSE u \in Threads : th[u].fd = d]
  <2>2. \A d \in Fds : g[d] \in Threads /\ th[g[d]].fd = d
    BY <2>1
  <2>3. \A d \in Fds : g[d] # t
    <3>1. th[t].fd \notin Fds
      BY <1>1 DEF Shape, Local
    <3> QED
      BY <2>2, <3>1
  <2>4. g \in Injection(Fds, others)
    <3>1. g \in [Fds -> others]
      BY <2>2, <2>3
    <3>2. \A d, e \in Fds : g[d] = g[e] => d = e
      BY <2>2
    <3> HIDE DEF g
    <3> QED
      BY <3>1, <3>2 DEF Injection, IsInjective
  <2>5. IsFiniteSet(others) /\ Cardinality(others) = Cardinality(Workers)
    <3>1. /\ IsFiniteSet(Workers \cup {Main})
          /\ Cardinality(Workers \cup {Main}) = Cardinality(Workers) + 1
      BY <1>1, FS_AddElement
    <3>2. /\ IsFiniteSet((Workers \cup {Main}) \ {t})
          /\ Cardinality((Workers \cup {Main}) \ {t}) = Cardinality(Workers \cup {Main}) - 1
      BY <3>1, FS_RemoveElement DEF Threads
    <3>3. Cardinality(Workers) \in Nat
      BY <1>1, FS_CardinalityType
    <3> QED
      BY <3>1, <3>2, <3>3 DEF Threads
  <2>6. Cardinality(Fds) <= Cardinality(others)
    BY <2>4, <2>5, FS_Injection
  <2>7. Cardinality(Workers) \in Nat /\ Cardinality(Fds) \in Nat
    BY <1>1, FS_CardinalityType
  <2> QED
    BY <1>1, <2>5, <2>6, <2>7
<1>3. \E x \in free : \A y \in free : x <= y
  BY <1>1, <1>2, Least
<1>4. Min(free) \in free
  BY <1>3, Zenon DEF Min
<1> QED
  BY <1>4

-----------------------------------------------------------------------------
(* A step of a thread changes its own variables and no other thread's.     *)
LEMMA Moved ==
    ASSUME TypeOK, NEW t \in Threads, NEW from, NEW new, Step(t, from, new)
    PROVE  /\ th[t] \in Thread /\ th[t].pc = from /\ th'[t] = new
           /\ \A u \in Threads \ {t} : th'[u] = th[u]
           /\ UNCHANGED <<paths, mmap, size, print_nonmatching_files>>
           /\ new \in Thread => th' \in [Threads -> Thread]
BY DEF Step, TypeOK

(* The variables of a thread that Local is about.                          *)
Has(r, pc, file, loaded, fd, count, f_len, got) ==
    /\ r \in Thread
    /\ r.pc = pc /\ r.file = file /\ r.loaded = loaded /\ r.fd = fd
    /\ r.count = count /\ r.f_len = f_len /\ r.got = got

(* The updates that set more than a place.                                 *)
LEMMA StreamUpdate ==
    ASSUME NEW r \in Thread, NEW l \in Paths
    PROVE  Has([r EXCEPT !.pc = "stream", !.count = 0, !.loaded = l],
               "stream", r.file, l, r.fd, 0, r.f_len, r.got)
<1>1. [r EXCEPT !.pc = "stream", !.count = 0, !.loaded = l] \in Thread
  BY DEF Thread
<1> QED
  BY <1>1 DEF Has, Thread

(* The same for what a read of a file without mmap() sets.                 *)
LEMMA ReadUpdate ==
    ASSUME NEW r \in Thread, NEW n \in Nat
    PROVE  Has([r EXCEPT !.got = @ + n],
               r.pc, r.file, r.loaded, r.fd, r.count, r.f_len, r.got + n)
<1>1. r.got + n \in Nat
  BY DEF Thread
<1>2. [r EXCEPT !.got = @ + n] \in Thread
  BY <1>1 DEF Thread
<1> QED
  BY <1>2 DEF Has, Thread

(* The same for what the search of a buffer sets.                          *)
LEMMA SearchUpdate ==
    ASSUME NEW r \in Thread, NEW n \in Nat, NEW b \in Seq(Nat)
    PROVE  Has([r EXCEPT !.pc = "stats_lock", !.buf = b, !.count = n],
               "stats_lock", r.file, r.loaded, r.fd, n, r.f_len, r.got)
<1>1. [r EXCEPT !.pc = "stats_lock", !.buf = b, !.count = n] \in Thread
  BY DEF Thread
<1> QED
  BY <1>1 DEF Has, Thread

(* The same for what printing a line sets.                                 *)
LEMMA LineUpdate ==
    ASSUME NEW r \in Thread, NEW n \in Nat, NEW b \in Seq(Nat), r.count # -1
    PROVE  Has([r EXCEPT !.pc = "stats_lock", !.line = @ + 1, !.buf = b, !.count = @ + n],
               "stats_lock", r.file, r.loaded, r.fd, r.count + n, r.f_len, r.got)
<1>1. r.count + n \in Nat /\ r.line + 1 \in Nat
  BY SMTT(30) DEF Thread
<1>2. [r EXCEPT !.pc = "stats_lock", !.line = @ + 1, !.buf = b, !.count = @ + n] \in Thread
  BY <1>1 DEF Thread
<1> QED
  BY <1>2 DEF Has, Thread

(* The next variables of a thread have their types and fit its place.      *)
LEMMA LocalStep ==
    ASSUME Shape, NEW t \in Threads, ThreadStep(t)
    PROVE  th'[t] \in Thread /\ Local(t)'
<1> USE DEF Unloaded, Stats, Printing, Searching, Streamed
<1>1. TypeOK /\ th[t] \in Thread
  BY DEF Shape, TypeOK
<1>2. Local(t)
  BY DEF Shape
<1>3. Closed \notin Paths /\ Fds \subseteq Nat /\ -1 \notin Nat
  BY FilesAssumption
<1>4. Fresh = [pc |-> "idle", file |-> Closed, loaded |-> Closed, fd |-> -1, line |-> 0,
               buf |-> <<>>, count |-> -1, since |-> After + 1,
               f_len |-> 0, got |-> 0, seen |-> Zeroes]
      /\ Zeroes \in [files : Nat, matches : Nat] /\ After + 1 \in 0 .. After + 1
  BY FilesAssumption DEF Fresh, Zeroes
<1>5. CASE Take(t)
  <2>1. PICK f \in paths : Step(t, "idle", [Fresh EXCEPT !.pc = "open", !.file = f])
                           /\ taken' = taken \cup {f}
    BY <1>5 DEF Take, Given
  <2>2. th'[t] = [Fresh EXCEPT !.pc = "open", !.file = f] /\ f \in Paths
    BY <1>1, <2>1, Moved DEF TypeOK
  <2>3. th'[t] = [pc |-> "open", file |-> f, loaded |-> Closed, fd |-> -1, line |-> 0,
                  buf |-> <<>>, count |-> -1, since |-> After + 1,
                  f_len |-> 0, got |-> 0, seen |-> Zeroes]
    BY <1>4, <2>2
  <2>4. th'[t] \in Thread
    <3>1. Fresh \in Thread
      BY <1>4 DEF Thread
    <3> QED
      BY <2>2, <3>1 DEF Thread
  <2>5. Local(t)'
    BY <2>1, <2>3 DEF Local
  <2> QED
    BY <2>4, <2>5
<1>6. CASE OpenFails(t)
  <2>1. Step(t, "open", [th[t] EXCEPT !.pc = "cleanup"])
    BY <1>6 DEF OpenFails
  <2>2. th[t].pc = "open" /\ UNCHANGED <<taken, print_nonmatching_files>>
    BY <1>6 DEF OpenFails, Step
  <2>3. th'[t] = [th[t] EXCEPT !.pc = "cleanup"]
    BY <1>1, <2>1, Moved
  <2>4. Has(th'[t], "cleanup", th[t].file, th[t].loaded, th[t].fd,
            th[t].count, th[t].f_len, th[t].got)
    BY <1>1, <2>2, <2>3 DEF Has, Thread
  <2> QED
    BY <1>2, <1>3, <2>2, <2>4 DEF Has, Local
<1>7. CASE Open(t)
  <2> DEFINE d == Min({e \in Fds : fds[e] = Closed})
  <2>1. Step(t, "open", [th[t] EXCEPT !.pc = "check", !.fd = d])
    BY <1>7 DEF Open
  <2>2. th[t].pc = "open" /\ UNCHANGED <<taken, print_nonmatching_files>>
    BY <1>7 DEF Open, Step
  <2>3. d \in Fds
    BY <2>2, FreeDescriptor
  <2>4. th'[t] = [th[t] EXCEPT !.pc = "check", !.fd = d]
    BY <1>1, <2>1, Moved
  <2> HIDE DEF d
  <2>5. Has(th'[t], "check", th[t].file, th[t].loaded, d,
            th[t].count, th[t].f_len, th[t].got)
    BY <1>1, <2>2, <2>3, <2>4, ZenonT(30) DEF Has, Thread
  <2> QED
    BY <1>2, <1>3, <2>2, <2>3, <2>5 DEF Has, Local
<1>8. CASE Check(t)
  <2>1. \/ Step(t, "check", [th[t] EXCEPT !.pc = "cleanup"])
        \/ ~Badfd(t) /\ Kind[Opened(t)] = "fifo" /\ Step(t, "check", Streaming(t))
        \/ ~Badfd(t) /\ size[Opened(t)] # 0 /\ Step(t, "check", [th[t] EXCEPT !.pc = "load", !.f_len = size[Opened(t)]])
    BY <1>8 DEF Check, Skips
  <2>2. th[t].pc = "check" /\ UNCHANGED <<taken, print_nonmatching_files>>
    BY <1>8 DEF Check, Step
  <2>3. th[t].fd \in Fds /\ (~Badfd(t) => Opened(t) \in Paths /\ size[Opened(t)] \in Nat)
    BY <1>1, <1>2, <2>2 DEF Local, Badfd, Opened, TypeOK
  <2>4. CASE Step(t, "check", [th[t] EXCEPT !.pc = "cleanup"])
    <3>1. th'[t] = [th[t] EXCEPT !.pc = "cleanup"]
      BY <1>1, <2>4, Moved
    <3>2. Has(th'[t], "cleanup", th[t].file, th[t].loaded, th[t].fd,
              th[t].count, th[t].f_len, th[t].got)
      BY <1>1, <2>2, <2>3, <2>4, <3>1 DEF Has, Thread
    <3> QED
      BY <1>2, <1>3, <2>2, <2>3, <2>4, <3>2 DEF Has, Local
  <2>5. CASE ~Badfd(t) /\ Kind[Opened(t)] = "fifo" /\ Step(t, "check", Streaming(t))
    <3>1. th'[t] = Streaming(t)
      BY <1>1, <2>5, Moved
    <3>2. Has(th'[t], "stream", th[t].file, Opened(t), th[t].fd,
              0, th[t].f_len, th[t].got)
      <4>1. Has([th[t] EXCEPT !.pc = "stream", !.count = 0, !.loaded = Opened(t)],
                "stream", th[t].file, Opened(t), th[t].fd,
                    0, th[t].f_len, th[t].got)
          BY <1>1, <2>3, <2>5, StreamUpdate
        <4> QED
          BY <4>1, <3>1 DEF Streaming, Opened
    <3> QED
      BY <1>2, <1>3, <2>2, <2>3, <2>5, <3>2 DEF Has, Local, Streams
  <2>6. CASE ~Badfd(t) /\ size[Opened(t)] # 0 /\ Step(t, "check", [th[t] EXCEPT !.pc = "load", !.f_len = size[Opened(t)]])
    <3>1. th'[t] = [th[t] EXCEPT !.pc = "load", !.f_len = size[Opened(t)]]
      BY <1>1, <2>6, Moved
    <3>2. Has(th'[t], "load", th[t].file, th[t].loaded, th[t].fd,
              th[t].count, size[Opened(t)], th[t].got)
      BY <1>1, <2>2, <2>3, <2>6, <3>1 DEF Has, Thread
    <3> QED
      BY <1>2, <1>3, <2>2, <2>3, <2>6, <3>2 DEF Has, Local
  <2> QED
    BY <2>1, <2>4, <2>5, <2>6
<1>9. CASE Load(t)
  <2>1. \/ Step(t, "load", [th[t] EXCEPT !.pc = "cleanup"])
        \/ ~Badfd(t) /\ Kind[Opened(t)] = "zip" /\ Step(t, "load", Streaming(t))
        \/ ~Badfd(t) /\ Step(t, "load", [th[t] EXCEPT !.pc = "search", !.loaded = Opened(t), !.got = th[t].f_len])
    BY <1>9 DEF Load
  <2>2. th[t].pc = "load" /\ UNCHANGED <<taken, print_nonmatching_files>>
    BY <1>9 DEF Load, Step
  <2>3. th[t].fd \in Fds /\ (~Badfd(t) => Opened(t) \in Paths /\ size[Opened(t)] \in Nat)
    BY <1>1, <1>2, <2>2 DEF Local, Badfd, Opened, TypeOK
  <2>4. CASE Step(t, "load", [th[t] EXCEPT !.pc = "cleanup"])
    <3>1. th'[t] = [th[t] EXCEPT !.pc = "cleanup"]
      BY <1>1, <2>4, Moved
    <3>2. Has(th'[t], "cleanup", th[t].file, th[t].loaded, th[t].fd,
              th[t].count, th[t].f_len, th[t].got)
      BY <1>1, <2>2, <2>3, <2>4, <3>1 DEF Has, Thread
    <3> QED
      BY <1>2, <1>3, <2>2, <2>3, <2>4, <3>2 DEF Has, Local
  <2>5. CASE ~Badfd(t) /\ Kind[Opened(t)] = "zip" /\ Step(t, "load", Streaming(t))
    <3>1. th'[t] = Streaming(t)
      BY <1>1, <2>5, Moved
    <3>2. Has(th'[t], "stream", th[t].file, Opened(t), th[t].fd,
              0, th[t].f_len, th[t].got)
      <4>1. Has([th[t] EXCEPT !.pc = "stream", !.count = 0, !.loaded = Opened(t)],
                "stream", th[t].file, Opened(t), th[t].fd,
                    0, th[t].f_len, th[t].got)
          BY <1>1, <2>3, <2>5, StreamUpdate
        <4> QED
          BY <4>1, <3>1 DEF Streaming, Opened
    <3> QED
      BY <1>2, <1>3, <2>2, <2>3, <2>5, <3>2 DEF Has, Local, Streams
  <2>6. CASE ~Badfd(t) /\ Step(t, "load", [th[t] EXCEPT !.pc = "search", !.loaded = Opened(t), !.got = th[t].f_len])
    <3>1. th'[t] = [th[t] EXCEPT !.pc = "search", !.loaded = Opened(t), !.got = th[t].f_len]
      BY <1>1, <2>6, Moved
    <3>2. Has(th'[t], "search", th[t].file, Opened(t), th[t].fd,
              th[t].count, th[t].f_len, th[t].f_len)
      BY <1>1, <2>2, <2>3, <2>6, <3>1, ZenonT(30) DEF Has, Thread
    <3> QED
      BY <1>2, <1>3, <2>2, <2>3, <2>6, <3>2 DEF Has, Local
  <2> QED
    BY <2>1, <2>4, <2>5, <2>6
<1>10. CASE ReadHead(t)
  <2> DEFINE n == Min({1, size[Opened(t)]})
  <2>1. \/ Step(t, "load", [th[t] EXCEPT !.pc = "cleanup"])
        \/ ~Badfd(t) /\ Step(t, "load", [th[t] EXCEPT !.pc = "read", !.loaded = Opened(t), !.got = n])
    BY <1>10 DEF ReadHead
  <2>2. th[t].pc = "load" /\ UNCHANGED <<taken, print_nonmatching_files>>
    BY <1>10 DEF ReadHead, Step
  <2>3. th[t].fd \in Fds /\ (~Badfd(t) => Opened(t) \in Paths /\ size[Opened(t)] \in Nat)
    BY <1>1, <1>2, <2>2 DEF Local, Badfd, Opened, TypeOK
  <2>4. ~Badfd(t) => n \in Nat
    BY <2>3, MinMax
  <2> HIDE DEF n
  <2>5. CASE Step(t, "load", [th[t] EXCEPT !.pc = "cleanup"])
    <3>1. th'[t] = [th[t] EXCEPT !.pc = "cleanup"]
      BY <1>1, <2>5, Moved
    <3>2. Has(th'[t], "cleanup", th[t].file, th[t].loaded, th[t].fd,
              th[t].count, th[t].f_len, th[t].got)
      BY <1>1, <2>2, <2>3, <2>4, <2>5, <3>1 DEF Has, Thread
    <3> QED
      BY <1>2, <1>3, <2>2, <2>3, <2>4, <2>5, <3>2 DEF Has, Local
  <2>6. CASE ~Badfd(t) /\ Step(t, "load", [th[t] EXCEPT !.pc = "read", !.loaded = Opened(t), !.got = n])
    <3>1. th'[t] = [th[t] EXCEPT !.pc = "read", !.loaded = Opened(t), !.got = n]
      BY <1>1, <2>6, Moved
    <3>2. Has(th'[t], "read", th[t].file, Opened(t), th[t].fd,
              th[t].count, th[t].f_len, n)
      BY <1>1, <2>2, <2>3, <2>4, <2>6, <3>1, ZenonT(30) DEF Has, Thread
    <3> QED
      BY <1>2, <1>3, <2>2, <2>3, <2>4, <2>6, <3>2 DEF Has, Local
  <2> QED
    BY <2>1, <2>5, <2>6
<1>11. CASE ReadOn(t)
  <2> DEFINE left == Max({0, size[th[t].loaded] - th[t].got})
             n == Min({left, th[t].f_len})
  <2>1. \/ th[t].got = th[t].f_len /\ Step(t, "read", [th[t] EXCEPT !.pc = "search"])
        \/ Step(t, "read", [th[t] EXCEPT !.got = @ + n])
    BY <1>11 DEF ReadOn
  <2>2. th[t].pc = "read" /\ UNCHANGED <<taken, print_nonmatching_files>>
    BY <1>11 DEF ReadOn, Step
  <2>3. size[th[t].loaded] \in Nat /\ th[t].got \in Nat /\ th[t].f_len \in Nat
    BY <1>1, <1>2, <2>2 DEF Local, TypeOK, Thread
  <2>4. left \in Nat
    <3> DEFINE more == size[th[t].loaded] - th[t].got
    <3>1. more \in Int /\ left = Max({0, more})
      BY <2>3
    <3> HIDE DEF more, left
    <3>2. left = IF 0 <= more THEN more ELSE 0
      BY <3>1, MinMax
    <3> QED
      BY <3>1, <3>2
  <2>5. n \in Nat
    <3>1. left \in Int /\ th[t].f_len \in Int
      BY <2>3, <2>4
    <3> HIDE DEF left
    <3>2. n = IF left <= th[t].f_len THEN left ELSE th[t].f_len
      BY <3>1, MinMax, Zenon
    <3> QED
      BY <2>3, <2>4, <3>2
  <2> HIDE DEF n
  <2>6. CASE th[t].got = th[t].f_len /\ Step(t, "read", [th[t] EXCEPT !.pc = "search"])
    <3>1. th'[t] = [th[t] EXCEPT !.pc = "search"]
      BY <1>1, <2>6, Moved
    <3>2. Has(th'[t], "search", th[t].file, th[t].loaded, th[t].fd,
              th[t].count, th[t].f_len, th[t].got)
      BY <1>1, <2>2, <2>3, <2>4, <2>5, <2>6, <3>1 DEF Has, Thread
    <3> QED
      BY <1>2, <1>3, <2>2, <2>3, <2>4, <2>5, <2>6, <3>2 DEF Has, Local
  <2>7. CASE Step(t, "read", [th[t] EXCEPT !.got = @ + n])
    <3>1. th'[t] = [th[t] EXCEPT !.got = @ + n]
      BY <1>1, <2>7, Moved
    <3>2. Has(th'[t], "read", th[t].file, th[t].loaded, th[t].fd,
              th[t].count, th[t].f_len, th[t].got + n)
      <4>1. Has([th[t] EXCEPT !.got = @ + n],
                "read", th[t].file, th[t].loaded, th[t].fd,
                    th[t].count, th[t].f_len, th[t].got + n)
          BY <1>1, <2>2, <2>5, ReadUpdate
        <4> QED
          BY <4>1, <3>1
    <3> QED
      BY <1>2, <1>3, <2>2, <2>3, <2>4, <2>5, <2>7, <3>2 DEF Has, Local
  <2> QED
    BY <2>1, <2>6, <2>7
<1>12. CASE SearchBuf(t)
  <2> DEFINE g == Got(t)
             n == Total(Got(t))
  <2>1. Step(t, "search", [th[t] EXCEPT !.pc = "stats_lock", !.buf = g, !.count = n])
    BY <1>12 DEF SearchBuf
  <2>2. th[t].pc = "search" /\ UNCHANGED <<taken, print_nonmatching_files>>
    BY <1>12 DEF SearchBuf, Step
  <2>3. g \in Seq(Nat)
    <3>1. Lines[th[t].loaded] \in Seq(Nat) /\ th[t].got \in Nat
      BY <1>1, <1>2, <2>2, FilesAssumption DEF Local, Thread
    <3>2. \A i \in 1 .. th[t].got : i \in DOMAIN Lines[th[t].loaded] =>
              Lines[th[t].loaded][i] \in Nat
      BY <3>1
    <3>3. g \in [1 .. th[t].got -> Nat]
      BY <3>2 DEF Got
    <3> HIDE DEF g
    <3> QED
      BY <3>1, <3>3
  <2>4. n \in Nat
    BY <2>3, MatchesFinite
  <2>5. th'[t] = [th[t] EXCEPT !.pc = "stats_lock", !.buf = g, !.count = n]
    BY <1>1, <2>1, Moved
  <2> HIDE DEF g, n
  <2>6. Has(th'[t], "stats_lock", th[t].file, th[t].loaded, th[t].fd,
            n, th[t].f_len, th[t].got)
    <3>1. Has([th[t] EXCEPT !.pc = "stats_lock", !.buf = g, !.count = n],
              "stats_lock", th[t].file, th[t].loaded, th[t].fd,
                  n, th[t].f_len, th[t].got)
        BY <1>1, <2>3, <2>4, SearchUpdate
      <3> QED
        BY <3>1, <2>5
  <2> QED
    BY <1>2, <1>3, <2>2, <2>3, <2>4, <2>6 DEF Has, Local
<1>13. CASE ReadLine(t)
  <2> DEFINE n == Lines[th[t].loaded][th[t].line + 1]
  <2>1. Step(t, "stream", [th[t] EXCEPT !.pc = "stats_lock", !.line = @ + 1,
                                     !.buf = <<n>>, !.count = @ + n])
    BY <1>13 DEF ReadLine
  <2>2. th[t].pc = "stream" /\ UNCHANGED <<taken, print_nonmatching_files>>
    BY <1>13 DEF ReadLine, Step
  <2>3. n \in Nat /\ th[t].count \in Nat /\ th[t].count # -1
    <3>1. Lines[th[t].loaded] \in Seq(Nat) /\ th[t].line \in Nat /\ th[t].count \in Nat
      BY <1>1, <1>2, <2>2, FilesAssumption DEF Local, Thread
    <3>2. th[t].line + 1 \in 1 .. Len(Lines[th[t].loaded])
      BY <1>13, <3>1 DEF ReadLine
    <3>3. n \in Nat
      BY <3>1, <3>2, ElementOfSeq
    <3> HIDE DEF n
    <3> QED
      BY <3>1, <3>3
  <2>4. <<n>> \in Seq(Nat)
    BY <2>3
  <2>5. th'[t] = [th[t] EXCEPT !.pc = "stats_lock", !.line = @ + 1,
                                     !.buf = <<n>>, !.count = @ + n]
    BY <1>1, <2>1, Moved
  <2> HIDE DEF n
  <2>6. Has(th'[t], "stats_lock", th[t].file, th[t].loaded, th[t].fd,
            th[t].count + n, th[t].f_len, th[t].got)
    <3>1. Has([th[t] EXCEPT !.pc = "stats_lock", !.line = @ + 1,
                                     !.buf = <<n>>, !.count = @ + n],
              "stats_lock", th[t].file, th[t].loaded, th[t].fd,
                  th[t].count + n, th[t].f_len, th[t].got)
        BY <1>1, <2>3, <2>4, LineUpdate
      <3> QED
        BY <3>1, <2>5
  <2> QED
    BY <1>2, <1>3, <2>2, <2>3, <2>4, <2>6 DEF Has, Local
<1>14. CASE CloseStream(t)
  <2>1. Step(t, "stream", [th[t] EXCEPT !.pc = "cleanup"])
    BY <1>14 DEF CloseStream
  <2>2. th[t].pc = "stream" /\ UNCHANGED <<taken, print_nonmatching_files>>
    BY <1>14 DEF CloseStream, Step
  <2>3. th'[t] = [th[t] EXCEPT !.pc = "cleanup"]
    BY <1>1, <2>1, Moved
  <2>4. Has(th'[t], "cleanup", th[t].file, th[t].loaded, th[t].fd,
            th[t].count, th[t].f_len, th[t].got)
    BY <1>1, <2>2, <2>3 DEF Has, Thread
  <2> QED
    BY <1>2, <1>3, <2>2, <2>4 DEF Has, Local
<1>15. CASE StatsLock(t)
  <2>1. Step(t, "stats_lock", [th[t] EXCEPT !.pc = "stats_read"])
    BY <1>15 DEF StatsLock
  <2>2. th[t].pc = "stats_lock" /\ UNCHANGED <<taken, print_nonmatching_files>>
    BY <1>15 DEF StatsLock, Step
  <2>3. th'[t] = [th[t] EXCEPT !.pc = "stats_read"]
    BY <1>1, <2>1, Moved
  <2>4. Has(th'[t], "stats_read", th[t].file, th[t].loaded, th[t].fd,
            th[t].count, th[t].f_len, th[t].got)
    BY <1>1, <2>2, <2>3 DEF Has, Thread
  <2> QED
    BY <1>2, <1>3, <2>2, <2>4 DEF Has, Local
<1>16. CASE StatsRead(t)
  <2>1. Step(t, "stats_read", [th[t] EXCEPT !.pc = "stats_write", !.seen = stats])
    BY <1>16 DEF StatsRead
  <2>2. th[t].pc = "stats_read" /\ UNCHANGED <<taken, print_nonmatching_files>>
    BY <1>16 DEF StatsRead, Step
  <2>3. stats \in [files : Nat, matches : Nat]
    BY <1>1 DEF TypeOK
  <2>4. th'[t] = [th[t] EXCEPT !.pc = "stats_write", !.seen = stats]
    BY <1>1, <2>1, Moved
  <2>5. Has(th'[t], "stats_write", th[t].file, th[t].loaded, th[t].fd,
            th[t].count, th[t].f_len, th[t].got)
    BY <1>1, <2>2, <2>3, <2>4 DEF Has, Thread
  <2> QED
    BY <1>2, <1>3, <2>2, <2>3, <2>5 DEF Has, Local
<1>17. CASE StatsWrite(t)
  <2>1. \/ ~print_nonmatching_files /\ Step(t, "stats_write", [th[t] EXCEPT !.pc = "print_lock"])
        \/ th[t].got > 0 /\ Step(t, "stats_write", [th[t] EXCEPT !.pc = "cleanup"])
        \/ ~(th[t].got > 0) /\ Step(t, "stats_write", [th[t] EXCEPT !.pc = "trailing"])
    BY <1>17 DEF StatsWrite, Prints, Return
  <2>2. th[t].pc = "stats_write" /\ UNCHANGED <<taken, print_nonmatching_files>>
    BY <1>17 DEF StatsWrite, Step
  <2>3. CASE ~print_nonmatching_files /\ Step(t, "stats_write", [th[t] EXCEPT !.pc = "print_lock"])
    <3>1. th'[t] = [th[t] EXCEPT !.pc = "print_lock"]
      BY <1>1, <2>3, Moved
    <3>2. Has(th'[t], "print_lock", th[t].file, th[t].loaded, th[t].fd,
              th[t].count, th[t].f_len, th[t].got)
      BY <1>1, <2>2, <2>3, <3>1 DEF Has, Thread
    <3> QED
      BY <1>2, <1>3, <2>2, <2>3, <3>2 DEF Has, Local
  <2>4. CASE th[t].got > 0 /\ Step(t, "stats_write", [th[t] EXCEPT !.pc = "cleanup"])
    <3>1. th'[t] = [th[t] EXCEPT !.pc = "cleanup"]
      BY <1>1, <2>4, Moved
    <3>2. Has(th'[t], "cleanup", th[t].file, th[t].loaded, th[t].fd,
              th[t].count, th[t].f_len, th[t].got)
      BY <1>1, <2>2, <2>4, <3>1 DEF Has, Thread
    <3> QED
      BY <1>2, <1>3, <2>2, <2>4, <3>2 DEF Has, Local
  <2>5. CASE ~(th[t].got > 0) /\ Step(t, "stats_write", [th[t] EXCEPT !.pc = "trailing"])
    <3>1. th'[t] = [th[t] EXCEPT !.pc = "trailing"]
      BY <1>1, <2>5, Moved
    <3>2. Has(th'[t], "trailing", th[t].file, th[t].loaded, th[t].fd,
              th[t].count, th[t].f_len, th[t].got)
      BY <1>1, <2>2, <2>5, <3>1 DEF Has, Thread
    <3> QED
      BY <1>2, <1>3, <2>2, <2>5, <3>2 DEF Has, Local, Thread
  <2> QED
    BY <2>1, <2>3, <2>4, <2>5
<1>18. CASE PrintLock(t)
  <2>1. Step(t, "print_lock", [th[t] EXCEPT !.pc = "heading"])
    BY <1>18 DEF PrintLock
  <2>2. th[t].pc = "print_lock" /\ UNCHANGED <<taken, print_nonmatching_files>>
    BY <1>18 DEF PrintLock, Step
  <2>3. th'[t] = [th[t] EXCEPT !.pc = "heading"]
    BY <1>1, <2>1, Moved
  <2>4. Has(th'[t], "heading", th[t].file, th[t].loaded, th[t].fd,
            th[t].count, th[t].f_len, th[t].got)
    BY <1>1, <2>2, <2>3 DEF Has, Thread
  <2> QED
    BY <1>2, <1>3, <2>2, <2>4 DEF Has, Local
<1>19. CASE Heading(t)
  <2>1. Step(t, "heading", [th[t] EXCEPT !.pc = "printing"])
    BY <1>19 DEF Heading
  <2>2. th[t].pc = "heading" /\ UNCHANGED <<taken, print_nonmatching_files>>
    BY <1>19 DEF Heading, Step
  <2>3. th'[t] = [th[t] EXCEPT !.pc = "printing"]
    BY <1>1, <2>1, Moved
  <2>4. Has(th'[t], "printing", th[t].file, th[t].loaded, th[t].fd,
            th[t].count, th[t].f_len, th[t].got)
    BY <1>1, <2>2, <2>3 DEF Has, Thread
  <2> QED
    BY <1>2, <1>3, <2>2, <2>4 DEF Has, Local
<1>20. CASE PrintLine(t)
  <2> DEFINE n == IF Head(th[t].buf) > 0 THEN 1 ELSE Since(t)
             b == Tail(th[t].buf)
  <2>1. Step(t, "printing", [th[t] EXCEPT !.buf = b, !.since = n])
    BY <1>20 DEF PrintLine
  <2>2. th[t].pc = "printing" /\ UNCHANGED <<taken, print_nonmatching_files>>
    BY <1>20 DEF PrintLine, Step
  <2>3. Since(t) \in 0 .. After + 1 /\ 1 \in 0 .. After + 1
    <3>1. After \in Nat /\ th[t].since \in 0 .. After + 1
      BY <1>1, FilesAssumption DEF Thread
    <3> QED
      BY <3>1 DEF Since, Due
  <2>4. b \in Seq(Nat)
    <3>1. th[t].buf \in Seq(Nat) /\ th[t].buf # <<>>
      BY <1>1, <1>20 DEF Thread, PrintLine
    <3> QED
      BY <3>1
  <2>5. n \in 0 .. After + 1
    BY <2>3
  <2>6. th'[t] = [th[t] EXCEPT !.buf = b, !.since = n]
    BY <1>1, <2>1, Moved
  <2> HIDE DEF n, b
  <2>7. Has(th'[t], "printing", th[t].file, th[t].loaded, th[t].fd,
            th[t].count, th[t].f_len, th[t].got)
    BY <1>1, <2>2, <2>3, <2>4, <2>5, <2>6 DEF Has, Thread
  <2> QED
    BY <1>2, <1>3, <2>2, <2>3, <2>4, <2>5, <2>7 DEF Has, Local
<1>21. CASE PrintUnlock(t)
  <2>1. \/ th[t].got > 0 /\ Step(t, "printing", [th[t] EXCEPT !.pc = "cleanup", !.since = Since(t)])
        \/ ~(th[t].got > 0) /\ Step(t, "printing", [th[t] EXCEPT !.pc = "trailing", !.since = Since(t)])
    BY <1>21 DEF PrintUnlock, Return
  <2>2. th[t].pc = "printing" /\ UNCHANGED <<taken, print_nonmatching_files>>
    BY <1>21 DEF PrintUnlock, Step
  <2>3. Since(t) \in 0 .. After + 1 /\ 1 \in 0 .. After + 1
    <3>1. After \in Nat /\ th[t].since \in 0 .. After + 1
      BY <1>1, FilesAssumption DEF Thread
    <3> QED
      BY <3>1 DEF Since, Due
  <2>4. CASE th[t].got > 0 /\ Step(t, "printing", [th[t] EXCEPT !.pc = "cleanup", !.since = Since(t)])
    <3>1. th'[t] = [th[t] EXCEPT !.pc = "cleanup", !.since = Since(t)]
      BY <1>1, <2>4, Moved
    <3>2. Has(th'[t], "cleanup", th[t].file, th[t].loaded, th[t].fd,
              th[t].count, th[t].f_len, th[t].got)
      BY <1>1, <2>2, <2>3, <2>4, <3>1 DEF Has, Thread
    <3> QED
      BY <1>2, <1>3, <2>2, <2>3, <2>4, <3>2 DEF Has, Local
  <2>5. CASE ~(th[t].got > 0) /\ Step(t, "printing", [th[t] EXCEPT !.pc = "trailing", !.since = Since(t)])
    <3>1. th'[t] = [th[t] EXCEPT !.pc = "trailing", !.since = Since(t)]
      BY <1>1, <2>5, Moved
    <3>2. Has(th'[t], "trailing", th[t].file, th[t].loaded, th[t].fd,
              th[t].count, th[t].f_len, th[t].got)
      BY <1>1, <2>2, <2>3, <2>5, <3>1 DEF Has, Thread
    <3> QED
      BY <1>2, <1>3, <2>2, <2>3, <2>5, <3>2 DEF Has, Local, Thread
  <2> QED
    BY <2>1, <2>4, <2>5
<1>22. CASE Trailing(t)
  <2>1. Step(t, "trailing", [th[t] EXCEPT !.pc = "stream", !.since = Since(t)])
    BY <1>22 DEF Trailing
  <2>2. th[t].pc = "trailing" /\ UNCHANGED <<taken, print_nonmatching_files>>
    BY <1>22 DEF Trailing, Step
  <2>3. Since(t) \in 0 .. After + 1 /\ 1 \in 0 .. After + 1
    <3>1. After \in Nat /\ th[t].since \in 0 .. After + 1
      BY <1>1, FilesAssumption DEF Thread
    <3> QED
      BY <3>1 DEF Since, Due
  <2>4. th'[t] = [th[t] EXCEPT !.pc = "stream", !.since = Since(t)]
    BY <1>1, <2>1, Moved
  <2>5. Has(th'[t], "stream", th[t].file, th[t].loaded, th[t].fd,
            th[t].count, th[t].f_len, th[t].got)
    BY <1>1, <2>2, <2>3, <2>4 DEF Has, Thread
  <2> QED
    BY <1>2, <1>3, <2>2, <2>3, <2>5 DEF Has, Local
<1>23. CASE Cleanup(t)
  <2>1. \/ print_nonmatching_files /\ th[t].count = 0 /\ Step(t, "cleanup", [th[t] EXCEPT !.pc = "list"])
        \/ Step(t, "cleanup", [th[t] EXCEPT !.pc = "close"])
    BY <1>23 DEF Cleanup
  <2>2. th[t].pc = "cleanup" /\ UNCHANGED <<taken, print_nonmatching_files>>
    BY <1>23 DEF Cleanup, Step
  <2>3. CASE print_nonmatching_files /\ th[t].count = 0 /\ Step(t, "cleanup", [th[t] EXCEPT !.pc = "list"])
    <3>1. th'[t] = [th[t] EXCEPT !.pc = "list"]
      BY <1>1, <2>3, Moved, ZenonT(30)
    <3>2. Has(th'[t], "list", th[t].file, th[t].loaded, th[t].fd,
              th[t].count, th[t].f_len, th[t].got)
      BY <1>1, <2>2, <2>3, <3>1, ZenonT(30) DEF Has, Thread
    <3> QED
      BY <1>2, <1>3, <2>2, <2>3, <3>2 DEF Has, Local
  <2>4. CASE Step(t, "cleanup", [th[t] EXCEPT !.pc = "close"])
    <3>1. th'[t] = [th[t] EXCEPT !.pc = "close"]
      BY <1>1, <2>4, Moved
    <3>2. Has(th'[t], "close", th[t].file, th[t].loaded, th[t].fd,
              th[t].count, th[t].f_len, th[t].got)
      BY <1>1, <2>2, <2>4, <3>1 DEF Has, Thread
    <3> QED
      BY <1>2, <1>3, <2>2, <2>4, <3>2 DEF Has, Local
  <2> QED
    BY <2>1, <2>3, <2>4
<1>24. CASE ListPath(t)
  <2>1. Step(t, "list", [th[t] EXCEPT !.pc = "close"])
    BY <1>24 DEF ListPath
  <2>2. th[t].pc = "list" /\ UNCHANGED <<taken, print_nonmatching_files>>
    BY <1>24 DEF ListPath, Step
  <2>3. th'[t] = [th[t] EXCEPT !.pc = "close"]
    BY <1>1, <2>1, Moved
  <2>4. Has(th'[t], "close", th[t].file, th[t].loaded, th[t].fd,
            th[t].count, th[t].f_len, th[t].got)
    BY <1>1, <2>2, <2>3 DEF Has, Thread
  <2> QED
    BY <1>2, <1>3, <2>2, <2>4 DEF Has, Local
<1>25. CASE CloseFd(t)
  <2>1. th'[t] = Fresh /\ UNCHANGED <<taken, print_nonmatching_files>>
    BY <1>1, <1>25, Moved DEF CloseFd
  <2>2. Fresh \in Thread
    BY <1>4 DEF Thread
  <2> QED
    BY <1>4, <2>1, <2>2 DEF Local
<1> QED
  BY <1>5, <1>6, <1>7, <1>8, <1>9, <1>10, <1>11, <1>12, <1>13, <1>14, <1>15, <1>16, <1>17, <1>18, <1>19, <1>20, <1>21, <1>22, <1>23, <1>24, <1>25 DEF ThreadStep
-----------------------------------------------------------------------------
(* What a step of a thread changes of what is shared, and where it goes.   *)
LEMMA Shared ==
    ASSUME NEW t \in Threads, ThreadStep(t)
    PROVE  /\ UNCHANGED <<paths, mmap, size, print_nonmatching_files>>
           /\ UNCHANGED taken \/ Take(t)
           /\ UNCHANGED fds \/ Open(t) \/ CloseStream(t) \/ CloseFd(t)
           /\ \/ UNCHANGED print_mtx
              \/ PrintLock(t) \/ PrintUnlock(t) \/ Cleanup(t) \/ ListPath(t)
           /\ UNCHANGED stats_mtx \/ StatsLock(t) \/ StatsWrite(t)
           /\ UNCHANGED stats \/ StatsWrite(t)
           /\ \/ UNCHANGED out
              \/ Heading(t) \/ PrintLine(t) \/ PrintUnlock(t) \/ Trailing(t) \/ ListPath(t)
           /\ UNCHANGED match_found \/ PrintUnlock(t) \/ ListPath(t)
<1> USE DEF Step
<1>1. CASE Take(t)
  BY <1>1 DEF Take
<1>2. CASE OpenFails(t)
  BY <1>2 DEF OpenFails
<1>3. CASE Open(t)
  BY <1>3 DEF Open
<1>4. CASE Check(t)
  BY <1>4 DEF Check
<1>5. CASE Load(t)
  BY <1>5 DEF Load
<1>6. CASE ReadHead(t)
  BY <1>6 DEF ReadHead
<1>7. CASE ReadOn(t)
  BY <1>7 DEF ReadOn
<1>8. CASE SearchBuf(t)
  BY <1>8 DEF SearchBuf
<1>9. CASE ReadLine(t)
  BY <1>9 DEF ReadLine
<1>10. CASE CloseStream(t)
  BY <1>10 DEF CloseStream
<1>11. CASE StatsLock(t)
  BY <1>11 DEF StatsLock
<1>12. CASE StatsRead(t)
  BY <1>12 DEF StatsRead
<1>13. CASE StatsWrite(t)
  BY <1>13 DEF StatsWrite
<1>14. CASE PrintLock(t)
  BY <1>14 DEF PrintLock
<1>15. CASE Heading(t)
  BY <1>15 DEF Heading
<1>16. CASE PrintLine(t)
  BY <1>16 DEF PrintLine
<1>17. CASE PrintUnlock(t)
  BY <1>17 DEF PrintUnlock
<1>18. CASE Trailing(t)
  BY <1>18 DEF Trailing
<1>19. CASE Cleanup(t)
  BY <1>19 DEF Cleanup
<1>20. CASE ListPath(t)
  BY <1>20 DEF ListPath
<1>21. CASE CloseFd(t)
  BY <1>21 DEF CloseFd
<1> QED
  BY <1>1, <1>2, <1>3, <1>4, <1>5, <1>6, <1>7, <1>8, <1>9, <1>10, <1>11, <1>12, <1>13, <1>14, <1>15, <1>16, <1>17, <1>18, <1>19, <1>20, <1>21 DEF ThreadStep

(* The places a thread goes from and to.                                   *)
Flow ==
    {<<"idle", "open">>, <<"open", "cleanup">>, <<"open", "check">>,
     <<"check", "cleanup">>, <<"check", "stream">>, <<"check", "load">>,
     <<"load", "cleanup">>, <<"load", "stream">>, <<"load", "search">>, <<"load", "read">>,
     <<"read", "search">>, <<"read", "read">>, <<"search", "stats_lock">>,
     <<"stream", "stats_lock">>, <<"stream", "cleanup">>,
     <<"stats_lock", "stats_read">>, <<"stats_read", "stats_write">>,
     <<"stats_write", "print_lock">>, <<"stats_write", "cleanup">>,
     <<"stats_write", "trailing">>,
     <<"print_lock", "heading">>, <<"heading", "printing">>, <<"printing", "printing">>,
     <<"printing", "cleanup">>, <<"printing", "trailing">>, <<"trailing", "stream">>,
     <<"cleanup", "list">>, <<"cleanup", "close">>, <<"list", "close">>,
     <<"close", "idle">>}

(* What it changes of its own variables, and that it changes nobody else's. *)
LEMMA Own ==
    ASSUME TypeOK, NEW t \in Threads, ThreadStep(t)
    PROVE  /\ \A u \in Threads \ {t} : th'[u] = th[u]
           /\ th'[t] \in Thread => th' \in [Threads -> Thread]
           /\ <<th[t].pc, th'[t].pc>> \in Flow
           /\ th'[t].file = th[t].file \/ Take(t) \/ CloseFd(t)
           /\ th'[t].fd = th[t].fd \/ Take(t) \/ Open(t) \/ CloseFd(t)
           /\ \/ th'[t].loaded = th[t].loaded
              \/ Take(t) \/ Check(t) \/ Load(t) \/ ReadHead(t) \/ CloseFd(t)
           /\ \/ th'[t].count = th[t].count
              \/ Take(t) \/ Check(t) \/ Load(t) \/ SearchBuf(t) \/ ReadLine(t) \/ CloseFd(t)
           /\ \/ th'[t].f_len = th[t].f_len /\ th'[t].got = th[t].got
              \/ Take(t) \/ Check(t) \/ Load(t) \/ ReadHead(t) \/ ReadOn(t) \/ CloseFd(t)
           /\ \/ th'[t].buf = th[t].buf
              \/ Take(t) \/ SearchBuf(t) \/ ReadLine(t) \/ PrintLine(t) \/ CloseFd(t)
           /\ th'[t].seen = th[t].seen \/ Take(t) \/ StatsRead(t) \/ CloseFd(t)
<1>0. th[t] \in Thread
  BY DEF TypeOK
<1> USE DEF Flow
<1>a. \E from, new : Step(t, from, new)
  BY DEF ThreadStep, Take, OpenFails, Open, Check, Load, ReadHead, ReadOn, SearchBuf, ReadLine,
         CloseStream, StatsLock, StatsRead, StatsWrite, PrintLock, Heading, PrintLine,
         PrintUnlock, Trailing, Cleanup, ListPath, CloseFd
<1>b. /\ \A u \in Threads \ {t} : th'[u] = th[u]
      /\ th'[t] \in Thread => th' \in [Threads -> Thread]
  BY <1>a, Moved
<1>1. CASE Take(t)
  <2>1. PICK f : Step(t, "idle", [Fresh EXCEPT !.pc = "open", !.file = f])
    BY <1>1 DEF Take
  <2>2. th[t].pc = "idle" /\ th'[t] = [Fresh EXCEPT !.pc = "open", !.file = f]
    BY <2>1, Moved
  <2> QED
    BY <1>b, <1>1, <2>2 DEF Fresh
<1>2. CASE OpenFails(t)
  <2>1. /\ th[t].pc = "open"
        /\ th'[t] = [th[t] EXCEPT !.pc = "cleanup"]
    BY <1>2, Moved DEF OpenFails
  <2> QED
    BY <1>0, <1>b, <1>2, <2>1 DEF Thread
<1>3. CASE Open(t)
  <2>1. /\ th[t].pc = "open"
        /\ th'[t] = [th[t] EXCEPT !.pc = "check", !.fd = Min({e \in Fds : fds[e] = Closed})]
    BY <1>3, Moved DEF Open
  <2> QED
    BY <1>0, <1>b, <1>3, <2>1 DEF Thread
<1>4. CASE Check(t)
  <2>1. \/ Step(t, "check", [th[t] EXCEPT !.pc = "cleanup"])
        \/ Step(t, "check", Streaming(t))
        \/ Step(t, "check", [th[t] EXCEPT !.pc = "load", !.f_len = size[Opened(t)]])
    BY <1>4 DEF Check
  <2>2. CASE Step(t, "check", [th[t] EXCEPT !.pc = "cleanup"])
    <3>1. th[t].pc = "check" /\ th'[t] = [th[t] EXCEPT !.pc = "cleanup"]
      BY <2>2, Moved
    <3> QED
      BY <1>0, <1>b, <1>4, <3>1 DEF Thread
  <2>3. CASE Step(t, "check", Streaming(t))
    <3>1. th[t].pc = "check" /\ th'[t] = Streaming(t)
      BY <2>3, Moved
    <3> QED
      BY <1>0, <1>b, <1>4, <3>1 DEF Thread, Streaming
  <2>4. CASE Step(t, "check", [th[t] EXCEPT !.pc = "load", !.f_len = size[Opened(t)]])
    <3>1. th[t].pc = "check" /\ th'[t] = [th[t] EXCEPT !.pc = "load", !.f_len = size[Opened(t)]]
      BY <2>4, Moved
    <3> QED
      BY <1>0, <1>b, <1>4, <3>1 DEF Thread
  <2> QED
    BY <2>1, <2>2, <2>3, <2>4
<1>5. CASE Load(t)
  <2>1. \/ Step(t, "load", [th[t] EXCEPT !.pc = "cleanup"])
        \/ Step(t, "load", Streaming(t))
        \/ Step(t, "load", [th[t] EXCEPT !.pc = "search", !.loaded = Opened(t), !.got = th[t].f_len])
    BY <1>5 DEF Load
  <2>2. CASE Step(t, "load", [th[t] EXCEPT !.pc = "cleanup"])
    <3>1. th[t].pc = "load" /\ th'[t] = [th[t] EXCEPT !.pc = "cleanup"]
      BY <2>2, Moved
    <3> QED
      BY <1>0, <1>b, <1>5, <3>1 DEF Thread
  <2>3. CASE Step(t, "load", Streaming(t))
    <3>1. th[t].pc = "load" /\ th'[t] = Streaming(t)
      BY <2>3, Moved
    <3> QED
      BY <1>0, <1>b, <1>5, <3>1 DEF Thread, Streaming
  <2>4. CASE Step(t, "load", [th[t] EXCEPT !.pc = "search", !.loaded = Opened(t), !.got = th[t].f_len])
    <3>1. th[t].pc = "load" /\ th'[t] = [th[t] EXCEPT !.pc = "search", !.loaded = Opened(t), !.got = th[t].f_len]
      BY <2>4, Moved
    <3> QED
      BY <1>0, <1>b, <1>5, <3>1 DEF Thread
  <2> QED
    BY <2>1, <2>2, <2>3, <2>4
<1>6. CASE ReadHead(t)
  <2>1. /\ th[t].pc = "load"
        /\ \/ th'[t] = [th[t] EXCEPT !.pc = "cleanup"]
           \/ th'[t] = [th[t] EXCEPT !.pc = "read", !.loaded = Opened(t), !.got = Min({1, size[Opened(t)]})]
    BY <1>6, Moved DEF ReadHead
  <2> QED
    BY <1>0, <1>b, <1>6, <2>1, ZenonT(30) DEF Thread
<1>7. CASE ReadOn(t)
  <2> DEFINE n == Min({Max({0, size[th[t].loaded] - th[t].got}), th[t].f_len})
  <2>1. /\ th[t].pc = "read"
        /\ \/ th'[t] = [th[t] EXCEPT !.pc = "search"]
           \/ th'[t] = [th[t] EXCEPT !.got = @ + n]
    BY <1>7, Moved DEF ReadOn
  <2> QED
    BY <1>0, <1>b, <1>7, <2>1, SMTT(30) DEF Thread
<1>8. CASE SearchBuf(t)
  <2>1. /\ th[t].pc = "search"
        /\ th'[t] = [th[t] EXCEPT !.pc = "stats_lock", !.buf = Got(t), !.count = Total(Got(t))]
    BY <1>8, Moved DEF SearchBuf
  <2> QED
    BY <1>0, <1>b, <1>8, <2>1 DEF Thread
<1>9. CASE ReadLine(t)
  <2> DEFINE n == Lines[th[t].loaded][th[t].line + 1]
  <2>1. /\ th[t].pc = "stream"
        /\ th'[t] = [th[t] EXCEPT !.pc = "stats_lock", !.line = @ + 1, !.buf = <<n>>, !.count = @ + n]
    BY <1>9, Moved DEF ReadLine
  <2> QED
    BY <1>0, <1>b, <1>9, <2>1 DEF Thread
<1>10. CASE CloseStream(t)
  <2>1. /\ th[t].pc = "stream"
        /\ th'[t] = [th[t] EXCEPT !.pc = "cleanup"]
    BY <1>10, Moved DEF CloseStream
  <2> QED
    BY <1>0, <1>b, <1>10, <2>1 DEF Thread
<1>11. CASE StatsLock(t)
  <2>1. /\ th[t].pc = "stats_lock"
        /\ th'[t] = [th[t] EXCEPT !.pc = "stats_read"]
    BY <1>11, Moved DEF StatsLock
  <2> QED
    BY <1>0, <1>b, <1>11, <2>1 DEF Thread
<1>12. CASE StatsRead(t)
  <2>1. /\ th[t].pc = "stats_read"
        /\ th'[t] = [th[t] EXCEPT !.pc = "stats_write", !.seen = stats]
    BY <1>12, Moved DEF StatsRead
  <2> QED
    BY <1>0, <1>b, <1>12, <2>1 DEF Thread
<1>13. CASE StatsWrite(t)
  <2>1. /\ th[t].pc = "stats_write"
        /\ \/ th'[t] = [th[t] EXCEPT !.pc = "print_lock"]
           \/ th'[t] = [th[t] EXCEPT !.pc = "cleanup"]
           \/ th'[t] = [th[t] EXCEPT !.pc = "trailing"]
    BY <1>13, Moved DEF StatsWrite, Return
  <2> QED
    BY <1>0, <1>b, <1>13, <2>1, SMTT(30) DEF Thread
<1>14. CASE PrintLock(t)
  <2>1. /\ th[t].pc = "print_lock"
        /\ th'[t] = [th[t] EXCEPT !.pc = "heading"]
    BY <1>14, Moved DEF PrintLock
  <2> QED
    BY <1>0, <1>b, <1>14, <2>1 DEF Thread
<1>15. CASE Heading(t)
  <2>1. /\ th[t].pc = "heading"
        /\ th'[t] = [th[t] EXCEPT !.pc = "printing"]
    BY <1>15, Moved DEF Heading
  <2> QED
    BY <1>0, <1>b, <1>15, <2>1 DEF Thread
<1>16. CASE PrintLine(t)
  <2> DEFINE n == IF Head(th[t].buf) > 0 THEN 1 ELSE Since(t)
  <2>1. /\ th[t].pc = "printing"
        /\ th'[t] = [th[t] EXCEPT !.buf = Tail(@), !.since = n]
    BY <1>16, Moved DEF PrintLine
  <2> QED
    BY <1>0, <1>b, <1>16, <2>1 DEF Thread
<1>17. CASE PrintUnlock(t)
  <2>1. /\ th[t].pc = "printing"
        /\ th'[t] = [th[t] EXCEPT !.pc = Return(t), !.since = Since(t)]
    BY <1>17, Moved DEF PrintUnlock
  <2> QED
    BY <1>0, <1>b, <1>17, <2>1 DEF Thread, Return
<1>18. CASE Trailing(t)
  <2>1. /\ th[t].pc = "trailing"
        /\ th'[t] = [th[t] EXCEPT !.pc = "stream", !.since = Since(t)]
    BY <1>18, Moved DEF Trailing
  <2> QED
    BY <1>0, <1>b, <1>18, <2>1 DEF Thread
<1>19. CASE Cleanup(t)
  <2>1. /\ th[t].pc = "cleanup"
        /\ \/ th'[t] = [th[t] EXCEPT !.pc = "list"]
           \/ th'[t] = [th[t] EXCEPT !.pc = "close"]
    BY <1>19, Moved DEF Cleanup
  <2> QED
    BY <1>0, <1>b, <1>19, <2>1, SMTT(30) DEF Thread
<1>20. CASE ListPath(t)
  <2>1. /\ th[t].pc = "list"
        /\ th'[t] = [th[t] EXCEPT !.pc = "close"]
    BY <1>20, Moved DEF ListPath
  <2> QED
    BY <1>0, <1>b, <1>20, <2>1 DEF Thread
<1>21. CASE CloseFd(t)
  <2>1. th[t].pc = "close" /\ th'[t] = Fresh
    BY <1>21, Moved DEF CloseFd
  <2> QED
    BY <1>b, <1>21, <2>1 DEF Fresh
<1> QED
  BY <1>1, <1>2, <1>3, <1>4, <1>5, <1>6, <1>7, <1>8, <1>9, <1>10, <1>11, <1>12, <1>13, <1>14, <1>15, <1>16, <1>17, <1>18, <1>19, <1>20, <1>21 DEF ThreadStep

(* The place of a thread tells what it does next.                          *)
LEMMA Doing ==
    ASSUME NEW t \in Threads, ThreadStep(t)
    PROVE  /\ th[t].pc = "idle" => Take(t)
           /\ th[t].pc = "open" => OpenFails(t) \/ Open(t)
           /\ th[t].pc = "check" => Check(t)
           /\ th[t].pc = "load" => Load(t) \/ ReadHead(t)
           /\ th[t].pc = "read" => ReadOn(t)
           /\ th[t].pc = "search" => SearchBuf(t)
           /\ th[t].pc = "stream" => ReadLine(t) \/ CloseStream(t)
           /\ th[t].pc = "stats_lock" => StatsLock(t)
           /\ th[t].pc = "stats_read" => StatsRead(t)
           /\ th[t].pc = "stats_write" => StatsWrite(t)
           /\ th[t].pc = "print_lock" => PrintLock(t)
           /\ th[t].pc = "heading" => Heading(t)
           /\ th[t].pc = "printing" => PrintLine(t) \/ PrintUnlock(t)
           /\ th[t].pc = "trailing" => Trailing(t)
           /\ th[t].pc = "cleanup" => Cleanup(t)
           /\ th[t].pc = "list" => ListPath(t)
           /\ th[t].pc = "close" => CloseFd(t)
BY DEF ThreadStep, Take, OpenFails, Open, Check, Load, ReadHead, ReadOn, SearchBuf, ReadLine,
       CloseStream, StatsLock, StatsRead, StatsWrite, PrintLock, Heading, PrintLine,
       PrintUnlock, Trailing, Cleanup, ListPath, CloseFd, Step

(* Where it goes on from a place with two ways.                            *)
LEMMA Onward ==
    ASSUME TypeOK, NEW t \in Threads
    PROVE  /\ StatsWrite(t) =>
                 th'[t].pc = IF Prints(t) THEN "print_lock" ELSE Return(t)
           /\ PrintLine(t) => th'[t].pc = "printing"
           /\ PrintUnlock(t) => th'[t].pc = Return(t)
           /\ Cleanup(t) =>
                 th'[t].pc = IF print_nonmatching_files /\ th[t].count = 0
                             THEN "list" ELSE "close"
<1>0. th[t] \in Thread
  BY DEF TypeOK
<1>1. ASSUME StatsWrite(t)
      PROVE  th'[t].pc = IF Prints(t) THEN "print_lock" ELSE Return(t)
  <2>1. th'[t] = [th[t] EXCEPT !.pc = IF Prints(t) THEN "print_lock" ELSE Return(t)]
    BY <1>1, Moved DEF StatsWrite
  <2> QED
    BY <1>0, <2>1 DEF Thread
<1>2. ASSUME PrintLine(t) PROVE th'[t].pc = "printing"
  <2>1. th'[t] = [th[t] EXCEPT !.buf = Tail(@),
                               !.since = IF Head(th[t].buf) > 0 THEN 1 ELSE Since(t)]
    BY <1>2, Moved DEF PrintLine
  <2> QED
    BY <1>0, <1>2, <2>1 DEF Thread, PrintLine
<1>3. ASSUME PrintUnlock(t) PROVE th'[t].pc = Return(t)
  <2>1. th'[t] = [th[t] EXCEPT !.pc = Return(t), !.since = Since(t)]
    BY <1>3, Moved DEF PrintUnlock
  <2> QED
    BY <1>0, <2>1 DEF Thread
<1>4. ASSUME Cleanup(t)
      PROVE  th'[t].pc = IF print_nonmatching_files /\ th[t].count = 0
                         THEN "list" ELSE "close"
  <2>1. CASE print_nonmatching_files /\ th[t].count = 0
    <3>1. th'[t] = [th[t] EXCEPT !.pc = "list"]
      BY <1>4, <2>1, Moved, ZenonT(30) DEF Cleanup
    <3> QED
      BY <1>0, <2>1, <3>1 DEF Thread
  <2>2. CASE ~(print_nonmatching_files /\ th[t].count = 0)
    <3>1. th'[t] = [th[t] EXCEPT !.pc = "close"]
      BY <1>4, <2>2, Moved DEF Cleanup
    <3> QED
      BY <1>0, <2>2, <3>1 DEF Thread
  <2> QED
    BY <2>1, <2>2
<1> QED
  BY <1>1, <1>2, <1>3, <1>4

(* The marks it prints are marks of files.                                 *)
LEMMA MarkType ==
    ASSUME TypeOK, NEW t \in Threads, Local(t), th[t].file \in Paths, th[t].loaded \in Paths,
           NEW what \in {"heading", "line", "context"}, Mark(t, what)
    PROVE  out' \in Seq(Marks)
<1>1. [file |-> th[t].file, from |-> th[t].loaded, what |-> what] \in Marks
  BY DEF Marks
<1>2. out \in Seq(Marks)
  BY DEF TypeOK
<1> QED
  BY <1>1, <1>2, AppendProperties DEF Mark

(* A step keeps every variable in its type.                                *)
LEMMA TypeStep ==
    ASSUME Shape, NEW t \in Threads, ThreadStep(t)
    PROVE  TypeOK'
<1>1. TypeOK /\ Local(t) /\ th[t] \in Thread
  BY DEF Shape, TypeOK
<1>2. paths' \subseteq Paths /\ mmap' \in BOOLEAN /\ size' \in [Paths -> Nat]
      /\ print_nonmatching_files' \in BOOLEAN
  BY <1>1, Shared DEF TypeOK
<1>3. th' \in [Threads -> Thread]
  BY <1>1, LocalStep, Own
<1>4. taken' \subseteq paths'
  BY <1>1, Shared, ZenonT(30) DEF TypeOK, Take, Given
<1>5. th[t].pc # "idle" => th[t].file \in Paths
  BY <1>1 DEF Local, TypeOK
<1>6. fds' \in [Fds -> Paths \cup {Closed}]
  <2>1. CASE Open(t)
    <3>1. th[t].pc = "open" /\ \E d \in Fds : fds' = [fds EXCEPT ![d] = th[t].file]
      BY <2>1, FreeDescriptor DEF Open
    <3> QED
      BY <1>1, <1>5, <3>1 DEF TypeOK
  <2>2. CASE CloseStream(t)
    BY <1>1, <2>2 DEF CloseStream, TypeOK
  <2>3. CASE CloseFd(t)
    BY <1>1, <2>3 DEF CloseFd, TypeOK
  <2> QED
    BY <1>1, <2>1, <2>2, <2>3, Shared DEF TypeOK
<1>7. print_mtx' \in Threads \cup {Nobody} /\ stats_mtx' \in Threads \cup {Nobody}
  BY <1>1, Shared DEF TypeOK, PrintLock, PrintUnlock, Cleanup, ListPath, StatsLock, StatsWrite
<1>8. stats' \in [files : Nat, matches : Nat]
  <2>1. CASE StatsWrite(t)
    <3>1. th[t].seen.files \in Nat /\ th[t].seen.matches \in Nat /\ th[t].buf \in Seq(Nat)
      BY <1>1 DEF Thread
    <3>2. Total(th[t].buf) \in Nat
      BY <3>1, MatchesFinite
    <3>3. th[t].seen.files + 1 \in Nat /\ th[t].seen.matches + Total(th[t].buf) \in Nat
      BY <3>1, <3>2
    <3> QED
      BY <2>1, <3>3 DEF StatsWrite
  <2> QED
    BY <1>1, <2>1, Shared DEF TypeOK
<1>9. out' \in Seq(Marks)
  <2>1. /\ th[t].pc \in {"heading", "printing", "trailing", "list"}
           => th[t].file \in Paths /\ th[t].loaded \in Paths
    BY <1>1, <1>5 DEF Local, Searching, Printing
  <2>2. CASE Heading(t)
    BY <1>1, <2>1, <2>2, MarkType DEF Heading
  <2>3. CASE PrintLine(t)
    BY <1>1, <2>1, <2>3, MarkType DEF PrintLine, Context, TypeOK
  <2>4. CASE PrintUnlock(t)
    BY <1>1, <2>1, <2>4, MarkType DEF PrintUnlock, Context, TypeOK
  <2>5. CASE Trailing(t)
    BY <1>1, <2>1, <2>5, MarkType DEF Trailing, Context, TypeOK
  <2>6. CASE ListPath(t)
    BY <1>1, <2>1, <2>6, MarkType DEF ListPath
  <2> QED
    BY <1>1, <2>2, <2>3, <2>4, <2>5, <2>6, Shared DEF TypeOK
<1>10. match_found' \in BOOLEAN
  BY <1>1, Shared DEF TypeOK, PrintUnlock, ListPath
<1> QED
  BY <1>2, <1>3, <1>4, <1>6, <1>7, <1>8, <1>9, <1>10 DEF TypeOK

(* A step of a thread leaves what is known of the others.                  *)
LEMMA OthersStep ==
    ASSUME Shape, NEW t \in Threads, ThreadStep(t), NEW u \in Threads \ {t}
    PROVE  Local(u)'
<1>1. th'[u] = th[u] /\ taken \subseteq taken' /\ UNCHANGED print_nonmatching_files
  BY Own, Shared DEF Shape, Take
<1> QED
  BY <1>1 DEF Shape, Local, Streamed

(* A step keeps each mutex with the one thread that is inside it.          *)
LEMMA LocksStep ==
    ASSUME Shape, NEW t \in Threads, ThreadStep(t)
    PROVE  Locks'
<1>1. TypeOK /\ Locks /\ th[t] \in Thread
  BY DEF Shape, TypeOK
<1>2. \A u \in Threads \ {t} : th'[u] = th[u]
  BY <1>1, Own
<1>3. <<th[t].pc, th'[t].pc>> \in Flow
  BY <1>1, Own
<1>4. Nobody \notin Threads
  BY FilesAssumption DEF Threads
<1>5. ASSUME NEW u \in Threads
      PROVE  print_mtx' = u <=> th'[u].pc \in {"heading", "printing", "list"}
  <2>1. CASE PrintLock(t)
    <3>1. th'[t].pc = "heading" /\ print_mtx = Nobody /\ print_mtx' = t
      BY <1>3, <2>1 DEF Flow, PrintLock, Step
    <3> QED
      BY <1>1, <1>2, <1>4, <3>1 DEF Locks
  <2>2. CASE PrintUnlock(t)
    <3>1. th'[t].pc \in {"cleanup", "trailing"}
      BY <1>1, <2>2, Onward DEF Return
    <3>2. th[t].pc = "printing" /\ print_mtx' = Nobody
      BY <2>2 DEF PrintUnlock
    <3> QED
      BY <1>1, <1>2, <1>4, <3>1, <3>2 DEF Locks
  <2>3. CASE Cleanup(t)
    <3>1. CASE print_mtx' = t
      <4>1. print_mtx = Nobody \/ print_mtx = t
        BY <2>3, <3>1 DEF Cleanup
      <4>2. th[t].pc = "cleanup" /\ print_mtx # t
        BY <1>1, <2>3 DEF Cleanup, Locks
      <4>3. th'[t].pc = "list"
        BY <1>1, <2>3, <3>1, <4>2, Onward DEF Cleanup
      <4> QED
        BY <1>1, <1>2, <1>4, <3>1, <4>1, <4>2, <4>3 DEF Locks
    <3>2. CASE print_mtx' # t
      <4>1. th[t].pc = "cleanup" /\ UNCHANGED print_mtx
            /\ ~(print_nonmatching_files /\ th[t].count = 0)
        BY <2>3, <3>2 DEF Cleanup
      <4>2. th'[t].pc = "close"
        BY <1>1, <2>3, <4>1, Onward
      <4> QED
        BY <1>1, <1>2, <4>1, <4>2 DEF Locks
    <3> QED
      BY <3>1, <3>2
  <2>4. CASE ListPath(t)
    <3>1. th[t].pc = "list" /\ th'[t].pc = "close" /\ print_mtx' = Nobody
      BY <1>3, <2>4 DEF Flow, ListPath
    <3> QED
      BY <1>1, <1>2, <1>4, <3>1 DEF Locks
  <2>5. CASE PrintLine(t)
    <3>1. th[t].pc = "printing" /\ UNCHANGED print_mtx
      BY <2>5 DEF PrintLine
    <3>2. th'[t].pc = "printing"
      BY <1>1, <2>5, Onward
    <3> QED
      BY <1>1, <1>2, <3>1, <3>2 DEF Locks
  <2>6. CASE th[t].pc \notin {"print_lock", "printing", "cleanup", "list"}
    <3>1. UNCHANGED print_mtx
      BY <2>6, Shared DEF PrintLock, PrintUnlock, Cleanup, ListPath, Step
    <3>2. th[t].pc \in {"heading", "printing", "list"}
            <=> th'[t].pc \in {"heading", "printing", "list"}
      BY <1>3, <2>6 DEF Flow
    <3> QED
      BY <1>1, <1>2, <3>1, <3>2 DEF Locks
  <2> QED
    BY <2>1, <2>2, <2>3, <2>4, <2>5, <2>6, Doing
<1>6. ASSUME NEW u \in Threads
      PROVE  stats_mtx' = u <=> th'[u].pc \in {"stats_read", "stats_write"}
  <2>1. CASE StatsLock(t)
    <3>1. th'[t].pc = "stats_read" /\ stats_mtx = Nobody /\ stats_mtx' = t
      BY <1>3, <2>1 DEF Flow, StatsLock, Step
    <3> QED
      BY <1>1, <1>2, <1>4, <3>1 DEF Locks
  <2>2. CASE StatsWrite(t)
    <3>1. /\ th[t].pc = "stats_write" /\ stats_mtx' = Nobody
          /\ th'[t].pc \notin {"stats_read", "stats_write"}
      BY <1>3, <2>2 DEF Flow, StatsWrite
    <3> QED
      BY <1>1, <1>2, <1>4, <3>1 DEF Locks
  <2>3. CASE th[t].pc \notin {"stats_lock", "stats_write"}
    <3>1. UNCHANGED stats_mtx
      BY <2>3, Shared DEF StatsLock, StatsWrite, Step
    <3>2. th[t].pc \in {"stats_read", "stats_write"}
            <=> th'[t].pc \in {"stats_read", "stats_write"}
      BY <1>3, <2>3 DEF Flow
    <3> QED
      BY <1>1, <1>2, <3>1, <3>2 DEF Locks
  <2> QED
    BY <2>1, <2>2, <2>3, Doing
<1> QED
  BY <1>5, <1>6 DEF Locks

(* A step leaves no two threads with the same file.                        *)
LEMMA DistinctStep ==
    ASSUME Shape, NEW t \in Threads, ThreadStep(t)
    PROVE  Distinct'
<1>1. /\ Distinct /\ TypeOK /\ \A u \in Threads : th[u].pc # "idle" => th[u].file \in taken
  BY DEF Shape, Local
<1>2. \A u \in Threads \ {t} : th'[u] = th[u]
  BY <1>1, Own
<1>3. CASE Take(t)
  <2>1. PICK f \in Given(t) : Step(t, "idle", [Fresh EXCEPT !.pc = "open", !.file = f])
    BY <1>3 DEF Take
  <2>2. th'[t] = [Fresh EXCEPT !.pc = "open", !.file = f]
    BY <1>1, <2>1, Moved
  <2>3. th'[t].file = f /\ f \notin taken
    BY <2>1, <2>2 DEF Fresh, Given
  <2> QED
    BY <1>1, <1>2, <2>3 DEF Distinct
<1>4. CASE CloseFd(t)
  <2>1. th'[t].pc = "idle"
    BY <1>1, <1>4, Own DEF Flow, CloseFd
  <2> QED
    BY <1>1, <1>2, <2>1 DEF Distinct
<1>5. CASE ~Take(t) /\ ~CloseFd(t)
  <2>1. th'[t].file = th[t].file /\ th[t].pc # "idle"
    BY <1>1, <1>5, Own, Doing
  <2> QED
    BY <1>1, <1>2, <2>1 DEF Distinct
<1> QED
  BY <1>3, <1>4, <1>5

(* A descriptor that is open is a thread's, and of a file that is there.   *)
LEMMA OpenFilesStep ==
    ASSUME Shape, NEW t \in Threads, ThreadStep(t)
    PROVE  OpenFiles'
<1>1. TypeOK /\ OpenFiles /\ Local(t)
  BY DEF Shape
<1>2. \A u \in Threads \ {t} : th'[u] = th[u]
  BY <1>1, Own
<1>3. CASE Open(t)
  <2> DEFINE d == Min({e \in Fds : fds[e] = Closed})
  <2>1. /\ th[t].pc = "open" /\ Kind[th[t].file] # "missing"
        /\ Step(t, "open", [th[t] EXCEPT !.pc = "check", !.fd = d])
        /\ fds' = [fds EXCEPT ![d] = th[t].file]
    BY <1>3 DEF Open
  <2>2. d \in Fds /\ fds[d] = Closed
    BY <2>1, FreeDescriptor
  <2>3. th'[t] = [th[t] EXCEPT !.pc = "check", !.fd = d]
    BY <1>1, <2>1, Moved
  <2> HIDE DEF d
  <2>4. th'[t].fd = d
    BY <1>1, <2>3 DEF TypeOK, Thread
  <2>5. th[t].fd \notin Fds
    BY <1>1, <2>1, FilesAssumption DEF Local
  <2>6. ASSUME NEW e \in Fds, fds'[e] # Closed
        PROVE  Kind[fds'[e]] # "missing" /\ \E u \in Threads : th'[u].fd = e
    <3>1. CASE e = d
      BY <1>1, <2>1, <2>2, <2>4, <3>1 DEF TypeOK
    <3>2. CASE e # d
      <4>1. fds'[e] = fds[e]
        BY <1>1, <2>1, <3>2 DEF TypeOK
      <4>2. PICK u \in Threads : th[u].fd = e
        BY <1>1, <2>6, <4>1 DEF OpenFiles
      <4>3. u # t
        BY <2>5, <4>2
      <4> QED
        BY <1>1, <1>2, <2>6, <4>1, <4>2, <4>3 DEF OpenFiles
    <3> QED
      BY <3>1, <3>2
  <2> QED
    BY <2>6 DEF OpenFiles
<1>4. CASE CloseStream(t)
  <2>1. fds' = [fds EXCEPT ![th[t].fd] = Closed] /\ th'[t].fd = th[t].fd
    <3>1. th[t].pc = "stream" /\ fds' = [fds EXCEPT ![th[t].fd] = Closed]
      BY <1>4 DEF CloseStream
    <3> QED
      BY <1>1, <3>1, Own DEF Take, Open, CloseFd, Step
  <2>2. \A e \in Fds : fds'[e] # Closed => fds'[e] = fds[e]
    BY <1>1, <2>1 DEF TypeOK
  <2> QED
    BY <1>1, <1>2, <2>1, <2>2 DEF OpenFiles
<1>5. CASE CloseFd(t)
  <2>1. \A e \in Fds : fds'[e] # Closed => fds'[e] = fds[e] /\ e # th[t].fd
    BY <1>1, <1>5 DEF CloseFd, TypeOK
  <2> QED
    BY <1>1, <1>2, <2>1 DEF OpenFiles
<1>6. CASE ~Open(t) /\ ~CloseStream(t) /\ ~CloseFd(t)
  <2>1. UNCHANGED fds
    BY <1>6, Shared
  <2>2. th'[t].fd = th[t].fd \/ th[t].fd \notin Fds
    <3>1. CASE Take(t)
      BY <1>1, <3>1, FilesAssumption DEF Local, Take, Step
    <3> QED
      BY <1>1, <1>6, <3>1, Own
  <2> QED
    BY <1>1, <1>2, <2>1, <2>2 DEF OpenFiles
<1> QED
  BY <1>3, <1>4, <1>5, <1>6

(* The invariant: what each thread may be doing, and that the mutexes, the *)
(* files and the descriptors are in as few hands as they should be.        *)
THEOREM ShapeInvariant == Spec => []Shape
<1>1. Init => Shape
  <2> SUFFICES ASSUME Init PROVE Shape
    OBVIOUS
  <2>1. Fresh \in Thread /\ Zeroes \in [files : Nat, matches : Nat]
    BY FilesAssumption DEF Fresh, Zeroes, Thread
  <2>2. \A t \in Threads : th[t] = Fresh
    BY DEF Init
  <2>3. TypeOK
    <3>1. paths \subseteq Paths /\ mmap \in BOOLEAN
      BY FilesAssumption DEF Init
    <3>2. size \in [Paths -> Nat]
      <4>1. \A f \in Paths : Len(Lines[f]) \in Nat
        BY FilesAssumption, LenProperties
      <4> QED
        BY <4>1 DEF Init
    <3>3. out \in Seq(Marks)
      BY EmptySeq DEF Init
    <3> QED
      BY <2>1, <3>1, <3>2, <3>3 DEF Init, TypeOK
  <2>4. \A t \in Threads : Local(t)
    BY <2>2 DEF Fresh, Local, Unloaded, Searching, Stats, Printing
  <2>5. Locks
    BY <2>2, FilesAssumption DEF Init, Fresh, Locks, Threads
  <2>6. Distinct
    BY <2>2 DEF Fresh, Distinct
  <2>7. OpenFiles
    BY DEF Init, OpenFiles
  <2> QED
    BY <2>3, <2>4, <2>5, <2>6, <2>7 DEF Shape
<1>2. Shape /\ [Next]_vars => Shape'
  <2> SUFFICES ASSUME Shape, [Next]_vars PROVE Shape'
    OBVIOUS
  <2>1. ASSUME NEW t \in Threads, ThreadStep(t) PROVE Shape'
    <3>1. \A u \in Threads : Local(u)'
      BY <2>1, LocalStep, OthersStep
    <3> QED
      BY <2>1, <3>1, TypeStep, LocksStep, DistinctStep, OpenFilesStep DEF Shape
  <2>2. ASSUME NEW f \in paths, Rewrite(f) PROVE Shape'
    <3>1. size' \in [Paths -> Nat]
      <4>1. PICK n \in Changes[mmap] : size[f] + n >= 0 /\ size' = [size EXCEPT ![f] = @ + n]
        BY <2>2 DEF Rewrite
      <4>2. n \in Int /\ size \in [Paths -> Nat]
        BY FilesAssumption DEF Shape, TypeOK
      <4>3. f \in Paths
        BY DEF Shape, TypeOK
      <4>4. size[f] + n \in Nat
        BY <4>1, <4>2, <4>3
      <4> QED
        BY <4>1, <4>2, <4>4
    <3>2. UNCHANGED <<paths, mmap, th, taken, fds, print_mtx, stats_mtx, stats, out,
                      match_found, print_nonmatching_files>>
      BY <2>2 DEF Rewrite
    <3>3. TypeOK'
      BY <3>1, <3>2 DEF Shape, TypeOK
    <3>4. \A u \in Threads : Local(u)'
      BY <3>2 DEF Shape, Local, Streamed
    <3>5. Locks' /\ Distinct' /\ OpenFiles'
      BY <3>2 DEF Shape, Locks, Distinct, OpenFiles
    <3> QED
      BY <3>3, <3>4, <3>5 DEF Shape
  <2>3. CASE UNCHANGED vars
    <3>1. TypeOK'
      BY <2>3 DEF Shape, TypeOK, vars
    <3>2. \A u \in Threads : Local(u)'
      BY <2>3 DEF Shape, Local, Streamed, vars
    <3>3. Locks' /\ Distinct' /\ OpenFiles'
      BY <2>3 DEF Shape, Locks, Distinct, OpenFiles, vars
    <3> QED
      BY <3>1, <3>2, <3>3 DEF Shape
  <2> QED
    BY <2>1, <2>2, <2>3 DEF Next
<1> QED
  BY <1>1, <1>2, PTL DEF Spec

(* Every variable always holds a value of its type, and open() always finds *)
(* a descriptor.                                                           *)
THEOREM TypeCorrect == Spec => []TypeOK
BY ShapeInvariant, PTL DEF Shape

-----------------------------------------------------------------------------
(* From the name of a file at h to k there is nothing of other files but   *)
(* stray lines of context.                                                 *)
Below(h, k, f) ==
    /\ out[h].file = f /\ out[h].what = "heading"
    /\ \A j \in h .. k : Stray(j) \/ out[j].file = f

(* Every mark is below the name of its file.                               *)
Named == \A i \in DOMAIN out : Stray(i) \/ \E h \in 1 .. i : Below(h, i, out[i].file)

(* The name of a regular file is printed once.                             *)
Once ==
    \A i, j \in DOMAIN out :
        /\ out[i].what = "heading" /\ out[j].what = "heading" /\ i # j
        /\ out[i].file = out[j].file
        => Kind[out[i].from] \in Streams

(* A thread that prints has printed the name last, but for stray lines.    *)
Underway ==
    \A t \in Threads : th[t].pc = "printing" =>
        \E h \in DOMAIN out : Below(h, Len(out), th[t].file)

(* What is printed of the file of a thread the thread has printed in this  *)
(* search; a regular file's name is still to be printed then only if       *)
(* nothing is printed of it yet.                                           *)
Traced ==
    /\ \A i \in DOMAIN out : out[i].file \in taken
    /\ \A t \in Threads : \A i \in DOMAIN out :
           th[t].pc # "idle" /\ out[i].file = th[t].file =>
               /\ out[i].from = th[t].loaded
               /\ \/ Streamed(t) \/ th[t].pc = "close"
                  \/ th[t].pc \in {"printing", "cleanup"} /\ ~print_nonmatching_files

(* The output consists of pieces, each of one file.                        *)
Pieces == Named /\ Once /\ Underway /\ Traced

(* Who prints a mark, and where.                                           *)
LEMMA Writes ==
    ASSUME NEW t \in Threads, ThreadStep(t)
    PROVE  \/ UNCHANGED out
           \/ Mark(t, "heading") /\ th[t].pc \in {"heading", "list"}
           \/ \E what \in {"line", "context"} : Mark(t, what) /\ th[t].pc = "printing"
           \/ Mark(t, "context") /\ th[t].pc = "trailing"
<1>1. CASE Heading(t)
  BY <1>1 DEF Heading
<1>2. CASE PrintLine(t)
  BY <1>2 DEF PrintLine, Context
<1>3. CASE PrintUnlock(t)
  BY <1>3 DEF PrintUnlock, Context
<1>4. CASE Trailing(t)
  BY <1>4 DEF Trailing, Context
<1>5. CASE ListPath(t)
  BY <1>5 DEF ListPath
<1> QED
  BY <1>1, <1>2, <1>3, <1>4, <1>5, Shared

(* A mark is added at the end.                                             *)
LEMMA Marked ==
    ASSUME TypeOK, NEW t \in Threads, NEW what, Mark(t, what)
    PROVE  /\ Len(out) \in Nat /\ DOMAIN out = 1 .. Len(out)
           /\ Len(out') = Len(out) + 1 /\ DOMAIN out' = 1 .. Len(out) + 1
           /\ \A i \in DOMAIN out : out'[i] = out[i] /\ (Stray(i)' <=> Stray(i))
           /\ LET n == Len(out) + 1
              IN  /\ out'[n].file = th[t].file /\ out'[n].from = th[t].loaded
                  /\ out'[n].what = what
<1>1. out \in Seq(Marks)
  BY DEF TypeOK
<1> DEFINE m == [file |-> th[t].file, from |-> th[t].loaded, what |-> what]
<1>2. out' = Append(out, m)
  BY DEF Mark
<1>3. m.file = th[t].file /\ m.from = th[t].loaded /\ m.what = what
  OBVIOUS
<1> HIDE DEF m
<1>4. /\ Len(out) \in Nat /\ DOMAIN out = 1 .. Len(out)
      /\ Len(out') = Len(out) + 1 /\ DOMAIN out' = 1 .. Len(out) + 1
      /\ \A i \in 1 .. Len(out) : out'[i] = out[i]
      /\ out'[Len(out) + 1] = m
  BY <1>1, <1>2
<1> QED
  BY <1>3, <1>4 DEF Stray

(* A step that prints nothing.                                             *)
LEMMA SilentStep ==
    ASSUME Shape, Pieces, NEW t \in Threads, ThreadStep(t), UNCHANGED out
    PROVE  Pieces'
<1>1. TypeOK /\ Local(t) /\ th[t] \in Thread
  BY DEF Shape, TypeOK
<1>2. (\A u \in Threads \ {t} : th'[u] = th[u]) /\ <<th[t].pc, th'[t].pc>> \in Flow
  BY <1>1, Own
<1>3. taken \subseteq taken' /\ UNCHANGED print_nonmatching_files
  BY Shared DEF Take
<1>4. Named' /\ Once'
  BY DEF Pieces, Named, Once, Below, Stray
<1>5. ~Heading(t)
  <2> SUFFICES ASSUME Heading(t) PROVE FALSE
    OBVIOUS
  <2>1. Mark(t, "heading")
    BY DEF Heading
  <2> QED
    BY <1>1, <2>1, Marked
<1>6. th[t].pc # "idle" /\ th'[t].pc # "idle" => th'[t].file = th[t].file
  BY <1>1, <1>2, Own DEF Flow, Take, CloseFd, Step
<1>7. Underway'
  <2> SUFFICES ASSUME NEW u \in Threads, th'[u].pc = "printing"
               PROVE  \E h \in DOMAIN out : Below(h, Len(out), th'[u].file)
    BY DEF Underway, Below, Stray
  <2>1. th[u].pc = "printing" /\ th'[u].file = th[u].file
    BY <1>2, <1>5, <1>6, Doing DEF Flow
  <2> QED
    BY <2>1 DEF Pieces, Underway
<1>8. ASSUME NEW u \in Threads, NEW i \in DOMAIN out, th'[u].pc # "idle",
             out[i].file = th'[u].file
      PROVE  /\ out[i].from = th'[u].loaded
             /\ \/ Streamed(u)' \/ th'[u].pc = "close"
                \/ th'[u].pc \in {"printing", "cleanup"} /\ ~print_nonmatching_files
  <2>1. CASE u # t
    BY <1>2, <1>8, <2>1 DEF Pieces, Traced, Streamed
  <2>2. CASE u = t
    <3>1. ~Take(t)
      <4> SUFFICES ASSUME Take(t) PROVE FALSE
        OBVIOUS
      <4>1. PICK f \in Given(t) : Step(t, "idle", [Fresh EXCEPT !.pc = "open", !.file = f])
        BY DEF Take
      <4>2. th'[t] = [Fresh EXCEPT !.pc = "open", !.file = f]
        BY <1>1, <4>1, Moved
      <4>3. th'[t].file = f /\ f \notin taken
        BY <4>1, <4>2 DEF Given, Fresh
      <4> QED
        BY <1>8, <2>2, <4>3 DEF Pieces, Traced
    <3>2. th[t].pc # "idle" /\ out[i].file = th[t].file
      BY <1>6, <1>8, <2>2, <3>1, Doing
    <3>3. out[i].from = th[t].loaded
      BY <3>2 DEF Pieces, Traced
    <3>4. out[i].from \in Paths
      <4>1. out \in Seq(Marks) /\ i \in 1 .. Len(out)
        BY <1>1 DEF TypeOK
      <4>2. out[i] \in Marks
        BY <4>1, ElementOfSeq
      <4> QED
        BY <4>2 DEF Marks
    <3>5. th[t].pc \notin Unloaded
      BY <1>1, <3>3, <3>4, FilesAssumption DEF Local
    <3>6. th'[t].loaded = th[t].loaded
      <4>1. ~Check(t) /\ ~Load(t) /\ ~ReadHead(t)
        BY <3>5 DEF Check, Load, ReadHead, Step, Unloaded
      <4>2. ~CloseFd(t)
        BY <1>2, <1>8, <2>2 DEF CloseFd, Step, Flow
      <4> QED
        BY <1>1, <3>1, <4>1, <4>2, Own
    <3>7. \/ Streamed(t) \/ th[t].pc = "close"
          \/ th[t].pc \in {"printing", "cleanup"} /\ ~print_nonmatching_files
      BY <3>2 DEF Pieces, Traced
    <3>8. th[t].pc = "printing" /\ ~Streamed(t) => th'[t].pc # "trailing"
      <4> SUFFICES ASSUME th[t].pc = "printing", ~Streamed(t), th'[t].pc = "trailing"
                   PROVE  FALSE
        OBVIOUS
      <4>1. th[t].got # 0 /\ th[t].got \in Nat
        BY <1>1 DEF Local, Thread, Printing
      <4> QED
        BY <1>1, <4>1, Doing, Onward DEF Return
    <3>9. th[t].pc = "cleanup" /\ ~print_nonmatching_files => th'[t].pc = "close"
      <4> SUFFICES ASSUME th[t].pc = "cleanup", ~print_nonmatching_files
                   PROVE  th'[t].pc = "close"
        OBVIOUS
      <4> QED
        BY <1>1, Doing, Onward
    <3> QED
      BY <1>2, <1>8, <2>2, <3>3, <3>6, <3>7, <3>8, <3>9 DEF Flow, Streamed
  <2> QED
    BY <2>1, <2>2
<1>9. Traced'
  BY <1>3, <1>8 DEF Pieces, Traced
<1> QED
  BY <1>4, <1>7, <1>9 DEF Pieces

(* A step that prints a mark.                                              *)
LEMMA MarkStep ==
    ASSUME Shape, Pieces, NEW t \in Threads, ThreadStep(t), NEW what, Mark(t, what),
           \/ what = "heading" /\ th[t].pc \in {"heading", "list"}
           \/ what \in {"line", "context"} /\ th[t].pc = "printing"
           \/ what = "context" /\ th[t].pc = "trailing"
    PROVE  Pieces'
<1>0. PICK n, f : n = Len(out) /\ f = th[t].file
  OBVIOUS
<1>1. TypeOK /\ Local(t) /\ Locks /\ Distinct
  BY DEF Shape
<1>2. (\A u \in Threads \ {t} : th'[u] = th[u]) /\ <<th[t].pc, th'[t].pc>> \in Flow
  BY <1>1, Own
<1>3. /\ th[t].file \in taken /\ taken \subseteq taken' /\ UNCHANGED print_nonmatching_files
  BY <1>1, Shared DEF Take, Local
<1>4. /\ n \in Nat /\ DOMAIN out = 1 .. n /\ Len(out') = n + 1 /\ DOMAIN out' = 1 .. n + 1
      /\ \A i \in 1 .. n : out'[i] = out[i] /\ (Stray(i)' <=> Stray(i))
      /\ out'[n + 1].file = f /\ out'[n + 1].from = th[t].loaded
      /\ out'[n + 1].what = what
  BY <1>0, <1>1, Marked
<1>5. th'[t].file = th[t].file /\ th'[t].loaded = th[t].loaded /\ th'[t].pc # "idle"
  <2>1. ~Take(t) /\ ~CloseFd(t) /\ ~Check(t) /\ ~Load(t) /\ ~ReadHead(t)
    BY DEF Take, CloseFd, Check, Load, ReadHead, Step
  <2> QED
    BY <1>1, <1>2, <2>1, Own DEF Flow
<1>6. th[t].pc = "trailing" => Stray(n + 1)'
  BY <1>1, <1>4 DEF Local, Streamed, Stray
<1>7. ASSUME NEW h \in 1 .. n, NEW k \in h .. n, NEW g, Below(h, k, g)
      PROVE  Below(h, k, g)'
  <2>1. \A j \in h .. k : j \in 1 .. n
    BY <1>4
  <2> QED
    BY <1>4, <1>7, <2>1 DEF Below
<1>8. ASSUME NEW h \in 1 .. n, NEW g, Below(h, n, g), Stray(n + 1)' \/ g = f
      PROVE  Below(h, n + 1, g)'
  <2>1. n \in h .. n
    BY <1>4
  <2>2. Below(h, n, g)'
    BY <1>7, <1>8, <2>1
  <2>3. \A j \in h .. n + 1 : j \in h .. n \/ j = n + 1
    BY <1>4
  <2> QED
    BY <1>4, <1>8, <2>2, <2>3 DEF Below
<1>9. th[t].pc = "printing" => \E h \in 1 .. n : Below(h, n, f)
  BY <1>0, <1>4 DEF Pieces, Underway
<1>10. Named'
  <2>1. ASSUME NEW i \in 1 .. n, NEW g, g = out'[i].file
        PROVE  Stray(i)' \/ \E h \in 1 .. i : Below(h, i, g)'
    <3>1. CASE Stray(i)
      BY <1>4, <3>1
    <3>2. CASE ~Stray(i)
      <4>1. PICK h \in 1 .. i : Below(h, i, g)
        BY <1>4, <2>1, <3>2 DEF Pieces, Named
      <4>2. h \in 1 .. n /\ i \in h .. n
        BY <1>4
      <4> QED
        BY <1>7, <4>1, <4>2
    <3> QED
      BY <3>1, <3>2
  <2>2. Stray(n + 1)' \/ \E h \in 1 .. n + 1 : Below(h, n + 1, f)'
    <3>1. CASE what = "heading"
      <4>1. \A j \in n + 1 .. n + 1 : j = n + 1
        BY <1>4
      <4>2. Below(n + 1, n + 1, f)'
        BY <1>4, <3>1, <4>1 DEF Below
      <4> QED
        BY <1>4, <4>2
    <3>2. CASE th[t].pc = "printing"
      <4>1. PICK h \in 1 .. n : Below(h, n, f)
        BY <1>9, <3>2
      <4>2. Below(h, n + 1, f)'
        BY <1>8, <4>1
      <4>3. h \in 1 .. n + 1
        BY <1>4
      <4> QED
        BY <4>2, <4>3
    <3> QED
      BY <1>6, <3>1, <3>2
  <2>3. ASSUME NEW i \in DOMAIN out', NEW g, g = out'[i].file
        PROVE  Stray(i)' \/ \E h \in 1 .. i : Below(h, i, g)'
    <3>1. CASE i \in 1 .. n
      BY <2>1, <2>3, <3>1
    <3>2. CASE i = n + 1
      BY <1>4, <2>2, <2>3, <3>2
    <3> QED
      BY <1>4, <3>1, <3>2
  <2> QED
    BY <2>3 DEF Named, Below
<1>11. Once'
  <2>1. ASSUME NEW k \in 1 .. n, what = "heading", out[k].file = f
        PROVE  out[k].from = th[t].loaded /\ Kind[th[t].loaded] \in Streams
    BY <1>0, <1>4, <2>1 DEF Pieces, Traced, Streamed
  <2>2. ASSUME NEW i \in DOMAIN out', NEW j \in DOMAIN out', i # j,
               out'[i].what = "heading", out'[j].what = "heading",
               out'[i].file = out'[j].file
        PROVE  Kind[out'[i].from] \in Streams
    <3>1. CASE i \in 1 .. n /\ j \in 1 .. n
      BY <1>4, <2>2, <3>1 DEF Pieces, Once
    <3>2. CASE i \in 1 .. n /\ j = n + 1
      BY <1>4, <2>1, <2>2, <3>2
    <3>3. CASE i = n + 1 /\ j \in 1 .. n
      BY <1>4, <2>1, <2>2, <3>3
    <3> QED
      BY <1>4, <2>2, <3>1, <3>2, <3>3
  <2> QED
    BY <2>2 DEF Once
<1>12. Underway'
  <2>1. ASSUME NEW u \in Threads, th'[u].pc = "printing", NEW g, g = th'[u].file
        PROVE  \E h \in 1 .. n + 1 : Below(h, n + 1, g)'
    <3>1. CASE u = t /\ th[t].pc = "heading"
      <4>1. what = "heading" /\ g = f
        BY <1>0, <1>5, <2>1, <3>1
      <4>2. \A j \in n + 1 .. n + 1 : j = n + 1
        BY <1>4
      <4>3. Below(n + 1, n + 1, f)'
        BY <1>4, <4>1, <4>2 DEF Below
      <4> QED
        BY <1>4, <4>1, <4>3
    <3>2. CASE u = t /\ th[t].pc = "printing"
      <4>1. PICK h \in 1 .. n : Below(h, n, f)
        BY <1>9, <3>2
      <4>2. Below(h, n + 1, f)' /\ h \in 1 .. n + 1
        BY <1>4, <1>8, <4>1
      <4> QED
        BY <1>0, <1>5, <2>1, <3>2, <4>2
    <3>3. CASE u # t
      <4>1. th'[u] = th[u] /\ print_mtx = u
        BY <1>1, <1>2, <2>1, <3>3 DEF Locks
      <4>2. th[t].pc = "trailing"
        BY <1>1, <3>3, <4>1 DEF Locks
      <4>3. PICK h \in 1 .. n : Below(h, n, g)
        BY <1>0, <1>4, <2>1, <4>1 DEF Pieces, Underway
      <4>4. Below(h, n + 1, g)' /\ h \in 1 .. n + 1
        BY <1>4, <1>6, <1>8, <4>2, <4>3
      <4> QED
        BY <4>4
    <3> QED
      BY <1>2, <2>1, <3>1, <3>2, <3>3 DEF Flow
  <2> QED
    BY <1>4, <2>1 DEF Underway, Below
<1>13. Traced'
  <2>1. \A i \in DOMAIN out' : out'[i].file \in taken'
    BY <1>0, <1>3, <1>4 DEF Pieces, Traced
  <2>2. \/ Streamed(t)' \/ th'[t].pc = "close"
        \/ th'[t].pc \in {"printing", "cleanup"} /\ ~print_nonmatching_files'
    <3>1. CASE th[t].pc \in {"heading", "list"}
      BY <1>1, <1>2, <1>3, <3>1 DEF Flow, Local, Printing
    <3>2. CASE th[t].pc = "printing"
      <4>1. th[t].got = 0 => Streamed(t)
        BY <1>1, <3>2 DEF Local, Printing
      <4>2. th[t].got \in Nat
        BY <1>1 DEF TypeOK, Thread
      <4>3. th'[t].pc = "printing" \/ th'[t].pc = Return(t)
        BY <1>1, <3>2, Doing, Onward
      <4>4. ~print_nonmatching_files
        BY <1>1, <3>2 DEF Local, Printing
      <4> QED
        BY <1>3, <1>5, <4>1, <4>2, <4>3, <4>4 DEF Return, Streamed
    <3>3. CASE th[t].pc = "trailing"
      BY <1>1, <1>5, <3>3 DEF Local, Streamed
    <3> QED
      BY <3>1, <3>2, <3>3
  <2>3. ASSUME NEW u \in Threads, NEW i \in DOMAIN out', th'[u].pc # "idle",
               out'[i].file = th'[u].file
        PROVE  /\ out'[i].from = th'[u].loaded
               /\ \/ Streamed(u)' \/ th'[u].pc = "close"
                  \/ th'[u].pc \in {"printing", "cleanup"} /\ ~print_nonmatching_files'
    <3>1. CASE u = t
      <4>1. out'[i].from = th'[t].loaded
        <5>1. CASE i = n + 1
          BY <1>0, <1>4, <1>5, <5>1
        <5>2. CASE i \in 1 .. n
          BY <1>4, <1>5, <2>3, <3>1, <5>2 DEF Pieces, Traced
        <5> QED
          BY <1>4, <5>1, <5>2
      <4> QED
        BY <2>2, <3>1, <4>1
    <3>2. CASE u # t
      <4>1. th'[u] = th[u]
        BY <1>2, <3>2
      <4>2. i # n + 1
        BY <1>0, <1>1, <1>4, <2>3, <3>2, <4>1 DEF Distinct
      <4>3. i \in 1 .. n
        BY <1>4, <4>2
      <4> QED
        BY <1>3, <1>4, <2>3, <4>1, <4>3 DEF Pieces, Traced, Streamed
    <3> QED
      BY <3>1, <3>2
  <2> QED
    BY <2>1, <2>3 DEF Traced
<1> QED
  BY <1>10, <1>11, <1>12, <1>13 DEF Pieces

(* The output is in pieces: each file has one, and it is added to at its   *)
(* end only.                                                               *)
LEMMA PiecesInvariant == Spec => []Pieces
<1>1. Init => Pieces
  <2> SUFFICES ASSUME Init PROVE Pieces
    OBVIOUS
  <2>1. DOMAIN out = {}
    BY DEF Init
  <2>2. \A t \in Threads : th[t].pc = "idle"
    BY DEF Init, Fresh
  <2> QED
    BY <2>1, <2>2 DEF Pieces, Named, Once, Underway, Traced
<1>2. Shape /\ Pieces /\ [Next]_vars => Pieces'
  <2> SUFFICES ASSUME Shape, Pieces, [Next]_vars PROVE Pieces'
    OBVIOUS
  <2>1. ASSUME NEW t \in Threads, ThreadStep(t) PROVE Pieces'
    BY <2>1, Writes, SilentStep, MarkStep
  <2>2. ASSUME UNCHANGED <<th, taken, out, print_nonmatching_files>> PROVE Pieces'
    BY <2>2 DEF Pieces, Named, Once, Underway, Traced, Below, Stray, Streamed
  <2> QED
    BY <2>1, <2>2 DEF Next, Rewrite, vars
<1> QED
  BY <1>1, <1>2, ShapeInvariant, PTL DEF Spec

(* What is printed of a file is printed below its name, in one piece if it *)
(* is a regular file, whatever the other threads do: with streams that are *)
(* closed twice and files that change, too.                                *)
THEOREM OutputCorrect == Spec => []OutputInOnePiece
<1>1. Pieces => OutputInOnePiece
  BY DEF Pieces, Named, Once, Below, OutputInOnePiece
<1> QED
  BY <1>1, PiecesInvariant, PTL

-----------------------------------------------------------------------------
(* Where no path is a stream: the descriptor of a thread leads to its file, *)
(* whose bytes are all it has, it loads no file that is stdout's, and it is *)
(* never where streams are read.                                           *)
Owned(t) ==
    /\ \/ th[t].loaded = Closed
       \/ th[t].loaded = th[t].file /\ Kind[th[t].file] = "regular"
    /\ th[t].fd # -1 => fds[th[t].fd] = th[t].file
    /\ th[t].pc \notin {"stream", "trailing"}
    /\ th[t].pc = "load" => Kind[th[t].file] # "stdout"

(* What a thread that has a descriptor finds behind it.                    *)
LEMMA OwnedOpened ==
    ASSUME Shape, NoStreams, NEW t \in Threads, Owned(t), th[t].fd # -1
    PROVE  /\ ~Badfd(t) /\ Opened(t) = th[t].file /\ th[t].file \in paths /\ th[t].fd \in Fds
           /\ Kind[th[t].file] \in {"regular", "binary", "stdout"}
<1>1. Local(t) /\ TypeOK /\ th[t] \in Thread
  BY DEF Shape, TypeOK
<1>2. th[t].pc # "idle"
  BY <1>1 DEF Local
<1>3. th[t].file \in paths /\ th[t].file \in Paths
  BY <1>1, <1>2 DEF Local, TypeOK
<1>4. th[t].fd \in Fds /\ fds[th[t].fd] = th[t].file
  BY <1>1 DEF Owned, Thread
<1>5. Kind[th[t].file] # "missing"
  BY <1>3, <1>4, FilesAssumption DEF Shape, OpenFiles
<1>6. Kind[th[t].file] \in FileKinds
  BY <1>3, FilesAssumption
<1> QED
  BY <1>3, <1>4, <1>5, <1>6, FilesAssumption DEF Badfd, Opened, NoStreams, Streams, FileKinds

(* A step keeps what each thread has behind its descriptor.                *)
LEMMA OwnedStep ==
    ASSUME Shape, NoStreams, \A u \in Threads : Owned(u), NEW t \in Threads, ThreadStep(t)
    PROVE  \A u \in Threads : Owned(u)'
<1>1. TypeOK /\ Local(t) /\ Local(t)' /\ Distinct /\ th[t] \in Thread /\ Owned(t)
  BY LocalStep DEF Shape, TypeOK
<1>2. (\A u \in Threads \ {t} : th'[u] = th[u]) /\ <<th[t].pc, th'[t].pc>> \in Flow
  BY <1>1, Own
<1>3. ASSUME NEW u \in Threads, th[u].fd # -1
      PROVE  th[u].fd \in Fds /\ fds[th[u].fd] = th[u].file /\ th[u].file # Closed
             /\ th[u].pc # "idle"
  <2>1. /\ ~Badfd(u) /\ Opened(u) = th[u].file /\ th[u].file \in paths /\ th[u].fd \in Fds
    BY <1>3, OwnedOpened
  <2>2. th[u].file # Closed
    BY <1>1, <2>1, FilesAssumption DEF TypeOK
  <2>3. th[u].pc # "idle"
    BY <1>3 DEF Shape, Local
  <2> QED
    BY <2>1, <2>2, <2>3 DEF Opened
<1>4. ASSUME NEW u \in Threads, th'[u].fd # -1
      PROVE  fds'[th'[u].fd] = th'[u].file
  <2>1. CASE Take(t)
    <3>1. UNCHANGED fds /\ (u = t => th'[t].fd = -1)
      BY <1>1, <1>2, <2>1 DEF Take, Local, Flow, Step
    <3> QED
      BY <1>2, <1>3, <1>4, <3>1
  <2>2. CASE Open(t)
    <3> DEFINE d == Min({e \in Fds : fds[e] = Closed})
    <3>1. /\ th[t].pc = "open" /\ Step(t, "open", [th[t] EXCEPT !.pc = "check", !.fd = d])
          /\ fds' = [fds EXCEPT ![d] = th[t].file]
      BY <2>2 DEF Open
    <3>2. d \in Fds /\ fds[d] = Closed
      BY <3>1, FreeDescriptor
    <3>3. th'[t] = [th[t] EXCEPT !.pc = "check", !.fd = d]
      BY <1>1, <3>1, Moved
    <3> HIDE DEF d
    <3>4. th'[t].fd = d /\ th'[t].file = th[t].file /\ fds'[d] = th[t].file
      BY <1>1, <3>1, <3>2, <3>3 DEF Thread, TypeOK
    <3>5. \A e \in Fds \ {d} : fds'[e] = fds[e]
      BY <1>1, <3>1 DEF TypeOK
    <3> QED
      BY <1>2, <1>3, <1>4, <3>2, <3>4, <3>5
  <2>3. CASE CloseFd(t)
    <3>1. th'[t].fd = -1
      BY <1>1, <1>2, <2>3 DEF CloseFd, Flow, Local, Step
    <3>2. \A e \in Fds : e # th[t].fd => fds'[e] = fds[e]
      BY <2>3 DEF CloseFd
    <3>3. u # t /\ th'[u] = th[u] /\ th[u].fd # -1
      BY <1>2, <1>4, <3>1
    <3>4. th[u].fd # th[t].fd
      <4> SUFFICES ASSUME th[u].fd = th[t].fd PROVE FALSE
        OBVIOUS
      <4>1. th[t].file = th[u].file /\ th[t].pc # "idle" /\ th[u].pc # "idle"
        BY <1>3, <3>3
      <4> QED
        BY <1>1, <3>3, <4>1 DEF Distinct
    <3> QED
      BY <1>3, <3>2, <3>3, <3>4
  <2>4. ~CloseStream(t)
    BY <1>1 DEF CloseStream, Owned
  <2>5. CASE ~Take(t) /\ ~Open(t) /\ ~CloseFd(t)
    <3>1. UNCHANGED fds /\ th'[t].fd = th[t].fd
      BY <1>1, <2>4, <2>5, Shared, Own
    <3>2. u = t => th'[t].file = th[t].file
      BY <1>1, <2>5, Own
    <3> QED
      BY <1>2, <1>3, <1>4, <3>1, <3>2
  <2> QED
    BY <2>1, <2>2, <2>3, <2>5
<1>5. th'[t].pc \notin {"stream", "trailing"}
  <2>1. CASE Check(t)
    <3>1. Kind[Opened(t)] # "fifo"
      BY <1>1, <2>1, OwnedOpened, FilesAssumption DEF Check, Local, Searching
    <3>2. \/ th'[t] = [th[t] EXCEPT !.pc = "cleanup"]
          \/ th'[t] = [th[t] EXCEPT !.pc = "load", !.f_len = size[Opened(t)]]
      BY <1>1, <2>1, <3>1, Moved DEF Check
    <3> QED
      BY <1>1, <3>2 DEF Thread
  <2>2. CASE Load(t)
    <3>1. Kind[Opened(t)] # "zip"
      BY <1>1, <2>2, OwnedOpened, FilesAssumption DEF Load, Local, Searching
    <3>2. \/ Step(t, "load", [th[t] EXCEPT !.pc = "cleanup"])
          \/ Step(t, "load", [th[t] EXCEPT !.pc = "search", !.loaded = Opened(t),
                                           !.got = th[t].f_len])
      BY <2>2, <3>1 DEF Load
    <3>3. \/ th'[t] = [th[t] EXCEPT !.pc = "cleanup"]
          \/ th'[t] = [th[t] EXCEPT !.pc = "search", !.loaded = Opened(t), !.got = th[t].f_len]
      BY <1>1, <3>2, Moved
    <3> QED
      BY <1>1, <3>3 DEF Thread
  <2>3. CASE ReadHead(t)
    <3>1. th[t].pc = "load"
      BY <2>3 DEF ReadHead
    <3>2. \/ Step(t, "load", [th[t] EXCEPT !.pc = "cleanup"])
          \/ Step(t, "load", [th[t] EXCEPT !.pc = "read", !.loaded = Opened(t),
                                           !.got = Min({1, size[Opened(t)]})])
      BY <2>3 DEF ReadHead
    <3>3. \/ th'[t] = [th[t] EXCEPT !.pc = "cleanup"]
          \/ th'[t] = [th[t] EXCEPT !.pc = "read", !.loaded = Opened(t),
                                    !.got = Min({1, size[Opened(t)]})]
      BY <1>1, <3>2, Moved
    <3> QED
      BY <1>1, <3>3 DEF Thread
  <2>4. CASE StatsWrite(t) \/ PrintUnlock(t)
    <3>1. th[t].pc \in Stats \cup Printing /\ th[t].got \in Nat
      BY <1>1, <2>4 DEF StatsWrite, PrintUnlock, Stats, Printing, Thread
    <3>2. th[t].loaded \in Paths /\ (th[t].got = 0 => Streamed(t))
      BY <1>1, <3>1 DEF Local, Searching
    <3>3. th[t].got # 0
      BY <1>1, <3>2, FilesAssumption DEF Owned, Streamed, Streams
    <3> QED
      BY <1>1, <2>4, <3>1, <3>3, Onward DEF Return
  <2>5. CASE th[t].pc \notin {"check", "load", "stats_write", "printing"}
    BY <1>1, <1>2, <2>5 DEF Flow, Owned
  <2>6. CASE PrintLine(t)
    BY <1>1, <2>6, Onward
  <2> QED
    BY <2>1, <2>2, <2>3, <2>4, <2>5, <2>6, Doing
<1>6. \/ th'[t].loaded = Closed
      \/ th'[t].loaded = th'[t].file /\ Kind[th'[t].file] = "regular"
  <2>1. CASE Take(t) \/ CloseFd(t)
    <3>1. th'[t].pc \in Unloaded
      BY <1>1, <1>2, <2>1 DEF Flow, Take, CloseFd, Unloaded, Step
    <3> QED
      BY <1>1, <3>1 DEF Local
  <2>2. CASE ~Take(t) /\ ~CloseFd(t) /\ th'[t].loaded = th[t].loaded
    BY <1>1, <2>2, Own DEF Owned
  <2>3. CASE ~Take(t) /\ ~CloseFd(t) /\ th'[t].loaded # th[t].loaded
    <3>1. Check(t) \/ Load(t) \/ ReadHead(t)
      BY <1>1, <2>3, Own
    <3>2. th[t].pc \in {"check", "load"} /\ th'[t].file = th[t].file
      BY <1>1, <2>3, <3>1, Own DEF Check, Load, ReadHead
    <3>3. /\ ~Badfd(t) /\ Opened(t) = th[t].file /\ th[t].file \in paths /\ th[t].fd \in Fds
          /\ Kind[th[t].file] \in {"regular", "binary", "stdout"}
      BY <1>1, <3>2, OwnedOpened, FilesAssumption DEF Local
    <3>4. th'[t].pc \notin Unloaded
      BY <1>1, <2>3, <3>2 DEF Local, Unloaded
    <3>8. th[t].pc = "load" => Kind[th[t].file] # "stdout"
      BY <1>1 DEF Owned
    <3>5. CASE Load(t)
      <4>1. \/ Step(t, "load", [th[t] EXCEPT !.pc = "cleanup"])
            \/ /\ Step(t, "load", [th[t] EXCEPT !.pc = "search", !.loaded = Opened(t),
                                                !.got = th[t].f_len])
               /\ Kind[Opened(t)] = "regular"
        BY <3>3, <3>5, <3>8 DEF Load
      <4>2. \/ th'[t] = [th[t] EXCEPT !.pc = "cleanup"]
            \/ /\ th'[t] = [th[t] EXCEPT !.pc = "search", !.loaded = Opened(t),
                                         !.got = th[t].f_len]
               /\ Kind[Opened(t)] = "regular"
        BY <1>1, <4>1, Moved
      <4> QED
        BY <1>1, <2>3, <3>2, <3>3, <4>2 DEF Thread
    <3>6. CASE ReadHead(t)
      <4>1. \/ Step(t, "load", [th[t] EXCEPT !.pc = "cleanup"])
            \/ /\ Step(t, "load", [th[t] EXCEPT !.pc = "read", !.loaded = Opened(t),
                                                !.got = Min({1, size[Opened(t)]})])
               /\ Kind[Opened(t)] # "binary"
        BY <3>6 DEF ReadHead
      <4>2. \/ th'[t] = [th[t] EXCEPT !.pc = "cleanup"]
            \/ /\ th'[t] = [th[t] EXCEPT !.pc = "read", !.loaded = Opened(t),
                                         !.got = Min({1, size[Opened(t)]})]
               /\ Kind[Opened(t)] # "binary"
        BY <1>1, <4>1, Moved
      <4>3. th[t].pc = "load"
        BY <3>6 DEF ReadHead
      <4> QED
        BY <1>1, <2>3, <3>2, <3>3, <3>8, <4>2, <4>3 DEF Thread
    <3>7. CASE Check(t)
      <4>1. \/ th'[t] = [th[t] EXCEPT !.pc = "cleanup"]
            \/ th'[t] = [th[t] EXCEPT !.pc = "load", !.f_len = size[Opened(t)]]
        BY <1>1, <3>3, <3>7, Moved DEF Check
      <4> QED
        BY <1>1, <2>3, <4>1 DEF Thread
    <3> QED
      BY <3>1, <3>5, <3>6, <3>7
  <2> QED
    BY <2>1, <2>2, <2>3
<1>9. th'[t].pc = "load" => Kind[th'[t].file] # "stdout"
  <2> SUFFICES ASSUME th'[t].pc = "load" PROVE Kind[th'[t].file] # "stdout"
    OBVIOUS
  <2>1. th[t].pc = "check"
    BY <1>2 DEF Flow
  <2>2. Check(t)
    BY <2>1, Doing
  <2>3. ~Badfd(t) /\ Opened(t) = th[t].file
    BY <1>1, <2>1, OwnedOpened, FilesAssumption DEF Local
  <2>4. \/ th'[t] = [th[t] EXCEPT !.pc = "cleanup"]
        \/ th'[t] = Streaming(t)
        \/ ~Skips(Opened(t)) /\ th'[t] = [th[t] EXCEPT !.pc = "load", !.f_len = size[Opened(t)]]
    BY <1>1, <2>2, Moved DEF Check
  <2>5. ~Skips(Opened(t)) /\ th'[t].file = th[t].file
    BY <1>1, <2>4 DEF Thread, Streaming
  <2> QED
    BY <2>3, <2>5 DEF Skips
<1>7. Owned(t)'
  BY <1>4, <1>5, <1>6, <1>9 DEF Owned
<1>8. ASSUME NEW u \in Threads, u # t PROVE Owned(u)'
  BY <1>2, <1>4, <1>8 DEF Owned
<1> QED
  BY <1>7, <1>8

(* Where no path is a stream, no thread reads the file of another: the     *)
(* descriptors of the threads are different ones, and each closes its own, *)
(* once.                                                                   *)
THEOREM OwnFileRead == Spec => []ReadsOwnFile
<1> DEFINE I == NoStreams => \A t \in Threads : Owned(t)
<1>1. Init => I
  BY DEF Init, Owned, Fresh
<1>2. Shape /\ I /\ [Next]_vars => I'
  <2> SUFFICES ASSUME Shape, I, [Next]_vars, NoStreams' PROVE \A t \in Threads : Owned(t)'
    BY DEF I
  <2>1. UNCHANGED paths
    BY Shared DEF Next, Rewrite, vars
  <2>2. NoStreams /\ \A t \in Threads : Owned(t)
    BY <2>1 DEF NoStreams
  <2>3. ASSUME NEW t \in Threads, ThreadStep(t) PROVE \A u \in Threads : Owned(u)'
    BY <2>2, <2>3, OwnedStep
  <2>4. ASSUME UNCHANGED <<th, fds>> PROVE \A u \in Threads : Owned(u)'
    BY <2>2, <2>4 DEF Owned
  <2> QED
    BY <2>3, <2>4 DEF Next, Rewrite, vars
<1>3. I => ReadsOwnFile
  BY DEF Owned, ReadsOwnFile, LoadsOwnFile
<1> QED
  BY <1>1, <1>2, <1>3, ShapeInvariant, PTL DEF Spec

-----------------------------------------------------------------------------
(* No file gets shorter.                                                   *)
NoneShrinks == \A m \in BOOLEAN : \A n \in Changes[m] : n >= 0

(* A file has at least the bytes it had at the start; an empty one stays   *)
(* empty.                                                                  *)
Sizes ==
    \A f \in Paths :
        size[f] >= Len(Lines[f]) /\ (Lines[f] = <<>> => size[f] = 0)

(* What is looked for matches in, if it can be.                            *)
Countable(f) == Kind[f] = "regular" /\ Lines[f] # <<>>

(* A thread gets all the lines of its file, and counts their matches.      *)
Whole(t) ==
    LET f == th[t].file
    IN  /\ th[t].pc \in {"load", "read", "search"} =>
               Lines[f] # <<>> /\ th[t].f_len >= Len(Lines[f])
        /\ th[t].pc = "search" => th[t].got = th[t].f_len
        /\ th[t].count # -1 => th[t].count = Total(Lines[f]) /\ Countable(f)
        /\ th[t].pc \in Stats => Total(th[t].buf) = Total(Lines[f])
        /\ th[t].pc \in Printing => Total(Lines[f]) > 0
        /\ th[t].pc \in {"cleanup", "list", "close"} /\ Countable(f) => th[t].count # -1

(* What is added to a file has no matches.                                 *)
LEMMA GotWhole ==
    ASSUME NEW t \in Threads, Lines[th[t].loaded] \in Seq(Nat), th[t].got \in Nat,
           th[t].got >= Len(Lines[th[t].loaded])
    PROVE  Total(Got(t)) = Total(Lines[th[t].loaded])
<1> DEFINE lines == Lines[th[t].loaded]
           got == Got(t)
<1>1. DOMAIN lines = 1 .. Len(lines) /\ Len(lines) \in Nat /\ \A i \in DOMAIN lines : lines[i] \in Nat
  OBVIOUS
<1>2. DOMAIN got = 1 .. th[t].got
      /\ \A i \in DOMAIN got : got[i] = IF i \in DOMAIN lines THEN lines[i] ELSE 0
  BY DEF Got
<1>3. \A i \in DOMAIN lines : i \in DOMAIN got
  BY <1>1, <1>2
<1> HIDE DEF lines, got
<1>4. ASSUME NEW m PROVE m \in Matches(got) <=> m \in Matches(lines)
  <2>1. ASSUME NEW i \in DOMAIN got, NEW k \in 1 .. got[i], m = <<i, k>>
        PROVE  m \in Matches(lines)
    <3>1. i \in DOMAIN lines
      <4> SUFFICES ASSUME i \notin DOMAIN lines PROVE FALSE
        OBVIOUS
      <4>1. got[i] = 0
        BY <1>2
      <4> QED
        BY <4>1
    <3>2. k \in 1 .. lines[i]
      BY <1>2, <3>1
    <3> QED
      BY <2>1, <3>1, <3>2 DEF Matches
  <2>2. ASSUME NEW i \in DOMAIN lines, NEW k \in 1 .. lines[i], m = <<i, k>>
        PROVE  m \in Matches(got)
    <3>1. i \in DOMAIN got /\ k \in 1 .. got[i]
      BY <1>2, <1>3
    <3> QED
      BY <2>2, <3>1 DEF Matches
  <2>3. m \in Matches(got) => \E i \in DOMAIN got : \E k \in 1 .. got[i] : m = <<i, k>>
    BY DEF Matches
  <2>4. m \in Matches(lines) => \E i \in DOMAIN lines : \E k \in 1 .. lines[i] : m = <<i, k>>
    BY DEF Matches
  <2> QED
    BY <2>1, <2>2, <2>3, <2>4
<1>5. Matches(got) = Matches(lines)
  BY <1>4
<1> QED
  BY <1>5 DEF Total, got, lines

(* A step leaves a thread with all the matches of its file, once it has    *)
(* searched it.                                                            *)
LEMMA WholeStep ==
    ASSUME Shape, NoStreams, \A u \in Threads : Owned(u), Sizes, NEW t \in Threads, Whole(t),
           ThreadStep(t)
    PROVE  Whole(t)'
<1> USE DEF Stats, Printing
<1>1. TypeOK /\ Local(t) /\ Local(t)' /\ th[t] \in Thread /\ Owned(t) /\ Owned(t)'
  BY LocalStep, OwnedStep DEF Shape, TypeOK
<1>2. <<th[t].pc, th'[t].pc>> \in Flow
  BY <1>1, Own
<1>3. th[t].got \in Nat /\ th[t].f_len \in Nat
  BY <1>1 DEF Thread
<1>4. th[t].pc \in {"check", "load"} =>
          /\ ~Badfd(t) /\ Opened(t) = th[t].file /\ th[t].file \in Paths
          /\ size[th[t].file] \in Nat /\ Len(Lines[th[t].file]) \in Nat
          /\ Lines[th[t].file] \in Seq(Nat)
  BY <1>1, OwnedOpened, FilesAssumption, LenProperties DEF Local, TypeOK
<1>5. CASE Take(t) \/ CloseFd(t) \/ Open(t)
  <2>1. th'[t].pc \in {"idle", "open", "check"}
    <3>1. CASE Take(t) \/ CloseFd(t)
      BY <1>2, <3>1 DEF Take, CloseFd, Flow, Step
    <3>2. CASE Open(t)
      <4>1. th'[t] = [th[t] EXCEPT !.pc = "check", !.fd = Min({e \in Fds : fds[e] = Closed})]
        BY <1>1, <3>2, Moved DEF Open
      <4> QED
        BY <1>1, <4>1 DEF Thread
    <3> QED
      BY <1>5, <3>1, <3>2
  <2>2. th'[t].count = -1
    BY <1>1, <2>1 DEF Local, Unloaded
  <2> QED
    BY <2>1, <2>2 DEF Whole
<1>6. CASE OpenFails(t)
  <2>1. Kind[th[t].file] \in {"missing", "stdout"} /\ th[t].count = -1 /\ th[t].pc = "open"
    BY <1>1, <1>6 DEF OpenFails, Local, Unloaded
  <2>2. th'[t] = [th[t] EXCEPT !.pc = "cleanup"]
    BY <1>1, <1>6, Moved DEF OpenFails
  <2>3. th'[t].pc = "cleanup" /\ th'[t].count = -1 /\ th'[t].file = th[t].file
    BY <1>1, <2>1, <2>2 DEF Thread
  <2> QED
    BY <2>1, <2>3 DEF Whole, Countable
<1>7. CASE Check(t)
  <2>1. th[t].pc = "check" /\ th[t].count = -1
    BY <1>1, <1>7 DEF Check, Local, Unloaded
  <2>2. \/ /\ size[Opened(t)] = 0 \/ Kind[Opened(t)] = "stdout"
           /\ Step(t, "check", [th[t] EXCEPT !.pc = "cleanup"])
        \/ Step(t, "check", Streaming(t))
        \/ size[Opened(t)] > 0 /\ Step(t, "check", [th[t] EXCEPT !.pc = "load",
                                                                 !.f_len = size[Opened(t)]])
    BY <1>4, <1>7, <2>1 DEF Check, Skips
  <2>3. \/ /\ size[Opened(t)] = 0 \/ Kind[Opened(t)] = "stdout"
           /\ th'[t] = [th[t] EXCEPT !.pc = "cleanup"]
        \/ th'[t] = Streaming(t)
        \/ /\ size[Opened(t)] > 0
           /\ th'[t] = [th[t] EXCEPT !.pc = "load", !.f_len = size[Opened(t)]]
    BY <1>1, <2>2, Moved
  <2>4. /\ th'[t].file = th[t].file
        /\ \/ /\ size[th[t].file] = 0 \/ Kind[th[t].file] = "stdout"
              /\ th'[t].pc = "cleanup" /\ th'[t].count = -1
           \/ th'[t].pc = "stream"
           \/ /\ size[th[t].file] > 0 /\ th'[t].pc = "load" /\ th'[t].count = -1
              /\ th'[t].f_len = size[th[t].file]
    BY <1>1, <1>4, <2>1, <2>3 DEF Thread, Streaming
  <2>5. CASE size[th[t].file] = 0 /\ th'[t].pc = "cleanup" /\ th'[t].count = -1
    <3>1. Len(Lines[th[t].file]) = 0
      BY <1>4, <2>1, <2>5 DEF Sizes
    <3>2. Lines[th[t].file] = <<>>
      BY <1>4, <2>1, <3>1, EmptySeq
    <3> QED
      BY <2>4, <2>5, <3>2 DEF Whole, Countable
  <2>7. CASE Kind[th[t].file] = "stdout" /\ th'[t].pc = "cleanup" /\ th'[t].count = -1
    BY <2>4, <2>7 DEF Whole, Countable
  <2>6. CASE /\ size[th[t].file] > 0 /\ th'[t].pc = "load" /\ th'[t].count = -1
             /\ th'[t].f_len = size[th[t].file]
    <3>1. Lines[th[t].file] # <<>> /\ size[th[t].file] >= Len(Lines[th[t].file])
      BY <1>4, <2>1, <2>6 DEF Sizes
    <3> QED
      BY <2>4, <2>6, <3>1 DEF Whole
  <2> QED
    BY <1>1, <2>4, <2>5, <2>6, <2>7 DEF Owned
<1>8. CASE Load(t)
  <2>1. th[t].pc = "load" /\ th[t].count = -1
    BY <1>1, <1>8 DEF Load, Local, Unloaded
  <2>2. \/ Kind[th[t].file] # "regular" /\ Step(t, "load", [th[t] EXCEPT !.pc = "cleanup"])
        \/ Step(t, "load", Streaming(t))
        \/ Step(t, "load", [th[t] EXCEPT !.pc = "search", !.loaded = Opened(t),
                                         !.got = th[t].f_len])
    BY <1>4, <1>8, <2>1 DEF Load
  <2>3. \/ Kind[th[t].file] # "regular" /\ th'[t] = [th[t] EXCEPT !.pc = "cleanup"]
        \/ th'[t] = Streaming(t)
        \/ th'[t] = [th[t] EXCEPT !.pc = "search", !.loaded = Opened(t), !.got = th[t].f_len]
    BY <1>1, <2>2, Moved
  <2>4. /\ th'[t].file = th[t].file
        /\ \/ Kind[th[t].file] # "regular" /\ th'[t].pc = "cleanup" /\ th'[t].count = -1
           \/ th'[t].pc = "stream"
           \/ /\ th'[t].pc = "search" /\ th'[t].count = -1
              /\ th'[t].f_len = th[t].f_len /\ th'[t].got = th[t].f_len
    BY <1>1, <2>1, <2>3 DEF Thread, Streaming
  <2> QED
    BY <1>1, <2>1, <2>4 DEF Whole, Countable, Owned
<1>9. CASE ReadHead(t)
  <2> DEFINE n == Min({1, size[Opened(t)]})
  <2>1. th[t].pc = "load" /\ th[t].count = -1
    BY <1>1, <1>9 DEF ReadHead, Local, Unloaded
  <2>2. \/ Kind[th[t].file] # "regular" /\ Step(t, "load", [th[t] EXCEPT !.pc = "cleanup"])
        \/ Step(t, "load", [th[t] EXCEPT !.pc = "read", !.loaded = Opened(t), !.got = n])
    BY <1>4, <1>9, <2>1 DEF ReadHead
  <2> HIDE DEF n
  <2>3. \/ Kind[th[t].file] # "regular" /\ th'[t] = [th[t] EXCEPT !.pc = "cleanup"]
        \/ th'[t] = [th[t] EXCEPT !.pc = "read", !.loaded = Opened(t), !.got = n]
    BY <1>1, <2>2, Moved
  <2>4. /\ th'[t].file = th[t].file /\ th'[t].count = -1
        /\ \/ Kind[th[t].file] # "regular" /\ th'[t].pc = "cleanup"
           \/ th'[t].pc = "read" /\ th'[t].f_len = th[t].f_len
    BY <1>1, <2>1, <2>3 DEF Thread
  <2> QED
    BY <2>1, <2>4 DEF Whole, Countable
<1>10. CASE ReadOn(t)
  <2> DEFINE n == Min({Max({0, size[th[t].loaded] - th[t].got}), th[t].f_len})
  <2>1. th[t].pc = "read" /\ th[t].count = -1
    BY <1>1, <1>10 DEF ReadOn, Local
  <2>2. \/ th[t].got = th[t].f_len /\ Step(t, "read", [th[t] EXCEPT !.pc = "search"])
        \/ Step(t, "read", [th[t] EXCEPT !.got = @ + n])
    BY <1>10 DEF ReadOn
  <2> HIDE DEF n
  <2>3. \/ th[t].got = th[t].f_len /\ th'[t] = [th[t] EXCEPT !.pc = "search"]
        \/ th'[t] = [th[t] EXCEPT !.got = @ + n]
    BY <1>1, <2>2, Moved
  <2>4. /\ th'[t].file = th[t].file /\ th'[t].count = -1 /\ th'[t].f_len = th[t].f_len
        /\ \/ th'[t].pc = "search" /\ th'[t].got = th[t].f_len
           \/ th'[t].pc = "read"
    BY <1>1, <2>1, <2>3 DEF Thread
  <2> QED
    BY <2>1, <2>4 DEF Whole
<1>11. CASE SearchBuf(t)
  <2>1. /\ th[t].pc = "search" /\ th[t].loaded = th[t].file /\ th[t].file \in Paths
        /\ Kind[th[t].file] = "regular"
    BY <1>1, <1>11, FilesAssumption DEF SearchBuf, Step, Local, Searching, Owned
  <2>2. Lines[th[t].file] # <<>> /\ th[t].got >= Len(Lines[th[t].file])
    BY <2>1 DEF Whole
  <2>3. Total(Got(t)) = Total(Lines[th[t].file])
    BY <1>3, <2>1, <2>2, GotWhole, FilesAssumption
  <2>4. th'[t] = [th[t] EXCEPT !.pc = "stats_lock", !.buf = Got(t), !.count = Total(Got(t))]
    BY <1>1, <1>11, Moved DEF SearchBuf
  <2>5. /\ th'[t].pc = "stats_lock" /\ th'[t].buf = Got(t) /\ th'[t].count = Total(Got(t))
        /\ th'[t].file = th[t].file
    BY <1>1, <2>4 DEF Thread
  <2> QED
    BY <2>1, <2>2, <2>3, <2>5 DEF Whole, Countable
<1>12. CASE th[t].pc \in Stats \cup Printing \cup {"cleanup", "list"}
  <2>1. /\ th'[t].file = th[t].file /\ th'[t].count = th[t].count
        /\ th[t].pc \in Stats => th'[t].buf = th[t].buf
    <3>1. /\ ~Take(t) /\ ~CloseFd(t) /\ ~Check(t) /\ ~Load(t) /\ ~SearchBuf(t) /\ ~ReadLine(t)
          /\ th[t].pc \in Stats => ~PrintLine(t)
      BY <1>12 DEF Take, CloseFd, Check, Load, SearchBuf, ReadLine, PrintLine, Step
    <3> QED
      BY <1>1, <3>1, Own
  <2>2. /\ th[t].pc \in Stats \cup Printing => th[t].count # -1
        /\ th'[t].pc # "stream" /\ th'[t].pc # "trailing"
    BY <1>1 DEF Local, Owned
  <2>3. th'[t].pc = "print_lock" => Total(Lines[th[t].file]) > 0
    <3> SUFFICES ASSUME th'[t].pc = "print_lock" PROVE Total(Lines[th[t].file]) > 0
      OBVIOUS
    <3>1. th[t].pc = "stats_write"
      BY <1>2 DEF Flow
    <3>2. Prints(t)
      BY <1>1, <3>1, Doing, Onward DEF Return
    <3> QED
      BY <3>1, <3>2 DEF Prints, Whole
  <2> QED
    BY <1>2, <1>12, <2>1, <2>2, <2>3 DEF Whole, Flow
<1>13. th[t].pc \notin {"stream", "trailing"}
  BY <1>1 DEF Owned
<1>14. th[t].pc = "idle" \/ th[t].pc = "open" \/ th[t].pc = "check" \/ th[t].pc = "load"
       \/ th[t].pc = "read" \/ th[t].pc = "search" \/ th[t].pc = "close"
       \/ th[t].pc \in Stats \cup Printing \cup {"cleanup", "list"}
  BY <1>1, <1>13 DEF Thread
<1> QED
  BY <1>5, <1>6, <1>7, <1>8, <1>9, <1>10, <1>11, <1>12, <1>14, Doing

(* The matches in some files are finitely many, and another file adds its  *)
(* own to them.                                                            *)
LEMMA MatchesInFinite ==
    ASSUME NEW F \in SUBSET Paths, IsFiniteSet(F)
    PROVE  IsFiniteSet(MatchesIn(F)) /\ Cardinality(MatchesIn(F)) \in Nat
<1> DEFINE OfFile(f) == {<<f, m>> : m \in Matches(Lines[f])}
           S == {OfFile(f) : f \in F}
           g == [f \in F |-> OfFile(f)]
<1>1. ASSUME NEW f \in F PROVE IsFiniteSet(OfFile(f))
  <2>1. IsFiniteSet(Matches(Lines[f]))
    BY MatchesFinite, FilesAssumption
  <2>2. IsFiniteSet({f} \X Matches(Lines[f]))
    BY <2>1, FS_Singleton, FS_Product
  <2>3. OfFile(f) = {f} \X Matches(Lines[f])
    OBVIOUS
  <2> QED
    BY <2>2, <2>3
<1>2. g \in Surjection(F, S)
  BY DEF Surjection
<1>3. IsFiniteSet(S)
  BY <1>2, FS_Surjection
<1>4. \A A \in S : IsFiniteSet(A)
  BY <1>1
<1>5. MatchesIn(F) = UNION S
  BY DEF MatchesIn
<1> HIDE DEF S
<1> QED
  BY <1>3, <1>4, <1>5, FS_UNION, FS_CardinalityType

(* A file that is not among some files adds its own matches to theirs.     *)
LEMMA MatchesInAdd ==
    ASSUME NEW F \in SUBSET Paths, IsFiniteSet(F), NEW f \in Paths \ F
    PROVE  Cardinality(MatchesIn(F \cup {f})) = Cardinality(MatchesIn(F)) + Total(Lines[f])
<1> DEFINE M == Matches(Lines[f])
           N == {f} \X M
<1>1. IsFiniteSet(M) /\ Cardinality(M) \in Nat /\ Total(Lines[f]) = Cardinality(M)
  BY MatchesFinite, FilesAssumption DEF Total
<1>2. IsFiniteSet(MatchesIn(F)) /\ Cardinality(MatchesIn(F)) \in Nat
  BY MatchesInFinite
<1> HIDE DEF M
<1>3. IsFiniteSet(N) /\ Cardinality(N) = Cardinality(M)
  <2>1. IsFiniteSet({f}) /\ Cardinality({f}) = 1
    BY FS_Singleton
  <2>2. IsFiniteSet(N) /\ Cardinality(N) = 1 * Cardinality(M)
    BY <1>1, <2>1, FS_Product
  <2> QED
    BY <1>1, <2>2
<1>4. MatchesIn(F \cup {f}) = MatchesIn(F) \cup N
  BY DEF MatchesIn, M
<1>5. MatchesIn(F) \cap N = {}
  BY DEF MatchesIn
<1> HIDE DEF N
<1>6. Cardinality(MatchesIn(F) \cup N)
        = Cardinality(MatchesIn(F)) + Cardinality(N) - Cardinality({})
  BY <1>2, <1>3, <1>5, FS_Union
<1>7. Cardinality({}) = 0
  BY FS_EmptySet
<1> DEFINE a == Cardinality(MatchesIn(F))
           b == Cardinality(M)
           c == Cardinality(MatchesIn(F) \cup N)
<1>8. a \in Nat /\ b \in Nat /\ c = a + b - 0
  BY <1>1, <1>2, <1>3, <1>6, <1>7
<1>9. Total(Lines[f]) = b /\ Cardinality(MatchesIn(F \cup {f})) = c
  BY <1>1, <1>4
<1> HIDE DEF a, b, c
<1>10. c = a + b
  BY <1>8
<1> QED
  BY <1>9, <1>10 DEF a

(* The files whose matches are in the counters.                            *)
Before == Unloaded \cup {"read", "search"} \cup Stats

(* The files that are in the counters: those past the update.              *)
Counted ==
    {f \in taken : Countable(f) /\ \A t \in Threads : th[t].file = f => th[t].pc \notin Before}

(* What the counters have to be then.                                      *)
Tally == [files |-> Cardinality(Counted), matches |-> Cardinality(MatchesIn(Counted))]

(* A file that is skipped is not given a count.                            *)
LEMMA Skipped ==
    ASSUME TypeOK, NEW t \in Threads, ThreadStep(t), th[t].pc \in {"open", "check", "load"},
           th'[t].pc = "cleanup"
    PROVE  th'[t].count = th[t].count
<1>0. th[t] \in Thread
  BY DEF TypeOK
<1>1. CASE Open(t)
  <2>1. th'[t] = [th[t] EXCEPT !.pc = "check", !.fd = Min({e \in Fds : fds[e] = Closed})]
    BY <1>1, Moved DEF Open
  <2> QED
    BY <1>0, <2>1 DEF Thread
<1>2. CASE OpenFails(t)
  BY <1>2, Own DEF OpenFails, Take, Check, Load, SearchBuf, ReadLine, CloseFd, Step
<1>3. CASE Check(t)
  <2>1. \/ Step(t, "check", [th[t] EXCEPT !.pc = "cleanup"])
        \/ Step(t, "check", Streaming(t))
        \/ Step(t, "check", [th[t] EXCEPT !.pc = "load", !.f_len = size[Opened(t)]])
    BY <1>3 DEF Check
  <2>2. \/ th'[t] = [th[t] EXCEPT !.pc = "cleanup"]
        \/ th'[t] = Streaming(t)
        \/ th'[t] = [th[t] EXCEPT !.pc = "load", !.f_len = size[Opened(t)]]
    BY <2>1, Moved
  <2> QED
    BY <1>0, <2>2 DEF Thread, Streaming
<1>4. CASE Load(t)
  <2>1. \/ Step(t, "load", [th[t] EXCEPT !.pc = "cleanup"])
        \/ Step(t, "load", Streaming(t))
        \/ Step(t, "load", [th[t] EXCEPT !.pc = "search", !.loaded = Opened(t),
                                         !.got = th[t].f_len])
    BY <1>4 DEF Load
  <2>2. \/ th'[t] = [th[t] EXCEPT !.pc = "cleanup"]
        \/ th'[t] = Streaming(t)
        \/ th'[t] = [th[t] EXCEPT !.pc = "search", !.loaded = Opened(t), !.got = th[t].f_len]
    BY <2>1, Moved
  <2> QED
    BY <1>0, <2>2 DEF Thread, Streaming
<1>5. CASE ReadHead(t)
  BY <1>5, Own DEF ReadHead, Take, Check, Load, SearchBuf, ReadLine, CloseFd, Step
<1> QED
  BY <1>1, <1>2, <1>3, <1>4, <1>5, Doing

(* Only the update of the counters makes a file one that is counted.       *)
LEMMA CountedStep ==
    ASSUME Shape, NoStreams, \A u \in Threads : Owned(u), \A u \in Threads : Whole(u), Sizes,
           NEW t \in Threads, ThreadStep(t)
    PROVE  IF StatsWrite(t)
           THEN th[t].file \in taken \ Counted /\ Counted' = Counted \cup {th[t].file}
           ELSE Counted' = Counted
<1> USE DEF Before, Unloaded, Stats
<1>1. /\ TypeOK /\ Local(t) /\ Local(t)' /\ th[t] \in Thread /\ Owned(t) /\ Owned(t)'
      /\ Whole(t) /\ Whole(t)' /\ Distinct /\ taken \subseteq Paths
  BY LocalStep, OwnedStep, WholeStep DEF Shape, TypeOK
<1>2. (\A u \in Threads \ {t} : th'[u] = th[u]) /\ <<th[t].pc, th'[t].pc>> \in Flow
  BY <1>1, Own
<1>3. ASSUME NEW f, f # th[t].file, f # th'[t].file PROVE f \in Counted' <=> f \in Counted
  <2>1. f \in taken' <=> f \in taken
    <3>1. CASE Take(t)
      <4>1. PICK g : Step(t, "idle", [Fresh EXCEPT !.pc = "open", !.file = g])
                     /\ taken' = taken \cup {g}
        BY <3>1 DEF Take
      <4>2. th'[t] = [Fresh EXCEPT !.pc = "open", !.file = g]
        BY <1>1, <4>1, Moved
      <4>3. th'[t].file = g
        BY <4>2 DEF Fresh
      <4> QED
        BY <1>3, <4>1, <4>3
    <3> QED
      BY <3>1, Shared
  <2> QED
    BY <1>2, <1>3, <2>1 DEF Counted
<1>4. CASE Take(t)
  <2>1. PICK g \in Given(t) : Step(t, "idle", [Fresh EXCEPT !.pc = "open", !.file = g])
                              /\ taken' = taken \cup {g}
    BY <1>4 DEF Take
  <2>2. th'[t] = [Fresh EXCEPT !.pc = "open", !.file = g]
    BY <1>1, <2>1, Moved
  <2>3. th'[t].file = g /\ th'[t].pc = "open" /\ g \notin taken /\ g \in Paths
    BY <1>1, <2>1, <2>2 DEF Fresh, Given, TypeOK
  <2>4. g \notin Counted /\ g \notin Counted'
    BY <2>3 DEF Counted
  <2>5. th[t].file = Closed /\ Closed \notin Paths
    BY <1>1, <2>1, FilesAssumption DEF Step, Local, Fresh
  <2>6. Closed \notin Counted /\ Closed \notin Counted'
    BY <1>1, <2>1, <2>3, <2>5 DEF Counted
  <2>7. ~StatsWrite(t)
    BY <2>1 DEF StatsWrite, Step
  <2> QED
    BY <1>3, <2>3, <2>4, <2>5, <2>6, <2>7
<1>5. CASE CloseFd(t)
  <2>1. th[t].pc = "close" /\ th'[t] = Fresh /\ UNCHANGED taken
    BY <1>1, <1>5, Moved DEF CloseFd
  <2>2. th'[t].file = Closed /\ Closed \notin Paths
    BY <2>1, FilesAssumption DEF Fresh
  <2>3. Closed \notin Counted /\ Closed \notin Counted'
    BY <1>1, <2>1, <2>2 DEF Counted
  <2>4. th[t].file \in Counted' <=> th[t].file \in Counted
    <3>1. th[t].file # Closed
      BY <1>1, <2>1, <2>2 DEF Local
    <3> QED
      BY <1>2, <2>1, <2>2, <3>1 DEF Counted
  <2>5. ~StatsWrite(t)
    BY <2>1 DEF StatsWrite
  <2> QED
    BY <1>3, <2>2, <2>3, <2>4, <2>5
<1>6. CASE ~Take(t) /\ ~CloseFd(t)
  <2> DEFINE f == th[t].file
  <2>1. /\ th'[t].file = f /\ UNCHANGED taken /\ f \in taken
        /\ \A u \in Threads \ {t} : th[u].file = f => th[u].pc = "idle"
    BY <1>1, <1>6, Own, Shared, Doing DEF Local, Distinct
  <2>2. \A u \in Threads \ {t} : th[u].file # f /\ th'[u].file # f
    <3>1. \A u \in Threads : th[u].pc = "idle" => th[u].file = Closed
      BY DEF Shape, Local, Fresh
    <3> QED
      BY <1>1, <1>2, <2>1, <3>1, FilesAssumption
  <2>3. /\ f \in Counted <=> Countable(f) /\ th[t].pc \notin Before
        /\ f \in Counted' <=> Countable(f) /\ th'[t].pc \notin Before
    BY <2>1, <2>2 DEF Counted
  <2>4. CASE StatsWrite(t)
    <3>1. th[t].pc = "stats_write" /\ th'[t].pc \notin Before
      BY <1>2, <2>4 DEF StatsWrite, Flow
    <3>2. Countable(f)
      BY <1>1, <3>1 DEF Local, Whole
    <3>3. f \in Counted' /\ f \notin Counted
      BY <2>3, <3>1, <3>2
    <3> QED
      BY <1>3, <2>1, <2>4, <3>3
  <2>5. CASE ~StatsWrite(t)
    <3>1. Countable(f) => (th[t].pc \in Before <=> th'[t].pc \in Before)
      <4>1. CASE th[t].pc \in {"open", "check", "load"} /\ th'[t].pc = "cleanup"
        <5>1. th'[t].count = -1
          BY <1>1, <4>1, Skipped DEF Local
        <5> QED
          BY <1>1, <2>1, <4>1, <5>1 DEF Whole
      <4>2. CASE ~(th[t].pc \in {"open", "check", "load"} /\ th'[t].pc = "cleanup")
        <5>1. th'[t].pc \notin {"stream", "trailing"} /\ th[t].pc # "stats_write"
              /\ th[t].pc \notin {"idle", "close", "stream"}
          BY <1>1, <1>6, <2>5, Doing DEF Owned
        <5> QED
          BY <1>2, <4>2, <5>1 DEF Flow
      <4> QED
        BY <4>1, <4>2
    <3>2. f \in Counted' <=> f \in Counted
      BY <2>3, <3>1
    <3>3. \A g : g \in Counted' <=> g \in Counted
      BY <1>3, <2>1, <3>2
    <3>4. Counted' = Counted
      BY <3>3
    <3> QED
      BY <2>5, <3>4
  <2> QED
    BY <2>4, <2>5
<1> QED
  BY <1>4, <1>5, <1>6

(* The counters are those of the files that are counted, and no thread has *)
(* counters that are out of date when it writes them.                      *)
Counting ==
    /\ IsFiniteSet(taken)
    /\ stats = Tally
    /\ \A t \in Threads : th[t].pc = "stats_write" => th[t].seen = stats

(* A step keeps the counters equal to the sum over the files counted.      *)
LEMMA CountingStep ==
    ASSUME Shape, NoStreams, \A u \in Threads : Owned(u), \A u \in Threads : Whole(u), Sizes,
           Counting, NEW t \in Threads, ThreadStep(t)
    PROVE  Counting'
<1>1. /\ TypeOK /\ Local(t) /\ Locks /\ th[t] \in Thread /\ Whole(t) /\ taken \subseteq Paths
      /\ Counted \in SUBSET Paths
  BY DEF Shape, TypeOK, Counted
<1>2. (\A u \in Threads \ {t} : th'[u] = th[u]) /\ <<th[t].pc, th'[t].pc>> \in Flow
  BY <1>1, Own
<1>3. IsFiniteSet(taken')
  <2>1. CASE Take(t)
    <3>1. PICK g : taken' = taken \cup {g}
      BY <2>1 DEF Take
    <3> QED
      BY <3>1, FS_AddElement DEF Counting
  <2> QED
    BY <2>1, Shared DEF Counting
<1>4. stats' = Tally'
  <2>1. CASE StatsWrite(t)
    <3> DEFINE f == th[t].file
    <3>1. f \in Paths \ Counted /\ Counted' = Counted \cup {f}
      BY <1>1, <2>1, CountedStep
    <3>2. IsFiniteSet(Counted)
      <4>1. Counted \in SUBSET taken
        BY DEF Counted
      <4> QED
        BY <4>1, FS_Subset DEF Counting
    <3>3. /\ Cardinality(Counted') = Cardinality(Counted) + 1
          /\ Cardinality(MatchesIn(Counted')) = Cardinality(MatchesIn(Counted)) + Total(Lines[f])
      BY <1>1, <3>1, <3>2, FS_AddElement, MatchesInAdd
    <3>4. /\ th[t].pc = "stats_write"
          /\ stats' = [files |-> th[t].seen.files + 1,
                       matches |-> th[t].seen.matches + Total(th[t].buf)]
      BY <2>1 DEF StatsWrite
    <3>5. th[t].seen = Tally /\ Total(th[t].buf) = Total(Lines[f])
      BY <1>1, <3>4 DEF Counting, Whole, Stats
    <3>6. stats' = [files |-> Cardinality(Counted) + 1,
                    matches |-> Cardinality(MatchesIn(Counted)) + Total(Lines[f])]
      BY <3>4, <3>5 DEF Tally
    <3>7. Tally' = [files |-> Cardinality(Counted'), matches |-> Cardinality(MatchesIn(Counted'))]
      BY DEF Tally, MatchesIn, Matches
    <3> QED
      BY <3>3, <3>6, <3>7
  <2>2. CASE ~StatsWrite(t)
    <3>1. UNCHANGED stats /\ Counted' = Counted
      BY <2>2, Shared, CountedStep
    <3>2. Tally' = [files |-> Cardinality(Counted'), matches |-> Cardinality(MatchesIn(Counted'))]
      BY DEF Tally, MatchesIn, Matches
    <3> QED
      BY <3>1, <3>2 DEF Counting, Tally
  <2> QED
    BY <2>1, <2>2
<1>5. ASSUME NEW u \in Threads, th'[u].pc = "stats_write" PROVE th'[u].seen = stats'
  <2>1. CASE u = t
    <3>1. th[t].pc = "stats_read"
      BY <1>2, <1>5, <2>1 DEF Flow
    <3>2. StatsRead(t)
      BY <3>1, Doing
    <3>3. th'[t] = [th[t] EXCEPT !.pc = "stats_write", !.seen = stats] /\ UNCHANGED stats
      BY <1>1, <3>2, Moved DEF StatsRead
    <3> QED
      BY <1>1, <2>1, <3>3 DEF Thread
  <2>2. CASE u # t
    <3>1. th'[u] = th[u] /\ stats_mtx = u
      BY <1>1, <1>2, <1>5, <2>2 DEF Locks
    <3>2. ~StatsWrite(t)
      BY <1>1, <2>2, <3>1 DEF Locks, StatsWrite
    <3> QED
      BY <1>5, <3>1, <3>2, Shared DEF Counting
  <2> QED
    BY <2>1, <2>2
<1> QED
  BY <1>3, <1>4, <1>5 DEF Counting

(* The files whose names are printed, and what the exit status is made of. *)
Yet == IF print_nonmatching_files THEN {"cleanup", "list"} ELSE {"print_lock", "heading"}

(* Is the file one to print, with -L and without?                          *)
Wanted(f) == (Total(Lines[f]) = 0) = print_nonmatching_files

(* Of those that are in the counters, the files printed by now.            *)
Printed ==
    {f \in Counted : Wanted(f) /\ \A t \in Threads : th[t].file = f => th[t].pc \notin Yet}

(* What is printed is that, and the exit status will tell.                 *)
Listing ==
    /\ {out[i].file : i \in DOMAIN out} = Printed
    /\ match_found => out # <<>>
    /\ out # <<>> => match_found \/ \E t \in Threads : th[t].pc = "printing"

(* The name of a file makes it one of those that are printed.              *)
LEMMA PrintedStep ==
    ASSUME Shape, NoStreams, \A u \in Threads : Owned(u), \A u \in Threads : Whole(u), Sizes,
           NEW t \in Threads, ThreadStep(t)
    PROVE  IF Heading(t) \/ ListPath(t)
           THEN Printed' = Printed \cup {th[t].file}
           ELSE Printed' = Printed
<1> USE DEF Before, Unloaded, Stats, Printing
<1>1. /\ TypeOK /\ Local(t) /\ Local(t)' /\ th[t] \in Thread /\ Owned(t) /\ Owned(t)'
      /\ Whole(t) /\ Whole(t)' /\ Distinct /\ taken \subseteq Paths /\ Closed \notin Paths
  BY LocalStep, OwnedStep, WholeStep, FilesAssumption DEF Shape, TypeOK
<1>2. (\A u \in Threads \ {t} : th'[u] = th[u]) /\ <<th[t].pc, th'[t].pc>> \in Flow
      /\ UNCHANGED print_nonmatching_files
  BY <1>1, Own, Shared
<1>3. IF StatsWrite(t) THEN th[t].file \notin Counted /\ Counted' = Counted \cup {th[t].file}
      ELSE Counted' = Counted
  BY CountedStep
<1>4. Closed \notin Counted /\ Closed \notin Counted'
  <2>1. taken' \subseteq Paths
    BY TypeStep DEF TypeOK
  <2> QED
    BY <1>1, <2>1 DEF Counted
<1>5. \A f : Wanted(f)' <=> Wanted(f)
  BY <1>2 DEF Wanted, Total, Matches
<1>6. Yet' = Yet
  BY <1>2 DEF Yet
<1>7. ASSUME NEW f, f # th[t].file, f # th'[t].file PROVE f \in Printed' <=> f \in Printed
  BY <1>2, <1>3, <1>5, <1>6, <1>7 DEF Printed
<1>8. CASE Take(t) \/ CloseFd(t)
  <2>1. ~Heading(t) /\ ~ListPath(t) /\ ~StatsWrite(t)
    BY <1>8 DEF Take, CloseFd, Heading, ListPath, StatsWrite, Step
  <2>2. Closed \notin Printed /\ Closed \notin Printed'
    BY <1>4 DEF Printed
  <2>3. CASE CloseFd(t)
    <3>1. th[t].pc = "close" /\ th'[t] = Fresh
      BY <1>1, <2>3, Moved DEF CloseFd
    <3>2. th'[t].file = Closed
      BY <3>1 DEF Fresh
    <3>3. th[t].pc \notin Yet
      BY <3>1 DEF Yet
    <3>4. th[t].file # Closed => (th[t].file \in Printed' <=> th[t].file \in Printed)
      BY <1>2, <1>3, <1>5, <1>6, <2>1, <3>2, <3>3 DEF Printed
    <3>5. \A f : f \in Printed' <=> f \in Printed
      BY <1>7, <2>2, <3>2, <3>4
    <3>6. Printed' = Printed
      BY <3>5
    <3> QED
      BY <2>1, <3>6
  <2>4. CASE Take(t)
    <3>1. PICK g \in Given(t) : Step(t, "idle", [Fresh EXCEPT !.pc = "open", !.file = g])
      BY <2>4 DEF Take
    <3>2. th[t].pc = "idle" /\ th'[t] = [Fresh EXCEPT !.pc = "open", !.file = g]
      BY <1>1, <3>1, Moved
    <3>3. th[t].file = Closed /\ th'[t].file = g
      BY <1>1, <3>2 DEF Local, Fresh
    <3>4. g \notin Counted
      BY <3>1 DEF Given, Counted
    <3>5. g \notin Printed /\ g \notin Printed'
      BY <1>3, <2>1, <3>4 DEF Printed
    <3>6. \A f : f \in Printed' <=> f \in Printed
      BY <1>7, <2>2, <3>3, <3>5
    <3>7. Printed' = Printed
      BY <3>6
    <3> QED
      BY <2>1, <3>7
  <2> QED
    BY <1>8, <2>3, <2>4
<1>9. CASE ~Take(t) /\ ~CloseFd(t)
  <2>0. PICK f : f = th[t].file
    OBVIOUS
  <2>1. th'[t].file = f /\ th[t].pc # "idle" /\ f \in Paths /\ f \in taken
    BY <1>1, <1>9, <2>0, Own, Doing DEF Local
  <2>2. \A u \in Threads \ {t} : th[u].file # f /\ th'[u].file # f
    <3>1. \A u \in Threads : th[u].pc = "idle" => th[u].file = Closed
      BY DEF Shape, Local, Fresh
    <3> QED
      BY <1>1, <1>2, <2>0, <2>1, <3>1 DEF Distinct
  <2>3. /\ f \in Printed <=> f \in Counted /\ Wanted(f) /\ th[t].pc \notin Yet
        /\ f \in Printed' <=> f \in Counted' /\ Wanted(f) /\ th'[t].pc \notin Yet
    BY <1>5, <1>6, <2>0, <2>1, <2>2 DEF Printed
  <2>4. f \in Counted <=> Countable(f) /\ th[t].pc \notin Before
    BY <2>0, <2>1, <2>2 DEF Counted
  <2>5. CASE StatsWrite(t)
    <3>1. th[t].pc = "stats_write" /\ ~Heading(t) /\ ~ListPath(t)
      BY <2>5 DEF StatsWrite, Heading, ListPath
    <3>2. th'[t].pc = IF Prints(t) THEN "print_lock" ELSE Return(t)
      BY <1>1, <2>5, Onward
    <3>3. Total(th[t].buf) = Total(Lines[f]) /\ Total(Lines[f]) \in Nat
      BY <1>1, <2>0, <2>1, <3>1, MatchesFinite, FilesAssumption DEF Whole
    <3>4. th'[t].pc # "trailing"
      BY <1>1 DEF Owned
    <3>5. Wanted(f) => th'[t].pc \in Yet
      BY <1>1, <3>2, <3>3, <3>4 DEF Wanted, Yet, Prints, Return, TypeOK
    <3>6. f \notin Printed /\ f \notin Printed'
      BY <1>3, <2>0, <2>3, <2>5, <3>5
    <3>7. \A g : g \in Printed' <=> g \in Printed
      BY <1>7, <2>0, <2>1, <3>6
    <3>8. Printed' = Printed
      BY <3>7
    <3> QED
      BY <3>1, <3>8
  <2>6. CASE Heading(t) \/ ListPath(t)
    <3>1. th[t].pc \in {"heading", "list"} /\ ~StatsWrite(t) /\ th[t].count # -1
      BY <1>1, <2>6 DEF StatsWrite, Heading, ListPath, Step, Local
    <3>2. f \in Counted'
      BY <1>1, <1>3, <2>0, <2>4, <3>1 DEF Whole
    <3>3. Wanted(f)
      <4>1. print_nonmatching_files \in BOOLEAN
        BY <1>1 DEF TypeOK
      <4>2. CASE th[t].pc = "heading"
        <5>1. ~print_nonmatching_files /\ Total(Lines[f]) > 0
          BY <1>1, <2>0, <4>2 DEF Local, Whole
        <5>2. Total(Lines[f]) \in Nat
          BY <2>1, MatchesFinite, FilesAssumption
        <5> QED
          BY <4>1, <5>1, <5>2 DEF Wanted
      <4>3. CASE th[t].pc = "list"
        <5>1. print_nonmatching_files /\ th[t].count = 0
          BY <1>1, <4>3 DEF Local
        <5>2. Total(Lines[f]) = 0
          BY <1>1, <2>0, <3>1, <5>1 DEF Whole
        <5> QED
          BY <4>1, <5>1, <5>2 DEF Wanted
      <4> QED
        BY <3>1, <4>2, <4>3
    <3>4. th'[t].pc \in {"printing", "close"}
      BY <1>2, <3>1 DEF Flow
    <3>5. f \in Printed'
      BY <2>3, <3>2, <3>3, <3>4 DEF Yet
    <3>6. \A g : g \in Printed' <=> g \in Printed \/ g = f
      BY <1>7, <2>0, <2>1, <3>5
    <3>7. Printed' = Printed \cup {f}
      BY <3>6
    <3> QED
      BY <2>0, <2>6, <3>7
  <2>7. CASE ~StatsWrite(t) /\ ~Heading(t) /\ ~ListPath(t)
    <3>1. f \in Counted' <=> f \in Counted
      BY <1>3, <2>7
    <3>2. ASSUME f \in Counted, Wanted(f) PROVE th[t].pc \in Yet <=> th'[t].pc \in Yet
      <4>1. Countable(f) /\ th[t].pc \notin Before
        BY <2>4, <3>2
      <4>2. th[t].pc \notin {"heading", "list", "stream", "trailing", "close"}
            /\ th'[t].pc # "trailing"
        BY <1>1, <1>9, <2>7, Doing DEF Owned
      <4>3. th[t].pc = "printing" => ~print_nonmatching_files
        BY <1>1 DEF Local
      <4>4. ASSUME th[t].pc = "cleanup", print_nonmatching_files PROVE th'[t].pc = "list"
        <5>1. th[t].count = 0
          BY <1>1, <2>0, <3>2, <4>1, <4>4 DEF Whole, Wanted
        <5> QED
          BY <1>1, <4>4, <5>1, Doing, Onward
      <4> QED
        BY <1>2, <4>1, <4>2, <4>3, <4>4 DEF Flow, Yet
    <3>3. f \in Printed' <=> f \in Printed
      BY <2>3, <3>1, <3>2
    <3>4. \A g : g \in Printed' <=> g \in Printed
      BY <1>7, <2>0, <2>1, <3>3
    <3>5. Printed' = Printed
      BY <3>4
    <3> QED
      BY <2>7, <3>5
  <2> QED
    BY <2>5, <2>6, <2>7
<1> QED
  BY <1>8, <1>9

(* A step keeps the names printed and the flag of the exit status in       *)
(* agreement with the files.                                               *)
LEMMA ListingStep ==
    ASSUME Shape, Pieces, NoStreams, \A u \in Threads : Owned(u), \A u \in Threads : Whole(u),
           Sizes, Listing, NEW t \in Threads, ThreadStep(t)
    PROVE  Listing'
<1> DEFINE Shown == {out[i].file : i \in DOMAIN out}
<1>1. TypeOK /\ Owned(t) /\ \A u \in Threads \ {t} : th'[u] = th[u]
  BY Own DEF Shape
<1>2. th[t].pc = "printing" => out # <<>> /\ th[t].file \in Shown
  BY DEF Pieces, Underway, Below
<1>3. IF Heading(t) \/ ListPath(t) THEN Printed' = Printed \cup {th[t].file}
      ELSE Printed' = Printed
  BY PrintedStep
<1>4. match_found \in BOOLEAN /\ (match_found' = match_found \/ match_found' = TRUE)
  BY <1>1, Shared DEF TypeOK, PrintUnlock, ListPath
<1>5. match_found' = TRUE => match_found \/ th[t].pc = "printing" \/ th[t].pc = "list"
  BY Shared DEF PrintUnlock, ListPath
<1>6. ASSUME NEW u \in Threads, th[u].pc = "printing"
      PROVE  match_found' \/ th'[u].pc = "printing"
  <2>1. CASE u = t
    BY <1>1, <1>6, <2>1, Doing, Onward DEF PrintUnlock
  <2> QED
    BY <1>1, <1>6, <2>1
<1>7. ASSUME NEW what, Mark(t, what)
      PROVE  Shown' = Shown \cup {th[t].file} /\ out' # <<>> /\ out' # out
  <2> DEFINE n == Len(out) + 1
  <2>1. PICK f : f = th[t].file
    OBVIOUS
  <2>2. /\ Len(out) \in Nat /\ DOMAIN out = 1 .. Len(out)
        /\ Len(out') = Len(out) + 1 /\ DOMAIN out' = 1 .. Len(out) + 1
        /\ \A i \in DOMAIN out : out'[i] = out[i]
        /\ out'[n].file = f
    BY <1>1, <1>7, <2>1, Marked
  <2>3. \A g : g \in Shown' <=> g \in Shown \/ g = f
    <3>1. \A i \in DOMAIN out' : i \in DOMAIN out \/ i = n
      BY <2>2
    <3>2. \A i \in DOMAIN out : i \in DOMAIN out'
      BY <2>2
    <3>3. n \in DOMAIN out'
      BY <2>2
    <3> QED
      BY <2>2, <3>1, <3>2, <3>3
  <2>4. Shown' = Shown \cup {f}
    BY <2>3
  <2>5. out' # <<>> /\ out' # out
    BY <2>2
  <2> QED
    BY <2>1, <2>4, <2>5
<1> HIDE DEF Shown
<1>8. Shown = Printed /\ (match_found => out # <<>>)
      /\ (out # <<>> => match_found \/ \E u \in Threads : th[u].pc = "printing")
  BY DEF Listing, Shown
<1>9. SUFFICES /\ Shown' = Printed' /\ (match_found' => out' # <<>>)
               /\ out' # <<>> => match_found' \/ \E u \in Threads : th'[u].pc = "printing"
  BY DEF Listing, Shown
<1>10. CASE UNCHANGED out
  <2>1. ~Heading(t) /\ ~ListPath(t)
    BY <1>7, <1>10 DEF Heading, ListPath
  <2>2. Shown' = Shown
    BY <1>10 DEF Shown
  <2>3. match_found' => out # <<>>
    <3>1. CASE th[t].pc = "list"
      BY <2>1, <3>1, Doing
    <3> QED
      BY <1>2, <1>4, <1>5, <1>8, <3>1
  <2> QED
    BY <1>3, <1>4, <1>6, <1>8, <1>10, <2>1, <2>2, <2>3
<1>11. CASE Mark(t, "heading") /\ th[t].pc \in {"heading", "list"}
  <2>1. Heading(t) \/ ListPath(t)
    BY <1>11, Doing
  <2>2. match_found' \/ th'[t].pc = "printing"
    <3>1. CASE Heading(t)
      BY <1>1, <3>1, Own DEF Heading, Flow
    <3>2. CASE ListPath(t)
      BY <3>2 DEF ListPath
    <3> QED
      BY <2>1, <3>1, <3>2
  <2> QED
    BY <1>3, <1>7, <1>8, <1>11, <2>1, <2>2
<1>12. CASE \E what \in {"line", "context"} : Mark(t, what) /\ th[t].pc = "printing"
  <2>1. ~Heading(t) /\ ~ListPath(t)
    BY <1>12 DEF Heading, ListPath
  <2>2. Shown' = Shown /\ out' # <<>>
    <3>1. Shown' = Shown \cup {th[t].file} /\ out' # <<>>
      BY <1>7, <1>12
    <3> QED
      BY <1>2, <1>12, <3>1
  <2> QED
    BY <1>3, <1>6, <1>8, <1>12, <2>1, <2>2
<1> QED
  BY <1>1, <1>10, <1>11, <1>12, Writes DEF Owned

(* Where no path is a stream and no file gets shorter, the counters are    *)
(* exact in the end, the files printed are those with matches - without,   *)
(* with -L - and the exit status tells whether there are any.              *)
THEOREM TotalsCorrect == ASSUME NoneShrinks PROVE Spec => []TotalsExact
<1> DEFINE I == NoStreams =>
                   /\ \A t \in Threads : Owned(t) /\ Whole(t)
                   /\ Sizes /\ Counting /\ Listing
<1>1. Init => I
  <2> SUFFICES ASSUME Init PROVE I
    OBVIOUS
  <2>1. \A t \in Threads : Owned(t) /\ Whole(t) /\ th[t].pc = "idle"
    BY DEF Init, Owned, Whole, Fresh, Stats, Printing
  <2>2. Sizes
    <3>1. \A f \in Paths : size[f] = Len(Lines[f]) /\ Len(Lines[f]) \in Nat
      BY FilesAssumption, LenProperties DEF Init
    <3> QED
      BY <3>1 DEF Sizes
  <2>3. Counting
    <3>1. Counted = {} /\ MatchesIn({}) = {}
      BY DEF Init, Counted, MatchesIn
    <3> QED
      BY <2>1, <3>1, FS_EmptySet DEF Init, Counting, Tally, Zeroes
  <2>4. Listing
    <3>1. Printed = {} /\ DOMAIN out = {} /\ out = <<>> /\ match_found = FALSE
      BY DEF Init, Printed, Counted
    <3> QED
      BY <3>1 DEF Listing
  <2> QED
    BY <2>1, <2>2, <2>3, <2>4
<1>2. Shape /\ Pieces /\ I /\ [Next]_vars => I'
  <2> SUFFICES ASSUME Shape, Pieces, I, [Next]_vars, NoStreams'
               PROVE  /\ \A t \in Threads : Owned(t)' /\ Whole(t)'
                      /\ Sizes' /\ Counting' /\ Listing'
    BY DEF I
  <2>1. UNCHANGED paths
    BY Shared DEF Next, Rewrite, vars
  <2>2. /\ NoStreams /\ Sizes /\ Counting /\ Listing
        /\ \A t \in Threads : Owned(t) /\ Whole(t)
    BY <2>1 DEF NoStreams
  <2>3. ASSUME NEW t \in Threads, ThreadStep(t)
        PROVE  /\ \A u \in Threads : Owned(u)' /\ Whole(u)'
               /\ Sizes' /\ Counting' /\ Listing'
    <3>1. \A u \in Threads : Owned(u)'
      BY <2>2, <2>3, OwnedStep
    <3>2. \A u \in Threads : Whole(u)'
      <4>1. Whole(t)'
        BY <2>2, <2>3, WholeStep
      <4>2. \A u \in Threads \ {t} : th'[u] = th[u]
        BY <2>3, Own DEF Shape
      <4> QED
        BY <2>2, <4>1, <4>2 DEF Whole
    <3>3. Sizes'
      BY <2>2, <2>3, Shared DEF Sizes
    <3> QED
      BY <2>2, <2>3, <3>1, <3>2, <3>3, CountingStep, ListingStep
  <2>4. ASSUME UNCHANGED <<th, fds, taken, stats, out, match_found, print_nonmatching_files>>
        PROVE  (\A u \in Threads : Owned(u)' /\ Whole(u)') /\ Counting' /\ Listing'
    <3>1. \A u \in Threads : Owned(u)' /\ Whole(u)'
      BY <2>2, <2>4 DEF Owned, Whole
    <3>2. Counted' = Counted
      BY <2>4 DEF Counted
    <3>3. Tally' = Tally
      BY <3>2 DEF Tally, MatchesIn, Matches
    <3>4. Printed' = Printed
      BY <2>4, <3>2 DEF Printed, Wanted, Yet, Total, Matches
    <3> QED
      BY <2>2, <2>4, <3>1, <3>3, <3>4 DEF Counting, Listing
  <2>5. ASSUME NEW f \in paths, Rewrite(f) PROVE Sizes'
    <3>1. PICK n \in Changes[mmap] : size' = [size EXCEPT ![f] = @ + n]
      BY <2>5 DEF Rewrite
    <3>2. /\ n \in Int /\ n >= 0 /\ size \in [Paths -> Nat] /\ f \in Paths
          /\ Lines[f] # <<>> /\ \A g \in Paths : Len(Lines[g]) \in Nat
      BY <2>5, FilesAssumption, LenProperties DEF Rewrite, NoneShrinks, Shape, TypeOK
    <3> QED
      BY <2>2, <3>1, <3>2 DEF Sizes
  <2> QED
    BY <2>2, <2>3, <2>4, <2>5 DEF Next, Rewrite, vars, Sizes
<1>3. Shape /\ I => TotalsExact
  <2> SUFFICES ASSUME Shape, I, Finished, NoStreams PROVE TotalsExact
    BY DEF TotalsExact
  <2>1. \A t \in Threads : th[t].pc = "idle" /\ th[t].file = Closed
    BY DEF Finished, Shape, Local, Fresh
  <2>2. Counted = Searched
    <3>1. \A f \in taken : f # Closed
      BY FilesAssumption DEF Shape, TypeOK
    <3> QED
      BY <2>1, <3>1 DEF Counted, Searched, Countable, Finished
  <2>3. Printed = {f \in Searched : (Total(Lines[f]) = 0) = print_nonmatching_files}
    BY <2>1, <2>2 DEF Printed, Wanted, Yet
  <2>4. match_found <=> out # <<>>
    BY <2>1 DEF Listing
  <2> QED
    BY <2>2, <2>3, <2>4 DEF Counting, Listing, Tally, TotalsExact
<1> QED
  BY <1>1, <1>2, <1>3, ShapeInvariant, PiecesInvariant, PTL DEF Spec
=============================================================================
