----------------------------- MODULE FileSearch -----------------------------
(***************************************************************************)
(* search_file() and what its callers share: the table of file descriptors *)
(* of the process, the output under print_mtx, the statistics under        *)
(* stats_mtx and the exit status.  The workers search the files of the     *)
(* queue, main() the paths of the command line that are not directories,   *)
(* a named pipe among them.                                                *)
(*                                                                         *)
(* A file is its kind and the number of matches on each of its lines.  A   *)
(* "regular" file is mapped, or read in pieces, and searched as one        *)
(* buffer, and may be given more lines meanwhile; a "binary" one is        *)
(* skipped, like one that cannot be mapped, and of a "missing" one stat(), *)
(* the look at its type or open() fails.  A "stdout" file is a regular one *)
(* that the output goes to, and is not searched.  A "zip" file and a "fifo" *)
(* are read through a FILE, line by line (search_stream()).  What          *)
(* is printed is a sequence of marks: the name of which file, the bytes of *)
(* which file, and whether a heading, a matching line or a line of context.*)
(***************************************************************************)
EXTENDS Integers, Sequences, FiniteSetsExt

CONSTANTS
    Workers,
    Main,
    Nobody,               \* the owner of an unlocked mutex
    Paths,                \* the files there are
    Kind,                 \* Paths -> Kinds
    Lines,                \* Paths -> Seq(Nat): the matches on each line
    Inputs,               \* sets of files to search, with opts.mmap for each
    Changes,              \* lines a file may gain or lose, for each of these
    Fds,                  \* the descriptors of the process, small numbers
    Closed,               \* a descriptor that is not open
    After                 \* opts.after: lines of context after a match

FileKinds == {"regular", "stdout", "binary", "missing", "zip", "fifo"}

ASSUME FilesAssumption ==
    /\ Main \notin Workers /\ Nobody \notin Workers \cup {Main}
    /\ Kind \in [Paths -> FileKinds]
    /\ Inputs \subseteq [paths : SUBSET Paths, mmap : BOOLEAN]
    /\ Changes \in [BOOLEAN -> SUBSET Int]
    /\ \A f \in Paths : Lines[f] \in Seq(Nat)
    /\ Fds \in SUBSET Nat /\ Closed \notin Paths
    /\ IsFiniteSet(Fds) /\ IsFiniteSet(Workers)
    /\ Cardinality(Fds) > Cardinality(Workers)   \* open() does not fail
    /\ After \in Nat

VARIABLES
    paths,                \* the files to search
    mmap,                 \* opts.mmap
    size,                 \* the lines that each file has now
    th,                   \* the local variables of every thread
    taken,                \* the files some thread has begun
    fds,                  \* the open file of every descriptor
    print_mtx, stats_mtx, \* the owners of the mutexes
    stats,                \* the shared counters
    out,                  \* the marks printed
    match_found,          \* opts.match_found
    print_nonmatching_files   \* opts.print_nonmatching_files: -L

vars == <<paths, mmap, size, th, taken, fds, print_mtx, stats_mtx, stats, out,
          match_found, print_nonmatching_files>>

Threads == Workers \cup {Main}
Zeroes  == [files |-> 0, matches |-> 0]

(* A thread: file is what it searches, loaded the file whose bytes it has  *)
(* got, line the lines of a stream it has read, buf the lines of its       *)
(* buffer that are not printed yet, count is matches_count (-1: skipped),  *)
(* since is ctx->lines_since_last_match up to After + 1, f_len is the size *)
(* it was told, got is bytes_read, and seen are the counters as read.      *)
Thread ==
    [pc : {"idle", "open", "check", "load", "read", "stream", "search", "stats_lock",
           "stats_read", "stats_write", "print_lock", "heading", "printing",
           "trailing", "cleanup", "list", "close"},
     file : Paths \cup {Closed}, loaded : Paths \cup {Closed},
     fd : Fds \cup {-1}, line : Nat, buf : Seq(Nat), count : Nat \cup {-1},
     since : 0 .. After + 1, f_len : Nat, got : Nat,
     seen : [files : Nat, matches : Nat]]

Fresh ==
    [pc |-> "idle", file |-> Closed, loaded |-> Closed, fd |-> -1, line |-> 0,
     buf |-> <<>>, count |-> -1, since |-> After + 1,
     f_len |-> 0, got |-> 0, seen |-> Zeroes]

Init ==
    /\ \E i \in Inputs : paths = i.paths /\ mmap = i.mmap
    /\ size = [f \in Paths |-> Len(Lines[f])]
    /\ th = [t \in Threads |-> Fresh]
    /\ taken = {}
    /\ fds = [d \in Fds |-> Closed]
    /\ print_mtx = Nobody /\ stats_mtx = Nobody
    /\ stats = Zeroes
    /\ out = <<>>
    /\ match_found = FALSE
    /\ print_nonmatching_files \in BOOLEAN

(* The matches on the lines s, each its line and its number there.         *)
Matches(s) == UNION {{<<i, k>> : k \in 1 .. s[i]} : i \in DOMAIN s}

Total(s) == Cardinality(Matches(s))

(* The files a thread is given: main() searches those the command line     *)
(* names, the workers those of the queue, out of which filename_filter()   *)
(* keeps named pipes.                                                      *)
Given(t) == {f \in paths \ taken : Kind[f] = "fifo" => t = Main}

(* A step of t from one place to another, with its new local variables.    *)
Step(t, from, new) ==
    /\ th[t].pc = from
    /\ th' = [th EXCEPT ![t] = new]
    /\ UNCHANGED <<paths, mmap, size, print_nonmatching_files>>

Mark(t, what) ==
    out' = Append(out, [file |-> th[t].file, from |-> th[t].loaded, what |-> what])

(***************************************************************************)
(* search_file() up to the search.                                         *)
(***************************************************************************)
Take(t) ==
    /\ \E f \in Given(t) :
           /\ Step(t, "idle", [Fresh EXCEPT !.pc = "open", !.file = f])
           /\ taken' = taken \cup {f}
    /\ UNCHANGED <<fds, print_mtx, stats_mtx, stats, out, match_found>>

(* Another program writes to a file that is not empty, once.               *)
Rewrite(f) ==
    /\ Kind[f] = "regular" /\ size[f] = Len(Lines[f]) /\ Lines[f] # <<>>
    /\ \E n \in Changes[mmap] :
           /\ size[f] + n >= 0
           /\ size' = [size EXCEPT ![f] = @ + n]
    /\ UNCHANGED <<paths, mmap, th, taken, fds, print_mtx, stats_mtx, stats, out,
                   match_found, print_nonmatching_files>>

(* stat() or open() fails, or the path is no file, or is stdout's.         *)
OpenFails(t) ==
    /\ th[t].pc = "open" /\ Kind[th[t].file] \in {"missing", "stdout"}
    /\ Step(t, "open", [th[t] EXCEPT !.pc = "cleanup"])
    /\ UNCHANGED <<taken, fds, print_mtx, stats_mtx, stats, out, match_found>>

(* open() returns the lowest descriptor that is free.  A path may have come *)
(* to lead to the file of stdout only after stat().                        *)
Open(t) ==
    LET d == Min({e \in Fds : fds[e] = Closed})
    IN  /\ th[t].pc = "open" /\ Kind[th[t].file] # "missing"
        /\ Step(t, "open", [th[t] EXCEPT !.pc = "check", !.fd = d])
        /\ fds' = [fds EXCEPT ![d] = th[t].file]
        /\ UNCHANGED <<taken, print_mtx, stats_mtx, stats, out, match_found>>

(* search_stream() of what the descriptor leads to; it begins a count.     *)
Streaming(t) ==
    [th[t] EXCEPT !.pc = "stream", !.count = 0, !.loaded = fds[th[t].fd]]

Badfd(t) == fds[th[t].fd] = Closed

Opened(t) == fds[th[t].fd]

(* fstat() of the descriptor: a pipe is streamed at once, and an empty file *)
(* is skipped, and the file that stdout is redirected to.                  *)
Skips(f) == Kind[f] = "stdout" \/ (Kind[f] # "fifo" /\ size[f] = 0)

Check(t) ==
    /\ th[t].pc = "check"
    /\ \/ /\ ~Badfd(t) => Skips(Opened(t))
          /\ Step(t, "check", [th[t] EXCEPT !.pc = "cleanup"])
       \/ /\ ~Badfd(t) /\ Kind[Opened(t)] = "fifo"
          /\ Step(t, "check", Streaming(t))
       \/ /\ ~Badfd(t) /\ ~Skips(Opened(t)) /\ Kind[Opened(t)] # "fifo"
          /\ Step(t, "check", [th[t] EXCEPT !.pc = "load", !.f_len = size[Opened(t)]])
    /\ UNCHANGED <<taken, fds, print_mtx, stats_mtx, stats, out, match_found>>

(* Mutant: the mapping needs no descriptor, so it is closed early - and again *)
(* at the end.                                                             *)
Load_ClosesToo(t) ==
    /\ mmap
    /\ Step(t, "load",
            IF Badfd(t) \/ Kind[Opened(t)] # "regular"
            THEN [th[t] EXCEPT !.pc = "cleanup"]
            ELSE [th[t] EXCEPT !.pc = "search", !.loaded = Opened(t),
                               !.got = th[t].f_len])
    /\ fds' = [fds EXCEPT ![th[t].fd] = Closed]
    /\ UNCHANGED <<taken, print_mtx, stats_mtx, stats, out, match_found>>

(* mmap() of the descriptor, which fails if it is another's pipe by now,   *)
(* and for reasons of its own; a compressed file is streamed from there,   *)
(* and search_buf() returns at once for a binary file.                     *)
Load(t) ==
    /\ mmap /\ th[t].pc = "load"
    /\ \/ /\ ~Badfd(t) => Kind[Opened(t)] \in {"binary", "fifo"}
          /\ Step(t, "load", [th[t] EXCEPT !.pc = "cleanup"])
       \/ /\ ~Badfd(t) /\ Kind[Opened(t)] = "zip"
          /\ Step(t, "load", Streaming(t))
       \/ /\ ~Badfd(t) /\ Kind[Opened(t)] \in {"regular", "stdout"}
          /\ Step(t, "load", [th[t] EXCEPT !.pc = "search", !.loaded = Opened(t),
                                           !.got = th[t].f_len])
    /\ UNCHANGED <<taken, fds, print_mtx, stats_mtx, stats, out, match_found>>

(* Without mmap the first piece, a line here, tells whether it is binary;  *)
(* a compressed file is.                                                   *)
ReadHead(t) ==
    /\ ~mmap /\ th[t].pc = "load"
    /\ \/ /\ ~Badfd(t) => Kind[Opened(t)] \in {"binary", "zip"}
          /\ Step(t, "load", [th[t] EXCEPT !.pc = "cleanup"])
       \/ /\ ~Badfd(t) /\ Kind[Opened(t)] \notin {"binary", "zip"}
          /\ Step(t, "load", [th[t] EXCEPT !.pc = "read", !.loaded = Opened(t),
                                           !.got = Min({1, size[Opened(t)]})])
    /\ UNCHANGED <<taken, fds, print_mtx, stats_mtx, stats, out, match_found>>

(* Mutant: the first piece is asked for again and again.                   *)
ReadOn_Again(t) ==
    /\ th[t].pc = "read"
    /\ IF th[t].got = th[t].f_len
       THEN Step(t, "read", [th[t] EXCEPT !.pc = "search"])
       ELSE Step(t, "read", [th[t] EXCEPT !.got = Min({1, size[th[t].loaded]})])
    /\ UNCHANGED <<taken, fds, print_mtx, stats_mtx, stats, out, match_found>>

(* Each read() asks for as much as the whole file, behind what there is    *)
(* already, until there is enough; if there is too much, die().            *)
ReadOn(t) ==
    LET left == Max({0, size[th[t].loaded] - th[t].got})
    IN  /\ th[t].pc = "read"
        /\ \/ /\ th[t].got = th[t].f_len
              /\ Step(t, "read", [th[t] EXCEPT !.pc = "search"])
           \/ /\ th[t].got < th[t].f_len
              /\ Step(t, "read", [th[t] EXCEPT !.got = @ + Min({left, th[t].f_len})])
        /\ UNCHANGED <<taken, fds, print_mtx, stats_mtx, stats, out, match_found>>

(***************************************************************************)
(* search_buf() of a whole file, or of the next line of a stream.  What    *)
(* was added to a file has no matches.                                     *)
(***************************************************************************)
Got(t) ==
    LET lines == Lines[th[t].loaded]
    IN  [i \in 1 .. th[t].got |-> IF i \in DOMAIN lines THEN lines[i] ELSE 0]

SearchBuf(t) ==
    /\ Step(t, "search",
            [th[t] EXCEPT !.pc = "stats_lock", !.buf = Got(t), !.count = Total(Got(t))])
    /\ UNCHANGED <<taken, fds, print_mtx, stats_mtx, stats, out, match_found>>

ReadLine(t) ==
    /\ th[t].pc = "stream"
    /\ th[t].line < Len(Lines[th[t].loaded])
    /\ LET n == Lines[th[t].loaded][th[t].line + 1]
       IN  Step(t, "stream", [th[t] EXCEPT !.pc = "stats_lock", !.line = @ + 1,
                                           !.buf = <<n>>, !.count = @ + n])
    /\ UNCHANGED <<taken, fds, print_mtx, stats_mtx, stats, out, match_found>>

(* Mutant: the counters are updated without the mutex.                     *)
StatsLock_Unlocked(t) ==
    /\ Step(t, "stats_lock", [th[t] EXCEPT !.pc = "stats_read"])
    /\ UNCHANGED <<taken, fds, print_mtx, stats_mtx, stats, out, match_found>>

(* The end of the stream; fclose() closes the descriptor, too.             *)
CloseStream(t) ==
    /\ th[t].pc = "stream"
    /\ th[t].line = Len(Lines[th[t].loaded])
    /\ Step(t, "stream", [th[t] EXCEPT !.pc = "cleanup"])
    /\ fds' = [fds EXCEPT ![th[t].fd] = Closed]
    /\ UNCHANGED <<taken, print_mtx, stats_mtx, stats, out, match_found>>

StatsLock(t) ==
    /\ stats_mtx = Nobody
    /\ stats_mtx' = t
    /\ Step(t, "stats_lock", [th[t] EXCEPT !.pc = "stats_read"])
    /\ UNCHANGED <<taken, fds, print_mtx, stats, out, match_found>>

StatsRead(t) ==
    /\ Step(t, "stats_read", [th[t] EXCEPT !.pc = "stats_write", !.seen = stats])
    /\ UNCHANGED <<taken, fds, print_mtx, stats_mtx, stats, out, match_found>>

(* Where search_buf() returns to.                                          *)
Return(t) == IF th[t].got > 0 THEN "cleanup" ELSE "trailing"

Prints(t) == Total(th[t].buf) > 0 /\ ~print_nonmatching_files

StatsWrite(t) ==
    /\ th[t].pc = "stats_write"
    /\ stats' = [files   |-> th[t].seen.files + 1,
                 matches |-> th[t].seen.matches + Total(th[t].buf)]
    /\ stats_mtx' = Nobody
    /\ Step(t, "stats_write",
            [th[t] EXCEPT !.pc = IF Prints(t) THEN "print_lock" ELSE Return(t)])
    /\ UNCHANGED <<taken, fds, print_mtx, out, match_found>>

(* Mutant: the matches are printed without the mutex.                      *)
PrintLock_Unlocked(t) ==
    /\ Step(t, "print_lock", [th[t] EXCEPT !.pc = "heading"])
    /\ UNCHANGED <<taken, fds, print_mtx, stats_mtx, stats, out, match_found>>

(***************************************************************************)
(* print_file_matches(), under print_mtx.                                  *)
(***************************************************************************)
PrintLock(t) ==
    /\ print_mtx = Nobody
    /\ print_mtx' = t
    /\ Step(t, "print_lock", [th[t] EXCEPT !.pc = "heading"])
    /\ UNCHANGED <<taken, fds, stats_mtx, stats, out, match_found>>

Heading(t) ==
    /\ th[t].pc = "heading"
    /\ Mark(t, "heading")
    /\ Step(t, "heading", [th[t] EXCEPT !.pc = "printing"])
    /\ UNCHANGED <<taken, fds, print_mtx, stats_mtx, stats, match_found>>

(* A line of context is still due: the mark of it, and the count.          *)
Due(t) == th[t].since <= After

Context(t) == IF Due(t) THEN Mark(t, "context") ELSE UNCHANGED out

(* Mutant: the count of lines since the last match goes up for ever.       *)
Since_Uncapped(t) == th[t].since + 1

Since(t) == IF Due(t) THEN th[t].since + 1 ELSE th[t].since

(* The loop of print_file_matches() at the end of a line.                  *)
PrintLine(t) ==
    /\ th[t].pc = "printing" /\ th[t].buf # <<>>
    /\ Total(th[t].buf) > 0 \/ Due(t)
    /\ IF Head(th[t].buf) > 0
       THEN Mark(t, "line") ELSE Context(t)
    /\ Step(t, "printing",
            [th[t] EXCEPT !.buf = Tail(@),
                          !.since = IF Head(th[t].buf) > 0 THEN 1 ELSE Since(t)])
    /\ UNCHANGED <<taken, fds, print_mtx, stats_mtx, stats, match_found>>

(* It also stops behind the last newline of the buffer, where it prints an *)
(* empty line if a line of context is due.                                 *)
PrintUnlock(t) ==
    /\ th[t].pc = "printing"
    /\ Total(th[t].buf) = 0 /\ (th[t].buf = <<>> \/ ~Due(t))
    /\ Context(t)
    /\ Step(t, "printing", [th[t] EXCEPT !.pc = Return(t), !.since = Since(t)])
    /\ print_mtx' = Nobody
    /\ match_found' = TRUE
    /\ UNCHANGED <<taken, fds, stats_mtx, stats>>

(* print_trailing_context() of search_stream(), which takes no lock.       *)
Trailing(t) ==
    /\ th[t].pc = "trailing"
    /\ Context(t)
    /\ Step(t, "trailing", [th[t] EXCEPT !.pc = "stream", !.since = Since(t)])
    /\ UNCHANGED <<taken, fds, print_mtx, stats_mtx, stats, match_found>>

(***************************************************************************)
(* The cleanup of search_file().                                           *)
(***************************************************************************)
Cleanup(t) ==
    /\ th[t].pc = "cleanup"
    /\ IF print_nonmatching_files /\ th[t].count = 0
       THEN /\ print_mtx = Nobody
            /\ print_mtx' = t
            /\ Step(t, "cleanup", [th[t] EXCEPT !.pc = "list"])
       ELSE /\ Step(t, "cleanup", [th[t] EXCEPT !.pc = "close"])
            /\ UNCHANGED print_mtx
    /\ UNCHANGED <<taken, fds, stats_mtx, stats, out, match_found>>

ListPath(t) ==
    /\ th[t].pc = "list"
    /\ Mark(t, "heading")
    /\ print_mtx' = Nobody
    /\ match_found' = TRUE
    /\ Step(t, "list", [th[t] EXCEPT !.pc = "close"])
    /\ UNCHANGED <<taken, fds, stats_mtx, stats>>

(* close(fd), if there is one, whether or not fclose() has closed it.      *)
CloseFd(t) ==
    /\ th[t].pc = "close"
    /\ Step(t, "close", Fresh)
    /\ fds' = [d \in Fds |-> IF d = th[t].fd THEN Closed ELSE fds[d]]
    /\ UNCHANGED <<taken, print_mtx, stats_mtx, stats, out, match_found>>

ThreadStep(t) ==
    \/ Take(t) \/ OpenFails(t) \/ Open(t) \/ Check(t)
    \/ Load(t) \/ ReadHead(t) \/ ReadOn(t)
    \/ SearchBuf(t) \/ ReadLine(t) \/ CloseStream(t)
    \/ StatsLock(t) \/ StatsRead(t) \/ StatsWrite(t)
    \/ PrintLock(t) \/ Heading(t) \/ PrintLine(t) \/ PrintUnlock(t)
    \/ Trailing(t)
    \/ Cleanup(t) \/ ListPath(t) \/ CloseFd(t)

Finished == taken = paths /\ \A t \in Threads : th[t].pc = "idle"

Next ==
    \/ \E t \in Threads : ThreadStep(t)
    \/ \E f \in paths : Rewrite(f)
    \/ (Finished /\ UNCHANGED vars)

Spec == Init /\ [][Next]_vars

(* Every thread keeps running; each takes a mutex only finitely often, so  *)
(* none can keep another from it for ever.                                 *)
FairSpec == Spec /\ \A t \in Threads : WF_vars(ThreadStep(t))

-----------------------------------------------------------------------------
(***************************************************************************)
(* Correctness.                                                            *)
(***************************************************************************)

(* The kinds of what search_stream() reads.                                *)
Streams == {"zip", "fifo"}

NoStreams == \A f \in paths : Kind[f] \notin Streams

Marks ==
    [file : Paths, from : Paths, what : {"heading", "line", "context"}]

(* Every variable holds a value of its type; so open() finds a descriptor, *)
(* and what is printed comes from a file.                                  *)
TypeOK ==
    /\ paths \subseteq Paths /\ mmap \in BOOLEAN
    /\ size \in [Paths -> Nat]
    /\ th \in [Threads -> Thread]
    /\ taken \subseteq paths
    /\ fds \in [Fds -> Paths \cup {Closed}]
    /\ print_mtx \in Threads \cup {Nobody}
    /\ stats_mtx \in Threads \cup {Nobody}
    /\ stats \in [files : Nat, matches : Nat]
    /\ out \in Seq(Marks)
    /\ match_found \in BOOLEAN
    /\ print_nonmatching_files \in BOOLEAN

(* What the read() calls of search_file() bring fits in the buffer of f_len *)
(* bytes that was allocated before them.  It is so if no file that is not  *)
(* mapped grows meanwhile.                                                 *)
FitsBuffer == NoStreams => \A t \in Threads : th[t].got <= th[t].f_len

(* The handle that was checked is the handle that is read: what a thread   *)
(* has in its buffer are the bytes of the file it was asked to search      *)
(* (the second fstat() is there "to prevent TOCTOU issue").                *)
LoadsOwnFile ==
    \A t \in Threads : th[t].loaded \in {Closed, th[t].file}

(* A line of context behind a match of a stream is printed without a lock. *)
Stray(i) == out[i].what = "context" /\ Kind[out[i].from] \in Streams

(* Everything else is printed below the name of its file, whatever other   *)
(* threads print meanwhile, and what comes from a regular file is printed  *)
(* in one piece.                                                           *)
OutputInOnePiece ==
    /\ \A i \in DOMAIN out :
           Stray(i) \/ \E h \in 1 .. i :
                /\ out[h].file = out[i].file /\ out[h].what = "heading"
                /\ \A j \in h .. i : Stray(j) \/ out[j].file = out[i].file
    /\ \A i, j \in DOMAIN out :
           /\ out[i].what = "heading" /\ out[j].what = "heading" /\ i # j
           /\ out[i].file = out[j].file
           => Kind[out[i].from] \in Streams

(* Where no stream is closed twice, nobody reads another file.              *)
ReadsOwnFile == NoStreams => LoadsOwnFile

(* What is looked for matches in: binary and missing files are not.        *)
Searched == {f \in paths : Kind[f] = "regular" /\ Lines[f] # <<>>}

MatchesIn(files) == UNION {{<<f, m>> : m \in Matches(Lines[f])} : f \in files}

(* --stats prints how many files were searched and how many matches they   *)
(* have, with no update of another thread lost; each file is printed if it *)
(* has matches (with -L, if it has none), and the exit status,             *)
(* !match_found, tells whether anything was printed.                       *)
TotalsExact ==
    (Finished /\ NoStreams) =>
        /\ stats = [files   |-> Cardinality(Searched),
                    matches |-> Cardinality(MatchesIn(Searched))]
        /\ {out[i].file : i \in DOMAIN out} =
              {f \in Searched : (Total(Lines[f]) = 0) = print_nonmatching_files}
        /\ match_found <=> out # <<>>

(* All the threads come to an end.                                         *)
Termination == <>Finished
=============================================================================
