# Verification of ag (the_silver_searcher, tre edition)

`ag` searches the files below some directories for a literal or a regular
expression. The modules in this directory model it in TLA+: the reading of the
command line, the threads and what they share, the walk, the ignore patterns,
the regular expression library, the search in a buffer, the decompression and
the printing. TLC checks them on small instances; TLAPS proves for every instance
that the thread pool, the walk, what the threads share while they search files,
the stream of a compressed file, the searches for a literal, the ignore patterns
and the reading of the command line do what they should (section 5).

Line numbers are those of `src/src/` unless they say otherwise.

## 1. The system

| Component | State | Operations | Interaction |
|---|---|---|---|
| Option parsing (`options.c`, `main.c` 60-150, `dropt/src/dropt.c`, `dropt_handlers.c`) | `opts`, the place in `argv` | read an option, store a value, draw conclusions stage by stage | once, before everything; its result is read by everything |
| Thread pool (`main.c`, `search.c` 460-490) | the list `work_queue`/`work_queue_tail`, `done_adding_files`, mutex `work_queue_mtx`, condition `files_ready` | create, append and signal, set done and broadcast, take, wait, free, join | `main()` produces, the workers consume |
| Directory walk (`search.c` 492-710, `scandir.c`) | the recursion, `symhash`, `opts.print_path` | enter, leave, list, recurse, enqueue, search a single file | asks the ignore patterns about each entry; feeds the pool, or searches a file itself |
| Ignore patterns (`ignore.c`, `infnmatch.c`) | six sorted arrays for each directory, linked upwards | read a line, enter a directory, look an entry up | called back from `ag_scandir()` |
| Searching a file (`search.c` 186-458) | descriptors, `stats`, `opts.match_found`, the output | open, check, map, read or stream, search, count, print, close | all threads, under `stats_mtx` and `print_mtx` |
| Matching (`search.c` 30-184, `util.c` 60-300) | skip tables, hash table, the array of matches | the two literal searches, the regular expression loops, inversion | tables built once in `main()`, read by all |
| Regular expressions (`tre/lib`) | the parser's stack, the automaton, the states reached with their tags, the way back | compile once; run over a text: character by character, or with backtracking | compiled in `main()`, run by all threads in `search_buf()` |
| Printing (`print.c`, the end of `search_buf()`, `search_stream()`) | a print context for each thread and file, `first_file_match`, `opts.print_path` | break, heading, one line at a time with its context, a name, a count | under `print_mtx`, except the context behind a match of a stream |
| Compressed files (`zfile.c`) | input and output buffer, decoder, offsets | read, seek, close | stdio calls it from `search_stream()` |
| `is_binary()`, file types, logging (`util.c`, `lang.c`, `log.c`) | | | section 6 |
| `uthash.h`, the string functions of `dropt/` | | | third party |

What is hard to get right, and hard to test:

* **Concurrency.** A signal between test and wait, the tail pointer when the
  last node is taken, the end of the walk while files are queued, output and
  statistics of several threads, descriptors that are numbers shared by all, a
  file that another program writes while it is read.
* **Ends.** Links that lead back up, empty matches, empty back references, reads
  that make no progress.
* **Edges.** Skips and strides of the literal searches, context lines around
  matches close to each other, the last line without a newline, buffers that
  are just full or just empty, a parser's stack that is full in the middle of
  an expression.
* **State kept between calls.** The print context and the decoder are used by
  functions that were written for one call for each file.
* **Two passes that must agree.** The tags of an expression are counted in one
  and set in the other.
* **Order.** The arrays of patterns must be sorted; a directory is skipped in
  the chain of parents when it is empty *at the time* its child is entered; what
  options mean together depends on the stage at which each is looked at.

`PROJECT.json` lists each hazard at its line with the properties that watch it.

## 2. Modules

| Module | Models | Abstract specification |
|---|---|---|
| `WorkQueue` | the thread pool, one step for each access to shared state | `SearchPool`, by refinement |
| `DirWalk` | `search_dir()` and its caller in `main()` | the itineraries in `WalkComplete` |
| `IgnorePatterns` | `ignore.c` | the meaning of the lines, in `FilterRight` |
| `FileSearch` | `search_file()` and `search_stream()`, as far as threads share things | |
| `Strstr`, `SearchBuf` | `boyer_moore_strnstr()`, `hash_strnstr()` and their tables; `search_buf()` and `invert_matches()` | `FirstOccurrence`, `Expected` |
| `TreAst`, `TreParse`, `TreCompile`, `TreMatch`, `Tre` | characters and trees; `tre_parse()`; the rest of `tre_compile()`; the two matchers; the life of an expression | `Regex`: what the library's manual says an expression means |
| `PrintMatches` | `print.c` and its callers | `ExpectedOutput` |
| `ZFile` | `zfile_read()`, `zfile_seek()`, `zfile_close()` | `ByteStream`, by refinement |
| `Dropt`, `Options` | `dropt_parse()`; `parse_options()` and `main()` up to the search | the command line read as a whole, in `asked` |
| `WorkQueueProofs`, `DirWalkProofs`, `FileSearchProofs`, `ZFileProofs`, `SearchBufProofs`, `IgnorePatternsProofs`, `OptionsProofs` | theorems about the module of the name (and `Strstr`, `Dropt`) | |
| `ProofLemmas` | nothing of the code: induction over the numbers, the least and the greatest of a set | |

`MC<module>` gives each of them its inputs for TLC, and `<module>.cfg` or
`<module>_<case>.cfg` its constants. A definition whose name ends in an
underscore and a word is the definition before the underscore with a bug; no
specification uses it. It shows that a property notices that bug.

### How state and actions correspond to the code

**WorkQueue.** A node is the number of its `ag_malloc()`; `next` holds the
links, with `Garbage` for memory not written yet or freed; `heap` is what is
allocated. `pc` says where each thread is between two accesses to shared state:
`FindFile` is the walk with the allocation, `Lock`/`LinkNode`/`Signal`/`Unlock`
are search.c 658-675, `EndWalk` to `Join` are main.c 193-203, and a worker goes
`Lock`, then `Dequeue`, `Exit` or `Wait`, `Unlock`, `SearchFile`, `FreeItem`
(search.c 460-490). `SpuriousWakeup` is what POSIX allows of
`pthread_cond_wait()`; `Die` is `die()` at any time.

**DirWalk.** `stack` is the recursion, each frame with its key, its path and the
entries not handled yet, in any order. `EnterDir`, `EnterUnseen` (when `stat()`
fails), `Loop`, `ScanFails`, `NotADirectory`, `NoSuchPath`, `Recurse`,
`EnqueueFile`, `ListFile`, `SkipEntry`, `EntryUnseen` (when `lstat()` fails),
`SkipDir` and `Leave` are the branches of `search_dir()`, each up to the next
call. Every way out after `check_symloop_enter()` takes the key out of the table
by the same `Return`, as each of them calls `check_symloop_leave()`. Which entries
the patterns drop is part of the world given.

**IgnorePatterns.** `igs` is the chain of `ignores` from `root_ignores` down to
the directory being listed, with the indices of their parents; an array of
patterns is a sequence of strings. `LoadLine` is one round of the loop of
`load_ignore_patterns()`, `SearchPath` and `Descend` are `init_ignore()` as
`main()` and `search_dir()` call it, the latter only for an entry that
`filename_filter()` keeps. Of the wildcards only `*` is used.

**FileSearch.** Every thread has the local variables of `search_file()` in
`th[t]`; `fds` is the table of descriptors of the process, the lowest free one
being given out by `open()`. Locks, the two halves of each update of `stats`,
each `read()` of a file that is not mapped and the writing of each line are
steps of their own. `Rewrite` is another program that writes to a file, once. A file of the kind
`"stdout"` is the one that the output goes to, which is skipped.
`out` is a sequence of marks (heading, line, context), each with the file the
thread was to search (`file`), and the file whose bytes it had (`from`). The two
differ after a named pipe was closed twice; what may be printed without a lock
depends on `from`, and a property that went by the kind of `file` would be false:
a thread that is searching a regular file may find itself reading a pipe.

**SearchBuf** and **Strstr.** The tables and the two searches are functions from
the arrays of the code; the loops of `search_buf()` and `invert_matches()` are
one step for each round. A regular expression is the set of strings it matches.

**TreParse.** `stack` holds the symbols of `tre_parse()` with their arguments,
and there is one action for each symbol, for `PARSE_ATOM` one for each kind of
atom. A push fails when the objects on the stack would be more than `StackMax`.
**TreCompile** turns `tre_add_tags()`, `tre_copy_ast()`, `tre_expand_ast()`,
`tre_compute_nfl()` and `tre_ast_to_tnfa()`, loops over a stack of their own,
into recursive operators over the tree; `regset`, `parents`, the minimal tags and
the reserved numbers of tags are fields of the state that is passed on.
**TreMatch** has one step for each character (`tre_tnfa_run_parallel`) or for each
turn of the loop (`MatchFound`, `ReadCharacter`, `ReadBackref`, `Backtrack`).
**Tre** strings them together: `Parse`, `Compile`, `Regnexec`, `Match`. All the
flags, numbers of tags and directions are those of the code, which made it
possible to compare the model with the library on several thousand expressions.

**PrintMatches.** `SearchLine` is the end of `search_buf()`, `PrintFileMatches` the
head of `print_file_matches()` with separator and heading. `Iterate` is the body of
the loop over the bytes as the composition of its parts in their order; one step
of the module is one byte. The output is a sequence of lines of tokens.

**ZFile.** A compressed file is a number of units of input with the bytes that
can be made of them. `Drain`, `Fill`, `Decode` are the parts of the loop of
`zfile_read()`, `SeekForward`, `Skip`, `EndSkip` those of `zfile_seek()`; inbuf
and outbuf have two units and two bytes, so that both are often just full.
`copied` holds what the call under way has given its caller, each byte named by
its place in the decompressed file. A decoder that begins in the middle, after a
seek backwards, may fail or take what it finds for another stream, of up to
`Strange` bytes; in `ByteStream` the stream is then `lost`.

**Dropt** and **Options.** The table of the options is written out entry by entry,
with `ag`'s names, handlers and destinations; a word of the command line is a
string, and how dropt takes it apart is given by the constant `Reading`. One
action of `Dropt` stores one option. The stages of `parse_options()` are actions
that follow one another (`Handled`, `Filtered`, `LoadIgnores`, `Output`,
`SetTarget`, then `Search` in `main()`), and each early end is an action of its
own. `asked` is worked out once from the whole of the command line, with no loop
in sight; the properties compare the outcome with it.

## 3. Runs

| Run | Question | Bounds and why they are enough |
|---|---|---|
| `workqueue` | Does the pool keep its list, lose no file and no wakeup, end, and implement `SearchPool`? | 3 workers, 4 files, 2 spurious wakeups: the list grows to several nodes, is drained to empty and refilled, and two workers race while a third waits. The safety part is proved for all sizes. |
| `dirwalk` | Is exactly what should be searched handed out, and does the walk end? | 5 file systems of 3 directories with loops, mutual links, dangling links, mounts and several paths; all options, four ways to print names (`Formats`), the depth limits in `Depths`; one failing call. Three directories make every kind of loop: to itself, to the parent, past it. |
| `ignore` | Is an entry dropped exactly if a line says so? | 3 patterns out of 10 lines over `root_ignores` and three nested directories: a binary search over 3 names, empty directories between others, an exception next to its wildcard. |
| `filesearch` | Does each thread read its own file, is output whole, are statistics and exit status exact, do all threads end? | 2 workers and `main()`, each of whom may get any file, a pipe only `main()`; sets of 2 or 3 files: with 0, 1 and several matches, empty, binary, missing, compressed, a pipe, the file the output goes to; mapped and not; with `-L` and without; a mapped file may grow (one that is not is the subject of `filesearch_growing`, and of section 4). |
| `searchbuf` | Do both literal searches find the first occurrence, and `search_buf()` all the matches, inverted or not (`ResultRight`)? Does every loop advance? | All texts up to 7 characters with all queries up to 4 over two letters, smaller ones with case, blanks and newlines; 16 cells of hash table so that pairs collide. |
| `tre` | Is every expression refused or compiled as it must be, do the passes over the tree agree, is the right match found, and found at all? | Some 8000 expressions: all greedy and lazy repetitions of a dozen pieces with something behind or in front, groups side by side and within one another, assertions, brackets with every class, back references under repetitions (all behind a `^`, so that only the parallel matcher has to choose the leftmost place), other spellings; texts up to 3 or 4 characters. Every string of up to 4 of six characters is parsed. `StackMax` = 40, so that groups 5 to 9 deep are on both sides of the limit; `RE_DUP_MAX` = 5. |
| `print` | Is exactly what should be printed? | All files of up to 6 lines with contexts 0 to 2 (every distance of two matches below and above the sum of the contexts); 2 to 3 lines for the formats, headings, breaks, names, counts and `--passthrough`. |
| `zfile` | Does the stream deliver its bytes, each once, after seeks and rewinds too (`DeliversStream`), and end when it is over (`ImplementsStream`)? | All files of up to 3 units and 4 bytes, sound or not, reads of 1 and 3 bytes against buffers of 2. |
| `options` | Does the last setting of everything win, and is the output and the target of the search what the whole command line asks for (`SearchAsDocumented`)? | Every name of the table by itself and in front of a word, every pair of 26 words that act on each other with a third behind it, every word as the argument of `-A`; 7 environments (pipe or not, terminal, dumb terminal or not, an output that is closed, with and without `HOME`, `XDG_CONFIG_HOME`, `fork()`); two file types; an int has 16 bits. |
| `filesearch_growing`, `filesearch_pipe`, `zfile_exit` | violated: see section 4 | inputs that show it |

Names of bounds: `MaxJobs`, `MaxSpurious` (WorkQueue), `MaxErrors` (DirWalk),
`MaxLines`, `MaxDepth` (IgnorePatterns), `StackMax`, `RE_DUP_MAX` (TreParse),
`IntBits` (Dropt), `CellValues`, `H_SIZE` (Strstr), `InBuf`, `OutBuf`, `SkipBuf`,
`Strange` (ZFile); the others are in the inputs.

**Deadlock** is checked except for `ignore`, where a walk is cut off at its bound,
and for `tre` and `options`, where a behaviour ends with the match, the refusal,
the search or the exit; the other modules have a step that stutters when the
program has ended.

**Fairness.** `WorkQueue`: weak fairness of each thread, as the system schedules
every thread that can run. A mutex is not fair, but the walk and the spurious
wakeups are finite, so nobody is kept from it for ever. `FileSearch`: likewise.
`DirWalk`, `Options`: the one thread there is goes on. `ZFile`: a call that has
begun goes on; nothing obliges anyone to call. `Tre`: a matcher goes on; the
fairness of the parallel one is stated of what its step does to the position,
which is cheaper to evaluate. Parser and compiler have no fairness: that they end
is not checked. `SearchBuf` uses the action property `Advances` (no round of a loop
stands still or goes back) in place of liveness: it is cheaper and stronger.

## 4. Where the code departs from what it says

Three runs show this, and each is a finding in `PROJECT.json`:

| Run | What happens |
|---|---|
| `filesearch_growing` | without `mmap()` each `read()` asks for `f_len` bytes again (399), so a file that grew after `fstat()` is read behind the end of its buffer. |
| `filesearch_pipe` | `fclose(fp)` (338) and `close(fd)` (456) close the same number for a named pipe. A worker that got the number in between has its file closed, and possibly replaced by another before it is mapped. |
| `zfile_exit` | a read after the end of the stream was decoded takes a sound file for a truncated one and ends the program (zfile.c 221, 290). |

Others were met and are left out of the inputs of the passing runs, or allowed
for in the property. Each of these can be seen by replacing values in a `.cfg`
and checking the property named:

| Departure | To see it |
|---|---|
| with `-f --one-device` a link to another device is followed, as `lstat()` gives the device of the link and not of what it leads to (628); the help says "Don't follow links to other devices." `WalkComplete` allows either | `DirWalk.cfg`: `Worlds <- MountedWorld`, `StaysOnDevice` |
| without `mmap()` a file that shrinks is read for ever (398) | `FileSearch.cfg`: `Inputs <- Unmapped`, `Changes <- Shrinking`, `Termination` |
| a compressed file has a heading for each matching line | `FileSearch.cfg`: `Inputs <- OnlyZips`, `OneHeading` |
| context behind a match of a stream is printed without `print_mtx` | `Inputs <- OnlyZips`, `After = 2`, `ContextFollows` |
| without `mmap()` a compressed file is skipped as binary (392) | `Inputs <- ZipUnmapped`, no line of output in any state |
| with `--nomultiline` the offset in the line is added twice, from the second match of a line on, and may lie behind the buffer (175) | `SearchBuf.cfg`: `Inputs <- ByLines`, `OffsetsInBuffer` |
| `^` also matches where the match before ended | `SearchBuf.cfg`: `Inputs <- Carets`, `MatchesRight` |
| `ag -v 'x*'` never ends: `invert_matches()` goes back for an empty match (util.c 268) | `Inputs <- InvertedStar`, `Advances` |
| `-o` prints an empty line for a last line without newline | `PrintMatches.cfg`: `Inputs <- Unterminated`, `OutputRight` |
| `-A` prints a numbered empty line behind the last line | `Inputs <- AfterLast`, `NoPhantom` |
| `-c` prints 1 for each matching line of standard input, where `doc/ag.1.md` 34 promises "the number of matches" | `Inputs <- StreamCounts`, `OneCount` |
| `--passthrough` prints a line twice that is context, too | `Inputs <- PassContext`, `OutputRight` |
| `--vimgrep --width` cuts off the newline, so that lines run into each other | `Inputs <- VimgrepWidth`, `OutputRight` |
| `--vimgrep` prints the byte behind a file without final newline | `Inputs <- Vimgrep`, `ReadsInside` |
| `--width` with `--column` reads behind the array of matches | `Inputs <- Widths`, `ReadsInside` |
| `-B` in a compressed file prints with offsets of an earlier line's buffer | `Inputs <- Zips`, `ReadsInside` |
| the query `.` in an empty buffer reads its first byte | `Inputs <- Empty`, `ReadsInside` |
| a pattern with a slash is not applied below a relative path (`ag x sub`) | `IgnorePatterns.cfg`: `Tops <- RelativeTop`, `FilterRight` |
| nor below a hidden directory of an absolute path | `DirNames <- HiddenDirs`, `FilterRight` |
| `*.a.b` is compared with what is behind the *first* dot of the name | `Entries <- TwoDots`, `FilterRight` |
| with back references the match is the one of the earliest way out, not the leftmost: `(a+)\1$` finds nothing in `aaa` (tre-match-backtrack.c 627) | `Tre.cfg`: `Patterns <- Unanchored`, `MatchRight` |
| `-A`, `-B` and `-C` take the next word for their number, or are refused, where `doc/ag.1.md` 24 says "If not provided, LINES defaults to 2" (options.c 235; `DEFAULT_AFTER_LEN` is used nowhere) | `Options.cfg`: `CommandLines <- FewCommandLines`, `LinesAreOptional` |
| with standard input a pipe, `ag foo a.txt` prints no line numbers (and no names), where `doc/ag.1.md` 122 leaves them out for streams only (options.c 706 before 776) | likewise, `NumbersUnlessStream` |
| where the memory for the file types held something (options.c 362), the search is restricted to a type that nobody asked for | likewise, with `Heaps <- Reused`, `OnlyTypesAsked` |

Some more concern regular expressions the run leaves out. They were seen in
the model and confirmed with the library:

* A lazy repetition at the very start is not lazy: `.{1,3}?$` on `aa` matches 1..2,
  and a lazy group loses its place: `^(.)*?b` on `bb` gives 0..2.
* An assertion as an alternative is dropped or lost under a repetition: `(^|)b` does
  not match `ab`; `(?:$|a)*` matches at ends of lines only.
* Back references: `(a*)a*\1b` does not match `ab`, and `(a*).*\1b` matches it only
  from 1 on; `^(?:(a)\1){2}` matches three letters of `aaa`; a group that has not
  matched is read as empty; `(?:(a\1)b)*` violates an assertion of
  `tre_fill_pmatch()`.
* `\b` holds at both ends of a text, whatever is there.
* `\Q` or `\x` at the end of a pattern adds a NUL; `[[:alpha:` is read on behind its
  end.
* `a[^b]c` matches across a newline under `REG_NEWLINE`, against
  `tre/doc/tre-api.html` 97; `[^a-cb-f]` matches `d`; `[:blank:]`, which
  `tre/doc/tre-syntax.html` 270 lists, is refused in this build.

And some concern options. `Options` models them, and the properties allow for
them by name or say nothing of them:

* `PathsAndPipe`: the form of the output where files are named and standard input is
  a pipe (`NumbersUnlessStream`).
* `linesLeftOut`: what becomes of a command line with an `-A`, `-B` or `-C` that has no
  number behind it (`LinesAreOptional`).
* `FormInDoubt`: several options speak of names and blank lines, and the code's tests
  settle which of them counts, not the last word: `--nofilename --filename` prints no
  names (454, 471), `--filename --nofilename` neither; `--nogroup --nobreak` still
  prints headings (697); `--group` and `--break` against each other, `-l` with
  `--nofilename`.
* `NumbersInDoubt`: likewise `--nofilename --numbers` prints no line numbers, and
  `--filename` those that `--nonumbers` forbids (456-476).
* `--js --css` searches the files of one of the types, and a type takes the place of
  the pattern of `-g` and `-G` (548).
* Options behind the first plain word are paths.
* Only the last `--ignore`, `--ignore-dir` and `-p` counts.
* `-A -1` becomes the largest number there is (235); the help text says 10,000 for
  the default of `--max-count` (98), which is 0.
* `--list-file-types` stores eight bytes into an int; `--pager` is used when the
  output is a pipe, too.

A wildcard pattern with a slash in its middle (`a/b/*.yml`) is only compared with
the bare name; `src/tests/ignore_subdir.t` has a TODO about it, and `FilterRight`
takes the code's reading. `!` in a file overrides the wildcards of that file,
wherever it stands, and nothing else; `FilterRight` says so too.

## 5. What is proved

Eight modules hold theorems (in `ProofLemmas` they are lemmas for the others), each
from the assumptions on the constants that its module declares (`...Assumption`)
and from nothing else, unless it is said below. TLC evaluates these assumptions in
every run.

| Module | Theorem | Says |
|---|---|---|
| `WorkQueueProofs` | `Invariance` | `IInv` holds in every execution |
| | `TypeCorrect` | no link is followed that is garbage |
| | `MutualExclusion` | a thread is in a critical section iff it owns the mutex |
| | `ListCorrect` | the list keeps its shape |
| | `MemorySafe` | each node has exactly one owner |
| | `ExactlyOnce` | no file is searched twice or dropped |
| | `WakeupsArrive`, `JoinReachesAll` | no wakeup is lost; nobody sleeps when `main()` joins |
| | `AllSearched` | at return everything found has been searched and freed |
| | `Refinement` | `Spec => ImplementsPool`: the threads implement `SearchPool` |
| `DirWalkProofs` | `Invariance`, `TypeCorrect` | `IInv` and `TypeOK` hold in every execution |
| | `SymhashCorrect` | the table of directories holds exactly those the walk is inside of, each once (`SymhashIsStack`) |
| | `HeadingsCorrect` | `opts.print_path` is written only when no worker will have a file (`HeadingOffAlone`) |
| | `WalkCorrect` | what was found at the end is what the itineraries say, each file once (`WalkComplete`) |
| `FileSearchProofs` | `ShapeInvariant`, `TypeCorrect` | both mutexes exclude, no two threads have one file, every open descriptor is a thread's |
| | `OutputCorrect` | the output of a file stands below its name, in one piece (`OutputInOnePiece`) |
| | `OwnFileRead` | without streams each thread reads its own file (`ReadsOwnFile`) |
| | `TotalsCorrect` | `TotalsExact`, if `NoneShrinks` |
| `ZFileProofs` | `Invariance`, `TypeCorrect` | `IInv` and `TypeOK` hold in every execution |
| | `BytesDelivered` | a read copies the bytes that follow its offset, each once (`DeliversStream`) |
| | `Refinement` | `Spec => ImplementsStream`: decoder, buffers and calls implement `ByteStream` |
| `SearchBufProofs` | `BoyerMooreCorrect` | `boyer_moore_strnstr()` returns the first occurrence, for any query and text |
| | `HashCorrect` | so does `hash_strnstr()`, if the table has room for all the pairs |
| | `LiteralCorrect` | both find what is first from wherever `search_buf()` calls them (`LiteralFindsFirst`) |
| | `TypeCorrect` | offsets stay in the buffer, and the array of matches has room (`TypeOK`), if `NoInvertedLines` |
| | `LoopsAdvance` | no loop goes back or stands still (`Advances`), if `NoInvertedEmpty` |
| | `ResultCorrect` | the printer gets all the matches and no other, or the lines that none of them touches (`ResultRight`), if `NoCaret`, `FirstOnly` and `NoInvertedEmpty` |
| `IgnorePatternsProofs` | `BinarySearchCorrect` | in an array in order, `binary_search()` finds what is there and nothing else |
| | `TypeCorrect` | the arrays are in order after every line (`TypeOK`) |
| | `FilterCorrect` | an entry is decided by the lines of every directory on the way down (`EveryLineCounts`) |
| `OptionsProofs` | `LastSettingCorrect` | dropt accepts exactly what is well formed, and the last setting wins (`LastSettingWins`), if `NoGarbage` |
| | `TypeCorrect` | a search has a query, a path and a worker (`TypeOK`), if `NoGarbage` |
| | `SearchCorrect` | the search and the form of its output are what the whole command line asks for (`SearchAsDocumented`), if `NoGarbage` |

**WorkQueue**: any finite non-empty set of workers, any number of files and of
spurious wakeups. None of the safety properties is inductive by itself. That a
node has one owner needs the shape of the list (which nodes are on it), the shape
needs the mutex (`LinkNode` and `Dequeue` are steps of their own inside a critical
section), and that no worker is asleep when `main()` joins needs to know which
flags go with the place `main()` has reached. `IInv` is therefore their
conjunction with two facts about the control state: `Phases` (the flags, the list
and the pc of `main()`) and `Holding` (a worker holds a node from the dequeue to
the `free()`). `Refinement` maps each step to a step of `SearchPool` or a
stutter; `StageMeaning` first derives from `IInv` what the stage of a job is in
terms of the list and the workers.

**DirWalk**: any finite set of directories, with whatever entries, links, loops and
mounts, any options and depth limits, any number of failing calls (`WalkComplete`
speaks of walks without one; the other properties hold with them, too).
`WalkComplete` compares what was found with the itineraries: the ways from a path
through directories that the options allow and that never enter one twice. The
walk knows of no itinerary, only of its stack. The invariant therefore says that
the stack is a way down (`Frames`), that the call about to begin goes on from it
(`Calling`), and, without an error, that what should be found has been found or is
*ahead*: its path goes through that call, or through an entry that some frame has
not taken yet (`Pending`, `Progress`). Each step is then shown to take from what is
ahead what it adds to what was found. That a directory refused as a loop hides
nothing is the lemma `PendingRefused`: an itinerary through it would enter it
twice, as the table holds exactly the stack. `HeadingOff` is inductive with them.

**FileSearch**: any number of workers, any files of any kind with any lines, any
writes by another program, any number of descriptors that is larger than the
number of workers. `Shape` says for each place of a thread what its variables hold
(`Local`), and that mutexes, files and descriptors are in one hand each (`Locks`,
`Distinct`, `OpenFiles`). On top of it:

* `Pieces` (`Named`, `Once`, `Underway`, `Traced`): each mark stands below the name
  of its file with nothing foreign between, a thread that prints printed that name
  last, and what is printed of a file was printed by the thread that has it. This
  holds even where descriptors are closed twice.
* `Owned`: without streams the descriptor of a thread leads to its file, and to
  nobody else's; this is what the double `close()` breaks.
* `Whole`, `Sizes`, `Counting`, `Listing`: a thread gets all the lines of its file;
  the counters are the sums over the files past the update, and no thread has an
  old value when it writes them; the names printed are those of `Printed`. The
  hypothesis `NoneShrinks` is needed: of a file that got shorter not all
  the matches are found, and without `mmap()` the loop never ends (section 4). The
  changes of the run, `Harmless`, satisfy it. That what is read fits the buffer is
  not proved, as it is false.

**ZFile**: any files, sound or not, any sizes of the buffers, any reads and seeks.
What is behind the reader and what is in outbuf is together what the decoder has
put out (`Buffered`), which is never more than the units it has consumed yield
(`Decoder`); with what the place in `zfile_read()` and `zfile_seek()` says of their
variables (`Calling`), the end the decoder reports is the end of the stream. One
fact is easy to overlook and the invariant fails without it: a decoder that has
reached the end has seen the stream from its beginning (`dec.ended => dec.valid`),
so that a rewind that leaves the file in the middle never makes a wrong end.

**SearchBuf** and **Strstr**: any buffer, query, expression and options, any width of
a cell, any first size of the array. Three things are proved on top of one another.

* *The literal.* `Shift` is the heart of `boyer_moore_strnstr()`: where a comparison
  stops at byte k, an occurrence begins no earlier than the larger of the two strides
  says. Both tables are described first by what they hold (`AlphaSkip`, `FindSkip`
  with `Fits`), as they are filled from left to right. For `hash_strnstr()` the
  invariant of the filling is `Entered`: each pair entered so far is reached from
  its cell before a free one is (`Probe`, `Ring`), which needs a free cell
  to remain. The assumption on the inputs states it: four forms of each pair, and fewer
  than `H_SIZE` of them.
* *The array and the loops.* `IInv` says which offsets, matches and sizes go with the
  loop under way; while matches are inverted (`Reading`), no more have been written
  than read. Without that, what is written would overwrite what is to be read.
* *The result.* While it searches, what was found, together with what the reference
  finds from here on, is all there is (`Finding`), so that a step of a loop has to be
  one unfolding of the reference. While it inverts, the lines written and those
  pending are the untouched ones that end before the place it is at (`Turned`), for
  which the matches have to lie behind one another (`Sorted`). The reference is
  recursive, over offsets that grow: `Chain` shows that such a function exists, by
  going down from the last offset, before anything else can be said of it.

The hypotheses leave out what the code gets wrong (section 4), and nothing more:
`NoCaret` (`^` with `--multiline` matches where the match before ended), `FirstOnly`
(line by line only the first match of a line has the right offset),
`NoInvertedEmpty` (an empty match is inverted for ever) and `NoInvertedLines` (with
wrong offsets the inversion leaves the buffer). All the inputs of the run `searchbuf`
satisfy all four, so that the theorems say for every buffer what the run says of
short ones; each of them is needed, as the inputs of section 4 show.

**IgnorePatterns**: any lines, paths, names, entries and depth. `HoldThose` says that
the six arrays hold exactly the patterns of the lines read, in whatever order these
came, and are in the order of `strcmp()`; a line more keeps it so because the order
is total and `binary_search()` needs no more than the order. The way up (`Chain`) skips
directories, but only those without patterns (`Linked`); hence `EveryLineCounts`: an
entry is listed iff no line of *any* directory from the top down drops it, where
what a line drops (`LinesDrop`) is put in terms of sets of lines, with no array, search
or parent in it. What the patterns *mean* is not in it: `FilterRight` compares paths
below the directory of a line, which the code builds from the top of the walk, and is
false for some tops and names (section 4); it stays with TLC.

**Options** and **Dropt**: any words, whatever they read as, any numerals, environment and
file types, from the table of `ag` as it is. Which words are arguments is settled
by the words before them, so that at any time those passed, and those of them that
set a field, are known (`Place`, `Accepted`, `Values` for the set V of words that are
arguments). Each field has what the last option *so far* says, and at the end
that is the last one.
Behind dropt the proof goes stage by stage (`SInv`): for each there is a statement of
what `opts` holds in terms of `asked` alone (`AtHandled`, `AtFiltered`, `AtIgnores`,
`AtOutput`, `AtMain`, `AtSearch`), which grows more specific where a stage draws a
conclusion and lets go of what is not read again. A stage finds the statement of the one
before it and leaves its own; the last is `SearchAsDocumented`. That a field which
several options store into has a value of its kind follows from the table, which the
proof goes through entry by entry (`TableKinds`). The kinds of command lines that
section 4 names stay open here, too. `NoGarbage` says that the memory for
the file types is zero, which it need not be (section 4); that an argument is no `NULL`
and that no file type has the name of another field are assumptions on the constants.

That more units never yield less, and that a path goes through the stack up to
some height, needs induction. The library's theorems on induction take an operator as
a parameter and cannot be used here, but induction over a *set* of numbers can:
`NatSetInduction` in `ProofLemmas` is derived from the least number of a set, and
each proof by induction applies it to the set of numbers for which the claim
holds.

Only model-checked:

* Liveness (`Termination`, `CallReturns`), as it depends on fairness; `ENABLED`.
* The modules of the regular expressions (`Regex` and `Tre...`): they are written
  with `RECURSIVE` operators, which follow the recursion over the syntax tree, and
  a module that reaches one is out of the prover's reach altogether. What a
  recursive operator computes for every input cannot be proved either.
* `FilterRight`, for the reason given above; and all of `PrintMatches` (`TypeOK`,
  `ReadsInside`, `OutputRight`): not attempted. No recursive operator stands in the way.

## 6. What is not modelled

* `is_binary()` (a file is binary or not in `FileSearch` and `PrintMatches`); the
  table of file types and the expressions made of it.
* `decompress()` (used without `fopencookie()`) and the failures of
  `decompress_open()`; an empty file under the query `.` with `--all-text`.
* Approximate matching: its parameters are parsed, its matcher is not run (`ag`
  reaches it only with an expression that asks for it). Basic syntax, wide and
  multibyte characters, user-defined input: not in this build, or not used by `ag`.
* `--ackmate-dir-filter`, character classes and `?` in ignore patterns,
  `core.excludesfile`.
* The hash table of queries of 255 bytes and more, which is built but not used.
* The texts of help, version and messages, and the escape sequences of colours.
* A mapped file that shrinks while it is searched: the system ends the program with
  SIGBUS, which `ag` has no handler for.
* Exhaustion of memory, `die()` inside the print mutex (see the hazards).
* Windows and VMS.

## 7. Plan

The order is by importance: first what the threads share, then the walk and what
it finds, then the algorithms, then the library and the options. Written so far:
all the modules of section 2. Next:

1. *Prove.* `PrintMatches`: `ReadsInside`, from what the print context holds between
   two lines. `IgnorePatterns`: `FilterRight`, for tops and names that are neither
   relative nor hidden.
2. *Extend.* A composition of `DirWalk` and `WorkQueue` with `opts.print_path` and
   `die()`; an abstract specification of the output (a sequence of whole files)
   that `FileSearch` implements; `is_binary()` as an operator; `?` and classes in
   ignore patterns.
