------------------------------ MODULE DirWalk -------------------------------
(***************************************************************************)
(* The walk of main(): for every path on the command line search_dir()     *)
(* lists a directory, appends its files to the work queue and calls itself *)
(* for its subdirectories.  The calls in progress are a stack of frames.   *)
(* symhash holds the (device, inode) keys of the directories the walk is   *)
(* in, so that a symbolic link back to one of them does not go round for   *)
(* ever.                                                                   *)
(*                                                                         *)
(* One thread walks, so a step is as long as the code between two calls of *)
(* search_dir().  The order in which readdir() lists entries is arbitrary. *)
(* Which names the ignore patterns drop is not decided here: an entry is   *)
(* ignored or it is not.                                                   *)
(*                                                                         *)
(* A name with an underscore and a word is the definition with a bug in    *)
(* it, there to show that a property notices.                              *)
(***************************************************************************)
EXTENDS Integers, Sequences, FiniteSets

CONSTANTS
    Dirs,                 \* the inodes that are directories
    Files,                \* the inodes that are not
    Missing,              \* what a dangling link leads to
    NoKey,                \* the key {0, 0} of a directory stat() failed for
    Worlds,               \* the file systems, see World
    Depths,               \* the values of --depth
    Formats,              \* what the options say of the output, see Options
    NoDevice,             \* the device 0, which no file is on
    MaxErrors             \* bound on the failures of lstat(), stat() and opendir()

(* A world: paths is the command line; entries lists each directory; dev   *)
(* is the device of each inode.  An entry of a directory, or a path of the *)
(* command line, is a name, the inode behind it, whether it is a symbolic  *)
(* link, and whether the ignore patterns drop it.  No two entries of a     *)
(* directory have the same name.                                           *)
ASSUME WorldsAssumption ==
    /\ Dirs \cap Files = {} /\ Missing \notin Dirs \cup Files
    /\ NoKey \notin Dirs \cup Files \cup {Missing}
    /\ MaxErrors \in Nat /\ Depths \subseteq Int
    /\ IsFiniteSet(Dirs)
    /\ \A world \in Worlds :
           /\ Len(world.paths) \in Nat
           /\ \A p \in 1 .. Len(world.paths) :
                  world.paths[p].ino \in Dirs \cup Files \cup {Missing}
           /\ DOMAIN world.entries = Dirs
           /\ \A i \in Dirs \cup Files : world.dev[i] # NoDevice
           /\ \A d \in Dirs : \A e \in world.entries[d] :
                  /\ e.ino \in Dirs \cup Files \cup {Missing}
                  /\ e.ino = Missing => e.link
                  /\ \A f \in world.entries[d] : f.name = e.name => f = e

VARIABLES
    world,
    opts,                 \* the options the walk depends on
    argc,                 \* how many paths of the command line were begun
    original_dev,         \* the device of the current one, for --one-device
    call,                 \* the call about to begin: an inode and a path,
                          \* which starts with the number of the argument
    stack,                \* the calls in progress, the innermost last
    symhash,              \* the keys of the directories entered
    enqueued,             \* the paths given to the workers
    listed,               \* the paths printed because of -g
    searched,             \* the paths main() searched itself
    appends,              \* how often something was added to the three
    print_path,           \* opts.print_path and opts.print_line_numbers,
    print_line_numbers,   \* which main() may change
    errors

(* No call of search_dir() is about to begin.                              *)
NoCall == [ino |-> NoKey, path |-> <<>>]

output  == <<enqueued, listed, searched, appends>>
heading == <<print_path, print_line_numbers>>
vars    == <<world, opts, argc, original_dev, call, stack, symhash, output,
             heading, errors>>

(* max_search_depth -1 is "unlimited".  file_search_regex is the set of    *)
(* names it matches; with -g (match_files) what matches is printed.  A     *)
(* format is the values the options give only_matching, print_path and     *)
(* print_line_numbers.                                                     *)
Options ==
    [follow_symlinks : BOOLEAN, one_dev : BOOLEAN, recurse_dirs : BOOLEAN,
     max_search_depth : Depths, file_search_regex : BOOLEAN,
     match_files : BOOLEAN, format : Formats]

Top       == stack[Len(stack)]
Depth     == Len(stack) - 1
IsDir(e)  == e.ino \in Dirs                       \* util.c is_directory()
Path(e)   == Append(Top.path, e.name)

(* lstat() of a link sees the link, which is on the device of the          *)
(* directory that holds it.                                                *)
EntryDev(d, e) == IF e.link THEN world.dev[d] ELSE world.dev[e.ino]

(* filename_filter(): links unless they are followed, and the ignored.     *)
Kept(d) ==
    {e \in world.entries[d] : (opts.follow_symlinks \/ ~e.link) /\ ~e.ignored}

CrossesDevice(e) == opts.one_dev /\ EntryDev(Top.ino, e) # original_dev

RegexSkips(e) == opts.file_search_regex /\ ~e.matches

(* A call of the system fails.                                             *)
Fails == errors < MaxErrors /\ errors' = errors + 1

(* symhash with the key of a directory that is entered, and without that   *)
(* of one that is left.  NoKey is neither added nor found.                 *)
check_symloop_enter_AnyKey(hash, key) == hash \cup {key}

check_symloop_enter(hash, key) == hash \cup ({key} \ {NoKey})
check_symloop_leave(hash, key) == hash \ ({key} \ {NoKey})

Init ==
    /\ world \in Worlds
    /\ opts \in Options
    /\ opts.match_files => opts.file_search_regex
    /\ argc = 0
    /\ original_dev = NoDevice
    /\ call = NoCall
    /\ stack = <<>>
    /\ symhash = {}
    /\ enqueued = {} /\ listed = {} /\ searched = {}
    /\ appends = 0
    /\ print_path = opts.format.print_path
    /\ print_line_numbers = opts.format.print_line_numbers
    /\ errors = 0

(***************************************************************************)
(* The loop of main() over the paths of the command line.                  *)
(***************************************************************************)
Idle == call = NoCall /\ stack = <<>>

(* When lstat() fails the device stays 0, and every entry crosses it.      *)
StartPath ==
    /\ Idle
    /\ argc < Len(world.paths)
    /\ argc' = argc + 1
    /\ symhash' = {}
    /\ call' = [ino |-> world.paths[argc'].ino,
                path |-> <<argc'>>]
    /\ \/ /\ original_dev' = IF opts.one_dev THEN world.paths[argc'].dev ELSE NoDevice
          /\ UNCHANGED errors
       \/ opts.one_dev /\ original_dev' = NoDevice /\ Fails
    /\ UNCHANGED <<world, opts, stack, output, heading>>

(***************************************************************************)
(* The beginning of search_dir(): check_symloop_enter() and ag_scandir().  *)
(***************************************************************************)
Loop ==
    /\ call # NoCall
    /\ call.ino \in symhash
    /\ call' = NoCall
    /\ UNCHANGED <<world, opts, argc, original_dev, stack, symhash, output,
                   heading, errors>>

Enter(key) ==
    /\ call # NoCall
    /\ call.ino \in Dirs
    /\ stack' = Append(stack, [ino |-> call.ino, path |-> call.path,
                               key |-> key, todo |-> Kept(call.ino)])
    /\ call' = NoCall
    /\ UNCHANGED <<world, opts, argc, original_dev, output, heading>>

EnterDir_NotTheTop ==
    /\ Enter(call.ino)
    /\ call.ino \notin symhash
    /\ symhash' = IF stack = <<>> THEN symhash ELSE symhash \cup {call.ino}
    /\ UNCHANGED errors

EnterDir ==
    /\ Enter(call.ino)
    /\ call.ino \notin symhash
    /\ symhash' = check_symloop_enter(symhash, call.ino)
    /\ UNCHANGED errors

(* stat() fails: the directory is walked, but not remembered.              *)
EnterUnseen ==
    /\ Enter(NoKey)
    /\ Fails
    /\ symhash' = check_symloop_enter(symhash, NoKey)

(* A call that lists nothing: its key is added, and removed on the way out *)
(* at search_dir_cleanup.                                                  *)
Return_KeepsKey(key) ==
    /\ call # NoCall
    /\ key \notin symhash
    /\ symhash' = check_symloop_enter(symhash, key)
    /\ call' = NoCall
    /\ UNCHANGED <<world, opts, argc, original_dev, stack, enqueued, listed>>

Return(key) ==
    /\ call # NoCall
    /\ key \notin symhash
    /\ symhash' = check_symloop_leave(check_symloop_enter(symhash, key), key)
    /\ call' = NoCall
    /\ UNCHANGED <<world, opts, argc, original_dev, stack, enqueued, listed>>

(* ag_scandir() fails, for want of a permission, a descriptor or memory,   *)
(* and stat() may have failed before it.                                   *)
ScanFails ==
    /\ call.ino \in Dirs
    /\ Return(call.ino) \/ Return(NoKey)
    /\ Fails
    /\ UNCHANGED <<searched, appends, heading>>

(* ENOTDIR: a path of the command line is a file, and main() searches it.  *)
(* If it is the only path its name is not printed as a heading, and with   *)
(* --only-matching no line numbers are printed either.                     *)
Alone_AnyArgument == stack = <<>>

Alone == stack = <<>> /\ Len(world.paths) = 1

NotADirectory ==
    /\ call.ino \in Files
    /\ \/ Return(call.ino) /\ UNCHANGED errors
       \/ Return(NoKey) /\ Fails
    /\ print_path' = IF Alone /\ print_path \in {"default", "default_each_line"}
                     THEN "nothing" ELSE print_path
    /\ print_line_numbers' =
           IF Alone /\ opts.format.only_matching /\ print_path' = "nothing"
           THEN FALSE ELSE print_line_numbers
    /\ searched' = searched \cup {call.path}
    /\ appends' = appends + 1

NoSuchPath ==
    /\ call.ino = Missing
    /\ Return(NoKey)
    /\ UNCHANGED <<searched, appends, heading, errors>>

(***************************************************************************)
(* The loop of search_dir() over the entries of the innermost directory.   *)
(***************************************************************************)
TakeEntry(e) ==
    /\ call = NoCall /\ stack # <<>>
    /\ e \in Top.todo
    /\ stack' = [stack EXCEPT ![Len(stack)].todo = @ \ {e}]
    /\ UNCHANGED <<world, opts, argc, original_dev, symhash, heading>>

(* lstat() fails for the entry.                                            *)
EntryUnseen(e) ==
    /\ TakeEntry(e)
    /\ opts.one_dev
    /\ Fails
    /\ UNCHANGED <<call, output>>

SkipEntry_Again(e) ==
    /\ call = NoCall /\ stack # <<>>
    /\ e \in Top.todo
    /\ \/ CrossesDevice(e)
       \/ ~IsDir(e) /\ RegexSkips(e)
    /\ UNCHANGED vars

SkipEntry(e) ==
    /\ TakeEntry(e)
    /\ \/ CrossesDevice(e)
       \/ ~IsDir(e) /\ RegexSkips(e)
    /\ UNCHANGED <<call, output, errors>>

ListFile(e) ==
    /\ TakeEntry(e)
    /\ ~CrossesDevice(e) /\ ~IsDir(e) /\ ~RegexSkips(e)
    /\ opts.match_files
    /\ listed' = listed \cup {Path(e)}
    /\ appends' = appends + 1
    /\ UNCHANGED <<call, enqueued, searched, errors>>

EnqueueFile(e) ==
    /\ TakeEntry(e)
    /\ ~CrossesDevice(e) /\ ~IsDir(e) /\ ~RegexSkips(e)
    /\ ~opts.match_files
    /\ enqueued' = enqueued \cup {Path(e)}
    /\ appends' = appends + 1
    /\ UNCHANGED <<call, listed, searched, errors>>

MayDescend == Depth < opts.max_search_depth \/ opts.max_search_depth = -1

Recurse(e) ==
    /\ TakeEntry(e)
    /\ ~CrossesDevice(e) /\ IsDir(e)
    /\ opts.recurse_dirs /\ MayDescend
    /\ call' = [ino |-> e.ino, path |-> Path(e)]
    /\ UNCHANGED <<output, errors>>

SkipDir(e) ==
    /\ TakeEntry(e)
    /\ ~CrossesDevice(e) /\ IsDir(e)
    /\ ~opts.recurse_dirs \/ ~MayDescend
    /\ UNCHANGED <<call, output, errors>>

(* The end of search_dir(): check_symloop_leave().                         *)
Leave_KeepsKey ==
    /\ call = NoCall /\ stack # <<>>
    /\ Top.todo = {}
    /\ stack' = SubSeq(stack, 1, Len(stack) - 1)
    /\ UNCHANGED <<world, opts, argc, original_dev, call, symhash, output,
                   heading, errors>>

Leave ==
    /\ call = NoCall /\ stack # <<>>
    /\ Top.todo = {}
    /\ symhash' = check_symloop_leave(symhash, Top.key)
    /\ stack' = SubSeq(stack, 1, Len(stack) - 1)
    /\ UNCHANGED <<world, opts, argc, original_dev, call, output, heading, errors>>

Walk ==
    \/ StartPath
    \/ Loop \/ EnterDir \/ EnterUnseen \/ ScanFails \/ NotADirectory \/ NoSuchPath
    \/ \E e \in UNION {world.entries[d] : d \in Dirs} :
           \/ EntryUnseen(e) \/ SkipEntry(e) \/ ListFile(e) \/ EnqueueFile(e)
           \/ Recurse(e) \/ SkipDir(e)
    \/ Leave

Finished == Idle /\ argc = Len(world.paths)

Next == Walk \/ (Finished /\ UNCHANGED vars)

Spec == Init /\ [][Next]_vars

(* main() keeps running.                                                   *)
FairSpec == Spec /\ WF_vars(Walk)

-----------------------------------------------------------------------------
(***************************************************************************)
(* Correctness.                                                            *)
(***************************************************************************)

(* Every variable holds a value of its type.                               *)
TypeOK ==
    /\ world \in Worlds
    /\ opts \in Options
    /\ argc \in 0 .. Len(world.paths)
    /\ original_dev # NoDevice =>
           argc > 0 /\ opts.one_dev /\ original_dev = world.paths[argc].dev
    /\ call # NoCall => call.ino \in Dirs \cup Files \cup {Missing}
    /\ \A i \in 1 .. Len(stack) :
           /\ stack[i].ino \in Dirs
           /\ stack[i].key \in {stack[i].ino, NoKey}
           /\ stack[i].todo \subseteq Kept(stack[i].ino)
    /\ symhash \subseteq Dirs
    /\ appends \in Nat
    /\ print_path \in {"nothing", opts.format.print_path}
    /\ print_line_numbers \in {FALSE, opts.format.print_line_numbers}
    /\ errors \in 0 .. MaxErrors

(* symhash is exactly the directories the walk is inside of, each entered  *)
(* once: a key left behind would hide a directory from the rest of the     *)
(* walk, and one removed too early would let a loop go round.  Only a      *)
(* directory stat() failed for is missing from it.                         *)
SymhashIsStack ==
    /\ symhash = {stack[i].key : i \in 1 .. Len(stack)} \ {NoKey}
    /\ \A i, j \in 1 .. Len(stack) :
           stack[i].key = stack[j].key /\ stack[i].key # NoKey => i = j

(* The headings and the line numbers are switched off only while no worker *)
(* has anything to print: main() writes opts.print_path and                *)
(* opts.print_line_numbers without a lock, and that is sound because then  *)
(* there is one path and it is a file.                                     *)
HeadingOffAlone ==
    heading # <<opts.format.print_path, opts.format.print_line_numbers>> =>
        enqueued = {} /\ Cardinality(searched) <= 1

(***************************************************************************)
(* What the walk should find.  An itinerary is a way down through          *)
(* directories, none of them twice, that the options allow: the entries    *)
(* that lead from the path p of the command line to the last of them.      *)
(***************************************************************************)
Allowed(p, d) ==
    {e \in Kept(d) : ~opts.one_dev \/ EntryDev(d, e) = world.paths[p].dev}

(* Where the way is after i entries.                                       *)
At(p, way, i) == IF i = 0 THEN world.paths[p].ino ELSE way[i].ino

DepthAllowed(n) == opts.max_search_depth = -1 \/ n <= opts.max_search_depth

IsItinerary(p, way) ==
    /\ \A i \in 0 .. Len(way) : At(p, way, i) \in Dirs
    /\ \A i, j \in 0 .. Len(way) : At(p, way, i) = At(p, way, j) => i = j
    /\ \A i \in 1 .. Len(way) :
           /\ way[i] \in Allowed(p, At(p, way, i - 1))
           /\ opts.recurse_dirs /\ DepthAllowed(i)

DirEntries == {e \in UNION {world.entries[d] : d \in Dirs} : IsDir(e)}

Itineraries(p) ==
    {way \in UNION {[1 .. n -> DirEntries] : n \in 0 .. Cardinality(Dirs) - 1} :
        IsItinerary(p, way)}

(* The path of an entry e at the end of a way.                             *)
PathBelow(p, way, e) ==
    [k \in 1 .. Len(way) + 2 |->
        IF k = 1 THEN p ELSE IF k = Len(way) + 2 THEN e.name ELSE way[k - 1].name]

FilesOf(p, way) ==
    {e \in Allowed(p, At(p, way, Len(way))) : ~IsDir(e) /\ ~RegexSkips(e)}

FilesBelow(p) ==
    UNION {{PathBelow(p, way, e) : e \in FilesOf(p, way)} : way \in Itineraries(p)}

(* An entry whose inode is on the device of the path.  lstat() says so of  *)
(* a link to another device too; the help text of --one-device says that   *)
(* such links are not followed.                                            *)
OnDevice(p, e) ==
    opts.one_dev /\ e.ino # Missing => world.dev[e.ino] = world.paths[p].dev

(* The files below a path that both readings of --one-device lead to.      *)
SurelyBelow(p) ==
    UNION {{PathBelow(p, way, e) : e \in {f \in FilesOf(p, way) : OnDevice(p, f)}} :
              way \in {w \in Itineraries(p) : \A i \in 1 .. Len(w) : OnDevice(p, w[i])}}

PathNumbers == 1 .. Len(world.paths)

(* When the walk has ended without an error it has found the files of the  *)
(* itineraries and no others, each once, and given them to the workers, or *)
(* with -g to the printer.  Under --one-device what is reached over a link *)
(* to another device may be found or not: the code and its help text       *)
(* disagree there.                                                         *)
WalkComplete ==
    Finished /\ errors = 0 =>
        LET found == IF opts.match_files THEN listed ELSE enqueued
            args  == {p \in PathNumbers : world.paths[p].ino \in Files}
        IN  /\ UNION {SurelyBelow(p) : p \in PathNumbers} \subseteq found
            /\ found \subseteq UNION {FilesBelow(p) : p \in PathNumbers}
            /\ (IF opts.match_files THEN enqueued ELSE listed) = {}
            /\ searched = {<<p>> : p \in args}
            /\ appends = Cardinality(found) + Cardinality(args)

(* The walk ends, whatever the links: a loop is noticed, and a stat() that *)
(* fails can hide it only as often as it fails.                            *)
Termination == <>Finished

=============================================================================
