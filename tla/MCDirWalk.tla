----------------------------- MODULE MCDirWalk ------------------------------
(* Small file systems for DirWalk.                                         *)
EXTENDS DirWalk, TLC

CONSTANTS top, sub, deep, file, other, here, there

Directories == {top, sub, deep}
Plain       == {file, other}

Entry(name, ino, link) ==
    [name |-> name, ino |-> ino, link |-> link, ignored |-> FALSE,
     matches |-> name # "b"]
Real(name, ino) == Entry(name, ino, FALSE)
Link(name, ino) == Entry(name, ino, TRUE)
Drop(e)         == [e EXCEPT !.ignored = TRUE]

Listing(t, s, d) == top :> t @@ sub :> s @@ deep :> d
OneDevice        == [i \in Directories \cup Plain |-> here]
Arg(name, ino)   == [name |-> name, ino |-> ino, link |-> FALSE, dev |-> here]

(* Links to the directory itself, to its parent and past it.               *)
Loops ==
    [paths   |-> <<Arg("top", top)>>,
     entries |-> Listing({Real("a", file), Link("self", top), Real("sub", sub)},
                         {Real("b", other), Link("up", top), Real("deep", deep)},
                         {Real("a", file), Link("up", sub)}),
     dev     |-> OneDevice]

(* Two directories that link to each other, and a dangling link.           *)
Mutual ==
    [paths   |-> <<Arg("top", top)>>,
     entries |-> Listing({Link("s", sub), Link("d", deep), Drop(Real("b", file))},
                         {Link("d", deep), Link("gone", Missing)},
                         {Link("s", sub), Real("a", other)}),
     dev     |-> OneDevice]

(* A directory, one below it, a file and a path that does not exist.       *)
SeveralPaths ==
    [paths   |-> <<Arg("sub", sub), Arg("top", top), Arg("f", file),
                   Arg("gone", Missing)>>,
     entries |-> Listing({Real("sub", sub), Real("a", file)},
                         {Real("b", other), Link("up", top)}, {}),
     dev     |-> OneDevice]

SingleFile ==
    [paths   |-> <<Arg("f", file)>>,
     entries |-> Listing({}, {}, {}),
     dev     |-> OneDevice]

(* A mount point, a link to a directory and links to files elsewhere.      *)
Mounts ==
    [paths   |-> <<Arg("top", top)>>,
     entries |-> Listing({Real("mnt", sub), Link("away", deep), Link("a", other)},
                         {Real("a", other)},
                         {Real("a", other), Link("back", file)}),
     dev     |-> (top :> here @@ sub :> there @@ deep :> there @@ file :> here
                    @@ other :> there)]

Format(only_matching, print_path_, numbers) ==
    [only_matching |-> only_matching, print_path |-> print_path_,
     print_line_numbers |-> numbers]

(* As without options, --only-matching, and with --nofilename or --heading *)
(* besides.                                                                *)
SomeFormats ==
    {Format(FALSE, "default", TRUE), Format(TRUE, "default_each_line", TRUE),
     Format(TRUE, "nothing", TRUE), Format(TRUE, "top", TRUE)}
Unadorned   == {Format(FALSE, "default", TRUE)}

AllDepths    == {-1, 0, 1, 2}
SmallWorlds  == {Loops, Mutual, SeveralPaths, SingleFile, Mounts}
MountedWorld == {Mounts}

-----------------------------------------------------------------------------
(* What the documents say and the code does not do; no run expects it to   *)
(* hold, and README.md says what breaks it.                                *)

(* The help text says of --one-device, "Don't follow links to other        *)
(* devices": every directory the walk is in resides on the device of the   *)
(* path.                                                                   *)
StaysOnDevice ==
    opts.one_dev =>
        \A i \in 1 .. Len(stack) : world.dev[stack[i].ino] = world.paths[argc].dev
=============================================================================
