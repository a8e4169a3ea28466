--------------------------- MODULE DirWalkProofs ----------------------------
(***************************************************************************)
(* Proofs about the walk, for any file system, any options and any number  *)
(* of errors.                                                              *)
(*                                                                         *)
(* What is to be shown at the end (WalkComplete) speaks of itineraries;    *)
(* what the walk has at any time is a stack of frames.  The link between   *)
(* the two is which of the files below the current path are still ahead:   *)
(* those whose path goes through a call about to begin, or through an      *)
(* entry that some frame has not taken yet (Pending).  Without an error    *)
(* the others, and only they, have been found (Progress), and for this to  *)
(* be inductive the stack must be an itinerary itself (Frames, Calling).   *)
(***************************************************************************)
EXTENDS DirWalk, ProofLemmas, FiniteSetTheorems, SequenceTheorems, TLAPS

(* The entries of all the directories.                                     *)
Entries == UNION {world.entries[d] : d \in Dirs}

(* A call of search_dir() on the stack.                                    *)
Frame ==
    [ino : Dirs, path : Seq(Nat \cup {e.name : e \in Entries}),
     key : Dirs \cup {NoKey}, todo : SUBSET Entries]

(* The entry e leads from the directory d with so many frames on the stack *)
(* to the inode ino under the name given.                                  *)
LeadsTo(d, n, e, ino, name) ==
    /\ e \in Allowed(argc, d) /\ e.ino = ino /\ e.name = name
    /\ IsDir(e) /\ opts.recurse_dirs /\ DepthAllowed(n)

(* The stack is a way down from the current path.                          *)
Frames ==
    /\ stack \in Seq(Frame)
    /\ call # NoCall \/ stack # <<>> => argc \in 1 .. Len(world.paths)
    /\ stack # <<>> => stack[1].ino = world.paths[argc].ino /\ stack[1].path[1] = argc
    /\ \A i \in 1 .. Len(stack) :
           /\ Len(stack[i].path) = i
           /\ \A j \in 1 .. i : stack[i].path[j] = stack[j].path[j]
           /\ errors = 0 => stack[i].key = stack[i].ino
    /\ \A i \in 1 .. Len(stack) - 1 : \E e \in Entries \ stack[i].todo :
           LeadsTo(stack[i].ino, i, e, stack[i + 1].ino, stack[i + 1].path[i + 1])

(* And so is the call about to begin.                                      *)
Calling ==
    call # NoCall =>
        /\ stack = <<>> => call.ino = world.paths[argc].ino /\ call.path = <<argc>>
        /\ stack # <<>> => \E e \in Entries \ Top.todo :
               /\ LeadsTo(Top.ino, Len(stack), e, call.ino, e.name)
               /\ call.path = Append(Top.path, e.name)

(* A path is still ahead of the walk.                                      *)
Pending(q) ==
    \/ /\ call # NoCall
       /\ Len(call.path) < Len(q)
       /\ \A j \in 1 .. Len(call.path) : call.path[j] = q[j]
    \/ \E i \in 1 .. Len(stack) :
          /\ i < Len(q)
          /\ \A j \in 1 .. i : stack[i].path[j] = q[j]
          /\ \E e \in stack[i].todo : e.name = q[i + 1]

(* What should be found below the paths begun so far.                      *)
FilesSoFar == UNION {FilesBelow(p) : p \in 1 .. argc}

(* The paths that are files themselves, and have been handled.             *)
ArgsSoFar ==
    {p \in 1 .. argc : /\ world.paths[p].ino \in Files
                       /\ ~(p = argc /\ stack = <<>> /\ call # NoCall)}

(* What the options make of a file that is found.                          *)
Found == IF opts.match_files THEN listed ELSE enqueued

(* What is not ahead has been found, and nothing else.                     *)
Progress ==
    /\ IsFiniteSet(enqueued) /\ IsFiniteSet(listed)
    /\ (IF opts.match_files THEN enqueued ELSE listed) = {}
    /\ searched = {<<p>> : p \in ArgsSoFar}
    /\ errors = 0 =>
          /\ Found = {q \in FilesSoFar : ~Pending(q)}
          /\ appends = Cardinality(Found) + Cardinality(ArgsSoFar)

(* The command line names one path, a file.                                *)
OnlyAFile == Len(world.paths) = 1 /\ world.paths[1].ino \in Files

(* The headings are off only if the only path is a file, and then there is *)
(* nothing for the workers.                                                *)
HeadingOff ==
    /\ heading # <<opts.format.print_path, opts.format.print_line_numbers>> => OnlyAFile
    /\ OnlyAFile => enqueued = {}

(* Without an error the device --one-device compares with is that of the   *)
(* path.                                                                   *)
Device ==
    errors = 0 /\ argc > 0 /\ opts.one_dev => original_dev = world.paths[argc].dev

(* The shape of the walk, and the inductive invariant.                     *)
Shape == TypeOK /\ SymhashIsStack /\ Frames /\ Calling /\ Device

(* The parts hold together.                                                *)
IInv == Shape /\ Progress /\ HeadingOff

-----------------------------------------------------------------------------
(* The file system and the options do not change, and with them what may   *)
(* be entered, and what should be found.                                   *)
LEMMA WorldStays ==
    ASSUME [Next]_vars
    PROVE  /\ world' = world /\ opts' = opts
           /\ \A d : Kept(d)' = Kept(d)
           /\ \A p, d : Allowed(p, d)' = Allowed(p, d)
           /\ Entries' = Entries /\ Frame' = Frame
           /\ \A p : FilesBelow(p)' = FilesBelow(p)
<1>1. world' = world /\ opts' = opts
  BY DEF Next, vars, Walk, StartPath, Loop, EnterDir, Enter, EnterUnseen,
         ScanFails, Return, Fails, NotADirectory, NoSuchPath, EntryUnseen, SkipEntry, ListFile,
         EnqueueFile, Recurse, SkipDir, TakeEntry, Leave
<1>2. /\ \A d : Kept(d)' = Kept(d)
      /\ \A p, d : Allowed(p, d)' = Allowed(p, d)
      /\ Entries' = Entries /\ Frame' = Frame
  BY <1>1 DEF Kept, Allowed, EntryDev, Entries, Frame
<1>3. \A p, way : IsItinerary(p, way)' = IsItinerary(p, way)
  BY <1>1, <1>2 DEF IsItinerary, At, DepthAllowed
<1>4. \A p : Itineraries(p)' = Itineraries(p)
  BY <1>1, <1>3 DEF Itineraries, DirEntries
<1>5. \A p, way : FilesOf(p, way)' = FilesOf(p, way)
  BY <1>1, <1>2 DEF FilesOf, At, RegexSkips
<1>6. \A p : FilesBelow(p)' = FilesBelow(p)
  BY <1>4, <1>5 DEF FilesBelow, PathBelow
<1> QED
  BY <1>1, <1>2, <1>6

(* What is known of the world chosen.                                      *)
LEMMA WorldFacts ==
    ASSUME world \in Worlds
    PROVE  /\ Len(world.paths) \in Nat
           /\ \A p \in 1 .. Len(world.paths) :
                  world.paths[p].ino \in Dirs \cup Files \cup {Missing}
           /\ \A d \in Dirs : \A e \in world.entries[d] :
                  /\ e \in Entries
                  /\ e.ino \in Dirs \cup Files \cup {Missing}
                  /\ EntryDev(d, e) # NoDevice
                  /\ \A f \in world.entries[d] : f.name = e.name => f = e
           /\ \A d \in Dirs : Kept(d) \subseteq world.entries[d]
           /\ \A p, d : Allowed(p, d) \subseteq Kept(d)
<1>1. ASSUME NEW d \in Dirs, NEW e \in world.entries[d]
      PROVE  EntryDev(d, e) # NoDevice
  BY WorldsAssumption DEF EntryDev
<1> QED
  BY <1>1, WorldsAssumption DEF Kept, Allowed, Entries

(* What --one-device lets through is on the device of the path.            *)
LEMMA SameDevice ==
    ASSUME TypeOK, Top.ino \in Dirs, NEW e \in Kept(Top.ino), ~CrossesDevice(e)
    PROVE  e \in Allowed(argc, Top.ino)
<1>1. EntryDev(Top.ino, e) # NoDevice
  BY WorldFacts DEF TypeOK
<1> QED
  BY <1>1 DEF TypeOK, CrossesDevice, Allowed

(* The key of a call that lists nothing is gone when the call returns.     *)
LEMMA Returned ==
    ASSUME Shape, NEW key, Return(key)
    PROVE  /\ call # NoCall /\ call' = NoCall
           /\ UNCHANGED <<world, opts, argc, original_dev, stack, symhash, enqueued, listed>>
<1>1. key \notin symhash
  BY DEF Return
<1>2. check_symloop_leave(check_symloop_enter(symhash, key), key) = symhash
  BY <1>1 DEF check_symloop_leave, check_symloop_enter
<1> QED
  BY <1>2 DEF Return
-----------------------------------------------------------------------------
(* What the three operations on the stack do to its frames.                *)
LEMMA Pushed ==
    ASSUME Shape, NEW key \in Dirs \cup {NoKey}, Enter(key)
    PROVE  LET n == Len(stack) + 1
           IN  /\ stack' \in Seq(Frame) /\ Len(stack') = n
               /\ \A i \in 1 .. Len(stack) : stack'[i] = stack[i]
               /\ stack'[n].ino = call.ino /\ stack'[n].path = call.path
               /\ stack'[n].key = key /\ stack'[n].todo = Kept(call.ino)
               /\ Len(call.path) = n
               /\ \A j \in 1 .. Len(stack) : call.path[j] = stack[j].path[j]
<1> DEFINE f == [ino |-> call.ino, path |-> call.path, key |-> key, todo |-> Kept(call.ino)]
<1>1. call.ino \in Dirs /\ call # NoCall /\ stack' = Append(stack, f)
  BY DEF Enter
<1>2. Kept(call.ino) \in SUBSET Entries
  BY <1>1, WorldFacts DEF Shape, TypeOK
<1>3. argc \in Nat /\ stack \in Seq(Frame)
  BY <1>1, WorldFacts DEF Shape, Frames, TypeOK
<1>4. call.path \in Seq(Nat \cup {e.name : e \in Entries}) /\ Len(call.path) = Len(stack) + 1
  <2>1. CASE stack = <<>>
    <3>1. call.path = <<argc>>
      BY <2>1, <1>1 DEF Shape, Calling
    <3>2. Len(stack) = 0
      BY <2>1
    <3> QED
      BY <3>1, <3>2, <1>3
  <2>2. CASE stack # <<>>
    <3>1. PICK e \in Entries : call.path = Append(Top.path, e.name)
      BY <2>2, <1>1 DEF Shape, Calling
    <3>2. Len(stack) \in 1 .. Len(stack) /\ Top \in Frame
      BY <2>2, <1>3 DEF Top
    <3>3. Top.path \in Seq(Nat \cup {x.name : x \in Entries}) /\ Len(Top.path) = Len(stack)
      BY <3>2 DEF Shape, Frames, Top, Frame
    <3> QED
      BY <3>1, <3>3, AppendProperties
  <2> QED
    BY <2>1, <2>2
<1>5. \A j \in 1 .. Len(stack) : call.path[j] = stack[j].path[j]
  <2>1. CASE stack = <<>>
    BY <2>1
  <2>2. CASE stack # <<>>
    <3>1. PICK e \in Entries : call.path = Append(Top.path, e.name)
      BY <2>2, <1>1 DEF Shape, Calling
    <3>2. Len(stack) \in 1 .. Len(stack) /\ Top \in Frame
      BY <2>2, <1>3 DEF Top
    <3>3. /\ Top.path \in Seq(Nat \cup {x.name : x \in Entries}) /\ Len(Top.path) = Len(stack)
          /\ \A j \in 1 .. Len(stack) : Top.path[j] = stack[j].path[j]
      BY <3>2 DEF Shape, Frames, Top, Frame
    <3> QED
      BY <3>1, <3>3, AppendProperties
  <2> QED
    BY <2>1, <2>2
<1>6. f \in Frame
  BY <1>1, <1>2, <1>4 DEF Frame
<1> HIDE DEF f
<1>7. /\ stack' \in Seq(Frame) /\ Len(stack') = Len(stack) + 1
      /\ \A i \in 1 .. Len(stack) : stack'[i] = stack[i]
      /\ stack'[Len(stack) + 1] = f
  BY <1>1, <1>3, <1>6, AppendProperties
<1> QED
  BY <1>4, <1>5, <1>7 DEF f

(* Taking an entry leaves the other frames, and their places, alone.       *)
LEMMA Taken ==
    ASSUME Shape, NEW e, TakeEntry(e)
    PROVE  /\ stack \in Seq(Frame) /\ Len(stack) \in Nat \ {0}
           /\ stack' \in Seq(Frame) /\ Len(stack') = Len(stack)
           /\ \A i \in 1 .. Len(stack) :
                 /\ stack'[i].ino = stack[i].ino /\ stack'[i].path = stack[i].path
                 /\ stack'[i].key = stack[i].key
                 /\ stack'[i].todo = IF i = Len(stack) THEN stack[i].todo \ {e}
                                     ELSE stack[i].todo
           /\ e \in Kept(Top.ino) /\ e \in Entries /\ Top.ino \in Dirs
<1>1. /\ stack # <<>> /\ e \in Top.todo
      /\ stack' = [stack EXCEPT ![Len(stack)].todo = @ \ {e}]
  BY DEF TakeEntry
<1>2. /\ stack \in Seq(Frame) /\ Len(stack) \in 1 .. Len(stack)
      /\ Top \in Frame /\ Top = stack[Len(stack)]
  BY <1>1 DEF Shape, Frames, Top
<1> DEFINE g == [Top EXCEPT !.todo = @ \ {e}]
<1>3. g \in Frame /\ g.ino = Top.ino /\ g.path = Top.path /\ g.key = Top.key
      /\ g.todo = Top.todo \ {e}
  BY <1>2 DEF Frame
<1>4. stack' = [stack EXCEPT ![Len(stack)] = g]
  BY <1>1, <1>2
<1> HIDE DEF g
<1>5. /\ stack' \in Seq(Frame) /\ Len(stack') = Len(stack)
      /\ \A i \in 1 .. Len(stack) : stack'[i] = IF i = Len(stack) THEN g ELSE stack[i]
  BY <1>2, <1>3, <1>4, ExceptSeq
<1>6. e \in Kept(Top.ino) /\ e \in Entries /\ Top.ino \in Dirs
  BY <1>1, <1>2, WorldFacts DEF Shape, TypeOK, Frame
<1>7. Len(stack) \in Nat \ {0}
  BY <1>2, LenProperties
<1>8. ASSUME NEW i \in 1 .. Len(stack)
      PROVE  /\ stack'[i].ino = stack[i].ino /\ stack'[i].path = stack[i].path
             /\ stack'[i].key = stack[i].key
             /\ stack'[i].todo = IF i = Len(stack) THEN stack[i].todo \ {e}
                                 ELSE stack[i].todo
  BY <1>2, <1>3, <1>5
<1> QED
  BY <1>2, <1>5, <1>6, <1>7, <1>8

(* Leaving a directory leaves the frames below it.                         *)
LEMMA Popped ==
    ASSUME Shape, Leave
    PROVE  /\ stack \in Seq(Frame) /\ Len(stack) \in Nat \ {0}
           /\ stack' \in Seq(Frame) /\ Len(stack') = Len(stack) - 1
           /\ \A i \in 1 .. Len(stack) - 1 : stack'[i] = stack[i]
<1>1. stack # <<>> /\ stack' = SubSeq(stack, 1, Len(stack) - 1) /\ stack \in Seq(Frame)
  BY DEF Leave, Shape, Frames
<1>2. Len(stack) \in Nat \ {0}
  BY <1>1
<1>3. \A i \in 1 .. Len(stack) - 1 : stack[i] \in Frame
  BY <1>1, <1>2
<1>4. /\ SubSeq(stack, 1, Len(stack) - 1) \in Seq(Frame)
      /\ Len(SubSeq(stack, 1, Len(stack) - 1)) =
            IF 1 <= Len(stack) - 1 THEN Len(stack) - 1 - 1 + 1 ELSE 0
      /\ \A i \in 1 .. Len(stack) - 1 - 1 + 1 :
            SubSeq(stack, 1, Len(stack) - 1)[i] = stack[1 + i - 1]
  BY <1>2, <1>3, SubSeqProperties
<1>5. stack' \in Seq(Frame)
  BY <1>1, <1>4, Zenon
<1>6. Len(stack') = IF 1 <= Len(stack) - 1 THEN Len(stack) - 1 - 1 + 1 ELSE 0
  BY <1>1, <1>4, Zenon
<1>7. ASSUME NEW i \in 1 .. Len(stack) - 1 PROVE stack'[i] = stack[i]
  <2>1. i \in 1 .. Len(stack) - 1 - 1 + 1 /\ 1 + i - 1 = i
    BY <1>2
  <2> QED
    BY <1>1, <1>4, <2>1, Zenon
<1>8. Len(stack') = Len(stack) - 1
  BY <1>2, <1>6
<1> QED
  BY <1>1, <1>2, <1>5, <1>7, <1>8, Zenon

-----------------------------------------------------------------------------
(* The calls that end at once leave the stack alone.                       *)
Refused == Loop \/ ScanFails \/ NotADirectory \/ NoSuchPath

(* The steps that are done with an entry without a call.                   *)
Handled(e) == EntryUnseen(e) \/ SkipEntry(e) \/ ListFile(e) \/ EnqueueFile(e) \/ SkipDir(e)

(* The steps of Next, those that handle an entry in a way of their own put *)
(* together.                                                               *)
LEMMA Cases ==
    ASSUME [Next]_vars
    PROVE  \/ StartPath \/ Refused \/ EnterDir \/ EnterUnseen \/ Leave
           \/ \E e : Handled(e) \/ Recurse(e)
           \/ UNCHANGED vars
BY DEF Next, Walk, Refused, Handled

(* A call that is refused comes back with nothing changed but, for a file, *)
(* what is searched.                                                       *)
LEMMA RefusedFacts ==
    ASSUME Shape, Refused
    PROVE  /\ call # NoCall /\ call' = NoCall
           /\ UNCHANGED <<world, opts, argc, original_dev, stack, symhash, enqueued, listed>>
           /\ NotADirectory \/ UNCHANGED <<searched, appends, heading>>
<1>1. CASE Loop
  BY <1>1 DEF Loop, output
<1>2. CASE ScanFails
  BY <1>2, Returned DEF ScanFails
<1>3. CASE NotADirectory
  BY <1>3, Returned DEF NotADirectory
<1>4. CASE NoSuchPath
  BY <1>4, Returned DEF NoSuchPath
<1> QED
  BY <1>1, <1>2, <1>3, <1>4 DEF Refused

(* An error is counted and never forgotten.                                *)
LEMMA ErrorsStep ==
    ASSUME Shape, [Next]_vars
    PROVE  errors' \in 0 .. MaxErrors /\ (errors' = 0 => errors = 0)
<1>1. errors \in 0 .. MaxErrors /\ MaxErrors \in Nat
  BY WorldsAssumption DEF Shape, TypeOK
<1>2. Fails \/ UNCHANGED errors
  <2>1. CASE StartPath \/ EnterDir \/ EnterUnseen \/ Leave \/ UNCHANGED vars
    BY <2>1, Zenon DEF StartPath, EnterDir, EnterUnseen, Leave, vars
  <2>2. CASE Refused
    BY <2>2, Zenon DEF Refused, Loop, ScanFails, NotADirectory, NoSuchPath
  <2>3. ASSUME NEW e, Handled(e) \/ Recurse(e) PROVE Fails \/ UNCHANGED errors
    BY <2>3, Zenon DEF Handled, EntryUnseen, SkipEntry, ListFile, EnqueueFile, SkipDir, Recurse
  <2> QED
    BY <2>1, <2>2, <2>3, Cases, Zenon
<1> QED
  BY <1>1, <1>2 DEF Fails

(* Only main() on the one path of the command line changes how the output  *)
(* looks.                                                                  *)
LEMMA HeadingStep ==
    ASSUME Shape, [Next]_vars
    PROVE  /\ print_path' = "nothing" \/ print_path' = print_path
           /\ print_line_numbers' = FALSE \/ print_line_numbers' = print_line_numbers
           /\ (NotADirectory /\ Alone) \/ UNCHANGED heading
<1>1. CASE NotADirectory
  <2>1. /\ print_path' = "nothing" \/ print_path' = print_path
        /\ ~Alone => print_path' = print_path
    BY <1>1, Zenon DEF NotADirectory
  <2>2. /\ print_line_numbers' = FALSE \/ print_line_numbers' = print_line_numbers
        /\ ~Alone => print_line_numbers' = print_line_numbers
    BY <1>1, Zenon DEF NotADirectory
  <2> QED
    BY <1>1, <2>1, <2>2, Zenon DEF heading
<1>2. CASE Refused /\ ~NotADirectory
  BY <1>2, RefusedFacts, Zenon DEF heading
<1>3. ASSUME NEW e, Handled(e) \/ Recurse(e) PROVE UNCHANGED heading
  BY <1>3, Zenon DEF Handled, EntryUnseen, SkipEntry, ListFile, EnqueueFile, SkipDir, Recurse,
                     TakeEntry
<1>4. ASSUME StartPath \/ EnterDir \/ EnterUnseen \/ Leave \/ UNCHANGED vars
      PROVE  UNCHANGED heading
  <2>1. CASE StartPath \/ Leave
    BY <2>1, Zenon DEF StartPath, Leave
  <2>2. CASE EnterDir \/ EnterUnseen
    BY <2>2, Zenon DEF EnterDir, EnterUnseen, Enter
  <2>3. CASE UNCHANGED vars
    BY <2>3 DEF vars
  <2> QED
    BY <1>4, <2>1, <2>2, <2>3, Zenon
<1>5. UNCHANGED heading => print_path' = print_path /\ print_line_numbers' = print_line_numbers
  BY Zenon DEF heading
<1> QED
  BY <1>1, <1>2, <1>3, <1>4, <1>5, Cases, Zenon

(* A step keeps every variable in its type.                                *)
LEMMA TypeStep ==
    ASSUME Shape, [Next]_vars
    PROVE  TypeOK'
<1> USE DEF Shape
<1>1. world' = world /\ opts' = opts /\ \A d : Kept(d)' = Kept(d)
  BY WorldStays
<1>2. /\ world \in Worlds /\ opts \in Options /\ argc \in 0 .. Len(world.paths)
      /\ call # NoCall => call.ino \in Dirs \cup Files \cup {Missing}
      /\ \A i \in 1 .. Len(stack) :
            /\ stack[i].ino \in Dirs
            /\ stack[i].key \in {stack[i].ino, NoKey}
            /\ stack[i].todo \subseteq Kept(stack[i].ino)
      /\ symhash \subseteq Dirs
      /\ appends \in Nat
      /\ errors \in 0 .. MaxErrors /\ MaxErrors \in Nat
  BY WorldsAssumption DEF TypeOK
<1>3. argc' \in 0 .. Len(world.paths) /\ appends' \in Nat
  <2>1. CASE StartPath
    BY <2>1, <1>2, WorldFacts DEF StartPath, output
  <2>2. CASE NotADirectory
    BY <2>2, <1>2, RefusedFacts DEF Refused, NotADirectory
  <2>3. CASE Refused /\ ~NotADirectory
    BY <2>3, <1>2, RefusedFacts
  <2>4. ASSUME NEW e, Handled(e) \/ Recurse(e)
        PROVE  argc' \in 0 .. Len(world.paths) /\ appends' \in Nat
    <3>1. argc' = argc /\ appends' \in {appends, appends + 1}
      BY <2>4 DEF Handled, EntryUnseen, SkipEntry, ListFile, EnqueueFile, SkipDir, Recurse,
                  TakeEntry, output
    <3> QED
      BY <3>1, <1>2
  <2>5. CASE EnterDir \/ EnterUnseen \/ Leave \/ UNCHANGED vars
    BY <2>5, <1>2 DEF EnterDir, EnterUnseen, Enter, Leave, vars, output
  <2> QED
    BY <2>1, <2>2, <2>3, <2>4, <2>5, Cases
<1>4. call' # NoCall => call'.ino \in Dirs \cup Files \cup {Missing}
  <2>1. CASE StartPath
    BY <2>1, <1>2, WorldFacts DEF StartPath
  <2>2. ASSUME NEW e, Recurse(e) PROVE call'.ino \in Dirs
    BY <2>2 DEF Recurse, IsDir
  <2>3. CASE call' = NoCall \/ call' = call
    BY <2>3, <1>2
  <2> QED
    BY <2>1, <2>2, <2>3, Cases, RefusedFacts
       DEF EnterDir, EnterUnseen, Enter, Leave, vars, Handled, EntryUnseen, SkipEntry,
           ListFile, EnqueueFile, SkipDir
<1>5. ASSUME NEW i \in 1 .. Len(stack')
      PROVE  /\ stack'[i].ino \in Dirs
             /\ stack'[i].key \in {stack'[i].ino, NoKey}
             /\ stack'[i].todo \subseteq Kept(stack'[i].ino)
  <2>1. CASE UNCHANGED stack
    BY <2>1, <1>2
  <2>2. ASSUME NEW key \in {call.ino, NoKey}, Enter(key)
        PROVE  <1>5!2
    <3>1. call.ino \in Dirs
      BY <2>2 DEF Enter
    <3> QED
      BY <2>2, <3>1, <1>2, Pushed
  <2>3. ASSUME NEW e, TakeEntry(e)
        PROVE  <1>5!2
    BY <2>3, <1>2, Taken
  <2>4. CASE Leave
    BY <2>4, <1>2, Popped
  <2> QED
    BY <2>1, <2>2, <2>3, <2>4, Cases
       DEF Refused, Handled, StartPath, Loop, ScanFails, Return, Fails, NotADirectory, NoSuchPath,
           EnterDir, EnterUnseen, EntryUnseen, SkipEntry, ListFile, EnqueueFile, SkipDir, Recurse,
           vars
<1>6. symhash' \subseteq Dirs
  <2>1. CASE EnterDir \/ EnterUnseen \/ Leave
    BY <2>1, <1>2 DEF EnterDir, EnterUnseen, Enter, Leave, check_symloop_enter,
                      check_symloop_leave
  <2>2. CASE Refused \/ StartPath \/ UNCHANGED vars
    BY <2>2, <1>2, RefusedFacts DEF StartPath, vars
  <2>3. ASSUME NEW e, TakeEntry(e)
        PROVE  symhash' \subseteq Dirs
    BY <2>3, <1>2 DEF TakeEntry
  <2> QED
    BY <2>1, <2>2, <2>3, Cases
       DEF Handled, EntryUnseen, SkipEntry, ListFile, EnqueueFile, SkipDir, Recurse
<1>7. original_dev' # NoDevice =>
          argc' > 0 /\ opts.one_dev /\ original_dev' = world.paths[argc'].dev
  <2>1. CASE StartPath
    BY <2>1, <1>2, WorldFacts DEF StartPath
  <2>2. CASE UNCHANGED <<original_dev, argc>>
    BY <2>2 DEF TypeOK
  <2> QED
    BY <2>1, <2>2
       DEF Next, vars, Walk, Loop, EnterDir, Enter, EnterUnseen, ScanFails, Return,
           NotADirectory, NoSuchPath, EntryUnseen, SkipEntry, ListFile, EnqueueFile,
           Recurse, SkipDir, TakeEntry, Leave
<1>8. /\ print_path' \in {"nothing", opts.format.print_path}
      /\ print_line_numbers' \in {FALSE, opts.format.print_line_numbers}
  <2>1. print_path \in {"nothing", opts.format.print_path}
    BY DEF TypeOK
  <2>2. print_line_numbers = FALSE \/ print_line_numbers = opts.format.print_line_numbers
    BY Zenon DEF TypeOK
  <2>3. print_path' = "nothing" \/ print_path' = print_path
    BY HeadingStep, Zenon
  <2>4. print_line_numbers' = FALSE \/ print_line_numbers' = print_line_numbers
    BY HeadingStep, Zenon
  <2>5. print_path' \in {"nothing", opts.format.print_path}
    BY <2>1, <2>3, Zenon
  <2>6. print_line_numbers' \in {FALSE, opts.format.print_line_numbers}
    BY <2>2, <2>4, Zenon
  <2> QED
    BY <2>5, <2>6
<1>9. errors' \in 0 .. MaxErrors
  BY ErrorsStep
<1> QED
  BY <1>1, <1>2, <1>3, <1>4, <1>5, <1>6, <1>7, <1>8, <1>9, Zenon DEF TypeOK

(* A key is added when its frame is pushed, and removed when it is popped. *)
LEMMA SymhashStep ==
    ASSUME Shape, [Next]_vars
    PROVE  SymhashIsStack'
<1>1. /\ symhash = {stack[i].key : i \in 1 .. Len(stack)} \ {NoKey}
      /\ \A i, j \in 1 .. Len(stack) :
             stack[i].key = stack[j].key /\ stack[i].key # NoKey => i = j
  BY DEF Shape, SymhashIsStack
<1>2. Len(stack) \in Nat
  BY DEF Shape, Frames
<1>3. CASE UNCHANGED <<stack, symhash>>
  BY <1>1, <1>3 DEF SymhashIsStack
<1>4. CASE StartPath
  BY <1>4 DEF StartPath, Idle, SymhashIsStack
<1>5. ASSUME NEW key \in {call.ino, NoKey}, Enter(key), key \notin symhash,
             symhash' = symhash \cup ({key} \ {NoKey})
      PROVE  SymhashIsStack'
  <2>1. call.ino \in Dirs
    BY <1>5 DEF Enter
  <2>2. /\ Len(stack') = Len(stack) + 1
        /\ \A i \in 1 .. Len(stack) : stack'[i] = stack[i]
        /\ stack'[Len(stack) + 1].key = key
    BY <1>5, <2>1, Pushed
  <2> QED
    BY <1>1, <1>2, <1>5, <2>2 DEF SymhashIsStack
<1>6. ASSUME NEW e, TakeEntry(e)
      PROVE  SymhashIsStack'
  <2>1. /\ Len(stack') = Len(stack) /\ UNCHANGED symhash
        /\ \A i \in 1 .. Len(stack) : stack'[i].key = stack[i].key
    BY <1>6, Taken DEF TakeEntry
  <2> QED
    BY <1>1, <2>1 DEF SymhashIsStack
<1>7. CASE Leave
  <2>1. /\ Len(stack) \in Nat \ {0} /\ Len(stack') = Len(stack) - 1
        /\ \A i \in 1 .. Len(stack) - 1 : stack'[i] = stack[i]
        /\ symhash' = symhash \ ({stack[Len(stack)].key} \ {NoKey})
    BY <1>7, Popped DEF Leave, Top, check_symloop_leave
  <2>2. symhash' = {stack'[i].key : i \in 1 .. Len(stack')} \ {NoKey}
    BY <1>1, <2>1
  <2>3. \A i, j \in 1 .. Len(stack') :
            stack'[i].key = stack'[j].key /\ stack'[i].key # NoKey => i = j
    BY <1>1, <2>1
  <2> QED
    BY <2>2, <2>3 DEF SymhashIsStack
<1>8. CASE EnterDir
  BY <1>5, <1>8, WorldsAssumption DEF EnterDir, Enter, check_symloop_enter
<1>9. CASE EnterUnseen
  BY <1>1, <1>5, <1>9 DEF EnterUnseen, check_symloop_enter
<1>10. CASE Refused
  BY <1>3, <1>10, RefusedFacts
<1> QED
  BY <1>3, <1>4, <1>6, <1>7, <1>8, <1>9, <1>10, Cases
     DEF Handled, EntryUnseen, SkipEntry, ListFile, EnqueueFile, SkipDir, Recurse, vars

(* The stack stays a way down.                                             *)
LEMMA FramesStep ==
    ASSUME Shape, [Next]_vars
    PROVE  Frames'
<1>0. /\ Frames /\ stack \in Seq(Frame)
  BY DEF Shape, Frames
<1>1. /\ world' = world /\ opts' = opts /\ Frame' = Frame /\ Entries' = Entries
      /\ \A p, d : Allowed(p, d)' = Allowed(p, d)
  BY WorldStays
<1>2. /\ stack \in Seq(Frame) /\ Len(stack) \in Nat
      /\ call # NoCall \/ stack # <<>> => argc \in 1 .. Len(world.paths)
      /\ stack # <<>> => stack[1].ino = world.paths[argc].ino /\ stack[1].path[1] = argc
      /\ \A i \in 1 .. Len(stack) :
             /\ Len(stack[i].path) = i
             /\ \A j \in 1 .. i : stack[i].path[j] = stack[j].path[j]
             /\ errors = 0 => stack[i].key = stack[i].ino
      /\ \A i \in 1 .. Len(stack) - 1 : \E e \in Entries \ stack[i].todo :
             LeadsTo(stack[i].ino, i, e, stack[i + 1].ino, stack[i + 1].path[i + 1])
  <2>1. Len(stack) \in Nat
    BY <1>0
  <2> QED
    BY <1>0, <2>1, Zenon DEF Frames
<1>3. UNCHANGED argc => \A d, n, e, ino, name :
                            LeadsTo(d, n, e, ino, name)' = LeadsTo(d, n, e, ino, name)
  BY <1>1 DEF LeadsTo, IsDir, DepthAllowed
<1>4. errors' = 0 => errors = 0
  BY ErrorsStep
<1>5. ASSUME UNCHANGED <<stack, argc>>, call' # NoCall => call # NoCall \/ stack # <<>>
      PROVE  Frames'
  <2>1. \A i \in 1 .. Len(stack) - 1 : \E e \in Entries \ stack[i].todo :
             LeadsTo(stack[i].ino, i, e, stack[i + 1].ino, stack[i + 1].path[i + 1])'
    BY <1>1, <1>2, <1>5 DEF LeadsTo, IsDir, DepthAllowed
  <2>2. \A i \in 1 .. Len(stack) :
             /\ Len(stack[i].path) = i
             /\ \A j \in 1 .. i : stack[i].path[j] = stack[j].path[j]
             /\ errors' = 0 => stack[i].key = stack[i].ino
    BY <1>2, <1>4
  <2> QED
    BY <1>1, <1>2, <1>5, <2>1, <2>2 DEF Frames
<1>6. CASE StartPath
  <2>1. stack' = <<>> /\ argc' \in 1 .. Len(world.paths)
    BY <1>6, WorldFacts DEF StartPath, Idle, TypeOK, Shape
  <2>2. stack' \in Seq(Frame) /\ Len(stack') = 0
    BY <2>1
  <2> QED
    BY <1>1, <2>1, <2>2 DEF Frames
<1>7. ASSUME NEW key \in Dirs \cup {NoKey}, Enter(key), errors' = 0 => key = call.ino
      PROVE  Frames'
  <2> DEFINE n == Len(stack) + 1
  <2>1. /\ stack' \in Seq(Frame) /\ Len(stack') = n
        /\ \A i \in 1 .. Len(stack) : stack'[i] = stack[i]
        /\ stack'[n].ino = call.ino /\ stack'[n].path = call.path
        /\ stack'[n].key = key
        /\ Len(call.path) = n
        /\ \A j \in 1 .. Len(stack) : call.path[j] = stack[j].path[j]
    BY <1>7, Pushed
  <2>2. call # NoCall /\ argc' = argc
    BY <1>7 DEF Enter
  <2>3. \A i \in 1 .. Len(stack') :
             /\ Len(stack'[i].path) = i
             /\ \A j \in 1 .. i : stack'[i].path[j] = stack'[j].path[j]
             /\ errors' = 0 => stack'[i].key = stack'[i].ino
    <3>1. ASSUME NEW i \in 1 .. Len(stack), NEW j \in 1 .. i
          PROVE  /\ Len(stack'[i].path) = i
                 /\ stack'[i].path[j] = stack'[j].path[j]
                 /\ errors' = 0 => stack'[i].key = stack'[i].ino
      <4>1. stack'[i] = stack[i] /\ stack'[j] = stack[j] /\ j \in 1 .. Len(stack)
        BY <1>2, <2>1
      <4> QED
        BY <1>2, <1>4, <4>1
    <3>2. ASSUME NEW j \in 1 .. n
          PROVE  stack'[n].path[j] = stack'[j].path[j]
      BY <1>2, <2>1
    <3>3. ASSUME NEW i \in 1 .. n
          PROVE  /\ Len(stack'[i].path) = i
                 /\ \A j \in 1 .. i : stack'[i].path[j] = stack'[j].path[j]
                 /\ errors' = 0 => stack'[i].key = stack'[i].ino
      <4>1. CASE i = n
        BY <1>7, <2>1, <3>2, <4>1
      <4>2. CASE i # n
        <5>1. i \in 1 .. Len(stack) /\ 1 \in 1 .. i
          BY <1>2, <4>2
        <5> QED
          BY <3>1, <5>1
      <4> QED
        BY <4>1, <4>2
    <3> QED
      BY <2>1, <3>3
  <2>4. stack' # <<>> /\ stack'[1].ino = world.paths[argc].ino /\ stack'[1].path[1] = argc
    <3>1. CASE stack = <<>>
      BY <1>2, <2>1, <2>2, <3>1 DEF Calling, Shape
    <3>2. CASE stack # <<>>
      BY <1>2, <2>1, <3>2
    <3> QED
      BY <3>1, <3>2
  <2>5. ASSUME NEW i \in 1 .. Len(stack') - 1
        PROVE  \E e \in Entries \ stack'[i].todo :
                  LeadsTo(stack'[i].ino, i, e, stack'[i + 1].ino, stack'[i + 1].path[i + 1])
    <3>1. CASE i < Len(stack)
      <4>1. /\ i \in 1 .. Len(stack) - 1
            /\ stack'[i] = stack[i] /\ stack'[i + 1] = stack[i + 1]
        BY <1>2, <2>1, <3>1
      <4> QED
        BY <1>2, <4>1
    <3>2. CASE i = Len(stack)
      <4>1. PICK e \in Entries \ Top.todo :
               /\ LeadsTo(Top.ino, Len(stack), e, call.ino, e.name)
               /\ call.path = Append(Top.path, e.name)
        BY <1>2, <2>2, <3>2 DEF Calling, Shape
      <4>2. Top = stack[i] /\ stack'[i] = stack[i] /\ stack[i] \in Frame
        BY <1>2, <2>1, <3>2 DEF Top
      <4>3. call.path[i + 1] = e.name
        <5>1. Top.path \in Seq(Nat \cup {x.name : x \in Entries}) /\ Len(Top.path) = i
          BY <1>2, <3>2, <4>2 DEF Frame
        <5> QED
          BY <4>1, <5>1, AppendProperties
      <4> QED
        BY <2>1, <3>2, <4>1, <4>2, <4>3
    <3> QED
      BY <1>2, <2>1, <3>1, <3>2
  <2>6. \A i \in 1 .. Len(stack') - 1 : \E e \in Entries \ stack'[i].todo :
             LeadsTo(stack[i].ino, i, e, stack[i + 1].ino, stack[i + 1].path[i + 1])'
    BY <1>3, <2>2, <2>5 DEF LeadsTo
  <2> QED
    BY <1>1, <1>2, <2>1, <2>2, <2>3, <2>4, <2>6 DEF Frames
<1>8. ASSUME NEW e, TakeEntry(e)
      PROVE  Frames'
  <2>1. /\ stack' \in Seq(Frame) /\ Len(stack') = Len(stack)
        /\ Len(stack) \in Nat \ {0} /\ stack # <<>>
        /\ \A i \in 1 .. Len(stack) :
              /\ stack'[i].ino = stack[i].ino /\ stack'[i].path = stack[i].path
              /\ stack'[i].key = stack[i].key
              /\ stack'[i].todo \subseteq stack[i].todo
        /\ argc' = argc
    <3>1. /\ stack' \in Seq(Frame) /\ Len(stack') = Len(stack)
          /\ Len(stack) \in Nat \ {0}
          /\ \A i \in 1 .. Len(stack) :
                /\ stack'[i].ino = stack[i].ino /\ stack'[i].path = stack[i].path
                /\ stack'[i].key = stack[i].key
                /\ stack'[i].todo = IF i = Len(stack) THEN stack[i].todo \ {e}
                                    ELSE stack[i].todo
      BY <1>8, Taken
    <3>2. stack # <<>> /\ argc' = argc
      BY <1>8 DEF TakeEntry
    <3> QED
      BY <3>1, <3>2
  <2>2. \A i \in 1 .. Len(stack') - 1 : \E f \in Entries \ stack'[i].todo :
             LeadsTo(stack[i].ino, i, f, stack[i + 1].ino, stack[i + 1].path[i + 1])'
    <3>1. ASSUME NEW i \in 1 .. Len(stack) - 1
          PROVE  \E f \in Entries \ stack'[i].todo :
                    LeadsTo(stack'[i].ino, i, f, stack'[i + 1].ino, stack'[i + 1].path[i + 1])
      <4>1. /\ i \in 1 .. Len(stack) /\ i + 1 \in 1 .. Len(stack)
            /\ stack'[i].ino = stack[i].ino /\ stack'[i + 1].ino = stack[i + 1].ino
            /\ stack'[i + 1].path = stack[i + 1].path
            /\ stack'[i].todo \subseteq stack[i].todo
        BY <2>1
      <4> QED
        BY <1>2, <4>1
    <3> QED
      BY <1>1, <2>1, <3>1 DEF LeadsTo, IsDir, DepthAllowed
  <2>3. \A i \in 1 .. Len(stack') :
             /\ Len(stack'[i].path) = i
             /\ \A j \in 1 .. i : stack'[i].path[j] = stack'[j].path[j]
             /\ errors' = 0 => stack'[i].key = stack'[i].ino
    <3>1. ASSUME NEW i \in 1 .. Len(stack), NEW j \in 1 .. i
          PROVE  /\ Len(stack'[i].path) = i
                 /\ stack'[i].path[j] = stack'[j].path[j]
                 /\ errors' = 0 => stack'[i].key = stack'[i].ino
      <4>1. /\ stack'[i].ino = stack[i].ino /\ stack'[i].path = stack[i].path
            /\ stack'[i].key = stack[i].key
            /\ j \in 1 .. Len(stack) /\ stack'[j].path = stack[j].path
        BY <2>1
      <4> QED
        BY <1>2, <1>4, <4>1
    <3> QED
      BY <2>1, <3>1
  <2>4. stack' # <<>> /\ stack'[1].ino = world.paths[argc].ino /\ stack'[1].path[1] = argc
    BY <1>2, <2>1
  <2> QED
    BY <1>1, <1>2, <2>1, <2>2, <2>3, <2>4 DEF Frames
<1>9. CASE Leave
  <2>1. /\ stack' \in Seq(Frame) /\ Len(stack') = Len(stack) - 1
        /\ Len(stack) \in Nat \ {0} /\ stack # <<>>
        /\ \A i \in 1 .. Len(stack) - 1 : stack'[i] = stack[i]
        /\ argc' = argc
    BY <1>9, Popped DEF Leave
  <2>2. \A i \in 1 .. Len(stack') - 1 : \E f \in Entries \ stack'[i].todo :
             LeadsTo(stack[i].ino, i, f, stack[i + 1].ino, stack[i + 1].path[i + 1])'
    <3>1. ASSUME NEW i \in 1 .. Len(stack) - 2
          PROVE  \E f \in Entries \ stack'[i].todo :
                    LeadsTo(stack'[i].ino, i, f, stack'[i + 1].ino, stack'[i + 1].path[i + 1])
      <4>1. i \in 1 .. Len(stack) - 1 /\ stack'[i] = stack[i] /\ stack'[i + 1] = stack[i + 1]
        BY <2>1
      <4> QED
        BY <1>2, <4>1
    <3> QED
      BY <1>1, <2>1, <3>1, SMTT(30) DEF LeadsTo, IsDir, DepthAllowed
  <2>3. \A i \in 1 .. Len(stack') :
             /\ Len(stack'[i].path) = i
             /\ \A j \in 1 .. i : stack'[i].path[j] = stack'[j].path[j]
             /\ errors' = 0 => stack'[i].key = stack'[i].ino
    <3>1. ASSUME NEW i \in 1 .. Len(stack) - 1, NEW j \in 1 .. i
          PROVE  /\ Len(stack'[i].path) = i
                 /\ stack'[i].path[j] = stack'[j].path[j]
                 /\ errors' = 0 => stack'[i].key = stack'[i].ino
      <4>1. /\ stack'[i] = stack[i] /\ i \in 1 .. Len(stack)
            /\ stack'[j] = stack[j]
        BY <2>1
      <4> QED
        BY <1>2, <1>4, <4>1
    <3> QED
      BY <2>1, <3>1
  <2>4. stack' # <<>> => stack'[1].ino = world.paths[argc].ino /\ stack'[1].path[1] = argc
    BY <1>2, <2>1
  <2> QED
    BY <1>1, <1>2, <2>1, <2>2, <2>3, <2>4, <1>9 DEF Frames, Leave
<1>10. CASE Refused \/ UNCHANGED vars
  BY <1>5, <1>10, RefusedFacts DEF vars
<1>11. CASE EnterDir \/ EnterUnseen
  <2>1. ~Fails \/ errors' # 0
    BY DEF Fails, Shape, TypeOK
  <2> QED
    BY <1>7, <1>11, <2>1 DEF EnterDir, EnterUnseen, Enter
<1> QED
  BY <1>6, <1>8, <1>9, <1>10, <1>11, Cases
     DEF Handled, EntryUnseen, SkipEntry, ListFile, EnqueueFile, SkipDir, Recurse

(* A call is for an entry that was taken.                                  *)
LEMMA CallingStep ==
    ASSUME Shape, [Next]_vars
    PROVE  Calling'
<1> USE DEF Shape
<1>1. /\ world' = world /\ opts' = opts /\ Entries' = Entries
      /\ \A p, d : Allowed(p, d)' = Allowed(p, d)
  BY WorldStays
<1>2. CASE call' = NoCall
  BY <1>2 DEF Calling, NoCall
<1>3. CASE UNCHANGED vars
  BY <1>1, <1>3 DEF Calling, vars, LeadsTo, IsDir, DepthAllowed, Top, NoCall
<1>4. CASE StartPath
  BY <1>1, <1>4 DEF StartPath, Idle, Calling
<1>5. ASSUME NEW e, Recurse(e)
      PROVE  Calling'
  <2>1. /\ Len(stack') = Len(stack) /\ Len(stack) \in Nat \ {0}
        /\ stack'[Len(stack)].ino = Top.ino /\ stack'[Len(stack)].path = Top.path
        /\ stack'[Len(stack)].todo = Top.todo \ {e}
        /\ e \in Kept(Top.ino) /\ e \in Entries
    <3>1. /\ Len(stack') = Len(stack) /\ Len(stack) \in Nat \ {0}
          /\ \A i \in 1 .. Len(stack) :
                /\ stack'[i].ino = stack[i].ino /\ stack'[i].path = stack[i].path
                /\ stack'[i].todo = IF i = Len(stack) THEN stack[i].todo \ {e}
                                    ELSE stack[i].todo
          /\ e \in Kept(Top.ino) /\ e \in Entries
      BY <1>5, Taken DEF Recurse
    <3>2. Len(stack) \in 1 .. Len(stack) /\ Top = stack[Len(stack)]
      BY <3>1 DEF Top
    <3> QED
      BY <3>1, <3>2
  <2>2. stack' # <<>> /\ Top'.ino = Top.ino /\ Top'.path = Top.path /\ e \notin Top'.todo
    BY <2>1 DEF Top
  <2>3. /\ call' = [ino |-> e.ino, path |-> Append(Top.path, e.name)]
        /\ argc' = argc /\ IsDir(e) /\ opts.recurse_dirs
    BY <1>5 DEF Recurse, TakeEntry, Path
  <2>4. e \in Allowed(argc, Top.ino)
    <3>1. Top.ino \in Dirs
      BY <1>5, Taken DEF Recurse
    <3>2. ~CrossesDevice(e)
      BY <1>5 DEF Recurse
    <3> QED
      BY <2>1, <3>1, <3>2, SameDevice
  <2>5. DepthAllowed(Len(stack))
    <3>1. opts.max_search_depth \in Int
      BY WorldsAssumption DEF TypeOK, Options
    <3> QED
      BY <1>5, <2>1, <3>1 DEF Recurse, MayDescend, DepthAllowed, Depth
  <2> QED
    BY <1>1, <2>1, <2>2, <2>3, <2>4, <2>5 DEF Calling, LeadsTo, IsDir, DepthAllowed
<1>6. ASSUME NEW e, Handled(e) PROVE call' = NoCall
  BY <1>6 DEF Handled, EntryUnseen, SkipEntry, ListFile, EnqueueFile, SkipDir, TakeEntry
<1>7. CASE EnterDir \/ EnterUnseen \/ Leave
  BY <1>2, <1>7 DEF EnterDir, EnterUnseen, Enter, Leave
<1> QED
  BY <1>2, <1>3, <1>4, <1>5, <1>6, <1>7, Cases, RefusedFacts

(* The device is that of the path from the beginning of a call on.         *)
LEMMA DeviceStep ==
    ASSUME Shape, [Next]_vars
    PROVE  Device'
<1>1. world' = world /\ opts' = opts /\ (errors' = 0 => errors = 0)
  BY WorldStays, ErrorsStep
<1>2. CASE StartPath
  <2>1. Fails => errors' # 0
    BY DEF Fails, Shape, TypeOK
  <2> QED
    BY <1>1, <1>2, <2>1 DEF StartPath, Device
<1>3. CASE UNCHANGED <<original_dev, argc>>
  BY <1>1, <1>3 DEF Device, Shape
<1>4. ASSUME NEW e, Handled(e) \/ Recurse(e) PROVE UNCHANGED <<original_dev, argc>>
  BY <1>4 DEF Handled, EntryUnseen, SkipEntry, ListFile, EnqueueFile, SkipDir, Recurse, TakeEntry
<1>5. CASE EnterDir \/ EnterUnseen \/ Leave \/ UNCHANGED vars
  BY <1>3, <1>5 DEF EnterDir, EnterUnseen, Enter, Leave, vars
<1> QED
  BY <1>2, <1>3, <1>4, <1>5, Cases, RefusedFacts

(* Every step keeps the first part of the invariant: the shape of the      *)
(* stack.                                                                  *)
LEMMA ShapeStep ==
    ASSUME Shape, [Next]_vars
    PROVE  Shape'
BY TypeStep, SymhashStep, FramesStep, CallingStep, DeviceStep DEF Shape

-----------------------------------------------------------------------------
(***************************************************************************)
(* What should be found, seen from the stack.                              *)
(***************************************************************************)
(* The entry that a path names behind its nth element, at the end or not.  *)
Behind(way, e, n) == IF n = Len(way) + 1 THEN e ELSE way[n]

(* The path q is that of the file e at the end of the way.                 *)
Follows(p, way, e, q) ==
    /\ IsItinerary(p, way) /\ e \in FilesOf(p, way)
    /\ Len(way) \in Nat /\ Len(q) = Len(way) + 2 /\ q[1] = p
    /\ q = [k \in 1 .. Len(q) |-> q[k]]
    /\ \A n \in 1 .. Len(way) + 1 :
          /\ q[n + 1] = Behind(way, e, n).name
          /\ At(p, way, n - 1) \in Dirs
          /\ Behind(way, e, n) \in Allowed(p, At(p, way, n - 1))

(* A file that should be found has an itinerary, each step of which the    *)
(* options allow.                                                          *)
LEMMA PathFacts ==
    ASSUME world \in Worlds, NEW p, NEW q \in FilesBelow(p)
    PROVE  \E way, e : Follows(p, way, e, q)
<1>0. PICK way \in Itineraries(p) : \E e \in FilesOf(p, way) : q = PathBelow(p, way, e)
  BY DEF FilesBelow
<1>1. PICK e \in FilesOf(p, way) : q = PathBelow(p, way, e)
  BY <1>0
<1>2. PICK n \in 0 .. Cardinality(Dirs) - 1 : way \in [1 .. n -> DirEntries]
  BY DEF Itineraries
<1>3. Len(way) \in Nat /\ Len(way) = n
  BY <1>2
<1>4. Len(q) = Len(way) + 2 /\ q[1] = p /\ q = [k \in 1 .. Len(q) |-> q[k]]
  BY <1>1, <1>3 DEF PathBelow
<1>5. IsItinerary(p, way)
  BY DEF Itineraries
<1>6. ASSUME NEW k \in 1 .. Len(way) + 1
      PROVE  /\ q[k + 1] = Behind(way, e, k).name
             /\ At(p, way, k - 1) \in Dirs
             /\ Behind(way, e, k) \in Allowed(p, At(p, way, k - 1))
  <2>1. q[k + 1] = Behind(way, e, k).name
    BY <1>1, <1>3 DEF PathBelow, Behind
  <2>2. At(p, way, k - 1) \in Dirs
    BY <1>3, <1>5 DEF IsItinerary
  <2>3. Behind(way, e, k) \in Allowed(p, At(p, way, k - 1))
    <3>1. CASE k = Len(way) + 1
      <4>1. k - 1 = Len(way)
        BY <1>3, <3>1
      <4> QED
        BY <1>1, <3>1, <4>1 DEF Behind, FilesOf
    <3>2. CASE k # Len(way) + 1
      BY <1>3, <1>5, <3>2 DEF IsItinerary, Behind
    <3> QED
      BY <3>1, <3>2
  <2> QED
    BY <2>1, <2>2, <2>3
<1> QED
  BY <1>1, <1>3, <1>4, <1>5, <1>6 DEF Follows

(* Names tell the entries of a directory apart.                            *)
LEMMA SameName ==
    ASSUME world \in Worlds, NEW d \in Dirs, NEW e \in Kept(d), NEW f \in Kept(d),
           e.name = f.name
    PROVE  e = f
BY WorldFacts

(* A path that begins like the path of a frame goes through the            *)
(* directories of the stack.                                               *)
LEMMA OnTheWay ==
    ASSUME Shape, NEW way, NEW e, NEW q, Follows(argc, way, e, q),
           NEW n \in 1 .. Len(stack), n <= Len(way) + 1,
           \A j \in 1 .. n : stack[n].path[j] = q[j]
    PROVE  \A j \in 1 .. n : At(argc, way, j - 1) = stack[j].ino
<1>0. /\ Len(way) \in Nat
      /\ \A k \in 1 .. Len(way) + 1 :
            /\ q[k + 1] = Behind(way, e, k).name
            /\ At(argc, way, k - 1) \in Dirs
            /\ Behind(way, e, k) \in Allowed(argc, At(argc, way, k - 1))
  BY DEF Follows
<1> DEFINE S == {k \in Nat : k + 1 <= n => At(argc, way, k) = stack[k + 1].ino}
<1>1. /\ stack # <<>> /\ Len(stack) \in Nat /\ n \in Nat
      /\ stack[1].ino = world.paths[argc].ino
      /\ \A i \in 1 .. Len(stack) : \A j \in 1 .. i : stack[i].path[j] = stack[j].path[j]
      /\ \A i \in 1 .. Len(stack) - 1 : \E f \in Entries \ stack[i].todo :
             LeadsTo(stack[i].ino, i, f, stack[i + 1].ino, stack[i + 1].path[i + 1])
  <2>1. /\ stack \in Seq(Frame)
        /\ stack # <<>> => stack[1].ino = world.paths[argc].ino
        /\ \A i \in 1 .. Len(stack) : \A j \in 1 .. i : stack[i].path[j] = stack[j].path[j]
        /\ \A i \in 1 .. Len(stack) - 1 : \E f \in Entries \ stack[i].todo :
               LeadsTo(stack[i].ino, i, f, stack[i + 1].ino, stack[i + 1].path[i + 1])
    BY DEF Shape, Frames
  <2>2. stack # <<>> /\ Len(stack) \in Nat /\ n \in Nat
    BY <2>1
  <2> QED
    BY <2>1, <2>2, Zenon
<1>2. 0 \in S
  BY <1>1 DEF At
<1>3. ASSUME NEW k \in Nat, k \in S PROVE k + 1 \in S
  <2>1. SUFFICES ASSUME k + 2 <= n
                 PROVE  At(argc, way, k + 1) = stack[k + 2].ino
    BY <1>1
  <2>2. At(argc, way, k) = stack[k + 1].ino /\ k + 1 \in 1 .. Len(way) + 1 /\ k + 1 # Len(way) + 1
    BY <1>0, <1>1, <1>3, <2>1
  <2>3. /\ way[k + 1] \in Allowed(argc, stack[k + 1].ino) /\ stack[k + 1].ino \in Dirs
        /\ way[k + 1].name = q[k + 2]
    <3>1. k + 1 - 1 = k /\ k + 1 + 1 = k + 2
      OBVIOUS
    <3> QED
      BY <1>0, <2>2, <3>1 DEF Behind
  <2>4. PICK f : LeadsTo(stack[k + 1].ino, k + 1, f, stack[k + 2].ino, stack[k + 2].path[k + 2])
    <3>1. k + 1 \in 1 .. Len(stack) - 1 /\ k + 1 + 1 = k + 2
      BY <1>1, <2>1
    <3> QED
      BY <1>1, <3>1
  <2>5. stack[k + 2].path[k + 2] = q[k + 2]
    BY <1>1, <2>1
  <2>6. way[k + 1] = f
    BY <2>3, <2>4, <2>5, SameName, WorldFacts DEF LeadsTo, Shape, TypeOK
  <2> QED
    BY <2>4, <2>6 DEF LeadsTo, At
<1>4. Nat \subseteq S
  <2> HIDE DEF S
  <2> QED
    BY <1>2, <1>3, NatSetInduction
<1>5. ASSUME NEW j \in 1 .. n PROVE At(argc, way, j - 1) = stack[j].ino
  <2>1. j - 1 \in S /\ j - 1 + 1 = j
    BY <1>1, <1>4
  <2> QED
    BY <1>1, <2>1
<1> QED
  BY <1>5

(* So it has a next entry, which the options allow.                        *)
LEMMA NextOnTheWay ==
    ASSUME Shape, NEW q \in FilesSoFar, NEW n \in 1 .. Len(stack), n < Len(q),
           \A j \in 1 .. n : stack[n].path[j] = q[j]
    PROVE  \E f \in Allowed(argc, stack[n].ino) :
              /\ f.name = q[n + 1]
              /\ \/ IsDir(f) /\ opts.recurse_dirs /\ DepthAllowed(n) /\ n + 1 < Len(q)
                 \/ ~IsDir(f) /\ ~RegexSkips(f) /\ n + 1 = Len(q)
<1>1. PICK p \in 1 .. argc : q \in FilesBelow(p)
  BY DEF FilesSoFar
<1>2. PICK way, e : Follows(p, way, e, q)
  BY <1>1, PathFacts DEF Shape, TypeOK
<1>3. /\ IsItinerary(p, way) /\ e \in FilesOf(p, way)
      /\ Len(way) \in Nat /\ Len(q) = Len(way) + 2 /\ q[1] = p
      /\ \A k \in 1 .. Len(way) + 1 :
            /\ q[k + 1] = Behind(way, e, k).name
            /\ At(p, way, k - 1) \in Dirs
            /\ Behind(way, e, k) \in Allowed(p, At(p, way, k - 1))
  BY <1>2 DEF Follows
<1>4. p = argc /\ n \in Nat /\ n >= 1 /\ n \in 1 .. Len(way) + 1
  <2>1. stack # <<>> /\ Len(stack) \in Nat
    BY DEF Shape, Frames
  <2>2. stack[n].path[1] = stack[1].path[1] /\ stack[1].path[1] = argc
    BY <2>1 DEF Shape, Frames
  <2> QED
    BY <1>3, <2>1, <2>2
<1>5. At(argc, way, n - 1) = stack[n].ino
  <2>1. Follows(argc, way, e, q) /\ n <= Len(way) + 1
    BY <1>2, <1>3, <1>4
  <2>2. \A j \in 1 .. n : At(argc, way, j - 1) = stack[j].ino
    BY <2>1, OnTheWay
  <2> QED
    BY <1>4, <2>2
<1>6. Behind(way, e, n) \in Allowed(argc, stack[n].ino) /\ Behind(way, e, n).name = q[n + 1]
  BY <1>3, <1>4, <1>5
<1>7. CASE n = Len(way) + 1
  BY <1>3, <1>4, <1>6, <1>7 DEF Behind, FilesOf
<1>8. CASE n \in 1 .. Len(way)
  <2>1. /\ At(argc, way, n) \in Dirs /\ opts.recurse_dirs /\ DepthAllowed(n)
        /\ At(argc, way, n) = way[n].ino /\ Behind(way, e, n) = way[n]
    BY <1>3, <1>4, <1>8 DEF IsItinerary, At, Behind
  <2> QED
    BY <1>3, <1>4, <1>6, <1>8, <2>1 DEF IsDir
<1> QED
  <2>1. Len(way) \in Nat
    BY <1>3
  <2>2. n = Len(way) + 1 \/ n \in 1 .. Len(way)
    BY <1>4, <2>1
  <2> QED
    BY <2>2, <1>7, <1>8
(* The same for a path that begins like the path of the call: the call is  *)
(* for a directory the walk is not in.                                     *)
LEMMA CallOnTheWay ==
    ASSUME Shape, call # NoCall, NEW q \in FilesSoFar, Len(call.path) < Len(q),
           \A j \in 1 .. Len(call.path) : call.path[j] = q[j]
    PROVE  /\ Len(call.path) = Len(stack) + 1 /\ call.ino \in Dirs
           /\ \A i \in 1 .. Len(stack) : stack[i].ino # call.ino
           /\ \E f \in Allowed(argc, call.ino) : f.name = q[Len(call.path) + 1]
<1>1. PICK p \in 1 .. argc : q \in FilesBelow(p)
  BY DEF FilesSoFar
<1>2. PICK way, e : Follows(p, way, e, q)
  BY <1>1, PathFacts DEF Shape, TypeOK
<1>3. /\ IsItinerary(p, way) /\ e \in FilesOf(p, way)
      /\ Len(way) \in Nat /\ Len(q) = Len(way) + 2 /\ q[1] = p
      /\ \A k \in 1 .. Len(way) + 1 :
            /\ q[k + 1] = Behind(way, e, k).name
            /\ At(p, way, k - 1) \in Dirs
            /\ Behind(way, e, k) \in Allowed(p, At(p, way, k - 1))
  BY <1>2 DEF Follows
<1>4. stack \in Seq(Frame) /\ Len(stack) \in Nat
  BY DEF Shape, Frames
<1>5. CASE stack = <<>>
  <2>1. call.ino = world.paths[argc].ino /\ call.path = <<argc>>
    BY <1>5 DEF Shape, Calling
  <2>2. Len(call.path) = 1 /\ p = argc
    BY <1>3, <2>1
  <2>3. At(argc, way, 0) = call.ino
    BY <2>1 DEF At
  <2>4. 1 \in 1 .. Len(way) + 1 /\ 1 - 1 = 0
    BY <1>3
  <2> QED
    BY <1>3, <1>5, <2>2, <2>3, <2>4
<1>6. CASE stack # <<>>
  <2> DEFINE n == Len(stack)
  <2>1. PICK x \in Entries :
           /\ LeadsTo(Top.ino, n, x, call.ino, x.name)
           /\ call.path = Append(Top.path, x.name)
    BY <1>6 DEF Shape, Calling
  <2>2. n \in 1 .. Len(stack) /\ Top = stack[n] /\ stack[n] \in Frame /\ Len(stack[n].path) = n
    BY <1>4, <1>6 DEF Top, Shape, Frames
  <2>3. stack[n].path \in Seq(Nat \cup {f.name : f \in Entries})
    BY <2>2 DEF Frame
  <2>4. /\ Len(call.path) = n + 1 /\ call.path[n + 1] = x.name
        /\ \A j \in 1 .. n : call.path[j] = stack[n].path[j]
    BY <2>1, <2>2, <2>3, AppendProperties
  <2>5. \A j \in 1 .. n : stack[n].path[j] = q[j]
    BY <1>4, <2>4
  <2>6. p = argc /\ n \in 1 .. Len(way) /\ n + 1 \in 1 .. Len(way) + 1
    <3>1. stack[n].path[1] = stack[1].path[1] /\ stack[1].path[1] = argc
      BY <1>6, <2>2 DEF Shape, Frames
    <3> QED
      BY <1>3, <1>4, <2>2, <2>4, <2>5, <3>1
  <2>7. \A j \in 1 .. n : At(argc, way, j - 1) = stack[j].ino
    <3>1. Follows(argc, way, e, q) /\ n <= Len(way) + 1
      BY <1>2, <1>3, <2>6
    <3> HIDE DEF n
    <3> QED
      BY <2>2, <2>5, <3>1, OnTheWay, SMTT(30)
  <2>8. way[n] = x
    <3>1. /\ way[n] \in Allowed(argc, stack[n].ino) /\ stack[n].ino \in Dirs
          /\ way[n].name = q[n + 1]
      <4>1. n \in 1 .. Len(way) + 1 /\ Behind(way, e, n) = way[n]
        BY <1>3, <2>6 DEF Behind
      <4> QED
        BY <1>3, <2>2, <2>6, <2>7, <4>1
    <3>2. q[n + 1] = x.name
      BY <1>4, <2>4
    <3> QED
      BY <2>1, <2>2, <3>1, <3>2, SameName, WorldFacts DEF LeadsTo, Shape, TypeOK
  <2>9. At(argc, way, n) = call.ino
    BY <2>1, <2>2, <2>8 DEF At, LeadsTo
  <2>10. ASSUME NEW i \in 1 .. n PROVE stack[i].ino # call.ino
    <3>1. i - 1 \in 0 .. Len(way) /\ n \in 0 .. Len(way) /\ i - 1 # n
      BY <1>3, <2>2, <2>6
    <3> QED
      BY <1>3, <2>6, <2>7, <2>9, <3>1 DEF IsItinerary
  <2>11. n + 1 - 1 = n
    BY <1>4
  <2>12. /\ Behind(way, e, n + 1) \in Allowed(argc, call.ino) /\ call.ino \in Dirs
         /\ Behind(way, e, n + 1).name = q[Len(call.path) + 1]
    <3>1. /\ q[n + 1 + 1] = Behind(way, e, n + 1).name
          /\ At(p, way, n + 1 - 1) \in Dirs
          /\ Behind(way, e, n + 1) \in Allowed(p, At(p, way, n + 1 - 1))
      BY <1>3, <2>6
    <3> QED
      BY <2>4, <2>6, <2>9, <2>11, <3>1
  <2> QED
    BY <2>4, <2>10, <2>12
<1> QED
  BY <1>5, <1>6

(* Without an error the stack is an itinerary, so that a file in the       *)
(* innermost directory is one that should be found.                        *)
LEMMA StackIsItinerary ==
    ASSUME Shape, errors = 0, stack # <<>>,
           NEW e \in Kept(Top.ino), ~CrossesDevice(e), ~IsDir(e), ~RegexSkips(e)
    PROVE  Path(e) \in FilesSoFar
<1> DEFINE n == Len(stack)
           way == [i \in 1 .. n - 1 |->
                      CHOOSE f \in Entries : LeadsTo(stack[i].ino, i, f, stack[i + 1].ino,
                                                     stack[i + 1].path[i + 1])]
<1>1. /\ stack \in Seq(Frame) /\ n \in Nat \ {0}
      /\ Top = stack[n] /\ stack[n] \in Frame /\ Len(stack[n].path) = n
      /\ argc \in 1 .. Len(world.paths) /\ argc \in Nat
  <2>1. stack \in Seq(Frame) /\ argc \in 1 .. Len(world.paths) /\ world \in Worlds
    BY DEF Shape, Frames, TypeOK
  <2>2. n \in Nat \ {0}
    BY <2>1
  <2>3. argc \in Nat
    BY <2>1, WorldFacts
  <2>4. n \in 1 .. Len(stack) /\ stack[n] \in Frame
    BY <2>1, <2>2
  <2> QED
    BY <2>1, <2>2, <2>3, <2>4 DEF Top, Shape, Frames
<1>2. ASSUME NEW i \in 1 .. n - 1
      PROVE  LeadsTo(stack[i].ino, i, way[i], stack[i + 1].ino, stack[i + 1].path[i + 1])
             /\ way[i] \in Entries
  <2>1. \E f \in Entries : LeadsTo(stack[i].ino, i, f, stack[i + 1].ino, stack[i + 1].path[i + 1])
    BY DEF Shape, Frames
  <2> QED
    BY <2>1
<1>3. DOMAIN way = 1 .. n - 1 /\ Len(way) = n - 1
  BY <1>1
<1> HIDE DEF way
<1>4. way \in [1 .. n - 1 -> DirEntries]
  <2>1. \A i \in 1 .. n - 1 : way[i] \in DirEntries
    BY <1>2 DEF LeadsTo, DirEntries, Entries
  <2>2. way = [i \in 1 .. n - 1 |-> way[i]]
    BY <1>3 DEF way
  <2> QED
    BY <2>1, <2>2
<1>5. ASSUME NEW i \in 0 .. n - 1
      PROVE  At(argc, way, i) = stack[i + 1].ino /\ stack[i + 1].ino \in Dirs
             /\ stack[i + 1].key = stack[i + 1].ino
  <2>1. i + 1 \in 1 .. Len(stack)
    BY <1>1
  <2>2. stack[i + 1].ino \in Dirs /\ stack[i + 1].key = stack[i + 1].ino
    BY <2>1 DEF Shape, Frames, TypeOK
  <2>3. CASE i = 0
    BY <2>2, <2>3 DEF At, Shape, Frames
  <2>4. CASE i # 0
    <3>1. i \in 1 .. n - 1
      BY <1>1, <2>4
    <3> QED
      BY <1>2, <2>2, <2>4, <3>1 DEF At, LeadsTo
  <2> QED
    BY <2>3, <2>4
<1>6. ASSUME NEW i \in 0 .. n - 1, NEW j \in 0 .. n - 1, At(argc, way, i) = At(argc, way, j)
      PROVE  i = j
  <2>1. i + 1 \in 1 .. Len(stack) /\ j + 1 \in 1 .. Len(stack)
    BY <1>1
  <2>2. stack[i + 1].key = stack[j + 1].key /\ stack[i + 1].key # NoKey
    BY <1>5, <1>6, WorldsAssumption
  <2>3. i + 1 = j + 1
    BY <2>1, <2>2 DEF Shape, SymhashIsStack
  <2> QED
    BY <2>3
<1>7. IsItinerary(argc, way)
  <2>1. ASSUME NEW i \in 1 .. n - 1
        PROVE  /\ way[i] \in Allowed(argc, At(argc, way, i - 1))
               /\ opts.recurse_dirs /\ DepthAllowed(i)
    <3>1. i - 1 \in 0 .. n - 1 /\ i - 1 + 1 = i
      BY <1>1
    <3> QED
      BY <1>2, <1>5, <3>1 DEF LeadsTo
  <2> QED
    BY <1>3, <1>5, <1>6, <2>1 DEF IsItinerary
<1>8. n - 1 \in 0 .. Cardinality(Dirs) - 1
  <2> DEFINE f == [i \in 0 .. n - 1 |-> At(argc, way, i)]
  <2>1. f \in [0 .. n - 1 -> Dirs]
    BY <1>5
  <2>2. IsFiniteSet(0 .. n - 1) /\ Cardinality(0 .. n - 1) = n
    <3>1. 0 \in Int /\ n - 1 \in Int
      BY <1>1
    <3>2. /\ IsFiniteSet(0 .. n - 1)
          /\ Cardinality(0 .. n - 1) = IF 0 > n - 1 THEN 0 ELSE n - 1 - 0 + 1
      BY <3>1, FS_Interval
    <3> QED
      BY <1>1, <3>2
  <2>3. IsFiniteSet(Dirs) /\ Cardinality(Dirs) \in Nat
    BY WorldsAssumption, FS_CardinalityType
  <2>4. \A i, j \in 0 .. n - 1 : f[i] = f[j] => i = j
    BY <1>6
  <2> HIDE DEF f
  <2>5. ~(Cardinality(Dirs) < n)
    BY <2>1, <2>2, <2>3, <2>4, FS_PigeonHole
  <2> QED
    BY <1>1, <2>3, <2>5
<1>9. way \in Itineraries(argc)
  BY <1>4, <1>7, <1>8 DEF Itineraries
<1>10. e \in FilesOf(argc, way)
  <2>1. n - 1 \in 0 .. n - 1 /\ n - 1 + 1 = n
    BY <1>1
  <2>2. At(argc, way, Len(way)) = Top.ino
    BY <1>1, <1>3, <1>5, <2>1
  <2>3. e \in Allowed(argc, Top.ino)
    BY <1>1, SameDevice DEF Shape, Frame
  <2> QED
    BY <2>2, <2>3 DEF FilesOf
<1>11. Path(e) = PathBelow(argc, way, e)
  <2> DEFINE S == Nat \cup {x.name : x \in Entries}
             q == PathBelow(argc, way, e)
  <2>1. Top.path \in Seq(S) /\ e.name \in S
    <3>1. e \in Entries
      BY <1>1, WorldFacts DEF Shape, TypeOK, Frame
    <3> QED
      BY <1>1, <3>1 DEF Frame
  <2>2. /\ Path(e) \in Seq(S) /\ Len(Path(e)) = n + 1
        /\ \A k \in 1 .. n : Path(e)[k] = Top.path[k]
        /\ Path(e)[n + 1] = e.name
    BY <1>1, <2>1, AppendProperties DEF Path
  <2>3. q = [k \in 1 .. n + 1 |->
                IF k = 1 THEN argc ELSE IF k = n + 1 THEN e.name ELSE way[k - 1].name]
    BY <1>1, <1>3 DEF PathBelow
  <2>4. \A k \in 1 .. n + 1 : q[k] = Path(e)[k]
    <3>1. \A k \in 1 .. n : Top.path[k] = stack[k].path[k]
      <4>1. n \in 1 .. Len(stack)
        BY <1>1
      <4> QED
        BY <1>1, <4>1 DEF Shape, Frames
    <3>2. stack[1].path[1] = argc
      BY DEF Shape, Frames
    <3>3. ASSUME NEW k \in 2 .. n PROVE way[k - 1].name = stack[k].path[k]
      <4>1. k - 1 \in 1 .. n - 1 /\ k - 1 + 1 = k
        BY <1>1
      <4> QED
        BY <1>2, <4>1 DEF LeadsTo
    <3> QED
      BY <1>1, <2>2, <2>3, <3>1, <3>2, <3>3
  <2>5. DOMAIN Path(e) = 1 .. n + 1 /\ Path(e) = [k \in DOMAIN Path(e) |-> Path(e)[k]]
    BY <1>1, <2>2
  <2>6. q = [k \in 1 .. n + 1 |-> q[k]]
    BY <2>3
  <2> HIDE DEF q
  <2>7. Path(e) = q
    BY <2>4, <2>5, <2>6
  <2> QED
    BY <2>7 DEF q
<1> QED
  BY <1>1, <1>9, <1>10, <1>11 DEF FilesSoFar, FilesBelow

-----------------------------------------------------------------------------
(***************************************************************************)
(* Which files are still ahead, step by step.                              *)
(***************************************************************************)
(* Entering a directory: the call was ahead, now its entries are.          *)
LEMMA PendingEnterDir ==
    ASSUME Shape, EnterDir, NEW q \in FilesSoFar
    PROVE  Pending(q)' <=> Pending(q)
<1> DEFINE n == Len(stack) + 1
<1>1. /\ call.ino \in Dirs /\ call # NoCall /\ call' = NoCall /\ Enter(call.ino)
  BY DEF EnterDir, Enter
<1>2. /\ stack \in Seq(Frame) /\ Len(stack) \in Nat /\ Len(stack') = n
      /\ \A i \in 1 .. Len(stack) : stack'[i] = stack[i]
      /\ stack'[n].path = call.path /\ stack'[n].todo = Kept(call.ino)
      /\ Len(call.path) = n
  BY <1>1, Pushed DEF Shape, Frames
<1>3. ASSUME Pending(q)' PROVE Pending(q)
  <2>1. PICK i \in 1 .. n :
           /\ i < Len(q)
           /\ \A j \in 1 .. i : stack'[i].path[j] = q[j]
           /\ \E e \in stack'[i].todo : e.name = q[i + 1]
    BY <1>1, <1>2, <1>3 DEF Pending
  <2>2. CASE i = n
    BY <1>1, <1>2, <2>1, <2>2 DEF Pending
  <2>3. CASE i # n
    <3>1. i \in 1 .. Len(stack) /\ stack'[i] = stack[i]
      BY <1>2, <2>3
    <3> QED
      BY <2>1, <3>1 DEF Pending
  <2> QED
    BY <2>2, <2>3
<1>4. ASSUME Pending(q) PROVE Pending(q)'
  <2>1. CASE Len(call.path) < Len(q) /\ \A j \in 1 .. Len(call.path) : call.path[j] = q[j]
    <3>1. PICK f \in Allowed(argc, call.ino) : f.name = q[n + 1]
      BY <1>1, <1>2, <2>1, CallOnTheWay
    <3>2. f \in stack'[n].todo
      BY <1>2, <3>1 DEF Allowed
    <3>3. n \in 1 .. Len(stack')
      BY <1>2
    <3> QED
      BY <1>2, <2>1, <3>1, <3>2, <3>3 DEF Pending
  <2>2. ASSUME NEW i \in 1 .. Len(stack), i < Len(q),
               \A j \in 1 .. i : stack[i].path[j] = q[j],
               \E e \in stack[i].todo : e.name = q[i + 1]
        PROVE  Pending(q)'
    <3>1. i \in 1 .. Len(stack') /\ stack'[i] = stack[i]
      BY <1>2
    <3> QED
      BY <2>2, <3>1 DEF Pending
  <2> QED
    BY <1>4, <2>1, <2>2 DEF Pending
<1> QED
  BY <1>3, <1>4

(* A call that is refused without an error was for nothing that is ahead.  *)
LEMMA PendingRefused ==
    ASSUME Shape, Loop \/ NotADirectory \/ NoSuchPath, errors = 0, NEW q \in FilesSoFar
    PROVE  Pending(q)' <=> Pending(q)
<1>1. call # NoCall /\ call' = NoCall /\ stack' = stack
  BY Returned DEF Loop, NotADirectory, NoSuchPath
<1>2. ~(Len(call.path) < Len(q) /\ \A j \in 1 .. Len(call.path) : call.path[j] = q[j])
  <2> SUFFICES ASSUME Len(call.path) < Len(q),
                      \A j \in 1 .. Len(call.path) : call.path[j] = q[j]
               PROVE  FALSE
    OBVIOUS
  <2>1. call.ino \in Dirs /\ \A i \in 1 .. Len(stack) : stack[i].ino # call.ino
    BY <1>1, CallOnTheWay
  <2>2. Loop
    BY <2>1, WorldsAssumption DEF NotADirectory, NoSuchPath
  <2>3. PICK i \in 1 .. Len(stack) : stack[i].key = call.ino
    BY <2>2 DEF Loop, Shape, SymhashIsStack
  <2>4. stack[i].key = stack[i].ino
    BY DEF Shape, Frames
  <2> QED
    BY <2>1, <2>3, <2>4
<1> QED
  BY <1>1, <1>2 DEF Pending

(* The part of Pending that is about the frames, and the part of it that   *)
(* an entry e of the innermost one is responsible for.                     *)
Ahead(q) ==
    \E i \in 1 .. Len(stack) :
        /\ i < Len(q)
        /\ \A j \in 1 .. i : stack[i].path[j] = q[j]
        /\ \E e \in stack[i].todo : e.name = q[i + 1]

(* The path q goes through the entry e of the innermost directory.         *)
Through(e, q) ==
    /\ Len(stack) < Len(q)
    /\ \A j \in 1 .. Len(stack) : Top.path[j] = q[j]
    /\ e.name = q[Len(stack) + 1]

(* When an entry is taken, what was ahead stays ahead or is behind that    *)
(* entry.                                                                  *)
LEMMA AheadTaken ==
    ASSUME Shape, NEW e, TakeEntry(e), NEW q
    PROVE  /\ Ahead(q) <=> Ahead(q)' \/ Through(e, q)
           /\ ~(Ahead(q)' /\ Through(e, q))
<1> DEFINE n == Len(stack)
<1>1. /\ stack \in Seq(Frame) /\ n \in Nat \ {0} /\ n \in 1 .. Len(stack) /\ Top = stack[n]
      /\ Len(stack') = n
      /\ \A i \in 1 .. n :
            /\ stack'[i].path = stack[i].path
            /\ stack'[i].todo = IF i = n THEN stack[i].todo \ {e} ELSE stack[i].todo
      /\ e \in Kept(Top.ino) /\ Top.ino \in Dirs
  <2>1. /\ stack \in Seq(Frame) /\ n \in Nat \ {0} /\ Len(stack') = n
        /\ \A i \in 1 .. n :
              /\ stack'[i].path = stack[i].path
              /\ stack'[i].todo = IF i = n THEN stack[i].todo \ {e} ELSE stack[i].todo
        /\ e \in Kept(Top.ino) /\ Top.ino \in Dirs
    BY Taken
  <2>2. Top = stack[n]
    BY DEF Top
  <2>3. n \in 1 .. Len(stack)
    BY <2>1
  <2> HIDE DEF n
  <2> QED
    BY <2>1, <2>2, <2>3
<1>2. e \in stack[n].todo
  BY DEF TakeEntry, Top
<1>3. ASSUME Ahead(q) PROVE Ahead(q)' \/ Through(e, q)
  <2>1. PICK i \in 1 .. n : /\ i < Len(q)
                            /\ \A j \in 1 .. i : stack[i].path[j] = q[j]
                            /\ \E x \in stack[i].todo : x.name = q[i + 1]
    BY <1>3 DEF Ahead
  <2>2. PICK x \in stack[i].todo : x.name = q[i + 1]
    BY <2>1
  <2>3. CASE i = n /\ x = e
    BY <1>1, <2>1, <2>2, <2>3 DEF Through
  <2>4. CASE ~(i = n /\ x = e)
    <3>1. x \in stack'[i].todo /\ stack'[i].path = stack[i].path /\ i \in 1 .. Len(stack')
      BY <1>1, <2>2, <2>4
    <3> QED
      BY <2>1, <2>2, <3>1 DEF Ahead
  <2> QED
    BY <2>3, <2>4
<1>4. ASSUME Through(e, q) PROVE Ahead(q)
  BY <1>1, <1>2, <1>4 DEF Ahead, Through
<1>5. ASSUME Ahead(q)' PROVE Ahead(q)
  <2>1. PICK i \in 1 .. n : /\ i < Len(q)
                            /\ \A j \in 1 .. i : stack'[i].path[j] = q[j]
                            /\ \E x \in stack'[i].todo : x.name = q[i + 1]
    BY <1>1, <1>5 DEF Ahead
  <2>2. stack'[i].path = stack[i].path /\ stack'[i].todo \subseteq stack[i].todo
    BY <1>1
  <2> QED
    BY <2>1, <2>2 DEF Ahead
<1>6. ASSUME Ahead(q)', Through(e, q) PROVE FALSE
  <2>1. PICK i \in 1 .. n : /\ i < Len(q)
                            /\ \A j \in 1 .. i : stack'[i].path[j] = q[j]
                            /\ \E x \in stack'[i].todo : x.name = q[i + 1]
    BY <1>1, <1>6 DEF Ahead
  <2>2. PICK x \in stack'[i].todo : x.name = q[i + 1]
    BY <2>1
  <2>3. x \in stack[i].todo /\ x \in Kept(stack[i].ino) /\ stack[i].ino \in Dirs
    BY <1>1, <2>2 DEF Shape, TypeOK
  <2>4. CASE i = n
    <3>1. x.name = e.name /\ x # e
      BY <1>1, <1>6, <2>2, <2>4 DEF Through
    <3> QED
      BY <1>1, <2>3, <2>4, <3>1, SameName DEF Shape, TypeOK
  <2>5. CASE i # n
    <3>1. i \in 1 .. Len(stack) - 1 /\ i + 1 \in 1 .. n
      BY <1>1, <2>5
    <3>2. PICK y \in Entries \ stack[i].todo :
             LeadsTo(stack[i].ino, i, y, stack[i + 1].ino, stack[i + 1].path[i + 1])
      BY <3>1 DEF Shape, Frames
    <3>3. y.name = q[i + 1] /\ y \in Kept(stack[i].ino)
      <4>1. stack[n].path[i + 1] = q[i + 1]
        BY <1>1, <1>6, <3>1 DEF Through
      <4>2. stack[n].path[i + 1] = stack[i + 1].path[i + 1]
        BY <1>1, <3>1 DEF Shape, Frames
      <4> QED
        BY <3>2, <4>1, <4>2 DEF LeadsTo, Allowed
    <3> QED
      BY <2>2, <2>3, <3>2, <3>3, SameName DEF Shape, TypeOK
  <2> QED
    BY <2>4, <2>5
<1> QED
  BY <1>3, <1>4, <1>5, <1>6

(* What the options say of an entry that a file is behind.                 *)
LEMMA TakenOnTheWay ==
    ASSUME Shape, NEW e, TakeEntry(e), NEW q \in FilesSoFar, Through(e, q)
    PROVE  /\ errors = 0 => ~CrossesDevice(e)
           /\ \/ IsDir(e) /\ opts.recurse_dirs /\ MayDescend /\ Len(stack) + 1 < Len(q)
              \/ ~IsDir(e) /\ ~RegexSkips(e) /\ Len(stack) + 1 = Len(q)
<1>1. /\ Len(stack) \in Nat \ {0} /\ Len(stack) \in 1 .. Len(stack)
      /\ Top = stack[Len(stack)] /\ e \in Kept(Top.ino) /\ Top.ino \in Dirs
  BY Taken DEF Top
<1>2. PICK f \in Allowed(argc, Top.ino) :
              /\ f.name = q[Len(stack) + 1]
              /\ \/ /\ IsDir(f) /\ opts.recurse_dirs /\ DepthAllowed(Len(stack))
                    /\ Len(stack) + 1 < Len(q)
                 \/ ~IsDir(f) /\ ~RegexSkips(f) /\ Len(stack) + 1 = Len(q)
  BY <1>1, NextOnTheWay DEF Through
<1>3. f = e
  BY <1>1, <1>2, SameName DEF Through, Allowed, Shape, TypeOK
<1>4. errors = 0 => ~CrossesDevice(e)
  <2>1. argc > 0
    BY <1>1, WorldFacts DEF Shape, Frames, TypeOK
  <2> QED
    BY <1>2, <1>3, <2>1 DEF Allowed, CrossesDevice, Shape, Device
<1>5. DepthAllowed(Len(stack)) => MayDescend
  <2>1. opts.max_search_depth \in Int
    BY WorldsAssumption DEF Shape, TypeOK, Options
  <2> QED
    BY <1>1, <2>1 DEF DepthAllowed, MayDescend, Depth
<1> QED
  BY <1>2, <1>3, <1>4, <1>5

(* An entry that is skipped is on no way.                                  *)
LEMMA PendingSkipped ==
    ASSUME Shape, errors = 0, NEW e, SkipEntry(e) \/ SkipDir(e), NEW q \in FilesSoFar
    PROVE  Pending(q)' <=> Pending(q)
<1>1. TakeEntry(e) /\ call = NoCall /\ call' = NoCall
  BY DEF SkipEntry, SkipDir, TakeEntry
<1>2. ~Through(e, q)
  BY <1>1, TakenOnTheWay DEF SkipEntry, SkipDir
<1>3. Ahead(q) <=> Ahead(q)'
  BY <1>1, <1>2, AheadTaken
<1> QED
  BY <1>1, <1>3 DEF Pending, Ahead

(* The path of an entry of the innermost directory.                        *)
LEMMA PathOfEntry ==
    ASSUME Shape, NEW e, TakeEntry(e)
    PROVE  /\ Len(Path(e)) = Len(stack) + 1 /\ Len(stack) \in Nat \ {0}
           /\ \A j \in 1 .. Len(stack) : Path(e)[j] = Top.path[j]
           /\ Path(e)[Len(stack) + 1] = e.name
           /\ Path(e) # <<>>
           /\ Path(e) = [k \in 1 .. Len(stack) + 1 |-> Path(e)[k]]
<1> DEFINE S == Nat \cup {x.name : x \in Entries}
<1>1. /\ stack \in Seq(Frame) /\ Len(stack) \in Nat \ {0} /\ Len(stack) \in 1 .. Len(stack)
      /\ Top = stack[Len(stack)] /\ e \in Entries
  BY Taken DEF Top
<1>2. Top \in Frame /\ Len(Top.path) = Len(stack)
  BY <1>1 DEF Shape, Frames
<1>3. Top.path \in Seq(S) /\ e.name \in S
  BY <1>1, <1>2 DEF Frame
<1> HIDE DEF S
<1>4. /\ Append(Top.path, e.name) \in Seq(S) /\ Append(Top.path, e.name) # <<>>
      /\ Len(Append(Top.path, e.name)) = Len(Top.path) + 1
      /\ Append(Top.path, e.name)[Len(Top.path) + 1] = e.name
      /\ \A j \in 1 .. Len(Top.path) : Append(Top.path, e.name)[j] = Top.path[j]
  BY <1>3, AppendProperties
<1>5. /\ Path(e) \in Seq(S) /\ Len(Path(e)) = Len(stack) + 1 /\ Path(e) # <<>>
      /\ \A j \in 1 .. Len(stack) : Path(e)[j] = Top.path[j]
      /\ Path(e)[Len(stack) + 1] = e.name
  BY <1>2, <1>4, Zenon DEF Path
<1>6. Path(e) = [k \in 1 .. Len(Path(e)) |-> Path(e)[k]]
  BY <1>5
<1> QED
  BY <1>1, <1>5, <1>6

(* An entry that is a file is the end of one way.                          *)
LEMMA PendingFile ==
    ASSUME Shape, NEW e, ListFile(e) \/ EnqueueFile(e), NEW q \in FilesSoFar
    PROVE  Pending(q)' <=> Pending(q) /\ q # Path(e)
<1>1. TakeEntry(e) /\ call = NoCall /\ call' = NoCall /\ ~IsDir(e)
  BY DEF ListFile, EnqueueFile, TakeEntry
<1>2. ASSUME Through(e, q) PROVE q = Path(e)
  <2>1. Len(q) = Len(stack) + 1
    BY <1>1, <1>2, TakenOnTheWay
  <2>2. q = [k \in 1 .. Len(q) |-> q[k]]
    BY PathFacts DEF FilesSoFar, Follows, Shape, TypeOK
  <2>3. \A k \in 1 .. Len(stack) + 1 : Path(e)[k] = q[k]
    BY <1>1, <1>2, PathOfEntry DEF Through
  <2> QED
    BY <1>1, <2>1, <2>2, <2>3, PathOfEntry
<1>3. Through(e, Path(e))
  BY <1>1, PathOfEntry DEF Through
<1>4. /\ Ahead(q) <=> Ahead(q)' \/ Through(e, q)
      /\ ~(Ahead(q)' /\ Through(e, q))
  BY <1>1, AheadTaken
<1> QED
  BY <1>1, <1>2, <1>3, <1>4 DEF Pending, Ahead

(* An entry that is a directory becomes a call.                            *)
LEMMA PendingRecurse ==
    ASSUME Shape, NEW e, Recurse(e), NEW q \in FilesSoFar
    PROVE  Pending(q)' <=> Pending(q)
<1>1. /\ TakeEntry(e) /\ call = NoCall /\ IsDir(e)
      /\ call' = [ino |-> e.ino, path |-> Path(e)]
  BY DEF Recurse, TakeEntry
<1>2. call' # NoCall /\ call'.path = Path(e)
  BY <1>1, PathOfEntry DEF NoCall
<1>3. ASSUME Through(e, q) PROVE Len(stack) + 1 < Len(q)
  BY <1>1, <1>3, TakenOnTheWay
<1>4. Ahead(q) <=> Ahead(q)' \/ Through(e, q)
  BY <1>1, AheadTaken
<1>5. Through(e, q) <=> /\ Len(Path(e)) < Len(q)
                        /\ \A j \in 1 .. Len(Path(e)) : Path(e)[j] = q[j]
  <2>1. /\ Len(Path(e)) = Len(stack) + 1 /\ Len(stack) \in Nat \ {0}
        /\ \A j \in 1 .. Len(stack) : Path(e)[j] = Top.path[j]
        /\ Path(e)[Len(stack) + 1] = e.name
    BY <1>1, PathOfEntry
  <2>2. Len(q) \in Nat
    BY PathFacts DEF FilesSoFar, Follows, Shape, TypeOK
  <2> QED
    BY <1>3, <2>1, <2>2 DEF Through
<1>6. Pending(q) <=> Ahead(q)
  BY <1>1 DEF Pending, Ahead
<1>7. Pending(q)' <=> \/ /\ Len(Path(e)) < Len(q)
                         /\ \A j \in 1 .. Len(Path(e)) : Path(e)[j] = q[j]
                      \/ Ahead(q)'
  BY <1>2 DEF Pending, Ahead
<1> QED
  BY <1>4, <1>5, <1>6, <1>7

(* A frame is left when nothing of it is ahead.                            *)
LEMMA PendingLeave ==
    ASSUME Shape, Leave, NEW q
    PROVE  Pending(q)' <=> Pending(q)
<1>1. /\ Len(stack) \in Nat \ {0} /\ Len(stack') = Len(stack) - 1
      /\ \A i \in 1 .. Len(stack) - 1 : stack'[i] = stack[i]
      /\ stack[Len(stack)].todo = {}
      /\ call = NoCall /\ call' = NoCall
  BY Popped DEF Leave, Top
<1>2. ASSUME NEW i \in 1 .. Len(stack) - 1
      PROVE  i \in 1 .. Len(stack) /\ stack'[i] = stack[i]
  BY <1>1
<1>3. ASSUME NEW i \in 1 .. Len(stack), stack[i].todo # {}
      PROVE  i \in 1 .. Len(stack')
  BY <1>1, <1>3
<1> QED
  BY <1>1, <1>2, <1>3, ZenonT(30) DEF Pending

(* No step but those that begin an argument or find a file changes what is *)
(* ahead.                                                                  *)
LEMMA PendingStays ==
    ASSUME Shape, [Next]_vars, errors' = 0, argc' = argc,
           ~\E e : ListFile(e) \/ EnqueueFile(e), NEW q \in FilesSoFar
    PROVE  Pending(q)' <=> Pending(q)
<1>1. ~StartPath /\ ~EnterUnseen /\ ~ScanFails /\ \A e : ~EntryUnseen(e)
  BY DEF StartPath, EnterUnseen, ScanFails, Fails, EntryUnseen, Shape, TypeOK
<1>2. errors = 0
  BY ErrorsStep
<1>3. CASE UNCHANGED vars
  BY <1>3 DEF vars, Pending
<1> QED
  BY <1>1, <1>2, <1>3, Cases, PendingRefused, PendingEnterDir, PendingLeave, PendingSkipped,
     PendingRecurse DEF Refused, Handled

-----------------------------------------------------------------------------
(***************************************************************************)
(* What has been found, step by step.                                      *)
(***************************************************************************)
(* Only a file on the command line is an argument searched.                *)
LEMMA ArgsStep ==
    ASSUME Shape, [Next]_vars
    PROVE  /\ NotADirectory => /\ ArgsSoFar' = ArgsSoFar \cup {argc} /\ argc \notin ArgsSoFar
                               /\ call.path = <<argc>> /\ stack = <<>>
                               /\ argc \in 1 .. Len(world.paths)
                               /\ world.paths[argc].ino \in Files
           /\ ~NotADirectory => ArgsSoFar' = ArgsSoFar
<1>1. world' = world /\ argc \in Nat
  BY WorldStays DEF TypeOK, Shape
<1>2. stack = <<>> /\ call # NoCall =>
          /\ call.ino = world.paths[argc].ino /\ call.path = <<argc>>
          /\ argc \in 1 .. Len(world.paths)
  BY DEF Calling, Frames, Shape
<1>3. CASE NotADirectory
  <2>1. call # NoCall /\ call.ino \in Files /\ call' = NoCall /\ argc' = argc
    BY <1>3, RefusedFacts DEF Refused, NotADirectory
  <2>2. stack = <<>>
    <3>1. ASSUME stack # <<>> PROVE call.ino \in Dirs
      BY <2>1, <3>1 DEF Calling, LeadsTo, IsDir, Shape
    <3> QED
      BY <2>1, <3>1, WorldsAssumption
  <2> QED
    BY <1>1, <1>2, <1>3, <2>1, <2>2 DEF ArgsSoFar
<1>4. CASE StartPath
  <2>1. stack' = <<>> /\ call' # NoCall /\ call = NoCall /\ argc' = argc + 1
    BY <1>4 DEF StartPath, Idle, NoCall
  <2>2. ~NotADirectory
    BY <2>1, RefusedFacts DEF Refused
  <2> QED
    BY <1>1, <1>4, <2>1, <2>2 DEF ArgsSoFar
<1>5. CASE UNCHANGED vars
  <2>1. ~NotADirectory
    BY <1>5, RefusedFacts DEF Refused, vars
  <2> QED
    BY <1>1, <1>5, <2>1 DEF vars, ArgsSoFar
<1>6. ASSUME argc' = argc, call' = NoCall \/ stack' # <<>>,
             stack = <<>> /\ call # NoCall => call.ino \notin Files
      PROVE  ArgsSoFar' = ArgsSoFar
  BY <1>1, <1>2, <1>6 DEF ArgsSoFar
<1>7. CASE Loop \/ ScanFails \/ NoSuchPath \/ EnterDir \/ EnterUnseen
  <2>1. argc' = argc /\ call' = NoCall
    BY <1>7, RefusedFacts DEF Refused, EnterDir, EnterUnseen, Enter
  <2>2. stack = <<>> => ~Loop
    BY DEF Loop, SymhashIsStack, Shape
  <2>3. stack = <<>> => call.ino \notin Files
    BY <1>7, <2>2, WorldsAssumption DEF ScanFails, NoSuchPath, EnterDir, EnterUnseen, Enter
  <2>4. ~NotADirectory \/ ArgsSoFar' = ArgsSoFar
    BY <1>6, <2>1, <2>3
  <2> QED
    BY <1>3, <1>6, <2>1, <2>3
<1>8. ASSUME NEW e, TakeEntry(e) PROVE ArgsSoFar' = ArgsSoFar /\ ~NotADirectory
  <2>1. stack' # <<>> /\ argc' = argc /\ call = NoCall
    BY <1>8, Taken DEF TakeEntry
  <2>2. ~NotADirectory
    BY <2>1, RefusedFacts DEF Refused
  <2> QED
    BY <1>6, <2>1, <2>2
<1>9. CASE Leave
  <2>1. ~NotADirectory
    BY <1>9, RefusedFacts DEF Refused, Leave
  <2> QED
    BY <1>6, <1>9, <2>1 DEF Leave
<1> QED
  BY <1>3, <1>4, <1>5, <1>7, <1>8, <1>9, Cases
     DEF Refused, Handled, EntryUnseen, SkipEntry, ListFile, EnqueueFile, SkipDir, Recurse

(* A file is added to what has been found when it is no longer ahead.      *)
LEMMA FoundStep ==
    ASSUME Shape, Progress, [Next]_vars, errors' = 0
    PROVE  Found' = {q \in FilesSoFar' : ~Pending(q)'}
<1>1. errors = 0
  BY ErrorsStep
<1>2. Found = {q \in FilesSoFar : ~Pending(q)}
  BY <1>1 DEF Progress
<1>3. /\ world' = world /\ opts' = opts /\ \A p : FilesBelow(p)' = FilesBelow(p)
      /\ world \in Worlds /\ argc \in Nat
  BY WorldStays DEF Shape, TypeOK
<1>4. argc' = argc => FilesSoFar' = FilesSoFar
  BY <1>3 DEF FilesSoFar
<1>5. CASE StartPath
  <2>1. /\ argc' = argc + 1 /\ call = NoCall /\ stack = <<>> /\ stack' = <<>>
        /\ call' # NoCall /\ call'.path = <<argc'>> /\ Found' = Found
    BY <1>3, <1>5 DEF StartPath, Idle, NoCall, output, Found
  <2>2. Found = FilesSoFar
    BY <1>2, <2>1 DEF Pending
  <2>3. FilesSoFar' = FilesSoFar \cup FilesBelow(argc')
    BY <1>3, <2>1 DEF FilesSoFar
  <2>4. ASSUME NEW p, NEW q \in FilesBelow(p) PROVE Len(q) \in Nat /\ Len(q) > 1 /\ q[1] = p
    BY <1>3, PathFacts DEF Follows
  <2>5. \A q : Pending(q)' <=> 1 < Len(q) /\ argc' = q[1]
    BY <1>3, <2>1 DEF Pending
  <2>6. ASSUME NEW q \in FilesSoFar PROVE ~Pending(q)'
    <3>1. PICK p \in 1 .. argc : q \in FilesBelow(p)
      BY DEF FilesSoFar
    <3> QED
      BY <1>3, <2>1, <2>4, <2>5, <3>1
  <2>7. ASSUME NEW q \in FilesBelow(argc') PROVE Pending(q)'
    BY <2>4, <2>5
  <2> QED
    BY <2>1, <2>2, <2>3, <2>6, <2>7
<1>6. ASSUME NEW e, ListFile(e) \/ EnqueueFile(e)
      PROVE  Found' = {q \in FilesSoFar' : ~Pending(q)'}
  <2>1. TakeEntry(e) /\ Found' = Found \cup {Path(e)}
    BY <1>3, <1>6 DEF ListFile, EnqueueFile, Found
  <2>2. Path(e) \in FilesSoFar
    <3>1. e \in Kept(Top.ino) /\ stack # <<>>
      BY <2>1, Taken DEF TakeEntry
    <3> QED
      BY <1>1, <1>6, <3>1, StackIsItinerary DEF ListFile, EnqueueFile
  <2>3. \A q \in FilesSoFar : Pending(q)' <=> Pending(q) /\ q # Path(e)
    BY <1>6, PendingFile
  <2>4. FilesSoFar' = FilesSoFar
    BY <1>4, <2>1 DEF TakeEntry
  <2> QED
    BY <1>2, <2>1, <2>2, <2>3, <2>4
<1>7. CASE ~StartPath /\ ~\E e : ListFile(e) \/ EnqueueFile(e)
  <2>1. argc' = argc /\ Found' = Found
    BY <1>3, <1>7 DEF Next, vars, output, Walk, Loop, EnterDir, Enter, EnterUnseen,
         ScanFails, Return, Fails, NotADirectory, NoSuchPath, EntryUnseen, SkipEntry, Recurse,
         SkipDir, TakeEntry, Leave, Found
  <2>2. \A q \in FilesSoFar : Pending(q)' <=> Pending(q)
    BY <1>7, <2>1, PendingStays
  <2> QED
    BY <1>2, <1>4, <2>1, <2>2
<1> QED
  BY <1>5, <1>6, <1>7

(* What was found is counted, each file once.                              *)
LEMMA CountStep ==
    ASSUME Shape, Progress, [Next]_vars, errors' = 0
    PROVE  appends' = Cardinality(Found') + Cardinality(ArgsSoFar')
<1>1. errors = 0 /\ argc \in Nat /\ opts' = opts
  <2>1. errors = 0 /\ opts' = opts
    BY WorldStays, ErrorsStep
  <2>2. argc \in 0 .. Len(world.paths) /\ Len(world.paths) \in Nat
    BY WorldFacts DEF Shape, TypeOK
  <2> QED
    BY <2>1, <2>2
<1>2. /\ Found = {q \in FilesSoFar : ~Pending(q)} /\ IsFiniteSet(Found)
      /\ appends = Cardinality(Found) + Cardinality(ArgsSoFar)
  BY <1>1 DEF Progress, Found
<1>3. IsFiniteSet(ArgsSoFar)
  <2>1. ArgsSoFar \in SUBSET (1 .. argc) /\ IsFiniteSet(1 .. argc)
    BY <1>1, FS_Interval DEF ArgsSoFar
  <2> QED
    BY <2>1, FS_Subset
<1>4. Cardinality(ArgsSoFar) \in Nat /\ Cardinality(Found) \in Nat
  BY <1>2, <1>3, FS_CardinalityType
<1>5. CASE NotADirectory
  <2>1. Found' = Found /\ appends' = appends + 1
    BY <1>1, <1>5, RefusedFacts DEF Refused, NotADirectory, Found
  <2>2. Cardinality(ArgsSoFar') = Cardinality(ArgsSoFar) + 1
    BY <1>3, <1>5, ArgsStep, FS_AddElement
  <2> QED
    BY <1>2, <1>4, <2>1, <2>2
<1>6. ASSUME NEW e, ListFile(e) \/ EnqueueFile(e)
      PROVE  appends' = Cardinality(Found') + Cardinality(ArgsSoFar')
  <2>1. TakeEntry(e) /\ Found' = Found \cup {Path(e)} /\ appends' = appends + 1 /\ call = NoCall
    BY <1>1, <1>6 DEF ListFile, EnqueueFile, Found, TakeEntry
  <2>2. Path(e) \notin Found
    <3>1. /\ Len(Path(e)) = Len(stack) + 1 /\ Len(stack) \in Nat \ {0}
          /\ \A j \in 1 .. Len(stack) : Path(e)[j] = Top.path[j]
          /\ Path(e)[Len(stack) + 1] = e.name
      BY <2>1, PathOfEntry
    <3>2. Ahead(Path(e))
      BY <2>1, <3>1, AheadTaken DEF Through
    <3> QED
      BY <1>2, <3>2 DEF Pending, Ahead
  <2>3. Cardinality(Found') = Cardinality(Found) + 1
    BY <1>2, <2>1, <2>2, FS_AddElement
  <2>4. ArgsSoFar' = ArgsSoFar
    BY <2>1, ArgsStep, RefusedFacts DEF Refused
  <2> QED
    BY <1>2, <1>4, <2>1, <2>3, <2>4
<1>7. CASE ~NotADirectory /\ ~\E e : ListFile(e) \/ EnqueueFile(e)
  <2>1. UNCHANGED <<appends, enqueued, listed>>
    BY <1>7 DEF Next, vars, output, Walk, StartPath, Loop, EnterDir, Enter, EnterUnseen,
         ScanFails, Return, Fails, NoSuchPath, EntryUnseen, SkipEntry, Recurse,
         SkipDir, TakeEntry, Leave
  <2>2. Found' = Found /\ ArgsSoFar' = ArgsSoFar
    BY <1>1, <1>7, <2>1, ArgsStep DEF Found
  <2> QED
    BY <1>2, <2>1, <2>2
<1> QED
  BY <1>5, <1>6, <1>7

(* Every step keeps what is said of the files found and those still ahead. *)
LEMMA ProgressStep ==
    ASSUME Shape, Progress, [Next]_vars
    PROVE  Progress'
<1>1. opts' = opts
  BY WorldStays
<1>2. /\ IsFiniteSet(enqueued) /\ IsFiniteSet(listed)
      /\ (IF opts.match_files THEN enqueued ELSE listed) = {}
      /\ searched = {<<p>> : p \in ArgsSoFar}
  BY DEF Progress
<1>3. /\ IsFiniteSet(enqueued') /\ IsFiniteSet(listed')
      /\ (IF opts.match_files THEN enqueued' ELSE listed') = {}
  <2>1. CASE UNCHANGED <<enqueued, listed>>
    BY <1>2, <2>1
  <2>2. ASSUME NEW e, ListFile(e) \/ EnqueueFile(e)
        PROVE  /\ IsFiniteSet(enqueued') /\ IsFiniteSet(listed')
               /\ (IF opts.match_files THEN enqueued' ELSE listed') = {}
    BY <1>2, <2>2, FS_AddElement DEF ListFile, EnqueueFile
  <2> QED
    BY <2>1, <2>2
       DEF Next, vars, output, Walk, StartPath, Loop, EnterDir, Enter, EnterUnseen,
         ScanFails, Return, Fails, NotADirectory, NoSuchPath, EntryUnseen, SkipEntry, Recurse,
         SkipDir, TakeEntry, Leave
<1>4. searched' = {<<p>> : p \in ArgsSoFar'}
  <2>1. CASE NotADirectory
    <3>1. searched' = searched \cup {<<argc>>} /\ ArgsSoFar' = ArgsSoFar \cup {argc}
      BY <2>1, ArgsStep DEF NotADirectory
    <3> QED
      BY <1>2, <3>1
  <2>2. CASE ~NotADirectory
    <3>1. searched' = searched
      BY <2>2 DEF Next, vars, output, Walk, StartPath, Loop, EnterDir, Enter, EnterUnseen,
           ScanFails, Return, Fails, NoSuchPath, EntryUnseen, SkipEntry, ListFile,
           EnqueueFile, Recurse, SkipDir, TakeEntry, Leave
    <3> QED
      BY <1>2, <2>2, <3>1, ArgsStep
  <2> QED
    BY <2>1, <2>2
<1> QED
  BY <1>1, <1>3, <1>4, FoundStep, CountStep DEF Progress

(* A file alone on the command line gives the workers nothing to do.       *)
LEMMA HeadingOffStep ==
    ASSUME Shape, HeadingOff, [Next]_vars
    PROVE  HeadingOff'
<1>1. OnlyAFile' = OnlyAFile /\ world' = world /\ opts' = opts
  BY WorldStays DEF OnlyAFile
<1>2. heading' # <<opts'.format.print_path, opts'.format.print_line_numbers>> => OnlyAFile
  <2>1. CASE NotADirectory /\ Alone
    <3>1. argc \in 1 .. Len(world.paths) /\ world.paths[argc].ino \in Files
      BY <2>1, ArgsStep
    <3>2. Len(world.paths) = 1
      BY <2>1 DEF Alone
    <3>3. argc = 1
      BY <3>1, <3>2
    <3> QED
      BY <3>1, <3>2, <3>3 DEF OnlyAFile
  <2>2. CASE UNCHANGED heading
    BY <1>1, <2>2, Zenon DEF HeadingOff
  <2> QED
    BY <2>1, <2>2, HeadingStep, Zenon
<1>3. OnlyAFile => enqueued' = {}
  <2>1. ASSUME NEW e, EnqueueFile(e) PROVE ~OnlyAFile
    <3>1. TakeEntry(e) /\ stack # <<>>
      BY <2>1 DEF EnqueueFile, TakeEntry
    <3>2. argc \in 1 .. Len(world.paths) /\ stack[1].ino = world.paths[argc].ino
      BY <3>1 DEF Shape, Frames
    <3>3. stack[1].ino \in Dirs
      BY <3>1, Taken DEF Shape, TypeOK
    <3> QED
      BY <3>2, <3>3, WorldsAssumption DEF OnlyAFile
  <2>2. CASE ~\E e : EnqueueFile(e)
    <3>1. enqueued' = enqueued
      BY <2>2 DEF Next, vars, output, Walk, StartPath, Loop, EnterDir, Enter, EnterUnseen,
           ScanFails, Return, Fails, NotADirectory, NoSuchPath, EntryUnseen,
           SkipEntry, ListFile, Recurse, SkipDir, TakeEntry, Leave
    <3> QED
      BY <3>1 DEF HeadingOff
  <2> QED
    BY <2>1, <2>2
<1> QED
  BY <1>1, <1>2, <1>3 DEF HeadingOff

-----------------------------------------------------------------------------
(***************************************************************************)
(* The theorems.                                                           *)
(***************************************************************************)
LEMMA InitInvariant ==
    ASSUME Init
    PROVE  IInv
<1>1. argc = 0 /\ call = NoCall /\ stack = <<>> /\ errors = 0 /\ world \in Worlds
  BY DEF Init
<1>2. TypeOK /\ SymhashIsStack
  BY <1>1, WorldsAssumption, WorldFacts DEF Init, TypeOK, SymhashIsStack
<1>3. Frames /\ Calling /\ Device
  BY <1>1 DEF Frames, Calling, Device
<1>4. ArgsSoFar = {} /\ FilesSoFar = {}
  BY <1>1 DEF ArgsSoFar, FilesSoFar
<1>5. Progress
  BY <1>4, FS_EmptySet DEF Init, Progress, Found
<1>6. HeadingOff
  BY DEF Init, HeadingOff, heading
<1> QED
  BY <1>2, <1>3, <1>5, <1>6 DEF IInv, Shape

(* The inductive invariant of the walk: the stack is a way down from the   *)
(* current path, and what is not ahead has been found, each file once.     *)
THEOREM Invariance == Spec => []IInv
<1>1. Init => IInv
  BY InitInvariant
<1>2. IInv /\ [Next]_vars => IInv'
  BY ShapeStep, ProgressStep, HeadingOffStep DEF IInv
<1> QED
  BY <1>1, <1>2, PTL DEF Spec

(* Every variable of the walk always has its type.                         *)
THEOREM TypeCorrect == Spec => []TypeOK
<1>1. IInv => TypeOK
  BY DEF IInv, Shape
<1> QED
  BY <1>1, Invariance, PTL

(* symhash always holds the keys of exactly the directories search_dir()   *)
(* is inside of, whatever the file system, each once: check_symloop_enter()*)
(* and check_symloop_leave() are balanced on every way out of search_dir().*)
THEOREM SymhashCorrect == Spec => []SymhashIsStack
<1>1. IInv => SymhashIsStack
  BY DEF IInv, Shape
<1> QED
  BY <1>1, Invariance, PTL

(* main() writes opts.print_path and opts.print_line_numbers without a     *)
(* lock only when no worker will ever have a file to print: the one path   *)
(* of the command line is a file.                                          *)
THEOREM HeadingsCorrect == Spec => []HeadingOffAlone
<1>1. IInv => HeadingOffAlone
  <2> SUFFICES ASSUME IInv,
                      heading # <<opts.format.print_path, opts.format.print_line_numbers>>
               PROVE  enqueued = {} /\ Cardinality(searched) <= 1
    BY DEF HeadingOffAlone
  <2>1. Len(world.paths) = 1 /\ enqueued = {} /\ argc \in 0 .. Len(world.paths)
    BY DEF IInv, Shape, TypeOK, HeadingOff, OnlyAFile
  <2>2. searched = {<<p>> : p \in ArgsSoFar} /\ ArgsSoFar \subseteq {1}
    BY <2>1 DEF IInv, Progress, ArgsSoFar
  <2>3. searched = {} \/ searched = {<<1>>}
    BY <2>2
  <2>4. Cardinality({}) = 0 /\ Cardinality({<<1>>}) = 1
    BY FS_EmptySet, FS_Singleton
  <2> QED
    BY <2>1, <2>3, <2>4
<1> QED
  BY <1>1, Invariance, PTL

(* A walk that has ended without an error has given to the workers, or with*)
(* -g to the printer, the files of the itineraries and no others, each     *)
(* once, whatever links and loops the file system has: search_dir() misses *)
(* nothing, and finds nothing twice.  (Of what a link to another device    *)
(* leads to under --one-device it says nothing.)                           *)
THEOREM WalkCorrect == Spec => []WalkComplete
<1>1. IInv => WalkComplete
  <2> SUFFICES ASSUME IInv, Finished, errors = 0
               PROVE  LET args == {p \in PathNumbers : world.paths[p].ino \in Files}
                      IN  /\ UNION {SurelyBelow(p) : p \in PathNumbers} \subseteq Found
                          /\ Found \subseteq UNION {FilesBelow(p) : p \in PathNumbers}
                          /\ (IF opts.match_files THEN enqueued ELSE listed) = {}
                          /\ searched = {<<p>> : p \in args}
                          /\ appends = Cardinality(Found) + Cardinality(args)
    BY DEF WalkComplete, Found
  <2>1. call = NoCall /\ stack = <<>> /\ argc = Len(world.paths)
    BY DEF Finished, Idle
  <2>2. FilesSoFar = UNION {FilesBelow(p) : p \in PathNumbers}
    BY <2>1 DEF FilesSoFar, PathNumbers
  <2>3. ArgsSoFar = {p \in PathNumbers : world.paths[p].ino \in Files}
    BY <2>1 DEF ArgsSoFar, PathNumbers
  <2>4. \A q : ~Pending(q)
    BY <2>1 DEF Pending
  <2>5. /\ Found = FilesSoFar /\ (IF opts.match_files THEN enqueued ELSE listed) = {}
        /\ searched = {<<p>> : p \in ArgsSoFar}
        /\ appends = Cardinality(Found) + Cardinality(ArgsSoFar)
    BY <2>4 DEF IInv, Progress
  <2>6. \A p : SurelyBelow(p) \subseteq FilesBelow(p)
    BY DEF SurelyBelow, FilesBelow
  <2>7. UNION {SurelyBelow(p) : p \in PathNumbers} \subseteq Found
    BY <2>2, <2>5, <2>6
  <2> QED
    BY <2>2, <2>3, <2>5, <2>7, Zenon
<1> QED
  BY <1>1, Invariance, PTL
=============================================================================
