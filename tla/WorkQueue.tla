----------------------------- MODULE WorkQueue ------------------------------
(***************************************************************************)
(* The thread pool of ag: main() creates the workers, walks the paths and  *)
(* appends every file found to a linked list; search_file_worker() takes   *)
(* files off the list.  One mutex (work_queue_mtx) guards the list and the *)
(* flag done_adding_files, one condition variable (files_ready) announces  *)
(* both.                                                                   *)
(*                                                                         *)
(* A node of the list is the number of its allocation: node n belongs to   *)
(* the n-th file the walk found.  0 is the null pointer, and Garbage is    *)
(* what a link holds before the memory is written and after it is freed.   *)
(* Which files the walk finds is DirWalk's business; here it may find any  *)
(* number.                                                                 *)
(*                                                                         *)
(* A definition whose name is that of an action, an underscore and a word  *)
(* is the action with a bug in it: no specification uses it, it is there   *)
(* to show that a property notices.                                        *)
(***************************************************************************)
EXTENDS Integers, FiniteSets

CONSTANTS
    Workers,              \* the worker threads
    Main,                 \* the main thread
    Free,                 \* "no thread", the owner of an unlocked mutex
    MaxJobs,              \* bound on the number of files one walk finds
    MaxSpurious           \* bound on the wakeups nobody asked for

ASSUME ThreadsAssumption ==
    /\ Workers # {} /\ IsFiniteSet(Workers)     \* main.c:81, at least one
    /\ Main \notin Workers
    /\ Free \notin Workers \cup {Main}

ASSUME BoundsAssumption == MaxJobs \in Nat /\ MaxSpurious \in Nat

VARIABLES
    work_queue,           \* first node of the list
    work_queue_tail,      \* last node of the list
    next,                 \* the link of every node
    heap,                 \* the nodes that are allocated
    done_adding_files,
    work_queue_mtx,       \* the owner of the mutex
    pc,                   \* where every thread is
    queue_item,           \* the node every worker holds
    found,                \* how many nodes the walk has allocated
    searched,             \* how often search_file() finished for each node
    spurious,             \* how many spurious wakeups there were
    outcome               \* "running", or how the process ended

listVars == <<work_queue, work_queue_tail, next>>
vars == <<listVars, heap, done_adding_files, work_queue_mtx, pc, queue_item,
          found, searched, spurious, outcome>>

NULL    == 0
Garbage == -1
Nodes   == 1 .. MaxJobs
Threads == Workers \cup {Main}

MainPC   == {"create", "walk", "enqueue", "link", "signal", "unlock",
             "finish", "set_done", "broadcast", "unlock_done", "join",
             "joined"}
WorkerPC == {"unborn", "lock", "check", "waiting", "unlock", "search",
             "free", "exited"}

Waiters == {w \in Workers : pc[w] = "waiting"}

Init ==
    /\ work_queue = NULL
    /\ work_queue_tail = NULL
    /\ next = [n \in Nodes |-> Garbage]
    /\ heap = {}
    /\ done_adding_files = FALSE
    /\ work_queue_mtx = Free
    /\ pc = [t \in Threads |-> IF t = Main THEN "create" ELSE "unborn"]
    /\ queue_item = [w \in Workers |-> NULL]
    /\ found = 0
    /\ searched = [n \in Nodes |-> 0]
    /\ spurious = 0
    /\ outcome = "running"

(***************************************************************************)
(* The steps every thread shares.                                          *)
(***************************************************************************)
Goto(t, from, to) == pc[t] = from /\ pc' = [pc EXCEPT ![t] = to]

Lock(t, from, to) ==
    /\ Goto(t, from, to)
    /\ work_queue_mtx = Free
    /\ work_queue_mtx' = t
    /\ UNCHANGED <<listVars, heap, done_adding_files, queue_item, found,
                   searched, spurious, outcome>>

Unlock(t, from, to) ==
    /\ Goto(t, from, to)
    /\ work_queue_mtx' = Free
    /\ UNCHANGED <<listVars, heap, done_adding_files, queue_item, found,
                   searched, spurious, outcome>>

(* die(), or the exit(1) of zfile_read(), ends the process and with it     *)
(* every other thread, wherever that is.  It is called while files are     *)
(* searched (allocation, short read, bad archive), while the walk          *)
(* allocates, and when a thread cannot be created.                         *)
Die(t) ==
    /\ pc[t] \in {"create", "walk", "search"}
    /\ outcome' = "died"
    /\ UNCHANGED <<listVars, heap, done_adding_files, work_queue_mtx, pc,
                   queue_item, found, searched, spurious>>

(***************************************************************************)
(* The main thread.                                                        *)
(***************************************************************************)
CreateWorker(w) ==
    /\ pc[Main] = "create"
    /\ pc[w] = "unborn"
    /\ LET last == \A v \in Workers \ {w} : pc[v] # "unborn"
       IN  pc' = [pc EXCEPT ![w] = "lock",
                            ![Main] = IF last THEN "walk" ELSE "create"]
    /\ UNCHANGED <<listVars, heap, done_adding_files, work_queue_mtx,
                   queue_item, found, searched, spurious, outcome>>

(* search_dir() allocates a node for a file it keeps.                      *)
FindFile_LinkNotCleared ==
    /\ found < MaxJobs
    /\ Goto(Main, "walk", "enqueue")
    /\ found' = found + 1
    /\ heap' = heap \cup {found'}
    /\ UNCHANGED <<listVars, done_adding_files, work_queue_mtx, queue_item,
                   searched, spurious, outcome>>

FindFile ==
    /\ found < MaxJobs
    /\ Goto(Main, "walk", "enqueue")
    /\ found' = found + 1
    /\ heap' = heap \cup {found'}
    /\ next' = [next EXCEPT ![found'] = NULL]
    /\ UNCHANGED <<work_queue, work_queue_tail, done_adding_files,
                   work_queue_mtx, queue_item, searched, spurious, outcome>>

LinkNode ==
    /\ Goto(Main, "link", "signal")
    /\ IF work_queue_tail = NULL
       THEN work_queue' = found /\ UNCHANGED next
       ELSE next' = [next EXCEPT ![work_queue_tail] = found]
            /\ UNCHANGED work_queue
    /\ work_queue_tail' = found
    /\ UNCHANGED <<heap, done_adding_files, work_queue_mtx, queue_item,
                   found, searched, spurious, outcome>>

(* pthread_cond_signal() wakes one waiter if there is one.  A woken worker *)
(* has to take the mutex again before pthread_cond_wait() returns.         *)
Signal_Forgotten ==
    /\ Goto(Main, "signal", "unlock")
    /\ UNCHANGED <<listVars, heap, done_adding_files, work_queue_mtx,
                   queue_item, found, searched, spurious, outcome>>

Signal ==
    /\ pc[Main] = "signal"
    /\ \/ /\ Waiters = {}
          /\ pc' = [pc EXCEPT ![Main] = "unlock"]
       \/ \E w \in Waiters :
              pc' = [pc EXCEPT ![Main] = "unlock", ![w] = "lock"]
    /\ UNCHANGED <<listVars, heap, done_adding_files, work_queue_mtx,
                   queue_item, found, searched, spurious, outcome>>

EndWalk ==
    /\ Goto(Main, "walk", "finish")
    /\ UNCHANGED <<listVars, heap, done_adding_files, work_queue_mtx,
                   queue_item, found, searched, spurious, outcome>>

SetDone ==
    /\ Goto(Main, "set_done", "broadcast")
    /\ done_adding_files' = TRUE
    /\ UNCHANGED <<listVars, heap, work_queue_mtx, queue_item, found,
                   searched, spurious, outcome>>

Broadcast_WakesOne ==
    /\ pc[Main] = "broadcast"
    /\ \E t \in Threads :
           pc' = [pc EXCEPT ![Main] = "unlock_done",
                            ![t] = IF t \in Waiters THEN "lock" ELSE @]
    /\ UNCHANGED <<listVars, heap, done_adding_files, work_queue_mtx,
                   queue_item, found, searched, spurious, outcome>>

Broadcast ==
    /\ pc[Main] = "broadcast"
    /\ pc' = [t \in Threads |->
                 CASE t = Main       -> "unlock_done"
                   [] t \in Waiters  -> "lock"
                   [] OTHER          -> pc[t]]
    /\ UNCHANGED <<listVars, heap, done_adding_files, work_queue_mtx,
                   queue_item, found, searched, spurious, outcome>>

(* pthread_join() of all the workers; then main() returns.                 *)
Join ==
    /\ \A w \in Workers : pc[w] = "exited"
    /\ Goto(Main, "join", "joined")
    /\ outcome' = "returned"
    /\ UNCHANGED <<listVars, heap, done_adding_files, work_queue_mtx,
                   queue_item, found, searched, spurious>>

MainStep ==
    \/ \E w \in Workers : CreateWorker(w)
    \/ FindFile
    \/ Lock(Main, "enqueue", "link")
    \/ LinkNode
    \/ Signal
    \/ Unlock(Main, "unlock", "walk")
    \/ EndWalk
    \/ Lock(Main, "finish", "set_done")
    \/ SetDone
    \/ Broadcast
    \/ Unlock(Main, "unlock_done", "join")
    \/ Join

(***************************************************************************)
(* A worker.  At "check" it owns the mutex and tests work_queue == NULL.   *)
(***************************************************************************)
Dequeue_KeepsHead(w) ==
    /\ work_queue # NULL
    /\ Goto(w, "check", "unlock")
    /\ queue_item' = [queue_item EXCEPT ![w] = work_queue]
    /\ UNCHANGED <<listVars, heap, done_adding_files, work_queue_mtx, found,
                   searched, spurious, outcome>>

Dequeue_KeepsTail(w) ==
    /\ work_queue # NULL
    /\ Goto(w, "check", "unlock")
    /\ queue_item' = [queue_item EXCEPT ![w] = work_queue]
    /\ work_queue' = next[work_queue]
    /\ UNCHANGED <<work_queue_tail, next, heap, done_adding_files,
                   work_queue_mtx, found, searched, spurious, outcome>>

Dequeue(w) ==
    /\ work_queue # NULL
    /\ Goto(w, "check", "unlock")
    /\ queue_item' = [queue_item EXCEPT ![w] = work_queue]
    /\ work_queue' = next[work_queue]
    /\ work_queue_tail' = IF work_queue' = NULL THEN NULL ELSE work_queue_tail
    /\ UNCHANGED <<next, heap, done_adding_files, work_queue_mtx, found,
                   searched, spurious, outcome>>

Exit_LeavesQueue(w) ==
    /\ done_adding_files
    /\ Unlock(w, "check", "exited")

Exit(w) ==
    /\ work_queue = NULL
    /\ done_adding_files
    /\ Unlock(w, "check", "exited")

(* pthread_cond_wait() gives up the mutex and blocks in one step.          *)
Wait(w) ==
    /\ work_queue = NULL
    /\ ~done_adding_files
    /\ Unlock(w, "check", "waiting")

SpuriousWakeup(w) ==
    /\ spurious < MaxSpurious
    /\ Goto(w, "waiting", "lock")
    /\ spurious' = spurious + 1
    /\ UNCHANGED <<listVars, heap, done_adding_files, work_queue_mtx,
                   queue_item, found, searched, outcome>>

SearchFile(w) ==
    /\ Goto(w, "search", "free")
    /\ searched' = [searched EXCEPT ![queue_item[w]] = @ + 1]
    /\ UNCHANGED <<listVars, heap, done_adding_files, work_queue_mtx,
                   queue_item, found, spurious, outcome>>

FreeItem_Leaks(w) ==
    /\ Goto(w, "free", "lock")
    /\ queue_item' = [queue_item EXCEPT ![w] = NULL]
    /\ UNCHANGED <<listVars, heap, done_adding_files, work_queue_mtx, found,
                   searched, spurious, outcome>>

FreeItem(w) ==
    /\ Goto(w, "free", "lock")
    /\ heap' = heap \ {queue_item[w]}
    /\ next' = [next EXCEPT ![queue_item[w]] = Garbage]
    /\ queue_item' = [queue_item EXCEPT ![w] = NULL]
    /\ UNCHANGED <<work_queue, work_queue_tail, done_adding_files,
                   work_queue_mtx, found, searched, spurious, outcome>>

WorkerStep(w) ==
    \/ Lock(w, "lock", "check")
    \/ Dequeue(w)
    \/ Exit(w)
    \/ Wait(w)
    \/ Unlock(w, "unlock", "search")
    \/ SearchFile(w)
    \/ FreeItem(w)

-----------------------------------------------------------------------------
Running ==
    /\ outcome = "running"
    /\ \/ MainStep
       \/ \E w \in Workers : WorkerStep(w) \/ SpuriousWakeup(w)
       \/ \E t \in Threads : Die(t)

(* The process is over: nothing happens any more.                          *)
Over == outcome # "running" /\ UNCHANGED vars

Next == Running \/ Over

Spec == Init /\ [][Next]_vars

(* The operating system keeps running every thread that can run.  A mutex  *)
(* is not fair, but the walk and the spurious wakeups are finite, so no    *)
(* thread can lose the race for it for ever.                               *)
Fairness ==
    /\ WF_vars(outcome = "running" /\ MainStep)
    /\ \A w \in Workers : WF_vars(outcome = "running" /\ WorkerStep(w))

FairSpec == Spec /\ Fairness
-----------------------------------------------------------------------------
(***************************************************************************)
(* Correctness.                                                            *)
(***************************************************************************)

(* Every variable holds a value of its type.                               *)
TypeOK ==
    /\ work_queue \in Nodes \cup {NULL}
    /\ work_queue_tail \in Nodes \cup {NULL}
    /\ next \in [Nodes -> Nodes \cup {NULL, Garbage}]
    /\ heap \in SUBSET Nodes
    /\ done_adding_files \in BOOLEAN
    /\ work_queue_mtx \in Threads \cup {Free}
    /\ pc \in [Threads -> MainPC \cup WorkerPC]
    /\ pc[Main] \in MainPC /\ \A w \in Workers : pc[w] \in WorkerPC
    /\ queue_item \in [Workers -> Nodes \cup {NULL}]
    /\ found \in 0 .. MaxJobs
    /\ searched \in [Nodes -> Nat]
    /\ spurious \in 0 .. MaxSpurious
    /\ outcome \in {"running", "returned", "died"}

(* Where a thread is between pthread_mutex_lock() and the unlock.          *)
Critical ==
    {"link", "signal", "unlock", "set_done", "broadcast", "unlock_done",
     "check"}

(* A thread is in a critical section exactly while it owns the mutex, so   *)
(* no two threads ever touch the list or the flag together.                *)
MutexHeld ==
    \A t \in Threads : pc[t] \in Critical <=> work_queue_mtx = t

(* The nodes 1 .. Linked have been appended to the list.                   *)
Linked == IF pc[Main] \in {"enqueue", "link"} THEN found - 1 ELSE found

Queued == {n \in Nodes : work_queue # NULL /\ work_queue <= n /\ n <= Linked}
Held   == {n \in Nodes : \E w \in Workers : queue_item[w] = n}

(* The pointers form one list: head and tail are null together, the links  *)
(* lead from the head through every file not handed out yet, in the order  *)
(* they were found, and end at the tail.  A tail left behind by the worker *)
(* that takes the last node would make the next append go nowhere.         *)
QueueWellFormed ==
    /\ work_queue = NULL <=> work_queue_tail = NULL
    /\ work_queue # NULL =>
           /\ work_queue <= Linked
           /\ work_queue_tail = Linked
           /\ \A n \in Queued : next[n] = IF n = Linked THEN NULL ELSE n + 1

(* A node is owned by the list, by one worker, or by main() before it is   *)
(* appended, and only such a node is allocated: nobody follows a pointer   *)
(* to freed memory, frees twice, or drops the last pointer to a node.      *)
NodeOwnership ==
    /\ heap = Queued \cup Held \cup (Linked + 1) .. found
    /\ Queued \cap Held = {}
    /\ Held \subseteq 1 .. Linked
    /\ \A v, w \in Workers :
           v # w /\ queue_item[v] = queue_item[w] => queue_item[v] = NULL

(* search_file() runs at most once for each file, and it has run for every *)
(* file that has left both the list and the hands of the workers.          *)
SearchedOnce ==
    \A n \in Nodes :
        /\ searched[n] <= 1
        /\ searched[n] = 0 <=>
               \/ n > Linked
               \/ n \in Queued
               \/ \E w \in Workers :
                      queue_item[w] = n /\ pc[w] \in {"unlock", "search"}

(* When main() returns, every file the walk found has been searched once   *)
(* and every node has been freed.                                          *)
AllSearchedAtReturn ==
    outcome = "returned" =>
        /\ \A n \in 1 .. found : searched[n] = 1
        /\ heap = {}

(* A file in the list has somebody coming for it: once its signal is sent, *)
(* not all the workers sleep or have left.                                 *)
NoLostWakeup ==
    work_queue # NULL /\ pc[Main] # "signal" =>
        \E w \in Workers : pc[w] \notin {"waiting", "exited"}

(* After the broadcast no worker sleeps: pthread_join() never waits for a  *)
(* thread nobody will wake.                                                *)
NoSleeperAtJoin ==
    pc[Main] \in {"unlock_done", "join", "joined"} => Waiters = {}

(* The program ends: the workers and main() never wait for one another for *)
(* ever, however the threads are scheduled.                                *)
Termination == <>(outcome # "running")

(***************************************************************************)
(* The thread pool implements SearchPool: files are handed out in the      *)
(* order found, each to one worker, and main() returns after the last.     *)
(***************************************************************************)
Stage(j) ==
    CASE j > Linked                            -> "unknown"
      [] j <= Linked /\ searched[j] > 0        -> "searched"
      [] j <= Linked /\ searched[j] = 0 /\ j \in Held    -> "taken"
      [] j <= Linked /\ searched[j] = 0 /\ j \notin Held -> "queued"

Pool == INSTANCE SearchPool WITH stage <- [j \in Nodes |-> Stage(j)]

(* Every step of the threads is a step of SearchPool or invisible to it.   *)
ImplementsPool == Pool!PoolSpec
=============================================================================
