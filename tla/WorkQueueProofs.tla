-------------------------- MODULE WorkQueueProofs ---------------------------
(***************************************************************************)
(* Proofs about the thread pool, for any finite number of workers, files   *)
(* and spurious wakeups.                                                   *)
(*                                                                         *)
(* The safety properties of WorkQueue hold together with three facts about *)
(* the control state: which flags and list states go with which pc of      *)
(* main() (Phases), when a worker holds a node (Holding), and the type     *)
(* invariant.  Their conjunction IInv is inductive: the shape of the list  *)
(* is needed for who owns its nodes, ownership for what has been searched, *)
(* and the mutex for all of them, as LinkNode and Dequeue are steps of     *)
(* their own between a lock and an unlock.                                 *)
(***************************************************************************)
EXTENDS WorkQueue, TLAPS

(* What goes with the place main() has reached.                            *)
Phases ==
    /\ done_adding_files <=>
           pc[Main] \in {"broadcast", "unlock_done", "join", "joined"}
    /\ pc[Main] = "create" => found = 0
    /\ pc[Main] \in {"enqueue", "link"} => found > 0 /\ next[found] = NULL
    /\ pc[Main] = "joined" => \A w \in Workers : pc[w] = "exited"
    /\ outcome = "returned" => pc[Main] = "joined"
    /\ \A w \in Workers :
           /\ pc[w] = "unborn" => pc[Main] = "create"
           /\ pc[w] = "exited" => done_adding_files /\ work_queue = NULL

(* A worker holds a node from the dequeue to the free().                   *)
Holding ==
    \A w \in Workers :
        pc[w] \in {"unlock", "search", "free"} <=> queue_item[w] # NULL

(* The inductive invariant.                                                *)
IInv ==
    /\ TypeOK
    /\ Phases
    /\ Holding
    /\ MutexHeld
    /\ QueueWellFormed
    /\ NodeOwnership
    /\ SearchedOnce
    /\ NoLostWakeup
    /\ NoSleeperAtJoin

-----------------------------------------------------------------------------
(* Init establishes the inductive invariant.                               *)
LEMMA InitIInv == Init => IInv
<1> SUFFICES ASSUME Init PROVE IInv
  OBVIOUS
<1> USE ThreadsAssumption, BoundsAssumption
    DEF Init, Threads, Nodes, NULL, Garbage, Linked, Queued, Held, MainPC,
        WorkerPC, Critical
<1>1. TypeOK
  <2>1. pc \in [Threads -> MainPC \cup WorkerPC]
    OBVIOUS
  <2>2. pc[Main] \in MainPC /\ \A w \in Workers : pc[w] \in WorkerPC
    OBVIOUS
  <2>3. /\ next \in [Nodes -> Nodes \cup {NULL, Garbage}]
        /\ queue_item \in [Workers -> Nodes \cup {NULL}]
        /\ searched \in [Nodes -> Nat]
    OBVIOUS
  <2>4. /\ heap \in SUBSET Nodes
        /\ found \in 0 .. MaxJobs /\ spurious \in 0 .. MaxSpurious
    OBVIOUS
  <2>5. /\ work_queue \in Nodes \cup {NULL}
        /\ work_queue_tail \in Nodes \cup {NULL}
        /\ done_adding_files \in BOOLEAN
        /\ work_queue_mtx \in Threads \cup {Free}
        /\ outcome \in {"running", "returned", "died"}
    OBVIOUS
  <2> QED
    BY <2>1, <2>2, <2>3, <2>4, <2>5, Zenon DEF TypeOK
<1>2. Phases /\ Holding /\ MutexHeld
  BY DEF Phases, Holding, MutexHeld
<1>3. QueueWellFormed /\ NodeOwnership /\ SearchedOnce
  BY DEF QueueWellFormed, NodeOwnership, SearchedOnce
<1>4. NoLostWakeup /\ NoSleeperAtJoin
  BY DEF NoLostWakeup, NoSleeperAtJoin
<1> QED
  BY <1>1, <1>2, <1>3, <1>4 DEF IInv

(* Every step keeps the inductive invariant.  The actions are taken in the *)
(* order of Next; under each are the conjuncts it can disturb.             *)
LEMMA NextIInv == IInv /\ [Next]_vars => IInv'
<1> SUFFICES ASSUME IInv, [Next]_vars PROVE IInv'
  OBVIOUS
<1> USE ThreadsAssumption, BoundsAssumption
    DEF IInv, Threads, Nodes, NULL, Garbage, Waiters, Linked, Queued, Held,
        Critical, MainPC, WorkerPC, Goto, listVars
<1>1. ASSUME NEW w \in Workers, CreateWorker(w) PROVE IInv'
  <2>1. TypeOK'
    BY <1>1 DEF CreateWorker, TypeOK
  <2>2. Phases' /\ Holding' /\ MutexHeld'
    BY <1>1 DEF CreateWorker, TypeOK, Phases, Holding, MutexHeld
  <2>3. QueueWellFormed' /\ NodeOwnership' /\ SearchedOnce'
    BY <1>1 DEF CreateWorker, TypeOK, Phases, Holding, MutexHeld,
       QueueWellFormed, NodeOwnership, SearchedOnce
  <2>4. NoLostWakeup' /\ NoSleeperAtJoin'
    BY <1>1 DEF CreateWorker, TypeOK, Phases, MutexHeld, NoLostWakeup,
       NoSleeperAtJoin
  <2> QED
    BY <2>1, <2>2, <2>3, <2>4
<1>2. ASSUME FindFile PROVE IInv'
  <2>1. TypeOK'
    BY <1>2 DEF FindFile, TypeOK
  <2>2. Phases' /\ Holding' /\ MutexHeld'
    BY <1>2 DEF FindFile, TypeOK, Phases, Holding, MutexHeld
  <2>3. QueueWellFormed'
    BY <1>2 DEF FindFile, TypeOK, Phases, MutexHeld, QueueWellFormed,
       NodeOwnership
  <2>4. NodeOwnership'
    BY <1>2 DEF FindFile, TypeOK, Phases, Holding, QueueWellFormed,
       NodeOwnership
  <2>5. SearchedOnce'
    BY <1>2 DEF FindFile, TypeOK, Phases, Holding, QueueWellFormed,
       NodeOwnership, SearchedOnce
  <2>6. NoLostWakeup' /\ NoSleeperAtJoin'
    BY <1>2 DEF FindFile, TypeOK, Phases, MutexHeld, NoLostWakeup,
       NoSleeperAtJoin
  <2> QED
    BY <2>1, <2>2, <2>3, <2>4, <2>5, <2>6
<1>3. ASSUME Lock(Main, "enqueue", "link") PROVE IInv'
  <2>1. TypeOK'
    BY <1>3 DEF Lock, TypeOK
  <2>2. Phases' /\ Holding' /\ MutexHeld'
    BY <1>3 DEF Lock, TypeOK, Phases, Holding, MutexHeld
  <2>3. QueueWellFormed' /\ NodeOwnership' /\ SearchedOnce'
    BY <1>3 DEF Lock, TypeOK, Phases, Holding, MutexHeld, QueueWellFormed,
       NodeOwnership, SearchedOnce
  <2>4. NoLostWakeup' /\ NoSleeperAtJoin'
    BY <1>3 DEF Lock, TypeOK, Phases, MutexHeld, NoLostWakeup,
       NoSleeperAtJoin
  <2> QED
    BY <2>1, <2>2, <2>3, <2>4
<1>4. ASSUME LinkNode PROVE IInv'
  <2>1. TypeOK'
    <3>1. found \in Nodes
      BY <1>4 DEF LinkNode, TypeOK, Phases
    <3>2. next' \in [Nodes -> Nodes \cup {NULL, Garbage}]
      BY <1>4, <3>1 DEF LinkNode, TypeOK
    <3> QED
      BY <1>4, <3>1, <3>2 DEF LinkNode, TypeOK
  <2>2. Phases' /\ Holding' /\ MutexHeld'
    BY <1>4 DEF LinkNode, TypeOK, Phases, Holding, MutexHeld
  <2>3. QueueWellFormed'
    <3>1. Linked' = found /\ Linked = found - 1 /\ found \in Nodes
      BY <1>4 DEF LinkNode, TypeOK, Phases
    <3>2. Queued' = Queued \cup {found}
      BY <1>4, <3>1 DEF LinkNode, TypeOK, QueueWellFormed
    <3>3. work_queue' # NULL /\ work_queue_tail' = Linked' /\ work_queue' <= Linked'
      BY <1>4, <3>1 DEF LinkNode, TypeOK, QueueWellFormed
    <3>4. \A n \in Queued' : next'[n] = IF n = found THEN NULL ELSE n + 1
      <4>1. next'[found] = NULL
        BY <1>4, <3>1 DEF LinkNode, TypeOK, Phases, QueueWellFormed
      <4>2. \A n \in Queued : n # found /\ next'[n] = n + 1
        BY <1>4, <3>1 DEF LinkNode, TypeOK, QueueWellFormed
      <4> QED
        BY <3>2, <4>1, <4>2
    <3> QED
      BY <3>1, <3>3, <3>4 DEF QueueWellFormed
  <2>4. NodeOwnership'
    <3>1. Linked' = found /\ Linked = found - 1 /\ found \in Nodes
      BY <1>4 DEF LinkNode, TypeOK, Phases
    <3>2. Queued' = Queued \cup {found}
      BY <1>4, <3>1 DEF LinkNode, TypeOK, QueueWellFormed
    <3>3. Held' = Held
      BY <1>4 DEF LinkNode
    <3>4. (Linked + 1) .. found = {found} /\ (Linked' + 1) .. found' = {}
      BY <1>4, <3>1 DEF LinkNode
    <3> HIDE DEF Queued, Held, Linked
    <3> QED
      BY <1>4, <3>1, <3>2, <3>3, <3>4 DEF LinkNode, TypeOK, NodeOwnership
  <2>5. SearchedOnce'
    BY <1>4 DEF LinkNode, TypeOK, Phases, Holding, QueueWellFormed,
       NodeOwnership, SearchedOnce
  <2>6. NoLostWakeup' /\ NoSleeperAtJoin'
    BY <1>4 DEF LinkNode, TypeOK, Phases, MutexHeld, NoLostWakeup,
       NoSleeperAtJoin
  <2> QED
    BY <2>1, <2>2, <2>3, <2>4, <2>5, <2>6
<1>5. ASSUME Signal PROVE IInv'
  <2>1. TypeOK'
    BY <1>5 DEF Signal, TypeOK
  <2>2. Phases' /\ Holding' /\ MutexHeld'
    BY <1>5 DEF Signal, TypeOK, Phases, Holding, MutexHeld
  <2>3. QueueWellFormed' /\ NodeOwnership'
    BY <1>5 DEF Signal, TypeOK, Phases, Holding, MutexHeld, QueueWellFormed,
       NodeOwnership
  <2>4. SearchedOnce'
    <3>1. \A w \in Workers :
            pc'[w] \in {"unlock", "search"} <=> pc[w] \in {"unlock", "search"}
      BY <1>5 DEF Signal, TypeOK
    <3>2. Linked' = Linked /\ Queued' = Queued
      BY <1>5 DEF Signal, TypeOK
    <3> QED
      BY <1>5, <3>1, <3>2 DEF Signal, SearchedOnce
  <2>5. NoLostWakeup'
    <3>1. \A v \in Workers : pc[v] # "exited"
      BY <1>5 DEF Signal, Phases
    <3>2. \E v \in Workers : pc'[v] \notin {"waiting", "exited"}
      <4>1. CASE Waiters = {}
        <5>1. \A v \in Workers : pc'[v] = pc[v]
          BY <1>5, <4>1 DEF Signal, TypeOK
        <5> QED
          BY <3>1, <4>1, <5>1
      <4>2. CASE Waiters # {}
        <5>1. PICK v \in Waiters :
                pc' = [pc EXCEPT ![Main] = "unlock", ![v] = "lock"]
          BY <1>5, <4>2 DEF Signal
        <5> QED
          BY <5>1 DEF TypeOK
      <4> QED
        BY <4>1, <4>2
    <3> QED
      BY <3>2 DEF NoLostWakeup
  <2>6. NoSleeperAtJoin'
    BY <1>5 DEF Signal, TypeOK, Phases, MutexHeld, NoSleeperAtJoin
  <2> QED
    BY <2>1, <2>2, <2>3, <2>4, <2>5, <2>6
<1>6. ASSUME Unlock(Main, "unlock", "walk") PROVE IInv'
  <2>1. TypeOK'
    BY <1>6 DEF Unlock, TypeOK
  <2>2. Phases' /\ Holding' /\ MutexHeld'
    BY <1>6 DEF Unlock, TypeOK, Phases, Holding, MutexHeld
  <2>3. QueueWellFormed' /\ NodeOwnership'
    BY <1>6 DEF Unlock, TypeOK, Phases, Holding, MutexHeld, QueueWellFormed,
       NodeOwnership
  <2>4. SearchedOnce'
    BY <1>6 DEF Unlock, TypeOK, Phases, Holding, QueueWellFormed,
       NodeOwnership, SearchedOnce
  <2>5. NoLostWakeup' /\ NoSleeperAtJoin'
    BY <1>6 DEF Unlock, TypeOK, Phases, MutexHeld, NoLostWakeup,
       NoSleeperAtJoin
  <2> QED
    BY <2>1, <2>2, <2>3, <2>4, <2>5
<1>7. ASSUME EndWalk PROVE IInv'
  <2>1. TypeOK'
    BY <1>7 DEF EndWalk, TypeOK
  <2>2. Phases' /\ Holding' /\ MutexHeld'
    BY <1>7 DEF EndWalk, TypeOK, Phases, Holding, MutexHeld
  <2>3. QueueWellFormed' /\ NodeOwnership'
    BY <1>7 DEF EndWalk, TypeOK, Phases, Holding, MutexHeld, QueueWellFormed,
       NodeOwnership
  <2>4. SearchedOnce'
    BY <1>7 DEF EndWalk, TypeOK, Phases, Holding, QueueWellFormed,
       NodeOwnership, SearchedOnce
  <2>5. NoLostWakeup' /\ NoSleeperAtJoin'
    BY <1>7 DEF EndWalk, TypeOK, Phases, MutexHeld, NoLostWakeup,
       NoSleeperAtJoin
  <2> QED
    BY <2>1, <2>2, <2>3, <2>4, <2>5
<1>8. ASSUME Lock(Main, "finish", "set_done") PROVE IInv'
  <2>1. TypeOK'
    BY <1>8 DEF Lock, TypeOK
  <2>2. Phases' /\ Holding' /\ MutexHeld'
    BY <1>8 DEF Lock, TypeOK, Phases, Holding, MutexHeld
  <2>3. QueueWellFormed' /\ NodeOwnership'
    BY <1>8 DEF Lock, TypeOK, Phases, Holding, MutexHeld, QueueWellFormed,
       NodeOwnership
  <2>4. SearchedOnce'
    BY <1>8 DEF Lock, TypeOK, Phases, Holding, QueueWellFormed,
       NodeOwnership, SearchedOnce
  <2>5. NoLostWakeup' /\ NoSleeperAtJoin'
    BY <1>8 DEF Lock, TypeOK, Phases, MutexHeld, NoLostWakeup,
       NoSleeperAtJoin
  <2> QED
    BY <2>1, <2>2, <2>3, <2>4, <2>5
<1>9. ASSUME SetDone PROVE IInv'
  <2>1. TypeOK'
    BY <1>9 DEF SetDone, TypeOK
  <2>2. Phases' /\ Holding' /\ MutexHeld'
    BY <1>9 DEF SetDone, TypeOK, Phases, Holding, MutexHeld
  <2>3. QueueWellFormed' /\ NodeOwnership'
    BY <1>9 DEF SetDone, TypeOK, Phases, Holding, MutexHeld, QueueWellFormed,
       NodeOwnership
  <2>4. SearchedOnce'
    BY <1>9 DEF SetDone, TypeOK, Phases, Holding, QueueWellFormed,
       NodeOwnership, SearchedOnce
  <2>5. NoLostWakeup' /\ NoSleeperAtJoin'
    BY <1>9 DEF SetDone, TypeOK, Phases, MutexHeld, NoLostWakeup,
       NoSleeperAtJoin
  <2> QED
    BY <2>1, <2>2, <2>3, <2>4, <2>5
<1>10. ASSUME Broadcast PROVE IInv'
  <2>1. TypeOK'
    BY <1>10 DEF Broadcast, TypeOK
  <2>2. Phases' /\ Holding' /\ MutexHeld'
    BY <1>10 DEF Broadcast, TypeOK, Phases, Holding, MutexHeld
  <2>3. QueueWellFormed' /\ NodeOwnership'
    BY <1>10 DEF Broadcast, TypeOK, Phases, Holding, MutexHeld,
       QueueWellFormed, NodeOwnership
  <2>4. SearchedOnce'
    BY <1>10 DEF Broadcast, TypeOK, Phases, Holding, QueueWellFormed,
       NodeOwnership, SearchedOnce
  <2>5. NoLostWakeup' /\ NoSleeperAtJoin'
    BY <1>10 DEF Broadcast, TypeOK, Phases, MutexHeld, NoLostWakeup,
       NoSleeperAtJoin
  <2> QED
    BY <2>1, <2>2, <2>3, <2>4, <2>5
<1>11. ASSUME Unlock(Main, "unlock_done", "join") PROVE IInv'
  <2>1. TypeOK'
    BY <1>11 DEF Unlock, TypeOK
  <2>2. Phases' /\ Holding' /\ MutexHeld'
    BY <1>11 DEF Unlock, TypeOK, Phases, Holding, MutexHeld
  <2>3. QueueWellFormed' /\ NodeOwnership'
    BY <1>11 DEF Unlock, TypeOK, Phases, Holding, MutexHeld, QueueWellFormed,
       NodeOwnership
  <2>4. SearchedOnce'
    BY <1>11 DEF Unlock, TypeOK, Phases, Holding, QueueWellFormed,
       NodeOwnership, SearchedOnce
  <2>5. NoLostWakeup' /\ NoSleeperAtJoin'
    BY <1>11 DEF Unlock, TypeOK, Phases, MutexHeld, NoLostWakeup,
       NoSleeperAtJoin
  <2> QED
    BY <2>1, <2>2, <2>3, <2>4, <2>5
<1>12. ASSUME Join PROVE IInv'
  <2>1. TypeOK'
    BY <1>12 DEF Join, TypeOK
  <2>2. Phases' /\ Holding' /\ MutexHeld'
    BY <1>12 DEF Join, TypeOK, Phases, Holding, MutexHeld
  <2>3. QueueWellFormed' /\ NodeOwnership'
    BY <1>12 DEF Join, TypeOK, Phases, Holding, MutexHeld, QueueWellFormed,
       NodeOwnership
  <2>4. SearchedOnce'
    BY <1>12 DEF Join, TypeOK, Phases, Holding, QueueWellFormed,
       NodeOwnership, SearchedOnce
  <2>5. NoLostWakeup' /\ NoSleeperAtJoin'
    BY <1>12 DEF Join, TypeOK, Phases, MutexHeld, NoLostWakeup,
       NoSleeperAtJoin
  <2> QED
    BY <2>1, <2>2, <2>3, <2>4, <2>5
<1>13. ASSUME NEW w \in Workers, Lock(w, "lock", "check") PROVE IInv'
  <2>1. TypeOK'
    BY <1>13 DEF Lock, TypeOK
  <2>2. Phases' /\ Holding' /\ MutexHeld'
    BY <1>13 DEF Lock, TypeOK, Phases, Holding, MutexHeld
  <2>3. QueueWellFormed' /\ NodeOwnership'
    BY <1>13 DEF Lock, TypeOK, Phases, Holding, MutexHeld, QueueWellFormed,
       NodeOwnership
  <2>4. SearchedOnce'
    BY <1>13 DEF Lock, TypeOK, Phases, Holding, QueueWellFormed,
       NodeOwnership, SearchedOnce
  <2>5. NoLostWakeup' /\ NoSleeperAtJoin'
    BY <1>13 DEF Lock, TypeOK, Phases, MutexHeld, NoLostWakeup,
       NoSleeperAtJoin
  <2> QED
    BY <2>1, <2>2, <2>3, <2>4, <2>5
<1>14. ASSUME NEW w \in Workers, Dequeue(w) PROVE IInv'
  <2>1. TypeOK'
    <3>1. work_queue \in Queued
      BY <1>14 DEF Dequeue, TypeOK, QueueWellFormed
    <3>2. next[work_queue] \in Nodes \cup {NULL}
      BY <3>1 DEF TypeOK, QueueWellFormed
    <3> QED
      BY <1>14, <3>1, <3>2 DEF Dequeue, TypeOK
  <2>2. Phases' /\ Holding' /\ MutexHeld'
    BY <1>14 DEF Dequeue, TypeOK, Phases, Holding, MutexHeld
  <2>3. QueueWellFormed'
    BY <1>14 DEF Dequeue, TypeOK, Phases, MutexHeld, QueueWellFormed,
       NodeOwnership
  <2>4. NodeOwnership'
    <3>1. Linked' = Linked
      BY <1>14 DEF Dequeue, TypeOK
    <3>2. Queued' = Queued \ {work_queue} /\ work_queue \in Queued
      BY <1>14, <3>1 DEF Dequeue, TypeOK, QueueWellFormed
    <3>3. \A v \in Workers :
            queue_item'[v] = IF v = w THEN work_queue ELSE queue_item[v]
      BY <1>14 DEF Dequeue, TypeOK
    <3>4. queue_item[w] = NULL
      BY <1>14 DEF Dequeue, TypeOK, Holding
    <3>5. Held' = Held \cup {work_queue}
      BY <3>2, <3>3, <3>4
    <3>6. work_queue \in 1 .. Linked /\ Held \subseteq 1 .. Linked
      BY <3>2 DEF TypeOK, NodeOwnership
    <3>7. \A u, v \in Workers :
            u # v /\ queue_item'[u] = queue_item'[v] => queue_item'[u] = NULL
      <4>1. \A v \in Workers : queue_item[v] # work_queue
        BY <3>2 DEF NodeOwnership
      <4>2. \A u, v \in Workers :
              u # v /\ queue_item[u] = queue_item[v] => queue_item[u] = NULL
        BY DEF NodeOwnership
      <4> HIDE DEF IInv, Queued, Held, Linked
      <4> QED
        BY <3>3, <4>1, <4>2
    <3>8. heap' = heap /\ found' = found
      BY <1>14 DEF Dequeue
    <3> HIDE DEF Queued, Held, Linked
    <3> QED
      BY <3>1, <3>2, <3>5, <3>6, <3>7, <3>8 DEF NodeOwnership
  <2>5. SearchedOnce'
    BY <1>14 DEF Dequeue, TypeOK, Phases, Holding, QueueWellFormed,
       NodeOwnership, SearchedOnce
  <2>6. NoLostWakeup' /\ NoSleeperAtJoin'
    BY <1>14 DEF Dequeue, TypeOK, Phases, MutexHeld, NoLostWakeup,
       NoSleeperAtJoin
  <2> QED
    BY <2>1, <2>2, <2>3, <2>4, <2>5, <2>6
<1>15. ASSUME NEW w \in Workers, Exit(w) PROVE IInv'
  <2>1. TypeOK'
    BY <1>15 DEF Exit, Unlock, TypeOK
  <2>2. Phases' /\ Holding' /\ MutexHeld'
    BY <1>15 DEF Exit, Unlock, TypeOK, Phases, Holding, MutexHeld
  <2>3. QueueWellFormed' /\ NodeOwnership'
    BY <1>15 DEF Exit, Unlock, TypeOK, Phases, Holding, MutexHeld,
       QueueWellFormed, NodeOwnership
  <2>4. SearchedOnce'
    BY <1>15 DEF Exit, Unlock, TypeOK, Phases, Holding, QueueWellFormed,
       NodeOwnership, SearchedOnce
  <2>5. NoLostWakeup' /\ NoSleeperAtJoin'
    BY <1>15 DEF Exit, Unlock, TypeOK, Phases, MutexHeld, NoLostWakeup,
       NoSleeperAtJoin
  <2> QED
    BY <2>1, <2>2, <2>3, <2>4, <2>5
<1>16. ASSUME NEW w \in Workers, Wait(w) PROVE IInv'
  <2>1. TypeOK'
    BY <1>16 DEF Wait, Unlock, TypeOK
  <2>2. Phases' /\ Holding' /\ MutexHeld'
    BY <1>16 DEF Wait, Unlock, TypeOK, Phases, Holding, MutexHeld
  <2>3. QueueWellFormed' /\ NodeOwnership'
    BY <1>16 DEF Wait, Unlock, TypeOK, Phases, Holding, MutexHeld,
       QueueWellFormed, NodeOwnership
  <2>4. SearchedOnce'
    BY <1>16 DEF Wait, Unlock, TypeOK, Phases, Holding, QueueWellFormed,
       NodeOwnership, SearchedOnce
  <2>5. NoLostWakeup' /\ NoSleeperAtJoin'
    BY <1>16 DEF Wait, Unlock, TypeOK, Phases, MutexHeld, NoLostWakeup,
       NoSleeperAtJoin
  <2> QED
    BY <2>1, <2>2, <2>3, <2>4, <2>5
<1>17. ASSUME NEW w \in Workers, Unlock(w, "unlock", "search") PROVE IInv'
  <2>1. TypeOK'
    BY <1>17 DEF Unlock, TypeOK
  <2>2. Phases' /\ Holding' /\ MutexHeld'
    BY <1>17 DEF Unlock, TypeOK, Phases, Holding, MutexHeld
  <2>3. QueueWellFormed' /\ NodeOwnership'
    BY <1>17 DEF Unlock, TypeOK, Phases, Holding, MutexHeld, QueueWellFormed,
       NodeOwnership
  <2>4. SearchedOnce'
    BY <1>17 DEF Unlock, TypeOK, Phases, Holding, QueueWellFormed,
       NodeOwnership, SearchedOnce
  <2>5. NoLostWakeup' /\ NoSleeperAtJoin'
    BY <1>17 DEF Unlock, TypeOK, Phases, MutexHeld, NoLostWakeup,
       NoSleeperAtJoin
  <2> QED
    BY <2>1, <2>2, <2>3, <2>4, <2>5
<1>18. ASSUME NEW w \in Workers, SearchFile(w) PROVE IInv'
  <2>1. TypeOK'
    <3>1. queue_item[w] \in Nodes
      BY <1>18 DEF SearchFile, TypeOK, Holding
    <3>2. searched' \in [Nodes -> Nat]
      BY <1>18, <3>1 DEF SearchFile, TypeOK
    <3> QED
      BY <1>18, <3>2 DEF SearchFile, TypeOK
  <2>2. Phases' /\ Holding' /\ MutexHeld'
    BY <1>18 DEF SearchFile, TypeOK, Phases, Holding, MutexHeld
  <2>3. QueueWellFormed' /\ NodeOwnership'
    BY <1>18 DEF SearchFile, TypeOK, Phases, Holding, MutexHeld,
       QueueWellFormed, NodeOwnership
  <2>4. SearchedOnce'
    BY <1>18 DEF SearchFile, TypeOK, Phases, Holding, QueueWellFormed,
       NodeOwnership, SearchedOnce
  <2>5. NoLostWakeup' /\ NoSleeperAtJoin'
    BY <1>18 DEF SearchFile, TypeOK, Phases, MutexHeld, NoLostWakeup,
       NoSleeperAtJoin
  <2> QED
    BY <2>1, <2>2, <2>3, <2>4, <2>5
<1>19. ASSUME NEW w \in Workers, FreeItem(w) PROVE IInv'
  <2>1. TypeOK'
    BY <1>19 DEF FreeItem, TypeOK
  <2>2. Phases'
    <3>1. pc'[Main] = pc[Main] /\ found' = found
      BY <1>19 DEF FreeItem, TypeOK
    <3>2. pc[Main] \in {"enqueue", "link"} => next'[found] = next[found]
      BY <1>19 DEF FreeItem, TypeOK, Phases, Holding, NodeOwnership
    <3> QED
      BY <1>19, <3>1, <3>2 DEF FreeItem, TypeOK, Phases
  <2>3. Holding' /\ MutexHeld'
    BY <1>19 DEF FreeItem, TypeOK, Holding, MutexHeld
  <2>4. QueueWellFormed'
    BY <1>19 DEF FreeItem, TypeOK, Phases, MutexHeld, QueueWellFormed,
       NodeOwnership
  <2>5. NodeOwnership'
    BY <1>19 DEF FreeItem, TypeOK, Phases, Holding, QueueWellFormed,
       NodeOwnership
  <2>6. SearchedOnce'
    <3>1. Linked' = Linked /\ Queued' = Queued
      BY <1>19 DEF FreeItem, TypeOK
    <3>2. \A n \in Nodes, v \in Workers :
            queue_item'[v] = n /\ pc'[v] \in {"unlock", "search"} <=>
            queue_item[v] = n /\ pc[v] \in {"unlock", "search"}
      BY <1>19 DEF FreeItem, TypeOK
    <3> QED
      BY <1>19, <3>1, <3>2 DEF FreeItem, SearchedOnce
  <2>7. NoLostWakeup' /\ NoSleeperAtJoin'
    BY <1>19 DEF FreeItem, TypeOK, Phases, MutexHeld, NoLostWakeup,
       NoSleeperAtJoin
  <2> QED
    BY <2>1, <2>2, <2>3, <2>4, <2>5, <2>6, <2>7
<1>20. ASSUME NEW w \in Workers, SpuriousWakeup(w) PROVE IInv'
  <2>1. TypeOK'
    BY <1>20 DEF SpuriousWakeup, TypeOK
  <2>2. Phases' /\ Holding' /\ MutexHeld'
    BY <1>20 DEF SpuriousWakeup, TypeOK, Phases, Holding, MutexHeld
  <2>3. QueueWellFormed' /\ NodeOwnership'
    BY <1>20 DEF SpuriousWakeup, TypeOK, Phases, Holding, MutexHeld,
       QueueWellFormed, NodeOwnership
  <2>4. SearchedOnce'
    BY <1>20 DEF SpuriousWakeup, TypeOK, Phases, Holding, QueueWellFormed,
       NodeOwnership, SearchedOnce
  <2>5. NoLostWakeup' /\ NoSleeperAtJoin'
    BY <1>20 DEF SpuriousWakeup, TypeOK, Phases, MutexHeld, NoLostWakeup,
       NoSleeperAtJoin
  <2> QED
    BY <2>1, <2>2, <2>3, <2>4, <2>5
<1>21. ASSUME NEW t \in Threads, Die(t) PROVE IInv'
  <2>1. TypeOK'
    BY <1>21 DEF Die, TypeOK
  <2>2. Phases' /\ Holding' /\ MutexHeld'
    BY <1>21 DEF Die, TypeOK, Phases, Holding, MutexHeld
  <2>3. QueueWellFormed' /\ NodeOwnership'
    BY <1>21 DEF Die, TypeOK, Phases, Holding, MutexHeld, QueueWellFormed,
       NodeOwnership
  <2>4. SearchedOnce'
    BY <1>21 DEF Die, TypeOK, Phases, Holding, QueueWellFormed,
       NodeOwnership, SearchedOnce
  <2>5. NoLostWakeup' /\ NoSleeperAtJoin'
    BY <1>21 DEF Die, TypeOK, Phases, MutexHeld, NoLostWakeup,
       NoSleeperAtJoin
  <2> QED
    BY <2>1, <2>2, <2>3, <2>4, <2>5
<1>22. ASSUME UNCHANGED vars PROVE IInv'
  <2>1. TypeOK'
    BY <1>22 DEF vars, TypeOK
  <2>2. Phases' /\ Holding' /\ MutexHeld'
    BY <1>22 DEF vars, TypeOK, Phases, Holding, MutexHeld
  <2>3. QueueWellFormed' /\ NodeOwnership'
    BY <1>22 DEF vars, TypeOK, Phases, Holding, MutexHeld, QueueWellFormed,
       NodeOwnership
  <2>4. SearchedOnce'
    BY <1>22 DEF vars, TypeOK, Phases, Holding, QueueWellFormed,
       NodeOwnership, SearchedOnce
  <2>5. NoLostWakeup' /\ NoSleeperAtJoin'
    BY <1>22 DEF vars, TypeOK, Phases, MutexHeld, NoLostWakeup,
       NoSleeperAtJoin
  <2> QED
    BY <2>1, <2>2, <2>3, <2>4, <2>5
<1> QED
  BY <1>1, <1>2, <1>3, <1>4, <1>5, <1>6, <1>7, <1>8, <1>9, <1>10, <1>11,
     <1>12, <1>13, <1>14, <1>15, <1>16, <1>17, <1>18, <1>19, <1>20, <1>21,
     <1>22 DEF Next, Running, MainStep, WorkerStep, Over

-----------------------------------------------------------------------------
(* The inductive invariant holds in every state of every execution.        *)
THEOREM Invariance == Spec => []IInv
BY InitIInv, NextIInv, PTL DEF Spec

(* The variables keep their types.                                         *)
THEOREM TypeCorrect == Spec => []TypeOK
<1>1. IInv => TypeOK
  BY DEF IInv
<1> QED
  BY <1>1, Invariance, PTL

(* The list, the flag and the condition are touched under the mutex only.  *)
THEOREM MutualExclusion == Spec => []MutexHeld
<1>1. IInv => MutexHeld
  BY DEF IInv
<1> QED
  BY <1>1, Invariance, PTL

(* work_queue and work_queue_tail always delimit one well-formed list.     *)
THEOREM ListCorrect == Spec => []QueueWellFormed
<1>1. IInv => QueueWellFormed
  BY DEF IInv
<1> QED
  BY <1>1, Invariance, PTL

(* Every allocated node has one owner: no use after free, no double free.  *)
THEOREM MemorySafe == Spec => []NodeOwnership
<1>1. IInv => NodeOwnership
  BY DEF IInv
<1> QED
  BY <1>1, Invariance, PTL

(* No file is searched twice, and none leaves the pool unsearched.         *)
THEOREM ExactlyOnce == Spec => []SearchedOnce
<1>1. IInv => SearchedOnce
  BY DEF IInv
<1> QED
  BY <1>1, Invariance, PTL

(* A non-empty list has a worker awake.                                    *)
THEOREM WakeupsArrive == Spec => []NoLostWakeup
<1>1. IInv => NoLostWakeup
  BY DEF IInv
<1> QED
  BY <1>1, Invariance, PTL

(* pthread_join() never waits for a sleeping worker.                       *)
THEOREM JoinReachesAll == Spec => []NoSleeperAtJoin
<1>1. IInv => NoSleeperAtJoin
  BY DEF IInv
<1> QED
  BY <1>1, Invariance, PTL

(* When main() returns, all the workers have exited; one of them saw the   *)
(* list empty after the flag was set, and none holds a node any more.      *)
THEOREM AllSearched == Spec => []AllSearchedAtReturn
<1>1. IInv => AllSearchedAtReturn
  <2> SUFFICES ASSUME IInv, outcome = "returned"
               PROVE  heap = {} /\ \A n \in 1 .. found : searched[n] = 1
    BY DEF AllSearchedAtReturn
  <2>1. pc[Main] = "joined" /\ \A w \in Workers : pc[w] = "exited"
    BY DEF IInv, Phases
  <2>2. Linked = found /\ found \in 0 .. MaxJobs
    BY <2>1 DEF IInv, TypeOK, Linked
  <2>3. Queued = {}
    BY <2>1, ThreadsAssumption DEF IInv, Phases, Queued
  <2>4. \A w \in Workers : queue_item[w] = NULL
    BY <2>1 DEF IInv, Holding
  <2>5. Held = {}
    BY <2>4 DEF Held, Nodes, NULL
  <2>6. heap = {}
    BY <2>2, <2>3, <2>5 DEF IInv, NodeOwnership
  <2>7. \A n \in 1 .. found : searched[n] = 1
    <3> SUFFICES ASSUME NEW n \in 1 .. found PROVE searched[n] = 1
      OBVIOUS
    <3>1. n \in Nodes /\ ~(n > Linked)
      BY <2>2, BoundsAssumption DEF Nodes
    <3>2. searched[n] # 0 /\ searched[n] <= 1
      BY <2>1, <2>3, <3>1 DEF IInv, SearchedOnce
    <3> QED
      BY <3>1, <3>2 DEF IInv, TypeOK
  <2> QED
    BY <2>6, <2>7
<1> QED
  BY <1>1, Invariance, PTL

-----------------------------------------------------------------------------
(***************************************************************************)
(* The refinement: Stage maps every state of the threads to a state of     *)
(* SearchPool, and every step to a step of it or to none.                  *)
(***************************************************************************)

(* What the stages mean in terms of the list and of the searches done.     *)
StagesMean ==
    \A j \in Nodes :
        /\ Stage(j) \in {"unknown", "queued", "taken", "searched"}
        /\ Stage(j) = "unknown" <=> j > Linked
        /\ Stage(j) = "queued" <=> j \in Queued
        /\ Stage(j) = "searched" <=> searched[j] = 1

(* Under the invariant, that is what Stage computes.                       *)
LEMMA StageMeaning == IInv => StagesMean
<1> SUFFICES ASSUME IInv, NEW j \in Nodes
             PROVE  /\ Stage(j) \in {"unknown", "queued", "taken", "searched"}
                    /\ Stage(j) = "unknown" <=> j > Linked
                    /\ Stage(j) = "queued" <=> j \in Queued
                    /\ Stage(j) = "searched" <=> searched[j] = 1
  BY DEF StagesMean
<1>1. Linked \in Int /\ searched[j] \in 0 .. 1
  BY BoundsAssumption DEF IInv, TypeOK, SearchedOnce, Linked, Threads
<1>2. CASE j > Linked
  <2>1. Stage(j) = "unknown"
    BY <1>1, <1>2 DEF Stage, Nodes
  <2> QED
    BY <1>1, <1>2, <2>1 DEF IInv, SearchedOnce, Queued, Nodes
<1>3. CASE j <= Linked /\ searched[j] = 1
  <2>1. Stage(j) = "searched"
    BY <1>1, <1>3 DEF Stage, Nodes
  <2> QED
    BY <1>1, <1>3, <2>1 DEF IInv, SearchedOnce, Nodes
<1>4. CASE j <= Linked /\ searched[j] = 0
  <2>1. j \in Queued \/ j \in Held
    BY <1>1, <1>4 DEF IInv, SearchedOnce, Held, Nodes
  <2>2. ~(j \in Queued /\ j \in Held)
    BY DEF IInv, NodeOwnership
  <2>3. Stage(j) = IF j \in Held THEN "taken" ELSE "queued"
    BY <1>1, <1>4 DEF Stage, Nodes
  <2> QED
    BY <1>1, <1>4, <2>1, <2>2, <2>3 DEF Nodes
<1> QED
  BY <1>1, <1>2, <1>3, <1>4 DEF Nodes

(* A step that changes neither the list nor what has been searched is      *)
(* invisible to SearchPool.                                                *)
LEMMA SameStages ==
    ASSUME StagesMean, StagesMean', Linked' = Linked, Queued' = Queued,
           searched' = searched, outcome' = outcome
    PROVE  UNCHANGED Pool!poolVars
<1>1. \A j \in Nodes : Stage(j)' = Stage(j)
  BY DEF StagesMean
<1> QED
  BY <1>1 DEF Pool!poolVars

(* The step from one stage to another that SearchPool calls Move.          *)
LEMMA OneStage ==
    ASSUME NEW j \in Nodes, NEW from, NEW to, Stage(j) = from, Stage(j)' = to,
           \A i \in Nodes \ {j} : Stage(i)' = Stage(i), outcome' = outcome
    PROVE  Pool!Move(j, from, to)
BY DEF Pool!Move

(* The steps that SearchPool does not see.                                 *)
Invisible ==
    \/ FindFile \/ Signal \/ EndWalk \/ SetDone \/ Broadcast
    \/ Lock(Main, "enqueue", "link") \/ Lock(Main, "finish", "set_done")
    \/ Unlock(Main, "unlock", "walk") \/ Unlock(Main, "unlock_done", "join")
    \/ \E w \in Workers :
           \/ CreateWorker(w) \/ Exit(w) \/ Wait(w) \/ FreeItem(w)
           \/ SpuriousWakeup(w)
           \/ Lock(w, "lock", "check") \/ Unlock(w, "unlock", "search")
    \/ UNCHANGED vars

(* The steps that change neither what is on the list nor what has been     *)
(* searched, each by itself.                                               *)
LEMMA InvisibleSteps ==
    ASSUME IInv, Invisible
    PROVE  /\ Linked' = Linked /\ Queued' = Queued
           /\ searched' = searched /\ outcome' = outcome
<1> USE ThreadsAssumption, BoundsAssumption
    DEF Linked, Queued, Nodes, NULL, Goto, listVars, Waiters, Threads
<1>1. ASSUME NEW w \in Workers, CreateWorker(w)
     PROVE  Linked' = Linked /\ Queued' = Queued
            /\ searched' = searched /\ outcome' = outcome
  BY <1>1 DEF CreateWorker, IInv, TypeOK
<1>2. ASSUME FindFile
     PROVE  Linked' = Linked /\ Queued' = Queued
            /\ searched' = searched /\ outcome' = outcome
  BY <1>2 DEF FindFile, IInv, TypeOK
<1>3. ASSUME Lock(Main, "enqueue", "link")
     PROVE  Linked' = Linked /\ Queued' = Queued
            /\ searched' = searched /\ outcome' = outcome
  BY <1>3 DEF Lock, IInv, TypeOK
<1>4. ASSUME Signal
     PROVE  Linked' = Linked /\ Queued' = Queued
            /\ searched' = searched /\ outcome' = outcome
  BY <1>4 DEF Signal, IInv, TypeOK
<1>5. ASSUME Unlock(Main, "unlock", "walk")
     PROVE  Linked' = Linked /\ Queued' = Queued
            /\ searched' = searched /\ outcome' = outcome
  BY <1>5 DEF Unlock, IInv, TypeOK
<1>6. ASSUME EndWalk
     PROVE  Linked' = Linked /\ Queued' = Queued
            /\ searched' = searched /\ outcome' = outcome
  BY <1>6 DEF EndWalk, IInv, TypeOK
<1>7. ASSUME Lock(Main, "finish", "set_done")
     PROVE  Linked' = Linked /\ Queued' = Queued
            /\ searched' = searched /\ outcome' = outcome
  BY <1>7 DEF Lock, IInv, TypeOK
<1>8. ASSUME SetDone
     PROVE  Linked' = Linked /\ Queued' = Queued
            /\ searched' = searched /\ outcome' = outcome
  BY <1>8 DEF SetDone, IInv, TypeOK
<1>9. ASSUME Broadcast
     PROVE  Linked' = Linked /\ Queued' = Queued
            /\ searched' = searched /\ outcome' = outcome
  BY <1>9 DEF Broadcast, IInv, TypeOK
<1>10. ASSUME Unlock(Main, "unlock_done", "join")
     PROVE  Linked' = Linked /\ Queued' = Queued
            /\ searched' = searched /\ outcome' = outcome
  BY <1>10 DEF Unlock, IInv, TypeOK
<1>11. ASSUME NEW w \in Workers, Lock(w, "lock", "check")
     PROVE  Linked' = Linked /\ Queued' = Queued
            /\ searched' = searched /\ outcome' = outcome
  BY <1>11 DEF Lock, IInv, TypeOK
<1>12. ASSUME NEW w \in Workers, Exit(w)
     PROVE  Linked' = Linked /\ Queued' = Queued
            /\ searched' = searched /\ outcome' = outcome
  BY <1>12 DEF Exit, Unlock, IInv, TypeOK
<1>13. ASSUME NEW w \in Workers, Wait(w)
     PROVE  Linked' = Linked /\ Queued' = Queued
            /\ searched' = searched /\ outcome' = outcome
  BY <1>13 DEF Wait, Unlock, IInv, TypeOK
<1>14. ASSUME NEW w \in Workers, Unlock(w, "unlock", "search")
     PROVE  Linked' = Linked /\ Queued' = Queued
            /\ searched' = searched /\ outcome' = outcome
  BY <1>14 DEF Unlock, IInv, TypeOK
<1>15. ASSUME NEW w \in Workers, FreeItem(w)
     PROVE  Linked' = Linked /\ Queued' = Queued
            /\ searched' = searched /\ outcome' = outcome
  BY <1>15 DEF FreeItem, IInv, TypeOK
<1>16. ASSUME NEW w \in Workers, SpuriousWakeup(w)
     PROVE  Linked' = Linked /\ Queued' = Queued
            /\ searched' = searched /\ outcome' = outcome
  BY <1>16 DEF SpuriousWakeup, IInv, TypeOK
<1>17. ASSUME UNCHANGED vars
     PROVE  Linked' = Linked /\ Queued' = Queued
            /\ searched' = searched /\ outcome' = outcome
  BY <1>17 DEF vars, IInv, TypeOK
<1> QED
  BY <1>1, <1>2, <1>3, <1>4, <1>5, <1>6, <1>7, <1>8, <1>9, <1>10, <1>11,
     <1>12, <1>13, <1>14, <1>15, <1>16, <1>17 DEF Invisible

(* Every step of the threads is a step of SearchPool or a stutter.         *)
LEMMA StepRefines ==
    IInv /\ IInv' /\ [Next]_vars => [Pool!PoolNext]_Pool!poolVars
<1> SUFFICES ASSUME IInv, IInv', [Next]_vars
             PROVE  [Pool!PoolNext]_Pool!poolVars
  OBVIOUS
<1> USE ThreadsAssumption, BoundsAssumption DEF Pool!Jobs, Nodes
<1>1. StagesMean /\ StagesMean'
  BY StageMeaning, PTL
<1>2. ASSUME Invisible PROVE UNCHANGED Pool!poolVars
  BY <1>1, <1>2, InvisibleSteps, SameStages
<1>3. ASSUME outcome = "running", LinkNode PROVE Pool!PoolNext
  <2>0. PICK n \in Nodes : n = found
    BY <1>3 DEF LinkNode, Goto, IInv, TypeOK, Phases
  <2>1. Linked = n - 1 /\ Linked' = n
    BY <1>3, <2>0 DEF LinkNode, Goto, IInv, TypeOK, Linked, Threads
  <2>2. searched' = searched /\ outcome' = outcome
    BY <1>3 DEF LinkNode
  <2>3. \A i \in Nodes : i > Linked => Stage(i) = "unknown"
    BY <1>1 DEF StagesMean
  <2>4. Queued' = Queued \cup {n}
    BY <1>3, <2>0, <2>1 DEF LinkNode, IInv, TypeOK, QueueWellFormed, Queued, NULL
  <2>5. Stage(n) = "unknown" /\ Stage(n)' = "queued"
    BY <1>1, <2>1, <2>4 DEF StagesMean
  <2>6. \A i \in Nodes \ {n} : Stage(i)' = Stage(i)
    BY <1>1, <2>1, <2>2, <2>4 DEF StagesMean
  <2>7. \A i \in Nodes : i < n => Stage(i) # "unknown"
    BY <1>1, <2>1 DEF StagesMean
  <2>8. Pool!Find(n)
    BY <2>1, <2>2, <2>5, <2>6, <2>7, OneStage DEF Pool!Find, Pool!InOrder
  <2> QED
    BY <1>3, <2>1, <2>8 DEF Pool!PoolNext
<1>4. ASSUME outcome = "running", NEW w \in Workers, Dequeue(w)
      PROVE  Pool!PoolNext
  <2>0. PICK n \in Nodes : n = work_queue
    BY <1>4 DEF Dequeue, IInv, TypeOK
  <2>1. n \in Queued /\ Linked' = Linked
    BY <1>4, <2>0 DEF Dequeue, Goto, IInv, TypeOK, QueueWellFormed, Queued,
       Linked, Threads
  <2>2. searched' = searched /\ outcome' = outcome
    BY <1>4 DEF Dequeue
  <2>3. Queued' = Queued \ {n}
    BY <1>4, <2>0, <2>1 DEF Dequeue, IInv, TypeOK, QueueWellFormed, Queued,
       NULL
  <2>4. searched[n] = 0 /\ ~(n > Linked) /\ Linked \in Int
    BY <2>1 DEF IInv, TypeOK, SearchedOnce, Queued, Linked, Threads
  <2>5. Stage(n) = "queued" /\ Stage(n)' = "taken"
    BY <1>1, <2>1, <2>2, <2>3, <2>4 DEF StagesMean
  <2>6. \A i \in Nodes \ {n} : Stage(i)' = Stage(i)
    BY <1>1, <2>1, <2>2, <2>3 DEF StagesMean
  <2>7. \A i \in Nodes : i < n => Stage(i) # "queued"
    BY <1>1, <2>0 DEF StagesMean, Queued
  <2>8. Pool!Take(n)
    BY <2>1, <2>2, <2>5, <2>6, <2>7, OneStage DEF Pool!Take, Pool!InOrder
  <2> QED
    BY <1>4, <2>1, <2>8 DEF Pool!PoolNext
<1>5. ASSUME outcome = "running", NEW w \in Workers, SearchFile(w)
      PROVE  Pool!PoolNext
  <2>0. PICK n \in Nodes : n = queue_item[w]
    BY <1>5 DEF SearchFile, Goto, IInv, TypeOK, Holding
  <2>1. n \in Held /\ Linked' = Linked /\ Queued' = Queued
    BY <1>5, <2>0 DEF SearchFile, Goto, IInv, TypeOK, Held, Linked, Queued,
       Threads, listVars
  <2>2. outcome' = outcome /\ \A i \in Nodes \ {n} : searched'[i] = searched[i]
    BY <1>5, <2>0 DEF SearchFile, IInv, TypeOK
  <2>3. searched[n] = 0 /\ searched'[n] = 1
    BY <1>5, <2>0, <2>1 DEF SearchFile, Goto, IInv, TypeOK, SearchedOnce
  <2>4. ~(n > Linked) /\ n \notin Queued
    BY <2>1 DEF IInv, TypeOK, NodeOwnership, Linked, Threads
  <2>5. Stage(n) = "taken" /\ Stage(n)' = "searched"
    BY <1>1, <2>1, <2>3, <2>4 DEF StagesMean
  <2>6. \A i \in Nodes \ {n} : Stage(i)' = Stage(i)
    BY <1>1, <2>1, <2>2 DEF StagesMean
  <2>7. Pool!Search(n)
    BY <2>1, <2>2, <2>5, <2>6, OneStage DEF Pool!Search
  <2> QED
    BY <1>5, <2>1, <2>7 DEF Pool!PoolNext
<1>6. ASSUME outcome = "running", Join PROVE Pool!PoolNext
  <2>1. UNCHANGED <<Linked, Queued, searched>> /\ outcome' = "returned"
    BY <1>6 DEF Join, Goto, IInv, TypeOK, Linked, Queued, Threads, listVars
  <2>2. UNCHANGED [j \in Nodes |-> Stage(j)]
    BY <1>1, <2>1 DEF StagesMean
  <2>3. work_queue = NULL /\ \A v \in Workers : queue_item[v] = NULL
    BY <1>6 DEF Join, IInv, Phases, Holding
  <2>4. \A j \in Nodes : j > Linked \/ searched[j] = 1
    BY <2>3 DEF IInv, TypeOK, SearchedOnce, Queued, NULL
  <2>5. \A j \in Nodes : Stage(j) \in {"unknown", "searched"}
    BY <1>1, <2>4 DEF StagesMean
  <2>6. Pool!Return
    BY <2>1, <2>2, <2>5 DEF Pool!Return
  <2> QED
    BY <1>6, <2>6 DEF Pool!PoolNext
<1>7. ASSUME outcome = "running", NEW t \in Threads, Die(t)
      PROVE  Pool!PoolNext
  <2>1. UNCHANGED <<Linked, Queued, searched>> /\ outcome' = "died"
    BY <1>7 DEF Die, Linked, Queued, listVars
  <2>2. UNCHANGED [j \in Nodes |-> Stage(j)]
    BY <1>1, <2>1 DEF StagesMean
  <2> QED
    BY <1>7, <2>1, <2>2 DEF Pool!PoolNext, Pool!Die
<1> QED
  BY <1>2, <1>3, <1>4, <1>5, <1>6, <1>7
     DEF Next, Running, Over, MainStep, WorkerStep, Invisible

(* The thread pool implements SearchPool.                                  *)
THEOREM Refinement == Spec => ImplementsPool
<1>1. Init => Pool!PoolInit
  <2> SUFFICES ASSUME Init PROVE Pool!PoolInit
    OBVIOUS
  <2>1. Linked = 0
    BY DEF Init, Linked, Threads
  <2>2. \A j \in Nodes : Stage(j) = "unknown"
    BY <2>1, BoundsAssumption DEF Stage, Nodes
  <2> QED
    BY <2>2 DEF Pool!PoolInit, Pool!Jobs, Nodes, Init
<1> QED
  BY <1>1, Invariance, StepRefines, PTL DEF Spec, ImplementsPool, Pool!PoolSpec
=============================================================================
