----------------------------- MODULE SearchPool -----------------------------
(***************************************************************************)
(* What ag promises about the files it finds, with no queue, lock or       *)
(* thread in sight.  The walk finds files one after the other; job n is    *)
(* the n-th of them.  Jobs are handed out in the order they were found,    *)
(* each is searched once, and the program returns only after the walk has  *)
(* ended and every job has been searched - unless it dies first, which     *)
(* die() may do at any time.                                               *)
(***************************************************************************)
EXTENDS Naturals

CONSTANT MaxJobs          \* a natural number: the files one walk finds at most

VARIABLES
    stage,                \* of each job: "unknown", "queued", "taken" or "searched"
    outcome               \* "running", or how the process ended

poolVars == <<stage, outcome>>

Jobs == 1 .. MaxJobs

PoolInit ==
    /\ stage = [j \in Jobs |-> "unknown"]
    /\ outcome = "running"

(* A job may move on only after all jobs found before it have moved on.    *)
InOrder(j, from) == \A i \in Jobs : i < j => stage[i] # from

Move(j, from, to) ==
    /\ stage[j] = from
    /\ stage' = [stage EXCEPT ![j] = to]
    /\ UNCHANGED outcome

Find(j)   == InOrder(j, "unknown") /\ Move(j, "unknown", "queued")
Take(j)   == InOrder(j, "queued") /\ Move(j, "queued", "taken")
Search(j) == Move(j, "taken", "searched")

Return ==
    /\ \A j \in Jobs : stage[j] \in {"unknown", "searched"}
    /\ outcome' = "returned"
    /\ UNCHANGED stage

Die ==
    /\ outcome' = "died"
    /\ UNCHANGED stage

PoolNext ==
    /\ outcome = "running"
    /\ \/ \E j \in Jobs : Find(j) \/ Take(j) \/ Search(j)
       \/ Return
       \/ Die

PoolSpec == PoolInit /\ [][PoolNext]_poolVars
=============================================================================
