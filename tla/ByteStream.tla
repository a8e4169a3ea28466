----------------------------- MODULE ByteStream -----------------------------
(***************************************************************************)
(* What a stream of decompressed bytes promises to its reader: it moves    *)
(* on through the bytes and skips none that were not asked to be skipped,  *)
(* says that it has ended when all of them are behind it and not before,   *)
(* and fails only if the data are damaged.  It may stop for good, and it   *)
(* may be lost by a rewind: then nothing is known of what comes.           *)
(***************************************************************************)
EXTENDS Integers

VARIABLES
    length,    \* the number of bytes
    damaged,   \* whether they cannot all be decompressed
    lost,      \* whether the reader is not in the stream
    pos,       \* the bytes that are behind the reader
    state

vars == <<length, damaged, lost, pos, state>>

Reading == state \in {"open", "failed"}

Init ==
    /\ length \in Nat /\ damaged \in BOOLEAN /\ lost \in BOOLEAN
    /\ pos = 0 /\ state = "open"

Advance ==
    /\ Reading
    /\ pos' > pos /\ (lost \/ pos' <= length)
    /\ state' = "open"
    /\ UNCHANGED <<length, damaged, lost>>

End ==
    /\ Reading /\ (lost \/ pos = length)
    /\ state' = "ended"
    /\ UNCHANGED <<length, damaged, lost, pos>>

Fail ==
    /\ Reading /\ (damaged \/ lost)
    /\ state' = "failed"
    /\ UNCHANGED <<length, damaged, lost, pos>>

Retry ==
    /\ state = "failed"
    /\ state' = "open"
    /\ UNCHANGED <<length, damaged, lost, pos>>

(* To the beginning, if it can be found again.                             *)
Rewind ==
    /\ Reading \/ state = "ended"
    /\ pos' = 0 /\ state' = "open"
    /\ lost' \in {lost, TRUE}
    /\ UNCHANGED <<length, damaged>>

Stop ==
    /\ state' = "stopped"
    /\ UNCHANGED <<length, damaged, lost, pos>>

Next == Advance \/ End \/ Fail \/ Retry \/ Rewind \/ Stop

Spec == Init /\ [][Next]_vars
=============================================================================
