------------------------------ MODULE MCZFile -------------------------------
(* Compressed files of at most three units and four bytes.                 *)
EXTENDS ZFile

Outs(units, bytes) ==
    {o \in [0 .. units -> 0 .. bytes] :
        /\ o[0] = 0 /\ o[units] = o[units - 1]
        /\ \A k \in 1 .. units : o[k - 1] <= o[k]}

FilesOf(units, bytes) ==
    [units : {units}, out : Outs(units, bytes), bad : 0 .. units,
     have : 1 .. units + 1, error : BOOLEAN, mmap : BOOLEAN]

SmallFiles == FilesOf(2, 3) \cup FilesOf(3, 4)

(* Whole, undamaged and read from their beginning.                         *)
SoundFiles == {f \in SmallFiles : f.bad = 0 /\ f.have = f.units /\ ~f.error /\ f.mmap}
=============================================================================
