------------------------------- MODULE ZFile --------------------------------
(***************************************************************************)
(* zfile.c: a compressed file as a stream that stdio reads through         *)
(* zfile_read() and zfile_seek().  zfile_read() fills inbuf from the file, *)
(* lets the decoder of zlib or liblzma write to outbuf, and copies from    *)
(* there to stdio's buffer until that is full.                             *)
(*                                                                         *)
(* A compressed file is a number of units of input, the last unit of the   *)
(* stream being its trailer, which yields no output.  The bytes of the     *)
(* output are numbered, so that what is copied shows which they are.       *)
(***************************************************************************)
EXTENDS Integers, Sequences, FiniteSetsExt

CONSTANTS
    Files,       \* [units, out, bad, have, error, mmap]: see FileType
    InBuf,       \* sizeof inbuf, in units (32 KB)
    OutBuf,      \* sizeof outbuf, in bytes (256 KB)
    SkipBuf,     \* bsz of zfile_seek() (32 KB)
    Sizes,       \* the sizes stdio reads with
    Offsets,     \* the offsets it seeks to
    Strange      \* the bytes a decoder may find where no stream begins

ASSUME SizesAssumption ==
    /\ {InBuf, OutBuf, SkipBuf} \subseteq Nat \ {0}
    /\ Sizes \subseteq Nat \ {0} /\ Offsets \subseteq Int
    /\ Strange \in Nat

(* out[k] bytes can be made of the first k units; unit bad is corrupt (if  *)
(* it is not 0); the file holds have units, fewer than units if it was     *)
(* truncated and more if something follows the stream; and reading behind  *)
(* them may give an error instead of the end of the file.  With mmap the   *)
(* descriptor is at the beginning of the file; without, search_file() has  *)
(* read it to the end.                                                     *)
FileType(f) ==
    /\ f.units \in Nat \ {0, 1}
    /\ f.out \in [0 .. f.units -> Nat]
    /\ f.out[0] = 0 /\ f.out[f.units] = f.out[f.units - 1]
    /\ \A k \in 1 .. f.units : f.out[k - 1] <= f.out[k]
    /\ f.bad \in 0 .. f.units /\ f.have \in Nat
    /\ f.error \in BOOLEAN /\ f.mmap \in BOOLEAN

ASSUME FilesAssumption == \A f \in Files : FileType(f)

VARIABLES
    file,
    fpos,            \* units read from cookie->in
    avail_in,        \* units in inbuf the decoder has not consumed
    dec,             \* the decoder: [valid, done, out, said]
    logic_offset,    \* and decode_offset, assigned together
    outbuf,          \* what the decoder put there, next_out being its end
    outbuf_start,
    eof,
    pc,
    size, ret,       \* zfile_read()'s variables
    copied,          \* the bytes it copied to stdio's buffer
    goal,            \* zfile_seek()'s new_offset; NoGoal outside of it
    last             \* what the last call returned

decoder == <<fpos, avail_in, dec>>
buffers == <<logic_offset, outbuf, outbuf_start, eof, copied>>
vars == <<file, decoder, buffers, pc, size, ret, goal, last>>

NoGoal == -1

Length == file.out[file.units]

(* zfile_cookie_init(): a new decoder, which finds the beginning of the    *)
(* stream in the file only if nothing was read from it before.             *)
NewDecoder(from) == [valid |-> from = 0, done |-> 0, out |-> 0, said |-> "OK"]

(* What the decoder puts out as byte k: that byte, or one of no stream.    *)
Byte(k) == IF dec.valid THEN k ELSE 0

Init ==
    /\ file \in Files
    /\ fpos = (IF file.mmap THEN 0 ELSE file.have)
    /\ avail_in = 0 /\ dec = NewDecoder(fpos)
    /\ logic_offset = 0 /\ outbuf = <<>> /\ outbuf_start = 0 /\ eof = FALSE
    /\ copied = <<>>
    /\ pc = "idle" /\ size = 0 /\ ret = "OK" /\ goal = NoGoal
    /\ last = [op |-> "open", asked |-> 0, value |-> 0]

-----------------------------------------------------------------------------
(***************************************************************************)
(* zfile_read().                                                           *)
(***************************************************************************)
(* zfile_read() returns n: to stdio, or to the loop of zfile_seek().       *)
Return(n) ==
    /\ pc' = IF goal = NoGoal THEN "idle" ELSE "skip"
    /\ last' = [op |-> "read", asked |-> last.asked, value |-> n]

(* The call up to the first round of its loop.                             *)
Begin(n) ==
    /\ copied' = <<>>
    /\ size' = n /\ ret' = "OK"
    /\ IF eof
       THEN Return(0)
       ELSE pc' = "drain" /\ last' = [op |-> "none", asked |-> n, value |-> 0]
    /\ UNCHANGED <<file, decoder, logic_offset, outbuf, outbuf_start, eof>>

Read(n) ==
    /\ pc = "idle"
    /\ Begin(n)
    /\ UNCHANGED goal

toread == Min({Len(outbuf) - outbuf_start, size})

(* The output buffer first; done if that satisfies the read, whatever the  *)
(* decoder returned.                                                       *)
Drain ==
    /\ pc = "drain" /\ toread > 0
    /\ copied' = copied \o SubSeq(outbuf, outbuf_start + 1, outbuf_start + toread)
    /\ logic_offset' = logic_offset + toread
    /\ size' = size - toread
    /\ outbuf_start' = outbuf_start + toread
    /\ IF size = toread THEN Return(Len(copied')) ELSE UNCHANGED <<pc, last>>
    /\ UNCHANGED <<file, decoder, outbuf, eof, ret, goal>>

(* Mutant: no more input is taken for the end of the stream.               *)
StreamEnd_NoInput ==
    /\ pc = "drain" /\ toread = 0 /\ (ret = "END" \/ fpos = file.have)
    /\ eof' = TRUE
    /\ Return(Len(copied))
    /\ UNCHANGED <<file, decoder, logic_offset, outbuf, outbuf_start, copied, size, ret, goal>>

(* The decoder has said that the stream ends, in this call.                *)
StreamEnd ==
    /\ pc = "drain" /\ toread = 0 /\ ret = "END"
    /\ eof' = TRUE
    /\ Return(Len(copied))
    /\ UNCHANGED <<file, decoder, logic_offset, outbuf, outbuf_start, copied, size, ret, goal>>

Refilling == pc = "drain" /\ toread = 0 /\ ret # "END"

Exit ==
    /\ pc' = "exited"
    /\ UNCHANGED <<file, decoder, buffers, size, ret, goal, last>>

(* fread() met an error: "error read core".                                *)
ReadError ==
    /\ Refilling /\ avail_in = 0
    /\ file.error /\ file.have - fpos < InBuf
    /\ Exit

(* fread() found nothing but the end of the file: "truncated file".        *)
Truncated ==
    /\ Refilling /\ avail_in = 0
    /\ ~file.error /\ file.have = fpos
    /\ Exit

(* Input for the decoder, if it has none.                                  *)
Fill ==
    /\ Refilling
    /\ IF avail_in > 0
       THEN UNCHANGED <<fpos, avail_in>>
       ELSE LET nb == Min({InBuf, file.have - fpos})
            IN  /\ nb > 0 /\ (file.error => nb = InBuf)
                /\ avail_in' = nb
                /\ fpos' = fpos + nb
    /\ pc' = "decode"
    /\ UNCHANGED <<file, dec, buffers, size, ret, goal, last>>

(* A decoder that began where no stream begins finds what it cannot read,  *)
(* or takes it for some stream; while it goes on it gets on.               *)
Misled ==
    {d \in [ret : {"OK", "END", "ERROR"}, done : dec.done .. dec.done + avail_in,
            out : dec.out .. dec.out + OutBuf] :
         /\ d.out <= Strange
         /\ d.ret = "OK" => d.done > dec.done \/ d.out > dec.out}

(* What inflate() or lzma_code() can do: as much as the input and the room *)
(* in outbuf allow.  When the room is used up it need not have looked at   *)
(* the input behind what it wrote.  The trailer is not consumed while      *)
(* output is pending.  The end and an error are final.                     *)
Decoded ==
    LET sound == IF file.bad = 0 THEN file.units ELSE file.bad - 1
        given == dec.done + avail_in
        lim   == Min({given, sound})
        out   == Min({dec.out + OutBuf, file.out[lim]})
        full  == out = dec.out + OutBuf
        result(r, k) == [ret |-> r, done |-> k, out |-> out]
        paused == {result("OK", k) :
                      k \in {j \in dec.done .. lim : j < file.units /\ file.out[j] >= out}}
    IN  CASE dec.said # "OK" -> {[ret |-> dec.said, done |-> dec.done, out |-> dec.out]}
          [] dec.said = "OK" /\ ~dec.valid -> Misled
          [] OTHER ->
               (IF full THEN paused ELSE {})
               \cup (IF out < file.out[lim] THEN {}
                     ELSE IF lim = file.units THEN {result("END", lim)}
                     ELSE IF given > sound THEN {result("ERROR", lim)}
                     ELSE {result("OK", lim)})

(* Mutant: an error of the decoder is logged and no more.                  *)
Decode_ErrorGoesOn ==
    /\ pc = "decode"
    /\ \E d \in Decoded :
          /\ avail_in' = avail_in - (d.done - dec.done)
          /\ dec' = [dec EXCEPT !.done = d.done, !.out = d.out, !.said = d.ret]
          /\ outbuf' = [k \in 1 .. d.out - dec.out |-> Byte(dec.out + k)]
          /\ ret' = d.ret
    /\ pc' = "drain"
    /\ outbuf_start' = 0
    /\ UNCHANGED <<file, fpos, logic_offset, eof, copied, size, goal, last>>

(* The decoder writes to the beginning of outbuf.  An error is returned at *)
(* once, even if bytes were copied before.                                 *)
Decode ==
    /\ pc = "decode"
    /\ \E d \in Decoded :
          /\ avail_in' = avail_in - (d.done - dec.done)
          /\ dec' = [dec EXCEPT !.done = d.done, !.out = d.out, !.said = d.ret]
          /\ outbuf' = [k \in 1 .. d.out - dec.out |-> Byte(dec.out + k)]
          /\ ret' = d.ret
          /\ IF d.ret = "ERROR" THEN Return(-1) ELSE pc' = "drain" /\ UNCHANGED last
    /\ outbuf_start' = 0
    /\ UNCHANGED <<file, fpos, logic_offset, eof, copied, size, goal>>

-----------------------------------------------------------------------------
(***************************************************************************)
(* zfile_seek().                                                           *)
(***************************************************************************)
(* zfile_seek() returns n.                                                 *)
Returned(asked, n) == last' = [op |-> "seek", asked |-> asked, value |-> n]

NewOffset(whence, offset) == offset + (IF whence = "SET" THEN 0 ELSE logic_offset)

(* SEEK_END, a negative offset, and backwards to anywhere but the start.   *)
RefuseSeek(whence, offset) ==
    /\ pc = "idle"
    /\ \/ whence = "END"
       \/ NewOffset(whence, offset) < 0
       \/ NewOffset(whence, offset) < logic_offset /\ NewOffset(whence, offset) # 0
    /\ last' = [op |-> "refused", asked |-> offset, value |-> -1]
    /\ UNCHANGED <<file, decoder, buffers, pc, size, ret, goal>>

(* Mutant: what was decoded before is still there.                         *)
Rewind_KeepsOutput(whence, offset) ==
    /\ pc = "idle" /\ whence # "END"
    /\ NewOffset(whence, offset) = 0
    /\ logic_offset' = 0
    /\ avail_in' = 0 /\ dec' = NewDecoder(fpos)
    /\ eof' = FALSE /\ copied' = <<>>
    /\ Returned(0, 0)
    /\ UNCHANGED <<file, fpos, outbuf, outbuf_start, pc, size, ret, goal>>

(* To the start: the decoder is a new one; the file stays where it is.     *)
Rewind(whence, offset) ==
    /\ pc = "idle" /\ whence # "END"
    /\ NewOffset(whence, offset) = 0
    /\ logic_offset' = 0
    /\ avail_in' = 0 /\ dec' = NewDecoder(fpos)
    /\ outbuf' = <<>> /\ outbuf_start' = 0 /\ eof' = FALSE /\ copied' = <<>>
    /\ Returned(0, 0)
    /\ UNCHANGED <<file, fpos, pc, size, ret, goal>>

SeekForward(whence, offset) ==
    /\ pc = "idle" /\ whence # "END"
    /\ NewOffset(whence, offset) # 0
    /\ NewOffset(whence, offset) >= logic_offset
    /\ goal' = NewOffset(whence, offset)
    /\ pc' = "skip"
    /\ last' = [op |-> "none", asked |-> goal', value |-> 1]
    /\ UNCHANGED <<file, decoder, buffers, size, ret>>

Skip ==
    /\ pc = "skip" /\ last.value > 0 /\ goal > logic_offset
    /\ Begin(Min({SkipBuf, goal - logic_offset}))
    /\ UNCHANGED goal

(* Mutant: at the end of the stream the offset asked for is returned.      *)
EndSkip_AsAsked ==
    /\ pc = "skip"
    /\ \/ /\ last.value >= 0 /\ (goal <= logic_offset \/ last.value = 0)
          /\ Returned(goal, goal)
       \/ /\ last.value < 0
          /\ Returned(goal, -1)
    /\ pc' = "idle" /\ goal' = NoGoal
    /\ UNCHANGED <<file, decoder, buffers, size, ret>>

(* There, at the end of the stream, or an error.                           *)
EndSkip ==
    /\ pc = "skip"
    /\ \/ /\ last.value >= 0 /\ goal <= logic_offset
          /\ Returned(goal, goal)
       \/ /\ last.value = 0 /\ goal > logic_offset
          /\ Returned(goal, logic_offset)
       \/ /\ last.value < 0
          /\ Returned(goal, -1)
    /\ pc' = "idle" /\ goal' = NoGoal
    /\ UNCHANGED <<file, decoder, buffers, size, ret>>

(* zfile_close().                                                          *)
Close ==
    /\ pc = "idle"
    /\ pc' = "closed"
    /\ UNCHANGED <<file, decoder, buffers, size, ret, goal, last>>

Over == pc \in {"closed", "exited"} /\ UNCHANGED vars

-----------------------------------------------------------------------------
Step == Drain \/ StreamEnd \/ ReadError \/ Truncated \/ Fill \/ Decode \/ Skip \/ EndSkip

Whence == {"SET", "CUR", "END"}

Call ==
    \/ \E n \in Sizes : Read(n)
    \/ \E w \in Whence, o \in Offsets :
          RefuseSeek(w, o) \/ Rewind(w, o) \/ SeekForward(w, o)
    \/ Close

Next == Step \/ Call \/ Over

Spec == Init /\ [][Next]_vars

(* A call that was begun goes on; nothing makes stdio call.                *)
FairSpec == Spec /\ WF_vars(Step)

-----------------------------------------------------------------------------
(***************************************************************************)
(* Correctness.                                                            *)
(***************************************************************************)

(* Every variable holds a value of its type, and a seek ends where it was  *)
(* asked to, or at the end of the stream (the assertions of zfile_seek()). *)
TypeOK ==
    /\ file \in Files
    /\ fpos \in 0 .. file.have /\ avail_in \in 0 .. InBuf
    /\ dec \in [valid : BOOLEAN, done : Nat, out : Nat, said : {"OK", "END", "ERROR"}]
    /\ logic_offset \in Nat
    /\ Len(outbuf) <= OutBuf /\ outbuf_start \in 0 .. Len(outbuf)
    /\ pc \in {"idle", "drain", "decode", "skip", "exited", "closed"}
    /\ size \in Nat /\ ret \in {"OK", "END", "ERROR"} /\ goal \in Nat \cup {NoGoal}
    /\ pc = "idle" /\ last.op = "seek" /\ last.value >= 0 =>
        /\ last.value = logic_offset
        /\ last.value = last.asked \/ (eof /\ last.value < last.asked)

(* What zfile_read() copies to its reader are the bytes of the stream that *)
(* follow the offset of the call: none is left out and none comes twice;   *)
(* and if the decoder did not find the stream again after a rewind, none   *)
(* comes from before it.                                                   *)
DeliversStream ==
    copied = [k \in 1 .. Len(copied) |-> Byte(logic_offset - Len(copied) + k)]

(* The stream behaves as its reader may expect: see ByteStream.            *)
damaged == file.bad # 0
lost == ~dec.valid

failing == pc \in {"idle", "skip"} /\ last.value = -1 /\ last.op # "refused"

state ==
    IF pc \in {"exited", "closed"} THEN "stopped"
    ELSE IF eof THEN "ended" ELSE IF failing THEN "failed" ELSE "open"

Stream == INSTANCE ByteStream WITH length <- Length, pos <- logic_offset

ImplementsStream == Stream!Spec

(* Every call returns or ends the program.                                 *)
CallReturns == (pc \in {"drain", "decode", "skip"}) ~> (pc \in {"idle", "exited"})

(* The program is stopped only for a file that is truncated, as the        *)
(* message says, or cannot be read.                                        *)
ExitsOnlyIfShort == pc = "exited" => file.have < file.units \/ file.error
=============================================================================
