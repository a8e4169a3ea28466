---------------------------- MODULE ZFileProofs -----------------------------
(***************************************************************************)
(* Proofs about the stream of a compressed file, for any files and any     *)
(* sizes of the buffers.                                                   *)
(*                                                                         *)
(* What is behind the reader and what is in outbuf is together what the    *)
(* decoder has put out (Buffered), and that is never more than the units   *)
(* it has consumed yield (Decoder); so its end is the end of the stream.   *)
(* The rest is what the place in zfile_read() and zfile_seek() says of     *)
(* their variables (Calling).                                              *)
(***************************************************************************)
EXTENDS ZFile, ProofLemmas, SequenceTheorems, TLAPS

(* The units that can be decoded.                                          *)
Sound == IF file.bad = 0 THEN file.units ELSE file.bad - 1

(* The variables with their types, where TypeOK says less than a proof     *)
(* needs.                                                                  *)
Types ==
    /\ TypeOK
    /\ outbuf \in Seq(Int) /\ copied \in Seq(Int)
    /\ last \in [op : {"open", "none", "read", "refused", "seek"},
                 asked : Int, value : Nat \cup {-1}]

(* The decoder is where its input allows, and in step with the file while  *)
(* it is valid.                                                            *)
Decoder ==
    /\ dec.valid => dec.done <= Sound /\ dec.out <= file.out[dec.done]
    /\ dec.valid /\ dec.said = "END" => dec.out = Length
    /\ dec.valid /\ dec.said = "ERROR" => file.bad # 0
    /\ dec.valid => dec.done + avail_in = fpos
    /\ fpos = 0 => dec.valid

(* outbuf holds the last bytes put out, the reader's buffer the last ones  *)
(* copied, and the two meet at outbuf_start.                               *)
Buffered ==
    /\ \A k \in 1 .. Len(outbuf) : outbuf[k] = Byte(dec.out - Len(outbuf) + k)
    /\ \A k \in 1 .. Len(copied) : copied[k] = Byte(logic_offset - Len(copied) + k)
    /\ logic_offset = dec.out - Len(outbuf) + outbuf_start

(* What the calls under way know of the stream.                            *)
Calling ==
    /\ pc \in {"drain", "decode"} =>
           /\ size > 0 /\ ~eof /\ ret # "ERROR"
           /\ goal # NoGoal => goal >= logic_offset + size
           /\ last.value = 0 /\ last.op = "none"
    /\ pc = "drain" /\ ret = "END" => dec.said = "END"
    /\ pc = "decode" => outbuf_start = Len(outbuf) /\ avail_in > 0
    /\ pc = "skip" =>
           /\ goal # NoGoal /\ goal >= logic_offset
           /\ last.op # "refused"
           /\ last.value = 0 => eof
    /\ pc = "idle" => goal = NoGoal
    /\ eof /\ dec.valid => logic_offset = Length

(* The parts hold together.                                                *)
IInv == Types /\ Decoder /\ Buffered /\ Calling

-----------------------------------------------------------------------------
(* More units never yield less.                                            *)
LEMMA Rising ==
    ASSUME NEW f, FileType(f)
    PROVE  \A i, j \in 0 .. f.units : i <= j => f.out[i] <= f.out[j]
<1> DEFINE S == {n \in Nat : \A i \in 0 .. f.units :
                     i + n <= f.units => f.out[i] <= f.out[i + n]}
<1>1. f.units \in Nat /\ \A i \in 0 .. f.units : f.out[i] \in Nat
  BY DEF FileType
<1>2. 0 \in S
  BY <1>1
<1>3. ASSUME NEW n \in Nat, n \in S PROVE n + 1 \in S
  <2>1. ASSUME NEW i \in 0 .. f.units, i + (n + 1) <= f.units
        PROVE  f.out[i] <= f.out[i + (n + 1)]
    <3>1. i + n \in 0 .. f.units /\ i + (n + 1) \in 1 .. f.units
      BY <1>1, <2>1
    <3>2. f.out[i] <= f.out[i + n]
      BY <1>3, <3>1
    <3>3. f.out[(i + (n + 1)) - 1] <= f.out[i + (n + 1)]
      BY <3>1 DEF FileType
    <3>4. (i + (n + 1)) - 1 = i + n /\ i + (n + 1) \in 0 .. f.units
      BY <1>1, <3>1
    <3> QED
      BY <1>1, <3>1, <3>2, <3>3, <3>4
  <2> QED
    BY <2>1
<1> HIDE DEF S
<1>4. Nat \subseteq S
  BY <1>2, <1>3, NatSetInduction
<1>5. ASSUME NEW i \in 0 .. f.units, NEW j \in 0 .. f.units, i <= j
      PROVE  f.out[i] <= f.out[j]
  <2>1. j - i \in S
    BY <1>1, <1>4, <1>5
  <2>2. i + (j - i) = j /\ i + (j - i) <= f.units
    BY <1>1, <1>5
  <2> QED
    BY <2>1, <2>2 DEF S
<1> QED
  BY <1>5

(* The file, and how far a sound decoder can come in it.                   *)
LEMMA FileFacts ==
    ASSUME Types
    PROVE  /\ file.units \in Nat \ {0} /\ file.bad \in 0 .. file.units /\ file.have \in Nat
           /\ file.error \in BOOLEAN
           /\ Sound \in 0 .. file.units
           /\ \A k \in 0 .. file.units : file.out[k] \in 0 .. Length
           /\ \A i, j \in 0 .. file.units : i <= j => file.out[i] <= file.out[j]
           /\ file.out[0] = 0
           /\ Length \in Nat
<1>1. FileType(file)
  BY FilesAssumption DEF Types, TypeOK
<1>2. \A i, j \in 0 .. file.units : i <= j => file.out[i] <= file.out[j]
  BY <1>1, Rising
<1>3. /\ file.units \in Nat \ {0} /\ file.bad \in 0 .. file.units /\ file.have \in Nat
      /\ \A k \in 0 .. file.units : file.out[k] \in Nat
      /\ file.out[0] = 0 /\ file.error \in BOOLEAN
  BY <1>1 DEF FileType
<1>4. Sound \in 0 .. file.units
  BY <1>3 DEF Sound
<1>5. \A k \in 0 .. file.units : file.out[k] \in 0 .. Length
  <2>1. \A k \in 0 .. file.units : k <= file.units /\ file.units \in 0 .. file.units
    BY <1>3
  <2> QED
    BY <1>2, <1>3, <2>1 DEF Length
<1>6. Length \in Nat
  <2>1. file.units \in 0 .. file.units
    BY <1>3
  <2> QED
    BY <1>3, <2>1 DEF Length
<1> QED
  BY <1>2, <1>3, <1>4, <1>5, <1>6

(* What the decoder may do is sound: it goes on, in what it consumes and   *)
(* in what it writes, within the input, the room and the stream.           *)
LEMMA DecodedFacts ==
    ASSUME Types, Decoder, NEW d \in Decoded
    PROVE  /\ d.ret \in {"OK", "END", "ERROR"}
           /\ d.done \in Nat /\ d.done - dec.done \in 0 .. avail_in
           /\ d.out \in Nat /\ d.out - dec.out \in 0 .. OutBuf
           /\ dec.valid => d.done <= Sound /\ d.out <= file.out[d.done]
           /\ dec.valid /\ d.ret = "END" => d.out = Length
           /\ dec.valid /\ d.ret = "ERROR" => file.bad # 0
<1> DEFINE given == dec.done + avail_in
           sound == IF file.bad = 0 THEN file.units ELSE file.bad - 1
           lim   == Min({given, sound})
           out   == Min({dec.out + OutBuf, file.out[lim]})
           full  == out = dec.out + OutBuf
           result(r, k) == [ret |-> r, done |-> k, out |-> out]
           paused == {result("OK", k) :
                         k \in {j \in dec.done .. lim : j < file.units /\ file.out[j] >= out}}
<1>1. /\ dec \in [valid : BOOLEAN, done : Nat, out : Nat, said : {"OK", "END", "ERROR"}]
      /\ avail_in \in Nat /\ OutBuf \in Nat \ {0}
  BY SizesAssumption DEF Types, TypeOK
<1>2. /\ file.units \in Nat \ {0} /\ file.bad \in 0 .. file.units /\ Length \in Nat
      /\ Sound \in 0 .. file.units
      /\ \A k \in 0 .. file.units : file.out[k] \in 0 .. Length
      /\ \A i, j \in 0 .. file.units : i <= j => file.out[i] <= file.out[j]
  BY FileFacts
<1>3. CASE dec.said = "OK" /\ ~dec.valid
  <2>1. d \in Misled
    BY <1>3 DEF Decoded
  <2>2. /\ d.ret \in {"OK", "END", "ERROR"} /\ d.done \in dec.done .. dec.done + avail_in
        /\ d.out \in dec.out .. dec.out + OutBuf
    BY <2>1 DEF Misled
  <2> QED
    BY <1>1, <1>3, <2>2
<1>4. CASE dec.said # "OK"
  <2>1. d = [ret |-> dec.said, done |-> dec.done, out |-> dec.out]
    BY <1>4 DEF Decoded
  <2> QED
    BY <1>1, <1>2, <1>4, <2>1 DEF Decoder
<1>5. CASE dec.valid /\ dec.said = "OK"
  <2>1. d \in (IF full THEN paused ELSE {})
               \cup (IF out < file.out[lim] THEN {}
                     ELSE IF lim = file.units THEN {result("END", lim)}
                     ELSE IF given > sound THEN {result("ERROR", lim)}
                     ELSE {result("OK", lim)})
    BY <1>5 DEF Decoded
  <2>2. sound = Sound
    BY DEF Sound
  <2>3. lim \in dec.done .. Sound /\ lim <= given /\ lim \in 0 .. file.units
        /\ (lim = file.units \/ given <= Sound \/ lim = Sound)
    BY <1>1, <1>2, <1>5, <2>2, MinMax DEF Decoder
  <2>4. file.out[lim] \in dec.out .. Length
    <3>1. file.out[dec.done] <= file.out[lim] /\ file.out[lim] \in 0 .. Length
      BY <1>1, <1>2, <2>3
    <3> QED
      BY <1>1, <1>2, <1>5, <3>1 DEF Decoder
  <2>5. /\ out \in dec.out .. Length /\ out - dec.out <= OutBuf /\ out <= file.out[lim]
    <3> HIDE DEF lim
    <3>1. dec.out \in Nat /\ dec.out + OutBuf \in Int /\ file.out[lim] \in Int
      BY <1>1, <1>2, <2>4
    <3>2. out = IF dec.out + OutBuf <= file.out[lim] THEN dec.out + OutBuf ELSE file.out[lim]
      BY <3>1, MinMax
    <3> QED
      BY <1>1, <1>2, <2>4, <3>1, <3>2
  <2> HIDE DEF lim, out
  <2>6. CASE d \in paused
    <3>1. PICK k \in dec.done .. lim : k < file.units /\ file.out[k] >= out /\ d = result("OK", k)
      BY <2>6
    <3>2. file.out[k] \in 0 .. Length
      BY <1>1, <1>2, <2>3, <3>1
    <3> QED
      BY <1>1, <1>2, <2>2, <2>3, <2>5, <3>1, <3>2
  <2>7. CASE d \notin paused
    <3>1. out = file.out[lim]
      BY <1>2, <2>1, <2>3, <2>4, <2>5, <2>7
    <3>2. \/ d = result("END", lim) /\ lim = file.units
          \/ d = result("ERROR", lim) /\ lim # file.units /\ given > sound
          \/ d = result("OK", lim)
      BY <2>1, <2>7
    <3>3. given > sound /\ file.bad = 0 => lim = file.units
      BY <1>1, <1>2, <2>2, MinMax DEF lim
    <3> QED
      BY <1>1, <1>2, <1>5, <2>2, <2>3, <2>5, <3>1, <3>2, <3>3 DEF Length
  <2> QED
    BY <2>6, <2>7
<1> QED
  BY <1>1, <1>3, <1>4, <1>5

-----------------------------------------------------------------------------
(* The variables with their types, one by one.                             *)
LEMMA TypeFacts ==
    ASSUME Types
    PROVE  /\ file \in Files
           /\ fpos \in 0 .. file.have /\ avail_in \in 0 .. InBuf
           /\ dec \in [valid : BOOLEAN, done : Nat, out : Nat, said : {"OK", "END", "ERROR"}]
           /\ logic_offset \in Nat /\ Length \in Nat
           /\ Len(outbuf) \in 0 .. OutBuf /\ outbuf_start \in 0 .. Len(outbuf)
           /\ outbuf \in Seq(Int) /\ copied \in Seq(Int) /\ Len(copied) \in Nat
           /\ size \in Nat /\ goal \in Nat \cup {NoGoal}
           /\ last.asked \in Int /\ last.value \in Nat \cup {-1}
           /\ InBuf \in Nat \ {0} /\ OutBuf \in Nat \ {0} /\ SkipBuf \in Nat \ {0}
<1>1. Length \in Nat
  BY FileFacts
<1>2. Len(outbuf) \in Nat /\ Len(copied) \in Nat
  BY LenProperties DEF Types
<1> QED
  BY <1>1, <1>2, SizesAssumption DEF Types, TypeOK

(* What is measured by the file stays with it.                             *)
LEMMA SameFile ==
    ASSUME file' = file
    PROVE  Length' = Length /\ Sound' = Sound
BY DEF Length, Sound

(* A step that leaves the file, the decoder and outbuf alone keeps what is *)
(* said of them.                                                           *)
LEMMA Unmoved ==
    ASSUME Types, Decoder, Buffered,
           UNCHANGED <<file, decoder, logic_offset, outbuf, outbuf_start, eof>>,
           copied' \in {copied, <<>>}, size' \in Nat, ret' \in {"OK", "END", "ERROR"}, goal' \in Nat \cup {NoGoal},
           pc' \in {"idle", "drain", "decode", "skip", "exited", "closed"},
           last' \in [op : {"open", "none", "read", "refused", "seek"},
                      asked : Int, value : Nat \cup {-1}],
           (pc = "idle" /\ last.op = "seek" /\ last.value >= 0 =>
               /\ last.value = logic_offset
               /\ last.value = last.asked \/ (eof /\ last.value < last.asked))'
    PROVE  Types' /\ Decoder' /\ Buffered'
<1>1. Length' = Length /\ Sound' = Sound
  BY SameFile
<1>2. Types'
  <2>1. copied' \in Seq(Int)
    BY EmptySeq, Zenon DEF Types
  <2> QED
    BY <1>1, <2>1 DEF Types, TypeOK, decoder
<1>3. Decoder'
  BY <1>1 DEF Decoder, decoder
<1>4. Buffered'
  BY DEF Buffered, Byte, decoder
<1> QED
  BY <1>2, <1>3, <1>4

(* zfile_read() begins, with nothing copied; at the end of the stream that *)
(* is all.                                                                 *)
LEMMA BeginStep ==
    ASSUME IInv, NEW n \in Nat \ {0}, Begin(n), UNCHANGED goal,
           goal # NoGoal => goal >= logic_offset + n
    PROVE  IInv'
<1>1. /\ UNCHANGED <<file, decoder, logic_offset, outbuf, outbuf_start, eof>>
      /\ copied' = <<>> /\ size' = n /\ ret' = "OK"
      /\ goal' = goal /\ goal \in Nat \cup {NoGoal} /\ last.asked \in Int
  BY TypeFacts DEF Begin, IInv
<1>2. Length' = Length
  BY <1>1, SameFile
<1>3. CASE eof
  <2>1. /\ pc' = IF goal = NoGoal THEN "idle" ELSE "skip"
        /\ last' = [op |-> "read", asked |-> last.asked, value |-> 0]
    BY <1>3 DEF Begin, Return
  <2>2. Types' /\ Decoder' /\ Buffered'
    BY <1>1, <2>1, Unmoved DEF IInv
  <2>3. goal = NoGoal \/ goal >= logic_offset
    BY <1>1, TypeFacts, SMTT(30) DEF IInv
  <2>4. Calling'
    BY <1>1, <1>2, <1>3, <2>1, <2>3 DEF Calling, IInv, decoder
  <2> QED
    BY <2>2, <2>4 DEF IInv
<1>4. CASE ~eof
  <2>1. pc' = "drain" /\ last' = [op |-> "none", asked |-> n, value |-> 0]
    BY <1>4 DEF Begin
  <2>2. Types' /\ Decoder' /\ Buffered'
    BY <1>1, <2>1, Unmoved DEF IInv
  <2>3. Calling'
    BY <1>1, <1>2, <1>4, <2>1 DEF Calling, IInv, decoder
  <2> QED
    BY <2>2, <2>3 DEF IInv
<1> QED
  BY <1>3, <1>4

(* A read by the caller begins.                                            *)
LEMMA ReadStep ==
    ASSUME IInv, NEW n \in Sizes, Read(n)
    PROVE  IInv'
<1>1. n \in Nat \ {0} /\ Begin(n) /\ UNCHANGED goal /\ goal = NoGoal
  BY SizesAssumption DEF Read, IInv, Calling
<1> QED
  BY <1>1, BeginStep

(* A read by zfile_seek() begins.                                          *)
LEMMA SkipStep ==
    ASSUME IInv, Skip
    PROVE  IInv'
<1> DEFINE n == Min({SkipBuf, goal - logic_offset})
<1>1. /\ goal \in Nat /\ logic_offset \in Nat /\ goal > logic_offset
      /\ SkipBuf \in Nat \ {0}
  BY TypeFacts DEF Skip, IInv, Calling
<1>2. n \in Nat \ {0} /\ goal >= logic_offset + n
  BY <1>1, MinMax
<1>3. Begin(n) /\ UNCHANGED goal
  BY DEF Skip
<1> HIDE DEF n
<1> QED
  BY <1>2, <1>3, BeginStep

(* What is left in outbuf, as far as the reader has asked for it.          *)
LEMMA ToRead ==
    ASSUME Types
    PROVE  toread \in 0 .. size /\ toread <= Len(outbuf) - outbuf_start
           /\ (toread = 0 => size = 0 \/ outbuf_start = Len(outbuf))
<1> DEFINE left == Len(outbuf) - outbuf_start
<1>1. left \in Nat /\ size \in Nat
  BY TypeFacts, SMTT(30)
<1>2. toread = IF left <= size THEN left ELSE size
  BY <1>1, MinMax DEF toread
<1>3. toread = 0 => size = 0 \/ outbuf_start = Len(outbuf)
  BY <1>2, TypeFacts, SMTT(30)
<1> QED
  BY <1>1, <1>2, <1>3

(* The bytes that are copied are the next ones.                            *)
LEMMA DrainStep ==
    ASSUME IInv, Drain
    PROVE  IInv'
<1> DEFINE piece == SubSeq(outbuf, outbuf_start + 1, outbuf_start + toread)
<1>1. /\ toread \in 1 .. size /\ toread <= Len(outbuf) - outbuf_start
      /\ Len(outbuf) \in Nat /\ outbuf_start \in 0 .. Len(outbuf)
      /\ size \in Nat /\ Len(copied) \in Nat
      /\ dec.out \in Nat /\ logic_offset \in Nat /\ Length \in Nat
      /\ goal \in Nat \cup {NoGoal} /\ last.asked \in Int /\ last.value \in Nat \cup {-1}
  <2>1. toread \in 0 .. size /\ toread > 0 /\ toread <= Len(outbuf) - outbuf_start
    BY ToRead DEF IInv, Drain
  <2>2. size \in Nat
    BY TypeFacts DEF IInv
  <2>3. toread \in 1 .. size
    BY <2>1, <2>2
  <2> QED
    BY <2>1, <2>3, TypeFacts DEF IInv
<1>0. copied' = copied \o piece
  BY DEF Drain
<1>2. /\ file' = file /\ fpos' = fpos /\ avail_in' = avail_in /\ dec' = dec
      /\ outbuf' = outbuf /\ eof' = eof /\ ret' = ret /\ goal' = goal /\ pc = "drain"
      /\ logic_offset' = logic_offset + toread /\ size' = size - toread
      /\ outbuf_start' = outbuf_start + toread
  BY DEF Drain, decoder
<1>3. Length' = Length /\ Sound' = Sound
  BY <1>2, SameFile
<1>4. /\ piece \in Seq(Int) /\ Len(piece) = toread
      /\ \A i \in 1 .. toread : piece[i] = outbuf[outbuf_start + i]
  <2>1. \A i \in outbuf_start + 1 .. outbuf_start + toread : outbuf[i] \in Int
    BY <1>1, LenProperties DEF IInv, Types
  <2> QED
    BY <1>1, <2>1, SubSeqProperties, SMTT(30)
<1> HIDE DEF piece
<1>5. /\ copied' \in Seq(Int) /\ Len(copied') = Len(copied) + toread
      /\ \A i \in 1 .. Len(copied) + toread :
             copied'[i] = IF i <= Len(copied) THEN copied[i]
                          ELSE outbuf[outbuf_start + (i - Len(copied))]
  <2>1. copied \in Seq(Int)
    BY DEF IInv, Types
  <2>2. /\ copied' \in Seq(Int) /\ Len(copied') = Len(copied) + toread
        /\ \A i \in 1 .. Len(copied) + toread :
               copied'[i] = IF i <= Len(copied) THEN copied[i] ELSE piece[i - Len(copied)]
    BY <1>0, <1>4, <2>1, ConcatProperties
  <2>3. ASSUME NEW i \in 1 .. Len(copied) + toread, ~(i <= Len(copied))
        PROVE  piece[i - Len(copied)] = outbuf[outbuf_start + (i - Len(copied))]
    <3>1. i - Len(copied) \in 1 .. toread
      BY <1>1, <2>3
    <3> QED
      BY <1>4, <3>1
  <2> QED
    BY <2>2, <2>3
<1>6. Buffered'
  <2>1. logic_offset' = (dec.out - Len(outbuf) + outbuf_start)'
    BY <1>1, <1>2, SMTT(30) DEF IInv, Buffered, decoder
  <2>2. (\A k \in 1 .. Len(outbuf) : outbuf[k] = Byte(dec.out - Len(outbuf) + k))'
    BY <1>2 DEF IInv, Buffered, Byte
  <2>3. ASSUME NEW k \in 1 .. Len(copied')
        PROVE  copied'[k] = Byte(logic_offset' - Len(copied') + k)
    <3>1. k \in 1 .. Len(copied) + toread
      BY <1>5, <2>3
    <3>2. CASE k <= Len(copied)
      <4>1. copied'[k] = copied[k] /\ copied[k] = Byte(logic_offset - Len(copied) + k)
        BY <1>1, <1>5, <3>1, <3>2 DEF IInv, Buffered
      <4>2. logic_offset - Len(copied) + k
              = (logic_offset + toread) - (Len(copied) + toread) + k
        BY <1>1, <3>1
      <4> QED
        BY <1>2, <1>5, <4>1, <4>2
    <3>3. CASE k > Len(copied)
      <4>1. outbuf_start + (k - Len(copied)) \in 1 .. Len(outbuf)
        BY <1>1, <3>1, <3>3
      <4>2. copied'[k] = Byte(dec.out - Len(outbuf) + (outbuf_start + (k - Len(copied))))
        <5>1. copied'[k] = outbuf[outbuf_start + (k - Len(copied))]
          <6>1. ~(k <= Len(copied))
            BY <1>1, <3>1, <3>3
          <6> QED
            BY <1>5, <3>1, <6>1
        <5> QED
          BY <4>1, <5>1 DEF IInv, Buffered
      <4>3. logic_offset = dec.out - Len(outbuf) + outbuf_start
        BY DEF IInv, Buffered
      <4>4. dec.out - Len(outbuf) + (outbuf_start + (k - Len(copied)))
              = (logic_offset + toread) - (Len(copied) + toread) + k
        <5>1. /\ k \in Int /\ Len(copied) \in Int /\ toread \in Int /\ logic_offset \in Int
              /\ dec.out \in Int /\ Len(outbuf) \in Int /\ outbuf_start \in Int
          BY <1>1, <3>1
        <5>2. logic_offset + (k - Len(copied))
                = (logic_offset + toread) - (Len(copied) + toread) + k
          BY <5>1
        <5>3. dec.out - Len(outbuf) + (outbuf_start + (k - Len(copied)))
                = logic_offset + (k - Len(copied))
          BY <4>3, <5>1
        <5> QED
          BY <5>2, <5>3
      <4> QED
        BY <1>2, <1>5, <4>2, <4>4
    <3> QED
      BY <1>1, <3>1, <3>2, <3>3
  <2>4. (\A k \in 1 .. Len(copied) : copied[k] = Byte(logic_offset - Len(copied) + k))'
    BY <1>2, <2>3 DEF Byte
  <2> QED
    BY <2>1, <2>2, <2>4 DEF Buffered
<1>7. logic_offset' \in Nat
  BY <1>1, <1>2
<1>8. /\ pc' \in {"idle", "skip", "drain"} /\ last'.asked \in Int
      /\ last' \in [op : {"none", "read"}, asked : Int, value : Nat]
      /\ pc' = "idle" => last'.op = "read" /\ goal = NoGoal
      /\ pc' = "skip" => goal # NoGoal /\ last'.value # 0
      /\ pc' = "drain" => size' > 0 /\ last' = last
  <2>1. CASE size = toread
    <3>1. /\ pc' = IF goal = NoGoal THEN "idle" ELSE "skip"
          /\ last' = [op |-> "read", asked |-> last.asked, value |-> Len(copied')]
      BY <2>1 DEF Drain, Return
    <3> QED
      BY <1>1, <1>5, <3>1
  <2>2. CASE size # toread
    <3>1. UNCHANGED <<pc, last>>
      BY <2>2 DEF Drain
    <3>2. last.value = 0 /\ last.op = "none"
      BY <1>2 DEF IInv, Calling
    <3> QED
      BY <1>1, <1>2, <2>2, <3>1, <3>2 DEF IInv, Types
  <2> QED
    BY <2>1, <2>2
<1>9. Types'
  <2>1. size - toread \in Nat /\ outbuf_start + toread \in 0 .. Len(outbuf)
    BY <1>1
  <2>2. /\ logic_offset' \in Nat /\ size' \in Nat
        /\ outbuf_start' \in (0 .. Len(outbuf))'
    BY <1>2, <1>3, <1>7, <2>1
  <2> HIDE DEF piece
  <2> QED
    BY <1>2, <1>3, <1>5, <1>8, <2>2 DEF IInv, Types, TypeOK
<1>10. Decoder'
  BY <1>2, <1>3 DEF IInv, Decoder, decoder
<1>11. Calling'
  BY <1>1, <1>2, <1>3, <1>8 DEF IInv, Calling, decoder
<1> QED
  BY <1>6, <1>9, <1>10, <1>11 DEF IInv

(* The reader is told of the end when everything is behind it.             *)
LEMMA StreamEndStep ==
    ASSUME IInv, StreamEnd
    PROVE  IInv' /\ (dec.valid => logic_offset = Length)
<1>1. /\ file' = file /\ fpos' = fpos /\ avail_in' = avail_in /\ dec' = dec
      /\ logic_offset' = logic_offset /\ outbuf' = outbuf /\ outbuf_start' = outbuf_start
      /\ copied' = copied /\ size' = size /\ ret' = ret /\ goal' = goal
      /\ eof' = TRUE /\ pc = "drain" /\ toread = 0 /\ ret = "END"
      /\ pc' = IF goal = NoGoal THEN "idle" ELSE "skip"
      /\ last' = [op |-> "read", asked |-> last.asked, value |-> Len(copied)]
  BY DEF StreamEnd, decoder, Return
<1>2. Length' = Length /\ Sound' = Sound
  BY <1>1, SameFile
<1>3. /\ size > 0 /\ (dec.valid => dec.out = Length)
      /\ goal # NoGoal => goal >= logic_offset + size
  BY <1>1 DEF IInv, Calling, Decoder
<1>4. /\ size \in Nat /\ logic_offset \in Nat /\ Length \in Nat
      /\ dec.out \in Nat /\ Len(outbuf) \in Nat /\ outbuf_start \in Nat
      /\ last.asked \in Int /\ Len(copied) \in Nat /\ goal \in Nat \cup {NoGoal}
  BY TypeFacts DEF IInv
<1>5. dec.valid => logic_offset = Length
  <2>1. outbuf_start = Len(outbuf)
    BY <1>1, <1>3, <1>4, ToRead DEF IInv
  <2>2. logic_offset = dec.out - Len(outbuf) + outbuf_start
    BY DEF IInv, Buffered
  <2> QED
    BY <1>3, <1>4, <2>1, <2>2
<1>6. Types'
  BY <1>1, <1>2, <1>4 DEF IInv, Types, TypeOK
<1>7. Decoder' /\ Buffered'
  BY <1>1, <1>2 DEF IInv, Decoder, Buffered, Byte, decoder
<1>8. Calling'
  <2>1. goal # NoGoal => goal >= logic_offset
    BY <1>3, <1>4
  <2> QED
    BY <1>1, <1>2, <1>5, <2>1 DEF Calling, decoder
<1> QED
  BY <1>5, <1>6, <1>7, <1>8 DEF IInv

(* The program ends, or the stream is closed.                              *)
LEMMA StopStep ==
    ASSUME IInv, Exit \/ Close
    PROVE  IInv'
<1>1. /\ UNCHANGED <<file, decoder, logic_offset, outbuf, outbuf_start, eof>>
      /\ copied' = copied /\ size' = size /\ ret' = ret /\ goal' = goal /\ last' = last
      /\ pc' \in {"exited", "closed"}
  BY DEF Exit, Close, buffers
<1>2. Types' /\ Decoder' /\ Buffered'
  BY <1>1, Unmoved DEF IInv, Types, TypeOK
<1>3. Length' = Length
  BY <1>1, SameFile
<1>4. Calling'
  BY <1>1, <1>3 DEF IInv, Calling, decoder
<1> QED
  BY <1>2, <1>4 DEF IInv

(* The next units of the file become the input.                            *)
LEMMA FillStep ==
    ASSUME IInv, Fill
    PROVE  IInv'
<1> DEFINE nb == Min({InBuf, file.have - fpos})
<1>1. /\ file' = file /\ dec' = dec /\ pc = "drain" /\ toread = 0 /\ ret # "END"
      /\ logic_offset' = logic_offset /\ outbuf' = outbuf /\ outbuf_start' = outbuf_start
      /\ eof' = eof /\ copied' = copied
      /\ size' = size /\ ret' = ret /\ goal' = goal /\ last' = last
      /\ pc' = "decode"
  BY DEF Fill, Refilling, buffers
<1>2. \/ avail_in > 0 /\ avail_in' = avail_in /\ fpos' = fpos
      \/ /\ ~(avail_in > 0) /\ nb > 0
         /\ avail_in' = nb /\ fpos' = fpos + nb
  BY DEF Fill
<1>3. Length' = Length /\ Sound' = Sound
  BY <1>1, SameFile
<1>4. /\ avail_in \in 0 .. InBuf /\ fpos \in 0 .. file.have /\ InBuf \in Nat /\ size \in Nat
      /\ file.have \in Nat /\ dec.done \in Nat
  <2>1. dec.done \in Nat
    BY TypeFacts DEF IInv
  <2> QED
    BY <2>1, TypeFacts, FileFacts, SMTT(30) DEF IInv
<1>5. nb = IF InBuf <= file.have - fpos THEN InBuf ELSE file.have - fpos
  BY <1>4, MinMax
<1> HIDE DEF nb
<1>6. /\ avail_in' \in 1 .. InBuf /\ fpos' \in 0 .. file.have
      /\ fpos' - avail_in' = fpos - avail_in /\ (fpos' = 0 => fpos = 0)
  <2>1. CASE avail_in > 0 /\ avail_in' = avail_in /\ fpos' = fpos
    BY <1>4, <2>1
  <2>2. CASE ~(avail_in > 0) /\ nb > 0 /\ avail_in' = nb /\ fpos' = fpos + nb
    <3>1. nb \in 1 .. InBuf /\ fpos + nb \in 1 .. file.have /\ avail_in = 0
      BY <1>4, <1>5, <2>2
    <3>2. (fpos + nb) - nb = fpos - avail_in /\ fpos + nb # 0
      BY <1>4, <3>1
    <3> QED
      BY <1>4, <2>2, <3>1, <3>2
  <2> QED
    BY <1>2, <2>1, <2>2
<1>7. Types'
  BY <1>1, <1>3, <1>4, <1>6 DEF IInv, Types, TypeOK
<1>8. Decoder'
  <2>1. dec.valid => dec.done + avail_in' = fpos'
    <3>1. SUFFICES ASSUME dec.valid PROVE dec.done + avail_in' = fpos'
      OBVIOUS
    <3>2. dec.done + avail_in = fpos
      BY <3>1 DEF IInv, Decoder
    <3>3. avail_in' \in Int /\ fpos' \in Int /\ avail_in \in Int /\ fpos \in Int
          /\ dec.done \in Int
      BY <1>4, <1>6
    <3>4. fpos' - avail_in' = fpos - avail_in
      BY <1>6
    <3>5. PICK d \in Int, a \in Int, f \in Int, b \in Int, g \in Int :
              d = dec.done /\ a = avail_in /\ f = fpos /\ b = avail_in' /\ g = fpos'
      BY <3>3
    <3>6. d + a = f /\ g - b = f - a
      BY <3>2, <3>4, <3>5
    <3>7. d + b = g
      BY <3>6
    <3> QED
      BY <3>5, <3>7
  <2> QED
    BY <1>1, <1>3, <1>6, <2>1 DEF IInv, Decoder
<1>9. Buffered'
  BY <1>1 DEF IInv, Buffered, Byte
<1>10. Calling'
  <2>1. outbuf_start = Len(outbuf)
    <3>1. size > 0
      BY <1>1 DEF IInv, Calling
    <3> QED
      BY <1>1, <1>4, <3>1, ToRead DEF IInv
  <2> QED
    BY <1>1, <1>3, <1>4, <1>6, <2>1 DEF IInv, Calling
<1> QED
  BY <1>7, <1>8, <1>9, <1>10 DEF IInv

(* The decoder puts out the bytes that follow; an error is reported.       *)
LEMMA DecodeStep ==
    ASSUME IInv, Decode
    PROVE  IInv'
<1>1. PICK d \in Decoded :
          /\ avail_in' = avail_in - (d.done - dec.done)
          /\ dec' = [dec EXCEPT !.done = d.done, !.out = d.out, !.said = d.ret]
          /\ outbuf' = [k \in 1 .. d.out - dec.out |-> Byte(dec.out + k)]
          /\ ret' = d.ret
          /\ IF d.ret = "ERROR" THEN Return(-1) ELSE pc' = "drain" /\ UNCHANGED last
  BY DEF Decode
<1>2. /\ file' = file /\ fpos' = fpos /\ logic_offset' = logic_offset /\ eof' = eof
      /\ copied' = copied /\ size' = size /\ goal' = goal
      /\ outbuf_start' = 0 /\ pc = "decode"
  BY DEF Decode
<1>3. Length' = Length /\ Sound' = Sound
  BY <1>2, SameFile
<1>4. /\ d.ret \in {"OK", "END", "ERROR"}
      /\ d.done \in Nat /\ d.done - dec.done \in 0 .. avail_in
      /\ d.out \in Nat /\ d.out - dec.out \in 0 .. OutBuf
      /\ dec.valid => d.done <= Sound /\ d.out <= file.out[d.done]
      /\ dec.valid /\ d.ret = "END" => d.out = Length
      /\ dec.valid /\ d.ret = "ERROR" => file.bad # 0
  BY DecodedFacts DEF IInv
<1>5. /\ dec \in [valid : BOOLEAN, done : Nat, out : Nat, said : {"OK", "END", "ERROR"}]
      /\ Length \in Nat /\ OutBuf \in Nat /\ avail_in \in 0 .. InBuf /\ InBuf \in Nat
      /\ Sound \in 0 .. file.units /\ file.units \in Nat /\ fpos \in 0 .. file.have
      /\ size \in Nat /\ goal \in Nat \cup {NoGoal} /\ last.asked \in Int
      /\ logic_offset \in Nat /\ Len(outbuf) \in Nat
  BY TypeFacts, FileFacts, SMTT(30) DEF IInv
<1>6. /\ size > 0 /\ ~eof /\ (goal # NoGoal => goal >= logic_offset + size)
      /\ last.value = 0 /\ last.op = "none" /\ outbuf_start = Len(outbuf)
  BY <1>2 DEF IInv, Calling
<1> DEFINE n == d.out - dec.out
<1>7. /\ n \in 0 .. OutBuf /\ d.out \in Nat /\ d.done \in Nat
      /\ avail_in' \in 0 .. InBuf /\ d.done + avail_in' = dec.done + avail_in
      /\ dec.out \in Nat
  <2>1. dec.done \in Nat /\ dec.out \in Nat
    BY <1>5
  <2>5. d.done - dec.done \in 0 .. avail_in /\ avail_in \in 0 .. InBuf /\ InBuf \in Nat
    BY <1>4, <1>5
  <2>6. /\ avail_in - (d.done - dec.done) \in 0 .. InBuf
        /\ d.done + (avail_in - (d.done - dec.done)) = dec.done + avail_in
    BY <1>4, <2>1, <2>5
  <2> QED
    BY <1>1, <1>4, <2>1, <2>6
<1>8. /\ dec' \in [valid : BOOLEAN, done : Nat, out : Nat, said : {"OK", "END", "ERROR"}]
      /\ dec'.valid = dec.valid /\ dec'.done = d.done /\ dec'.out = d.out
      /\ dec'.said = d.ret
  BY <1>1, <1>4, <1>5, <1>7
<1>9. /\ outbuf' \in Seq(Int) /\ Len(outbuf') = n
      /\ \A k \in 1 .. n : outbuf'[k] = Byte(dec.out + k)
  <2> HIDE DEF n
  <2>1. outbuf' = [k \in 1 .. n |-> Byte(dec.out + k)] /\ n \in Nat
    BY <1>1, <1>7 DEF n
  <2>2. \A k \in 1 .. n : Byte(dec.out + k) \in Int
    BY <1>7, <2>1 DEF Byte
  <2> QED
    BY <2>1, <2>2
<1>10. Buffered'
  <2>1. logic_offset = dec.out
    <3>1. logic_offset = dec.out - Len(outbuf) + outbuf_start
      BY DEF IInv, Buffered
    <3> QED
      BY <1>5, <1>6, <1>7, <3>1
  <2>2. d.out - n = dec.out /\ d.out - n + 0 = dec.out
    BY <1>7
  <2>3. \A k \in 1 .. n : outbuf'[k] = Byte(d.out - n + k)
    BY <1>9, <2>2
  <2>4. (\A k \in 1 .. Len(copied) : copied[k] = Byte(logic_offset - Len(copied) + k))'
    BY <1>2, <1>8 DEF IInv, Buffered, Byte
  <2>5. logic_offset' = dec'.out - Len(outbuf') + outbuf_start'
    BY <1>2, <1>8, <1>9, <2>1, <2>2
  <2>6. (\A k \in 1 .. Len(outbuf) : outbuf[k] = Byte(dec.out - Len(outbuf) + k))'
    BY <1>8, <1>9, <2>3 DEF Byte
  <2> QED
    BY <2>4, <2>5, <2>6 DEF Buffered
<1>11. /\ pc' \in {"idle", "skip", "drain"}
       /\ last' \in [op : {"none", "read"}, asked : Int, value : Nat \cup {-1}]
       /\ pc' = "idle" => last'.op = "read" /\ goal = NoGoal
       /\ pc' = "skip" => goal # NoGoal /\ last'.value = -1
       /\ pc' = "drain" => last' = last /\ d.ret # "ERROR"
  <2>1. CASE d.ret = "ERROR"
    <3>1. /\ pc' = IF goal = NoGoal THEN "idle" ELSE "skip"
          /\ last' = [op |-> "read", asked |-> last.asked, value |-> -1]
      BY <1>1, <2>1 DEF Return
    <3> QED
      BY <1>5, <3>1
  <2>2. CASE d.ret # "ERROR"
    <3>1. pc' = "drain" /\ last' = last
      BY <1>1, <2>2
    <3> QED
      BY <1>6, <2>2, <3>1 DEF IInv, Types
  <2> QED
    BY <2>1, <2>2
<1>12. Types'
  <2>1. /\ Len(outbuf') <= OutBuf /\ outbuf_start' \in 0 .. Len(outbuf')
    BY <1>2, <1>7, <1>9
  <2>2. (pc = "idle" /\ last.op = "seek" /\ last.value >= 0 =>
            /\ last.value = logic_offset
            /\ last.value = last.asked \/ (eof /\ last.value < last.asked))'
    BY <1>11
  <2>4. /\ last' \in [op : {"open", "none", "read", "refused", "seek"},
                      asked : Int, value : Nat \cup {-1}]
        /\ pc' \in {"idle", "drain", "decode", "skip", "exited", "closed"}
    BY <1>11
  <2>5. file' \in Files /\ size' \in Nat /\ goal' \in Nat \cup {NoGoal}
        /\ avail_in' \in 0 .. InBuf /\ outbuf' \in Seq(Int)
    BY <1>2, <1>5, <1>7, <1>9 DEF IInv, Types, TypeOK
  <2>6. /\ fpos' \in 0 .. file'.have /\ logic_offset' \in Nat
        /\ dec' \in [valid : BOOLEAN, done : Nat, out : Nat, said : {"OK", "END", "ERROR"}]
    BY <1>2, <1>3, <1>5, <1>8
  <2>3. ret' \in {"OK", "END", "ERROR"} /\ copied' \in Seq(Int)
    BY <1>1, <1>2, <1>4 DEF IInv, Types
  <2> HIDE DEF n
  <2> QED
    BY <2>1, <2>2, <2>3, <2>4, <2>5, <2>6, Zenon DEF Types, TypeOK
<1>13. Decoder'
  <2>1. dec.valid => d.done <= Sound /\ d.out <= file.out[d.done]
    BY <1>4
  <2>2. dec.valid => d.done + avail_in' = fpos
    BY <1>7 DEF IInv, Decoder
  <2>3. dec.valid /\ d.ret = "END" => d.out = Length
    BY <1>4
  <2>5. dec.valid /\ d.ret = "ERROR" => file.bad # 0
    BY <1>4
  <2>4. fpos = 0 => dec.valid
    BY DEF IInv, Decoder
  <2> QED
    BY <1>2, <1>3, <1>8, <2>1, <2>2, <2>3, <2>4, <2>5 DEF Decoder
<1>14. Calling'
  <2>1. goal # NoGoal => goal >= logic_offset
    BY <1>5, <1>6
  <2> QED
    <3>1. pc' # "decode" /\ (pc' = "drain" => ret' # "ERROR" /\ last'.value = 0 /\ last'.op = "none")
      BY <1>1, <1>6, <1>11
    <3>2. pc' = "drain" => size' > 0 /\ ~eof' /\ (goal' # NoGoal => goal' >= logic_offset' + size')
      BY <1>2, <1>6
    <3>3. pc' = "drain" /\ ret' = "END" => dec'.said = "END"
      BY <1>1, <1>8
    <3>4. pc' = "skip" => /\ goal' # NoGoal /\ goal' >= logic_offset'
                          /\ last'.op # "refused" /\ last'.value # 0
      BY <1>2, <1>11, <2>1
    <3>5. (pc' = "idle" => goal' = NoGoal) /\ ~eof'
      BY <1>2, <1>6, <1>11
    <3> QED
      BY <3>1, <3>2, <3>3, <3>4, <3>5 DEF Calling
<1> QED
  BY <1>10, <1>12, <1>13, <1>14 DEF IInv

(* zfile_seek() has skipped what it had to, or met the end, and returns.   *)
LEMMA EndSkipStep ==
    ASSUME IInv, EndSkip
    PROVE  IInv'
<1>1. /\ UNCHANGED <<file, decoder, logic_offset, outbuf, outbuf_start, eof>>
      /\ copied' = copied /\ size' = size /\ ret' = ret
      /\ pc = "skip" /\ pc' = "idle" /\ goal' = NoGoal
  BY DEF EndSkip, buffers
<1>2. /\ goal \in Nat /\ goal >= logic_offset /\ logic_offset \in Nat
      /\ last.value \in Nat \cup {-1} /\ (last.value = 0 => eof)
  BY <1>1, TypeFacts DEF IInv, Calling
<1>3. /\ last' \in [op : {"seek"}, asked : Int, value : Nat \cup {-1}]
      /\ last'.value >= 0 => /\ last'.value = logic_offset
                             /\ last'.value = last'.asked \/ (eof /\ last'.value < last'.asked)
  <2>1. CASE last.value >= 0 /\ goal <= logic_offset /\ Returned(goal, goal)
    <3>1. last' = [op |-> "seek", asked |-> goal, value |-> goal]
      BY <2>1 DEF Returned
    <3> QED
      BY <1>2, <2>1, <3>1
  <2>2. CASE last.value = 0 /\ goal > logic_offset /\ Returned(goal, logic_offset)
    <3>1. last' = [op |-> "seek", asked |-> goal, value |-> logic_offset]
      BY <2>2 DEF Returned
    <3> QED
      BY <1>2, <2>2, <3>1
  <2>3. CASE last.value < 0 /\ Returned(goal, -1)
    <3>1. last' = [op |-> "seek", asked |-> goal, value |-> -1]
      BY <2>3 DEF Returned
    <3> QED
      BY <1>2, <3>1
  <2> QED
    BY <2>1, <2>2, <2>3 DEF EndSkip
<1>4. Types' /\ Decoder' /\ Buffered'
  BY <1>1, <1>3, Unmoved DEF IInv, Types, TypeOK
<1>5. Length' = Length
  BY <1>1, SameFile
<1>6. Calling'
  BY <1>1, <1>5 DEF IInv, Calling, decoder
<1> QED
  BY <1>4, <1>6 DEF IInv

(* Where a seek would lead.                                                *)
LEMMA Offset ==
    ASSUME Types, NEW w, NEW o \in Offsets
    PROVE  NewOffset(w, o) \in Int
BY TypeFacts, SizesAssumption, SMTT(30) DEF NewOffset

(* A seek that is refused changes nothing of the stream.                   *)
LEMMA RefuseStep ==
    ASSUME IInv, NEW w \in Whence, NEW o \in Offsets, RefuseSeek(w, o)
    PROVE  IInv'
<1>1. /\ UNCHANGED <<file, decoder, logic_offset, outbuf, outbuf_start, eof>>
      /\ copied' = copied /\ size' = size /\ ret' = ret
      /\ pc = "idle" /\ pc' = "idle" /\ goal' = goal
      /\ last' = [op |-> "refused", asked |-> o, value |-> -1] /\ o \in Int
  BY SizesAssumption DEF RefuseSeek, buffers
<1>2. Types' /\ Decoder' /\ Buffered'
  BY <1>1, Unmoved DEF IInv, Types, TypeOK
<1>3. Length' = Length
  BY <1>1, SameFile
<1>4. Calling'
  BY <1>1, <1>3 DEF IInv, Calling, decoder
<1> QED
  BY <1>2, <1>4 DEF IInv

(* A seek forward begins; it goes on by reading.                           *)
LEMMA SeekStep ==
    ASSUME IInv, NEW w \in Whence, NEW o \in Offsets, SeekForward(w, o)
    PROVE  IInv'
<1>1. /\ UNCHANGED <<file, decoder, logic_offset, outbuf, outbuf_start, eof>>
      /\ copied' = copied /\ size' = size /\ ret' = ret
      /\ pc = "idle" /\ pc' = "skip" /\ goal' = NewOffset(w, o)
      /\ goal' >= logic_offset
      /\ last' = [op |-> "none", asked |-> goal', value |-> 1]
  BY DEF SeekForward, buffers
<1>2. goal' \in Nat
  <2>1. logic_offset \in Nat /\ goal' \in Int
    BY <1>1, Offset, TypeFacts DEF IInv
  <2> QED
    BY <1>1, <2>1
<1>3. Types' /\ Decoder' /\ Buffered'
  BY <1>1, <1>2, Unmoved DEF IInv, Types, TypeOK
<1>4. Length' = Length
  BY <1>1, SameFile
<1>5. Calling'
  BY <1>1, <1>2, <1>4 DEF IInv, Calling, NoGoal, decoder
<1> QED
  BY <1>3, <1>5 DEF IInv

(* A new decoder and empty buffers, at the beginning.                      *)
LEMMA RewindStep ==
    ASSUME IInv, NEW w \in Whence, NEW o \in Offsets, Rewind(w, o)
    PROVE  IInv'
<1>1. /\ file' = file /\ fpos' = fpos /\ avail_in' = 0 /\ logic_offset' = 0
      /\ dec' = [valid |-> fpos = 0, done |-> 0, out |-> 0, said |-> "OK"]
      /\ outbuf' = <<>> /\ outbuf_start' = 0 /\ eof' = FALSE /\ copied' = <<>>
      /\ size' = size /\ ret' = ret /\ pc = "idle" /\ pc' = "idle" /\ goal' = goal
      /\ last' = [op |-> "seek", asked |-> 0, value |-> 0]
  BY DEF Rewind, NewDecoder, Returned
<1>2. Length' = Length /\ Sound' = Sound
  BY <1>1, SameFile
<1>3. /\ fpos \in 0 .. file.have /\ file.have \in Nat /\ Length \in Nat
      /\ Sound \in 0 .. file.units /\ file.units \in Nat /\ file.out[0] = 0
      /\ InBuf \in Nat /\ OutBuf \in Nat
  BY TypeFacts, FileFacts DEF IInv
<1>4. <<>> \in Seq(Int) /\ Len(<<>>) = 0
  BY EmptySeq
<1>5. dec' \in [valid : BOOLEAN, done : Nat, out : Nat, said : {"OK", "END", "ERROR"}]
  BY <1>1, <1>3
<1>6. Types'
  BY <1>1, <1>2, <1>3, <1>4, <1>5 DEF IInv, Types, TypeOK
<1>7. Decoder'
  <2>1. dec'.valid = (fpos = 0) /\ dec'.done = 0 /\ dec'.out = 0 /\ dec'.said = "OK"
    BY <1>1
  <2>2. 0 <= Sound /\ dec'.out <= file.out[dec'.done]
    BY <1>3, <2>1
  <2>3. fpos = 0 => dec'.done + avail_in' = fpos'
    BY <1>1, <2>1
  <2> QED
    BY <1>1, <1>2, <2>1, <2>2, <2>3 DEF Decoder
<1>8. Buffered'
  BY <1>1, <1>4 DEF Buffered
<1>9. Calling'
  BY <1>1 DEF IInv, Calling
<1> QED
  BY <1>6, <1>7, <1>8, <1>9 DEF IInv

(* What decompress_open() leaves satisfies the invariant.                  *)
LEMMA InitInvariant == Init => IInv
<1> SUFFICES ASSUME Init PROVE IInv
  OBVIOUS
<1>1. FileType(file) /\ file \in Files
  BY FilesAssumption DEF Init
<1>2. /\ file.units \in Nat /\ file.have \in Nat /\ file.mmap \in BOOLEAN
      /\ file.bad \in 0 .. file.units
      /\ \A k \in 0 .. file.units : file.out[k] \in Nat
      /\ file.out[0] = 0
  BY <1>1 DEF FileType
<1>3. Length \in Nat /\ Sound \in 0 .. file.units
  <2>1. file.units \in 0 .. file.units
    BY <1>2
  <2> QED
    BY <1>2, <2>1 DEF Length, Sound
<1>4. /\ fpos \in 0 .. file.have /\ avail_in = 0
      /\ dec = [valid |-> fpos = 0, done |-> 0, out |-> 0, said |-> "OK"]
      /\ logic_offset = 0 /\ outbuf = <<>> /\ outbuf_start = 0 /\ eof = FALSE
      /\ copied = <<>> /\ pc = "idle" /\ size = 0 /\ ret = "OK" /\ goal = NoGoal
      /\ last = [op |-> "open", asked |-> 0, value |-> 0]
  BY <1>2 DEF Init, NewDecoder
<1>5. <<>> \in Seq(Int) /\ Len(<<>>) = 0
  BY EmptySeq
<1>6. dec \in [valid : BOOLEAN, done : Nat, out : Nat, said : {"OK", "END", "ERROR"}]
  BY <1>2, <1>3, <1>4
<1>7. Types
  BY <1>1, <1>2, <1>3, <1>4, <1>5, <1>6, SizesAssumption DEF Types, TypeOK
<1>8. Decoder
  <2>1. dec.valid = (fpos = 0) /\ dec.done = 0 /\ dec.out = 0 /\ dec.said = "OK"
    BY <1>4
  <2>2. 0 <= Sound /\ dec.out <= file.out[dec.done]
    BY <1>2, <1>3, <2>1
  <2>3. fpos = 0 => dec.done + avail_in = fpos
    BY <1>4, <2>1
  <2> QED
    BY <2>1, <2>2, <2>3 DEF Decoder
<1>9. Buffered
  BY <1>4, <1>5 DEF Buffered
<1>10. Calling
  BY <1>4 DEF Calling
<1> QED
  BY <1>7, <1>8, <1>9, <1>10 DEF IInv

(* The parts of the invariant hold together in every execution.            *)
THEOREM Invariance == Spec => []IInv
<1>1. IInv /\ [Next]_vars => IInv'
  <2> SUFFICES ASSUME IInv, [Next]_vars PROVE IInv'
    OBVIOUS
  <2>1. CASE Step
    <3>1. CASE ReadError \/ Truncated
      BY <3>1, StopStep DEF ReadError, Truncated
    <3> QED
      BY <2>1, <3>1, DrainStep, StreamEndStep, FillStep, DecodeStep, SkipStep, EndSkipStep
         DEF Step
  <2>2. CASE Call
    <3>1. CASE Close
      BY <3>1, StopStep
    <3> QED
      BY <2>2, <3>1, ReadStep, RefuseStep, RewindStep, SeekStep DEF Call
  <2>3. CASE UNCHANGED vars
    <3>1. Length' = Length
      BY <2>3, SameFile DEF vars
    <3>2. Types' /\ Decoder' /\ Buffered'
      BY <2>3, Unmoved DEF IInv, Types, TypeOK, vars, decoder, buffers
    <3>3. Calling'
      BY <2>3, <3>1 DEF IInv, Calling, vars, decoder, buffers
    <3> QED
      BY <3>2, <3>3 DEF IInv
  <2> QED
    BY <2>1, <2>2, <2>3 DEF Next, Over
<1> QED
  BY <1>1, InitInvariant, PTL DEF Spec

(* Every variable always has its type, and zfile_seek() leaves the stream  *)
(* where it was asked to or at its end, as its assertions say.             *)
THEOREM TypeCorrect == Spec => []TypeOK
<1>1. IInv => TypeOK
  BY DEF IInv, Types
<1> QED
  BY <1>1, Invariance, PTL

(* zfile_read() copies the bytes that follow the offset of the call, each  *)
(* once, whatever was read, sought or rewound before, and however the file *)
(* is damaged.                                                             *)
THEOREM BytesDelivered == Spec => []DeliversStream
<1>1. IInv => DeliversStream
  <2> SUFFICES ASSUME IInv PROVE DeliversStream
    OBVIOUS
  <2>1. copied \in [1 .. Len(copied) -> Int]
    BY LenProperties DEF IInv, Types
  <2>2. \A k \in 1 .. Len(copied) : copied[k] = Byte(logic_offset - Len(copied) + k)
    BY DEF IInv, Buffered
  <2> QED
    BY <2>1, <2>2, Zenon DEF DeliversStream
<1> QED
  BY <1>1, Invariance, PTL

-----------------------------------------------------------------------------
(* The steps of the reader are steps of the stream, or it sees nothing.    *)
LEMMA StreamStep ==
    ASSUME IInv, [Next]_vars
    PROVE  [Stream!Next]_(Stream!vars)
<1>1. ASSUME file' = file, dec'.valid = dec.valid
      PROVE  Length' = Length /\ damaged' = damaged /\ lost' = lost
  BY <1>1 DEF Length, damaged, lost
<1>2. ASSUME Length' = Length, damaged' = damaged, lost' = lost, logic_offset' = logic_offset,
             state' = state
      PROVE  UNCHANGED Stream!vars
  BY <1>2 DEF Stream!vars
<1>3. /\ pc \in {"drain", "decode"} => state = "open"
      /\ pc = "idle" => state # "stopped"
      /\ state \in {"open", "failed", "ended", "stopped"}
  BY DEF state, IInv, Calling, failing
<1>4. CASE Drain
  <2>1. Length' = Length /\ damaged' = damaged /\ lost' = lost
    BY <1>1, <1>4 DEF Drain, decoder
  <2>2. logic_offset' > logic_offset
    <3>1. toread \in 0 .. size /\ toread > 0 /\ logic_offset' = logic_offset + toread
      BY <1>4, ToRead DEF IInv, Drain
    <3>2. logic_offset \in Nat /\ size \in Nat
      BY TypeFacts DEF IInv
    <3>3. PICK n \in Nat \ {0} : n = toread
      BY <3>1, <3>2
    <3> QED
      BY <3>1, <3>2, <3>3
  <2>6. dec.valid => logic_offset' <= Length
    <3>1. IInv' /\ dec' = dec /\ file' = file
      BY <1>4, DrainStep DEF Drain, decoder
    <3>2. /\ logic_offset' = dec'.out - Len(outbuf') + outbuf_start'
          /\ outbuf_start' \in 0 .. Len(outbuf')
      BY <3>1 DEF IInv, Types, TypeOK, Buffered
    <3>3. dec'.out \in Nat /\ Len(outbuf') \in Nat /\ dec'.done \in Nat
      BY <3>1, LenProperties DEF IInv, Types, TypeOK
    <3>4. logic_offset' <= dec'.out
      BY <3>2, <3>3
    <3>5. dec.valid => dec.done <= Sound /\ dec.out <= file.out[dec.done]
      BY DEF IInv, Decoder
    <3>6. /\ Sound \in 0 .. file.units /\ file.units \in Nat /\ Length \in Nat
          /\ \A k \in 0 .. file.units : file.out[k] \in 0 .. Length
      BY FileFacts DEF IInv
    <3>7. dec.valid => dec.done \in 0 .. file.units
      BY <3>1, <3>3, <3>5, <3>6
    <3>8. dec.valid => dec.out <= Length
      BY <3>1, <3>3, <3>5, <3>6, <3>7
    <3> QED
      BY <3>1, <3>2, <3>3, <3>4, <3>6, <3>8
  <2>3. state = "open" /\ ~eof' /\ pc = "drain"
    BY <1>3, <1>4 DEF Drain, IInv, Calling
  <2>4. state' = "open"
    <3>1. CASE size = toread
      <4>0. Return(Len(copied'))
        BY <1>4, <3>1 DEF Drain
      <4>1. pc' \in {"idle", "skip"} /\ last'.value = Len(copied')
        BY <4>0 DEF Return
      <4>2. last'.value \in Nat
        <5>1. Types'
          BY <1>4, DrainStep DEF IInv
        <5>2. copied' \in Seq(Int)
          BY <5>1 DEF Types
        <5> QED
          BY <4>1, <5>2, LenProperties
      <4> QED
        BY <2>3, <4>1, <4>2 DEF state, failing
    <3>2. CASE size # toread
      <4>1. pc' = "drain"
        BY <1>4, <3>2 DEF Drain
      <4> QED
        BY <2>3, <4>1 DEF state, failing
    <3> QED
      BY <3>1, <3>2
  <2>5. Stream!Advance
    BY <2>1, <2>2, <2>3, <2>4, <2>6 DEF Stream!Advance, Stream!Reading, lost
  <2> QED
    BY <2>5 DEF Stream!Next
<1>5. CASE StreamEnd
  <2>1. Length' = Length /\ damaged' = damaged /\ lost' = lost
    BY <1>1, <1>5 DEF StreamEnd, decoder
  <2>2. /\ lost \/ logic_offset = Length
        /\ logic_offset' = logic_offset /\ state = "open" /\ state' = "ended"
    BY <1>3, <1>5, StreamEndStep DEF StreamEnd, Return, state, lost
  <2>3. Stream!End
    BY <2>1, <2>2 DEF Stream!End, Stream!Reading
  <2> QED
    BY <2>3 DEF Stream!Next
<1>6. CASE ReadError \/ Truncated \/ Close
  <2>1. /\ file' = file /\ dec' = dec /\ logic_offset' = logic_offset
        /\ state' = "stopped"
    BY <1>6 DEF ReadError, Truncated, Close, Exit, decoder, buffers, state
  <2>2. Stream!Stop
    BY <1>1, <2>1 DEF Stream!Stop
  <2> QED
    BY <2>2 DEF Stream!Next
<1>7. CASE Fill
  <2>1. /\ file' = file /\ dec' = dec /\ logic_offset' = logic_offset /\ eof' = eof
        /\ pc = "drain" /\ pc' = "decode"
    BY <1>7 DEF Fill, Refilling, buffers
  <2>2. state' = state
    BY <1>3, <2>1 DEF state, failing, IInv, Calling
  <2> QED
    BY <1>1, <1>2, <2>1, <2>2
<1>8. CASE Decode
  <2>1. PICK d \in Decoded :
            /\ dec' = [dec EXCEPT !.done = d.done, !.out = d.out, !.said = d.ret]
            /\ IF d.ret = "ERROR" THEN Return(-1) ELSE pc' = "drain" /\ UNCHANGED last
    BY <1>8 DEF Decode
  <2>2. /\ file' = file /\ logic_offset' = logic_offset /\ eof' = eof
        /\ pc = "decode" /\ ~eof /\ state = "open"
    BY <1>3, <1>8 DEF Decode, IInv, Calling
  <2>3. dec'.valid = dec.valid
    BY <2>1, TypeFacts DEF IInv
  <2>4. CASE d.ret = "ERROR"
    <3>1. damaged \/ lost
      BY <2>4, DecodedFacts DEF damaged, lost, IInv
    <3>2. state' = "failed"
      BY <2>1, <2>2, <2>4 DEF Return, state, failing
    <3>3. Stream!Fail
      BY <1>1, <2>2, <2>3, <3>1, <3>2 DEF Stream!Fail, Stream!Reading
    <3> QED
      BY <3>3 DEF Stream!Next
  <2>5. CASE d.ret # "ERROR"
    <3>1. state' = state
      BY <2>1, <2>2, <2>5 DEF state, failing
    <3> QED
      BY <1>1, <1>2, <2>2, <2>3, <3>1
  <2> QED
    BY <2>4, <2>5
<1>9. ASSUME UNCHANGED <<file, dec, logic_offset>>,
             state' = state \/ (state = "failed" /\ state' = "open")
      PROVE  [Stream!Next]_(Stream!vars)
  <2>1. CASE state' = state
    BY <1>1, <1>2, <1>9, <2>1
  <2>2. CASE state = "failed" /\ state' = "open"
    <3>1. Stream!Retry
      BY <1>1, <1>9, <2>2 DEF Stream!Retry
    <3> QED
      BY <3>1 DEF Stream!Next
  <2> QED
    BY <1>9, <2>1, <2>2
<1>10. ASSUME NEW n, Begin(n), pc \in {"idle", "skip"}, pc = "idle" => goal = NoGoal
       PROVE  state' = state \/ (state = "failed" /\ state' = "open")
  BY <1>10 DEF Begin, Return, state, failing
<1>11. CASE Skip
  BY <1>9, <1>10, <1>11 DEF Skip, Begin, decoder
<1>12. CASE EndSkip
  <2>1. /\ pc = "skip" /\ pc' = "idle" /\ goal \in Nat /\ logic_offset \in Nat
        /\ last.value \in Nat \cup {-1} /\ last.op # "refused"
        /\ UNCHANGED <<file, dec, logic_offset>> /\ eof' = eof
    BY <1>12, TypeFacts DEF EndSkip, IInv, Calling, decoder, buffers
  <2>2. last'.op = "seek" /\ (last'.value = -1 <=> last.value = -1)
    <3>1. \/ last.value >= 0 /\ Returned(goal, goal)
          \/ last.value >= 0 /\ Returned(goal, logic_offset)
          \/ last.value < 0 /\ Returned(goal, -1)
      BY <1>12 DEF EndSkip
    <3> QED
      BY <2>1, <3>1 DEF Returned
  <2>3. state' = state
    BY <2>1, <2>2 DEF state, failing
  <2> QED
    BY <1>9, <2>1, <2>3
<1>13. ASSUME NEW n \in Sizes, Read(n) PROVE [Stream!Next]_(Stream!vars)
  <2>1. pc = "idle" /\ Begin(n) /\ goal = NoGoal
    BY <1>13 DEF Read, IInv, Calling
  <2> QED
    BY <1>9, <1>10, <2>1 DEF Begin, decoder
<1>14. ASSUME NEW w \in Whence, NEW o \in Offsets, RefuseSeek(w, o)
       PROVE  [Stream!Next]_(Stream!vars)
  <2>1. UNCHANGED <<file, dec, logic_offset>> /\ eof' = eof /\ pc' = pc /\ pc = "idle"
        /\ last'.op = "refused"
    BY <1>14 DEF RefuseSeek, decoder, buffers
  <2>2. state' = state \/ (state = "failed" /\ state' = "open")
    BY <2>1 DEF state, failing
  <2> QED
    BY <1>9, <2>1, <2>2
<1>15. ASSUME NEW w \in Whence, NEW o \in Offsets, SeekForward(w, o)
       PROVE  [Stream!Next]_(Stream!vars)
  <2>1. UNCHANGED <<file, dec, logic_offset>> /\ eof' = eof /\ pc' = "skip" /\ pc = "idle"
        /\ last'.value = 1
    BY <1>15 DEF SeekForward, decoder, buffers
  <2>2. state' = state \/ (state = "failed" /\ state' = "open")
    BY <2>1 DEF state, failing
  <2> QED
    BY <1>9, <2>1, <2>2
<1>16. ASSUME NEW w \in Whence, NEW o \in Offsets, Rewind(w, o)
       PROVE  [Stream!Next]_(Stream!vars)
  <2>1. /\ file' = file /\ fpos' = fpos /\ dec'.valid = (fpos = 0) /\ logic_offset' = 0
        /\ eof' = FALSE /\ pc' = "idle" /\ pc = "idle" /\ last'.value = 0
    BY <1>16 DEF Rewind, NewDecoder, Returned
  <2>2. /\ Length' = Length /\ damaged' = damaged
        /\ state' = "open" /\ state \in {"open", "failed", "ended"}
    BY <1>3, <2>1 DEF Length, damaged, state, failing
  <2>3. lost' \in {lost, TRUE}
    <3>1. fpos = 0 => dec.valid
      BY DEF IInv, Decoder
    <3> QED
      BY <2>1, <3>1 DEF lost
  <2>4. Stream!Rewind
    BY <2>1, <2>2, <2>3 DEF Stream!Rewind, Stream!Reading
  <2> QED
    BY <2>4 DEF Stream!Next
<1>17. CASE UNCHANGED vars
  <2>1. UNCHANGED <<file, dec, logic_offset>> /\ state' = state
    BY <1>17 DEF vars, decoder, buffers, state, failing
  <2> QED
    BY <1>9, <2>1
<1> QED
  BY <1>4, <1>5, <1>6, <1>7, <1>8, <1>11, <1>12, <1>13, <1>14, <1>15, <1>16, <1>17
     DEF Next, Step, Call, Over

(* The decompressed stream behaves as its reader may expect, for any file. *)
THEOREM Refinement == Spec => ImplementsStream
<1>1. Init => Stream!Init
  <2> SUFFICES ASSUME Init PROVE Stream!Init
    OBVIOUS
  <2>1. Length \in Nat
    BY InitInvariant, FileFacts DEF IInv
  <2>2. damaged \in BOOLEAN /\ lost \in BOOLEAN
    BY DEF damaged, lost, Init, NewDecoder
  <2>3. logic_offset = 0 /\ state = "open"
    BY DEF Init, state, failing
  <2> QED
    BY <2>1, <2>2, <2>3 DEF Stream!Init
<1> QED
  BY <1>1, Invariance, StreamStep, PTL DEF Spec, ImplementsStream, Stream!Spec
=============================================================================
